----------------------------- MODULE SQLSyntax -----------------------------
(***************************************************************************)
(* What the parser reads and builds: expressions and statements            *)
(* (parser/ast.go), tokens (parser/lexer.go), and the syntax of the        *)
(* statements other than SELECT (parser/parser_dml.go).                    *)
(*                                                                         *)
(* Each function of parser_dml.go is a list of steps over the tokens.      *)
(* SQLParser takes them in order, as the function does; a step that finds  *)
(* something else than it needs makes the whole statement fail.  A step    *)
(* extends the record that is being built, the statement or a part of it,  *)
(* and moves the position.                                                 *)
(***************************************************************************)
EXTENDS Values

----------------------------------------------------------------------------
(* Expressions and statements (parser/ast.go).                              *)

NewLiteralExpr(v) == [type |-> "literal", v |-> v]
NewColumnExpr(c) == [type |-> "column", column |-> c]
NewFunctionExpr(f, args) == [type |-> "function", func |-> f, args |-> args]
NewUnaryExpr(op, r) == [type |-> "unary", op |-> op, right |-> r]
NewBinaryExpr(l, op, r) == [type |-> "binary", op |-> op, left |-> l, right |-> r]
NewInExpr(l, list) == [type |-> "in", left |-> l, list |-> list]
NewBetweenExpr(l, lo, hi) == [type |-> "between", left |-> l, list |-> <<lo, hi>>]
NewStarExpr == [type |-> "star"]

\* whens is a sequence of <<condition, result>>; base is the operand after CASE.
NewCaseExpr(base, whens, else) ==
    [type |-> "case", base |-> base, whens |-> whens, else |-> else]

NoExpr == [type |-> "none"]

\* A statement: no table when from is FALSE; group is a sequence of column names,
\* order one of <<expression, direction>>, union one of statements.
SelectAll == [type |-> "all"]
EmptySelect ==
    [distinct |-> FALSE, cols |-> << >>, from |-> FALSE, where |-> NoExpr,
     group |-> << >>, having |-> NoExpr, order |-> << >>, limit |-> NoExpr,
     offset |-> NoExpr, union |-> << >>]

----------------------------------------------------------------------------
(* Tokens.  The lexer gives every * the type star, also between operands.   *)

Keyword(k) == [type |-> "keyword", v |-> k]
Operator(o) == [type |-> "operator", v |-> o]
Ident(i) == [type |-> "ident", v |-> i]
Number(n) == [type |-> "number", v |-> NewIntValue(n)]
Text(s) == [type |-> "string", v |-> NewStringValue(s)]
LParen == [type |-> "lparen", v |-> "("]
RParen == [type |-> "rparen", v |-> ")"]
Comma == [type |-> "comma", v |-> ","]
Star == [type |-> "star", v |-> "*"]
Dot == [type |-> "dot", v |-> "."]
Semicolon == [type |-> "semicolon", v |-> ";"]
EOF == [type |-> "eof", v |-> ""]

----------------------------------------------------------------------------
(* Words.  The lexer knows a keyword by its table, here without the types   *)
(* and joins that no statement below uses; every other word is an           *)
(* identifier, also where the grammar looks for a keyword.                  *)

Keywords ==
    {"CREATE", "DROP", "ALTER", "TABLE", "INDEX", "SELECT", "INSERT", "UPDATE", "DELETE", "INTO",
     "VALUES", "SET", "FROM", "WHERE", "AND", "OR", "NOT", "ORDER", "BY", "GROUP", "HAVING",
     "LIMIT", "OFFSET", "ASC", "DESC", "DISTINCT", "ALL", "ON", "USING", "UNION", "SEQ", "INT",
     "VARCHAR", "DECIMAL", "TEXT", "PRIMARY", "KEY", "FOREIGN", "REFERENCES", "UNIQUE", "NULL",
     "DEFAULT", "CHECK", "CONSTRAINT", "AUTO_INCREMENT", "AUTOINCREMENT", "AS", "IN", "BETWEEN",
     "LIKE", "IS", "EXISTS", "CASE", "WHEN", "THEN", "ELSE", "END", "IF", "NULLIF", "COALESCE",
     "TRUE", "FALSE", "SHOW", "TABLES", "DATABASES", "COLUMNS", "DESCRIBE", "FULL", "VARIABLES",
     "STATUS", "WARNINGS", "GRANTS", "PROCESSLIST", "INDEXES", "GLOBAL", "SESSION", "FUNCTION",
     "PROCEDURE", "TRIGGERS", "COLLATION", "OPEN", "EVENTS", "ENGINES", "ENGINE", "KEYS", "USE",
     "DATABASE", "SCHEMA", "BACKUP", "RESTORE", "USER", "PASSWORD", "LOG", "LEVEL", "BEGIN",
     "COMMIT", "ROLLBACK", "TRANSACTION", "START", "FULLTEXT", "WITH"}

Word(w) == IF w \in Keywords THEN Keyword(w) ELSE Ident(w)

----------------------------------------------------------------------------
(* What is built (parser/ast.go).  A map is a function; what is absent is   *)
(* empty, and a pointer to a part is a sequence of at most one.  The field  *)
(* Values, which repeats the first row of an INSERT, is left out.           *)

EmptyStatement ==
    [type |-> "", table |-> "", columns |-> << >>, values |-> << >>, select |-> EmptySelect,
     updates |-> << >>, where |-> NoExpr, limit |-> NoExpr, ifNotExists |-> FALSE,
     ifExists |-> FALSE, columnDefs |-> << >>, constraints |-> << >>, actions |-> << >>,
     indexName |-> "", indexCols |-> << >>, indexUnique |-> FALSE, indexFullText |-> FALSE,
     options |-> << >>, setVar |-> "", setValue |-> NoExpr, show |-> "", target |-> "",
     pattern |-> "", path |-> ""]

NewColumnDef ==
    [name |-> "", type |-> "", length |-> 0, scale |-> 0, nullable |-> TRUE, default |-> NoExpr,
     autoInc |-> FALSE, primaryKey |-> FALSE, unique |-> FALSE, references |-> ""]

NewConstraint ==
    [name |-> "", type |-> "", columns |-> << >>, refTable |-> "", refColumns |-> << >>,
     expr |-> NoExpr]

NewAlterAction == [type |-> "", column |-> "", columnDef |-> << >>, newName |-> ""]

----------------------------------------------------------------------------
(* Steps.                                                                   *)

Skip == [do |-> "skip"]
Reject == [do |-> "reject"]
SkipRest == [do |-> "rest"]                        \* up to the end of the statement
Need(type, values) == [do |-> "need", type |-> type, values |-> values]   \* any if {}
NeedWord(w) == Need("keyword", {w})
Put(f, v) == [do |-> "put", f |-> f, v |-> v]      \* field f becomes v
Take(types, f) == [do |-> "take", types |-> types, f |-> f]    \* ... the next token
Push(f) == [do |-> "push", f |-> f]                \* an identifier is appended to f
TableName(f) == [do |-> "table", f |-> f]
ExprInto(f) == [do |-> "expr", f |-> f]
ExprsInto(f) == [do |-> "exprs", f |-> f]          \* a list of expressions is appended to f
SelectInto(f) == [do |-> "select", f |-> f]
Assign(f) == [do |-> "assign", f |-> f]            \* name = expression, in the map f
Option(f) == [do |-> "option", f |-> f]            \* name = word or literal, in the map f

\* A part is built from the record new by steps of its own and appended to f, or
\* thrown away.
Part(f, new, steps) == [do |-> "part", f |-> f, new |-> new, steps |-> steps]
Discard(new, steps) == [do |-> "discard", new |-> new, steps |-> steps]

\* The steps of the alternative whose words contain the next keyword, or else others.
Choose(alternatives, others) ==
    [do |-> "choose", alternatives |-> alternatives, others |-> others]
If(words, steps) == Choose(<<<<words, steps>>>>, << >>)
Optional(w, steps) == If({w}, <<Skip>> \o steps)

\* The same for another token, of any value if values is {}.
IfToken(type, values, steps, others) ==
    [do |-> "token", type |-> type, values |-> values, steps |-> steps, others |-> others]
IfType(type, steps) == IfToken(type, {}, steps, << >>)

\* Steps taken again and again: to the end of a list with commas, until one of some
\* types of token or, if words are given, until a token that is none of them.
Loop(comma, until, words, steps) ==
    [do |-> "loop", comma |-> comma, until |-> until, words |-> words, steps |-> steps]
List(steps) == Loop(TRUE, {}, {}, steps)
Paren(steps) == <<Need("lparen", {})>> \o steps \o <<Need("rparen", {})>>
ColumnList(f) == Paren(<<List(<<Push(f)>>)>>)

----------------------------------------------------------------------------
(* INSERT, UPDATE and DELETE.  Every function starts at its first keyword.  *)

WhereLimit == <<Optional("WHERE", <<ExprInto("where")>>), Optional("LIMIT", <<ExprInto("limit")>>)>>

ParseInsert ==
    <<Put("type", "insert"), Skip, NeedWord("INTO"), TableName("table"),
      IfType("lparen", ColumnList("columns")),
      Choose(<<<<{"VALUES"}, <<Skip, List(Paren(<<ExprsInto("values")>>))>>>>,
               <<{"SELECT"}, <<SelectInto("select")>>>>,
               <<{"DEFAULT"}, <<Skip, NeedWord("VALUES")>>>>>>,
             <<Reject>>)>>

ParseUpdate ==
    <<Put("type", "update"), Skip, TableName("table"), NeedWord("SET"),
      List(<<Assign("updates")>>)>> \o WhereLimit

ParseDelete ==
    <<Put("type", "delete"), Skip, NeedWord("FROM"), TableName("table")>> \o WhereLimit

----------------------------------------------------------------------------
(* CREATE, DROP and ALTER.                                                  *)

ParseColumnDef ==
    <<Take({"ident", "keyword"}, "name"), Take({"ident", "keyword"}, "type"),
      IfType("lparen",
             Paren(<<Take({"number"}, "length"),
                     IfType("comma", <<Skip, Take({"number"}, "scale")>>)>>)),
      Loop(FALSE, {}, {"PRIMARY", "NOT", "NULL", "UNIQUE", "DEFAULT", "AUTO_INCREMENT",
                       "AUTOINCREMENT", "REFERENCES"},
           <<Choose(<<<<{"PRIMARY"}, <<Skip, NeedWord("KEY"), Put("primaryKey", TRUE),
                                       Put("nullable", FALSE)>>>>,
                      <<{"NOT"}, <<Skip, NeedWord("NULL"), Put("nullable", FALSE)>>>>,
                      <<{"NULL"}, <<Skip, Put("nullable", TRUE)>>>>,
                      <<{"UNIQUE"}, <<Skip, Put("unique", TRUE)>>>>,
                      <<{"DEFAULT"}, <<Skip, ExprInto("default")>>>>,
                      <<{"AUTO_INCREMENT", "AUTOINCREMENT"}, <<Skip, Put("autoInc", TRUE)>>>>>>,
                    <<Skip, Take({"ident"}, "references")>>)>>)>>

\* CONSTRAINT and a name alone are a constraint without a type.
ParseConstraint ==
    <<Optional("CONSTRAINT", <<Take({"ident"}, "name")>>),
      Choose(<<<<{"PRIMARY"}, <<Skip, NeedWord("KEY"), Put("type", "PRIMARY KEY")>>
                              \o ColumnList("columns")>>,
               <<{"FOREIGN"}, <<Skip, NeedWord("KEY"), Put("type", "FOREIGN KEY")>>
                              \o ColumnList("columns")
                              \o <<NeedWord("REFERENCES"), TableName("refTable"),
                                   IfType("lparen", ColumnList("refColumns"))>>>>,
               <<{"UNIQUE"}, <<Skip, Put("type", "UNIQUE"),
                               IfType("lparen", ColumnList("columns"))>>>>,
               <<{"CHECK"}, <<Skip, Put("type", "CHECK")>> \o Paren(<<ExprInto("expr")>>)>>>>,
             << >>)>>

ConstraintWords == {"PRIMARY", "FOREIGN", "UNIQUE", "CHECK", "CONSTRAINT"}

IfNotExists == Optional("IF", <<NeedWord("NOT"), NeedWord("EXISTS"), Put("ifNotExists", TRUE)>>)
IfExists == Optional("IF", <<NeedWord("EXISTS"), Put("ifExists", TRUE)>>)

ParseCreateTable ==
    <<Put("type", "create table"), Skip, IfNotExists, TableName("table")>>
    \o Paren(<<Loop(TRUE, {"rparen"}, {},
                    <<Choose(<<<<ConstraintWords,
                                 <<Part("constraints", NewConstraint, ParseConstraint)>>>>>>,
                             <<Part("columnDefs", NewColumnDef, ParseColumnDef)>>)>>)>>)

ParseCreateIndex ==
    <<Put("type", "create index"), Optional("UNIQUE", <<Put("indexUnique", TRUE)>>),
      NeedWord("INDEX"), Take({"ident"}, "indexName"), NeedWord("ON"), TableName("table")>>
    \o ColumnList("indexCols")
    \o <<Optional("USING",
                  <<IfToken("keyword", {}, <<NeedWord("FULLTEXT")>>, <<Need("ident", {"FTS", "FULLTEXT"})>>),
                    Put("indexFullText", TRUE)>>)>>

ParseFTSOptions ==
    <<IfToken("lparen", {},
              Paren(<<Loop(FALSE, {"rparen", "eof"}, {},
                           <<Option("options"), IfType("comma", <<Skip>>)>>)>>),
              <<Option("options")>>)>>

ParseCreateFullTextIndex ==
    <<Put("type", "create index"), Put("indexFullText", TRUE), Skip, NeedWord("INDEX"),
      IfType("ident", <<Take({"ident"}, "indexName")>>), NeedWord("ON"), TableName("table")>>
    \o Paren(<<Push("indexCols")>>) \o <<Optional("WITH", ParseFTSOptions)>>

ParseCreateDatabase ==
    <<Skip, Put("type", "create database"), IfNotExists, TableName("table")>>

ParseCreate ==
    <<Skip, Choose(<<<<{"TABLE"}, ParseCreateTable>>,
                     <<{"FULLTEXT"}, ParseCreateFullTextIndex>>,
                     <<{"INDEX", "UNIQUE"}, ParseCreateIndex>>,
                     <<{"DATABASE", "SCHEMA"}, ParseCreateDatabase>>>>,
                   <<Reject>>)>>

ParseDropTable == <<Put("type", "drop table"), Skip, IfExists, TableName("table")>>
ParseDropDatabase == <<Skip, Put("type", "drop database"), IfExists, TableName("table")>>
ParseDropIndex ==
    <<Put("type", "drop index"), Skip, Take({"ident"}, "indexName"),
      Optional("ON", <<TableName("table")>>)>>

ParseDrop ==
    <<Skip, Choose(<<<<{"TABLE"}, ParseDropTable>>, <<{"INDEX"}, ParseDropIndex>>,
                     <<{"DATABASE", "SCHEMA"}, ParseDropDatabase>>>>,
                   <<Reject>>)>>

\* A constraint that is added is parsed and forgotten.
ParseAlterAction ==
    LET column == Part("columnDef", NewColumnDef, ParseColumnDef)
    IN  <<Choose(
            <<<<{"ADD"}, <<Put("type", "ADD"), Skip,
                           Choose(<<<<{"COLUMN"}, <<Skip, column>>>>,
                                    <<ConstraintWords, <<Discard(NewConstraint, ParseConstraint)>>>>>>,
                                  <<column>>)>>>>,
              <<{"DROP"}, <<Put("type", "DROP"), Skip, Optional("COLUMN", << >>),
                            Take({"ident"}, "column")>>>>,
              <<{"MODIFY", "ALTER"}, <<Put("type", "MODIFY"), Skip, Optional("COLUMN", << >>),
                                       column>>>>,
              <<{"RENAME"}, <<Put("type", "RENAME"), Skip,
                              Choose(<<<<{"COLUMN"}, <<Skip, Take({"ident"}, "column"), NeedWord("TO"),
                                                       Take({"ident"}, "newName")>>>>,
                                       <<{"TO"}, <<Skip, Take({"ident"}, "newName")>>>>>>, << >>)>>>>>>,
            << >>)>>

ParseAlter ==
    <<Skip, NeedWord("TABLE"), Put("type", "alter table"), TableName("table"),
      Loop(TRUE, {}, {"ADD", "DROP", "MODIFY", "ALTER", "RENAME"},
           <<Part("actions", NewAlterAction, ParseAlterAction)>>)>>

----------------------------------------------------------------------------
(* SET, SHOW and the rest.                                                  *)

ParseSet ==
    <<Put("type", "set"), Skip,
      Choose(<<<<{"LOG"}, <<Take({"keyword"}, "setVar"),
                            Optional("LEVEL", <<Put("setVar", "LOG_LEVEL")>>)>>>>>>,
             <<Take({"ident", "keyword"}, "setVar")>>),
      IfToken("operator", {"="}, <<Skip>>, << >>), ExprInto("setValue")>>

Shown(words, name, steps) == <<words, <<Skip, Put("show", name)>> \o steps>>

\* What follows OPEN, COLLATION, FUNCTION, PROCEDURE and EVENTS is not looked at.
ShowSyntax(full) ==
    LET from == <<Optional("FROM", <<Take({"ident"}, "target")>>)>>
        fromAny == <<IfType("ident", <<Take({"ident"}, "target")>>)>>
    IN  Choose(
          <<Shown({"TABLES"}, IF full THEN "FULL TABLES" ELSE "TABLES", << >>),
            Shown({"DATABASES"}, "DATABASES", << >>),
            Shown({"COLUMNS"}, IF full THEN "FULL COLUMNS" ELSE "COLUMNS", from),
            Shown({"CREATE"}, "CREATE", <<Optional("TABLE", <<TableName("target")>>)>>),
            Shown({"VARIABLES"}, "VARIABLES", << >>), Shown({"STATUS"}, "STATUS", << >>),
            Shown({"WARNINGS"}, "WARNINGS", << >>), Shown({"GRANTS"}, "GRANTS", << >>),
            Shown({"INDEX", "INDEXES", "KEYS"}, "INDEX", from),
            Shown({"PROCESSLIST"}, "PROCESSLIST", << >>),
            Shown({"ENGINES", "ENGINE"}, "ENGINES", << >>),
            Shown({"OPEN"}, "OPEN TABLES", <<SkipRest>>),
            Shown({"COLLATION"}, "COLLATION", <<SkipRest>>),
            Shown({"FUNCTION"}, "FUNCTION STATUS", <<SkipRest>>),
            Shown({"PROCEDURE"}, "PROCEDURE STATUS", <<SkipRest>>),
            Shown({"TRIGGERS"}, "TRIGGERS", <<If({"FROM", "IN"}, <<Skip>> \o fromAny), SkipRest>>),
            Shown({"EVENTS"}, "EVENTS", <<SkipRest>>),
            <<{"TABLE"},
              <<Skip, Optional("STATUS",
                  <<Put("show", "TABLE STATUS"), Optional("FROM", fromAny),
                    Optional("LIKE", <<IfType("string", <<Take({"string"}, "pattern")>>)>>)>>)>>>>>>,
          <<Reject>>)

ParseShow ==
    <<Put("type", "show"), Skip, If({"GLOBAL", "SESSION"}, <<Skip>>),
      Choose(<<<<{"FULL"}, <<Skip, ShowSyntax(TRUE)>>>>>>, <<ShowSyntax(FALSE)>>)>>

ParseUse == <<Put("type", "use"), Skip, TableName("table")>>
ParseDescribe == <<Put("type", "describe"), Skip, TableName("table")>>

FilePath == Take({"string", "ident"}, "path")
ParseBackup == <<Put("type", "backup"), Skip, Optional("TO", << >>), FilePath>>
ParseRestore == <<Put("type", "restore"), Skip, Optional("FROM", << >>), FilePath>>

ParseBegin == <<Put("type", "begin"), Skip, Optional("TRANSACTION", << >>)>>
ParseStartTransaction == <<Put("type", "begin"), Skip, NeedWord("TRANSACTION")>>
ParseCommit == <<Put("type", "commit"), Skip, Optional("TRANSACTION", << >>)>>
ParseRollback == <<Put("type", "rollback"), Skip, Optional("TRANSACTION", << >>)>>

\* Parse of a statement that is no SELECT.
StatementSyntax ==
    Choose(<<<<{"INSERT"}, ParseInsert>>, <<{"UPDATE"}, ParseUpdate>>, <<{"DELETE"}, ParseDelete>>,
             <<{"CREATE"}, ParseCreate>>, <<{"DROP"}, ParseDrop>>, <<{"ALTER"}, ParseAlter>>,
             <<{"SET"}, ParseSet>>, <<{"SHOW"}, ParseShow>>, <<{"USE"}, ParseUse>>,
             <<{"DESCRIBE", "DESC"}, ParseDescribe>>, <<{"BACKUP"}, ParseBackup>>,
             <<{"RESTORE"}, ParseRestore>>, <<{"BEGIN"}, ParseBegin>>,
             <<{"START"}, ParseStartTransaction>>, <<{"COMMIT"}, ParseCommit>>,
             <<{"ROLLBACK"}, ParseRollback>>>>,
           <<Reject>>)
=============================================================================
