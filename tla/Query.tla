------------------------------- MODULE Query -------------------------------
(***************************************************************************)
(* SELECT, from its text to its answer: the statement is parsed            *)
(* (SQLParser), the rows of the table are filtered, grouped, sorted, cut,  *)
(* projected, made distinct and joined with those of the UNIONs, and the   *)
(* expressions are evaluated over them (executor/executor.go).             *)
(*                                                                         *)
(* The engine answers a statement under its lock, so a statement is one    *)
(* step.  A row is the sequence of its values.  The only choice is the     *)
(* order of the groups, which is that of a Go map.  The other statements   *)
(* are parsed and no more: they are asked while the table is               *)
(* empty, and name other tables or change no row of an empty one.  What    *)
(* they do is in TableStore, Catalog, FullText and MySQLServer.  Left out: *)
(* HAVING and JOIN, which the engine does not evaluate either,             *)
(* information_schema, system variables, script functions, and a negative  *)
(* LIMIT or OFFSET.                                                        *)
(***************************************************************************)
EXTENDS SQLParser, FiniteSets

CONSTANTS ColumnNames,   \* the columns of the table; the last one is of type SEQ
          Rows,          \* what is inserted into the other columns
          Statements,    \* the SELECT statements that are asked
          Commands,      \* the other ones, in a sequence: texts and what they mean
          MaxRows        \* bound on the rows of the table

ASSUME QueryAssumption ==
    /\ ColumnNames \in Seq(STRING)
    /\ \A r \in Rows : Len(r) + 1 = Len(ColumnNames)
    /\ MaxRows \in Nat

VARIABLES table,    \* the rows of the table, in the order the storage returns them
          stmt,     \* the statement that was asked last
          answer,   \* the rows of its answer
          command   \* the command that was asked last, and what was parsed

vars == <<table, stmt, answer, command>>

----------------------------------------------------------------------------
(* Functions (function/functions.go).  An unknown function and one that     *)
(* fails are NULL.                                                          *)

NonNull(args) == SelectSeq(args, LAMBDA v : ~IsNull(v))

fnCount(args) == NewIntValue(Len(NonNull(args)))

\* The sum of the values that are not NULL, or an error if one is not a number.
Total(args) ==
    FoldLeft(LAMBDA acc, v : LET f == ToFloat64(v)
                             IN  IF acc.ok /\ f.ok
                                 THEN Ok(acc.q[1] * f.q[2] + f.q[1] * acc.q[2], acc.q[2] * f.q[2])
                                 ELSE Error,
             Ok(0, 1), NonNull(args))

fnSum(args) == IF Total(args).ok THEN NewFloatValue(Total(args).q) ELSE NewNullValue

fnAvg(args) ==
    IF Total(args).ok /\ NonNull(args) # << >>
    THEN NewFloatValue(<<Total(args).q[1], Total(args).q[2] * Len(NonNull(args))>>)
    ELSE NewNullValue

\* The first value is taken even if it is NULL, which nothing is less than.
fnMin(args) ==
    IF args = << >> THEN NewNullValue
    ELSE FoldLeft(LAMBDA m, v : IF ~IsNull(v) /\ Compare(v, m) < 0 THEN v ELSE m,
                  Head(args), Tail(args))

fnMax(args) ==
    IF args = << >> THEN NewNullValue
    ELSE FoldLeft(LAMBDA m, v : IF ~IsNull(v) /\ Compare(v, m) > 0 THEN v ELSE m,
                  Head(args), Tail(args))

fnCoalesce(args) == IF NonNull(args) = << >> THEN NewNullValue ELSE Head(NonNull(args))
fnNullif(args) == IF Equals(args[1], args[2]) THEN NewNullValue ELSE args[1]

\* The condition of IF is an integer, not a truth value.
fnIf(args) ==
    CASE ~ToInt64(args[1]).ok -> NewNullValue
      [] ToInt64(args[1]).q[1] # 0 -> args[2]
      [] OTHER -> args[3]

fnIsNull(args) == NewBoolValue(IsNull(args[1]))
fnIsNotNull(args) == NewBoolValue(~IsNull(args[1]))

IsAggregate(f) == f \in {"COUNT", "SUM", "AVG", "MIN", "MAX"}

\* Call, with the number of arguments each function requires.
Call(f, args) ==
    CASE f = "COUNT" -> fnCount(args)
      [] f = "SUM" -> fnSum(args)
      [] f = "AVG" -> fnAvg(args)
      [] f = "MIN" -> fnMin(args)
      [] f = "MAX" -> fnMax(args)
      [] f = "COALESCE" /\ Len(args) >= 1 -> fnCoalesce(args)
      [] f = "NULLIF" /\ Len(args) = 2 -> fnNullif(args)
      [] f = "IF" /\ Len(args) = 3 -> fnIf(args)
      [] f = "ISNULL" /\ Len(args) = 1 -> fnIsNull(args)
      [] f = "IS_NOT_NULL" /\ Len(args) = 1 -> fnIsNotNull(args)
      [] OTHER -> NewNullValue

----------------------------------------------------------------------------
(* LIKE.                                                                    *)

RECURSIVE MatchLikeRunes(_, _, _, _)

\* 95 is _ and 37 is %.  A % in the string that meets the % of the pattern is taken
\* for the same character.
MatchLikeRunes(str, pattern, si, pi) ==
    CASE si > Len(str) ->
            \A j \in pi..Len(pattern) : pattern[j] = 37
      [] pi <= Len(pattern) /\ pattern[pi] \in {95, str[si]} ->
            MatchLikeRunes(str, pattern, si + 1, pi + 1)
      [] pi <= Len(pattern) /\ pattern[pi] = 37 ->
            \E i \in si..(Len(str) + 1) : MatchLikeRunes(str, pattern, i, pi + 1)
      [] OTHER -> FALSE

EvalLike(l, r) == NewBoolValue(MatchLikeRunes(StringOf(l), StringOf(r), 1, 1))

----------------------------------------------------------------------------
(* Expressions.                                                             *)

RECURSIVE EvalExpr(_, _), EvalBinaryOp(_, _), EvalUnaryOp(_, _), EvalCase(_, _)

\* A name that the table does not have finds the first column.
ColIndex(c) == IF \E i \in 1..Len(ColumnNames) : ColumnNames[i] = c
               THEN CHOOSE i \in 1..Len(ColumnNames) : ColumnNames[i] = c ELSE 1

\* Arithmetic is on floats; two integers give an integer.
EvalArithmetic(l, r, op) ==
    LET p == ToFloat64(l)  q == ToFloat64(r)
        a == p.q[1]  b == p.q[2]  c == q.q[1]  d == q.q[2]
        res == CASE op = "+" -> <<a * d + c * b, b * d>>
                 [] op = "-" -> <<a * d - c * b, b * d>>
                 [] op = "*" -> <<a * c, b * d>>
                 [] op = "/" -> IF c > 0 THEN <<a * d, b * c>> ELSE <<-(a * d), -(b * c)>>
    IN  CASE ~p.ok \/ ~q.ok -> NewNullValue
          [] op = "/" /\ c = 0 -> NewNullValue
          [] l.kind = "int" /\ r.kind = "int" -> NewIntValue(Truncate(res))
          [] OTHER -> NewFloatValue(res)

\* What Compare returns where a comparison holds.
Signs(op) ==
    CASE op = "=" -> {0}
      [] op \in {"<>", "!="} -> {-1, 1}
      [] op = "<" -> {-1}
      [] op = ">" -> {1}
      [] op = "<=" -> {-1, 0}
      [] op = ">=" -> {0, 1}

\* There is no case for IS, IS NOT and %.
EvalBinaryOp(e, row) ==
    LET l == EvalExpr(e.left, row)  r == EvalExpr(e.right, row)
        op == e.op
    IN  CASE op \in CompareOps -> NewBoolValue(Compare(l, r) \in Signs(op))
          [] op = "AND" -> NewBoolValue(ToBool(l) /\ ToBool(r))
          [] op = "OR" -> NewBoolValue(ToBool(l) \/ ToBool(r))
          [] op = "LIKE" -> EvalLike(l, r)
          [] op \in {"+", "-", "*", "/"} -> EvalArithmetic(l, r, op)
          [] op = "||" -> NewStringValue(StringOf(l) \o StringOf(r))
          [] OTHER -> NewNullValue

\* Mutant of EvalUnaryOp: NOT of NULL is NULL.
EvalUnaryOpNull(e, row) ==
    LET r == EvalExpr(e.right, row)
    IN  CASE e.op = "NOT" /\ IsNull(r) -> NewNullValue
          [] e.op = "NOT" -> NewBoolValue(~ToBool(r))
          [] OTHER -> NewNullValue

\* The minus of a float that is not whole loses its fraction: ToInt64 comes first.
EvalUnaryOp(e, row) ==
    LET r == EvalExpr(e.right, row)
    IN  CASE e.op = "NOT" -> NewBoolValue(~ToBool(r))
          [] e.op = "-" /\ ToInt64(r).ok -> NewIntValue(-ToInt64(r).q[1])
          [] e.op = "-" /\ ToFloat64(r).ok ->
                NewFloatValue(<<-ToFloat64(r).q[1], ToFloat64(r).q[2]>>)
          [] e.op = "+" -> r
          [] OTHER -> NewNullValue

EvalBool(e, row) == ToBool(EvalExpr(e, row))

\* The operand after CASE is not looked at.
EvalCase(e, row) ==
    LET met == SelectInSeq(e.whens, LAMBDA w : EvalBool(w[1], row))
    IN  IF met > 0 THEN EvalExpr(e.whens[met][2], row) ELSE EvalExpr(e.else, row)

EvalIn(e, row) ==
    NewBoolValue(\E i \in 1..Len(e.list) :
                    Equals(EvalExpr(e.left, row), EvalExpr(e.list[i], row)))

EvalBetween(e, row) ==
    LET v == EvalExpr(e.left, row)
    IN  NewBoolValue(/\ Compare(v, EvalExpr(e.list[1], row)) >= 0
                     /\ Compare(v, EvalExpr(e.list[2], row)) <= 0)

EvalFunction(e, row) == Call(e.func, [i \in 1..Len(e.args) |-> EvalExpr(e.args[i], row)])

EvalColumn(c, row) == IF ColIndex(c) <= Len(row) THEN row[ColIndex(c)] ELSE NewNullValue

EvalExpr(e, row) ==
    CASE e.type = "literal" -> e.v
      [] e.type = "column" -> EvalColumn(e.column, row)
      [] e.type = "function" -> EvalFunction(e, row)
      [] e.type = "binary" -> EvalBinaryOp(e, row)
      [] e.type = "unary" -> EvalUnaryOp(e, row)
      [] e.type = "case" -> EvalCase(e, row)
      [] e.type = "in" -> EvalIn(e, row)
      [] e.type = "between" -> EvalBetween(e, row)
      [] OTHER -> NewNullValue

\* evalInt, of LIMIT and OFFSET.
EvalInt(e) == ToInt64(EvalExpr(e, << >>)).q[1]
----------------------------------------------------------------------------
(* SELECT.                                                                  *)

FilterRows(rows, where) ==
    IF where = NoExpr THEN rows ELSE SelectSeq(rows, LAMBDA r : EvalBool(where, r))

\* The key of a row: the columns as strings, each followed by | (124).
JoinKey(values) == FlattenSeq([i \in 1..Len(values) |-> Append(StringOf(values[i]), 124)])

\* Mutant of BuildGroupKey: only the first column makes the key.
BuildGroupKeyFirst(row, group) == JoinKey(<<row[ColIndex(Head(group))]>>)

BuildGroupKey(row, group) == JoinKey([i \in 1..Len(group) |-> row[ColIndex(group[i])]])

\* The groups of rows in every order in which a Go map may return them.
Groups(rows, group) ==
    LET keys == {BuildGroupKey(rows[i], group) : i \in 1..Len(rows)}
    IN  {[g \in 1..Len(order) |-> SelectSeq(rows, LAMBDA r : BuildGroupKey(r, group) = order[g])] :
            order \in SetToSeqs(keys)}

\* groupRows: the first row of each group.
GroupRows(rows, group) ==
    {[g \in 1..Len(groups) |-> Head(groups[g])] : groups \in Groups(rows, group)}

IsAggregateColumn(c) == c.type = "function" /\ IsAggregate(c.func)
HasAggregateFunctions(cols) == \E i \in 1..Len(cols) : IsAggregateColumn(cols[i])

\* What an aggregate is called with: its argument for every row, or 1 for COUNT(*).
AggregateArgs(c, rows) ==
    [i \in 1..Len(rows) |-> IF c.args # << >> /\ c.args[1] # NewStarExpr
                            THEN EvalExpr(c.args[1], rows[i]) ELSE NewIntValue(1)]

\* A column of a group: an aggregate, or the value that the first row has.
GroupColumn(c, rows) ==
    CASE c = SelectAll -> ZeroValue
      [] IsAggregateColumn(c) -> Call(c.func, AggregateArgs(c, rows))
      [] OTHER -> EvalExpr(c, Head(rows))

GroupWithAggregates(rows, group, cols) ==
    {[g \in 1..Len(groups) |-> [i \in 1..Len(cols) |-> GroupColumn(cols[i], groups[g])]] :
        groups \in Groups(rows, group)}

\* Of no rows COUNT is 0 and the other aggregates are NULL.
ComputeAggregates(rows, cols) ==
    LET empty(c) == CASE ~IsAggregateColumn(c) -> ZeroValue
                      [] c.func = "COUNT" -> NewIntValue(0)
                      [] OTHER -> NewNullValue
    IN  <<[i \in 1..Len(cols) |-> IF rows = << >> THEN empty(cols[i])
                                  ELSE GroupColumn(cols[i], rows)]>>

\* A sort key.  The columns of a grouped row are found as if it were a row of the table.
SortValue(e, row) ==
    CASE e.type # "column" -> EvalExpr(e, row)
      [] ColIndex(e.column) <= Len(row) -> row[ColIndex(e.column)]
      [] OTHER -> ZeroValue

\* How two rows compare in each of the sort keys.
CompareKeys(r, s, order) ==
    [k \in 1..Len(order) |-> Compare(SortValue(order[k][1], r), SortValue(order[k][1], s))]

\* The sign c is that of two rows in the wrong order.
Wrong(c, direction) == IF direction = "DESC" THEN c < 0 ELSE c > 0

\* Mutant of SwapBy: the second key is used even when the first one decides.
SwapByAny(signs, order) == \E k \in 1..Len(order) : Wrong(signs[k], order[k][2])

\* The first key that tells the rows apart decides.
SwapBy(signs, order) ==
    \E k \in 1..Len(order) : /\ \A j \in 1..(k - 1) : signs[j] = 0
                             /\ Wrong(signs[k], order[k][2])

ShouldSwap(r, s, order) == SwapBy(CompareKeys(r, s, order), order)

\* Insertion sort: a row goes after the last one that it need not be swapped with.
InsertSorted(sorted, r, order) ==
    InsertAt(sorted, 1 + Max({0} \cup {i \in 1..Len(sorted) : ~ShouldSwap(sorted[i], r, order)}), r)

SortRows(rows, order) ==
    IF order = << >> THEN rows
    ELSE FoldLeft(LAMBDA sorted, r : InsertSorted(sorted, r, order), << >>, rows)

\* LIMIT comes first: OFFSET skips some of the rows that LIMIT left.
LimitRows(rows, limit) ==
    IF limit # NoExpr /\ EvalInt(limit) < Len(rows) THEN SubSeq(rows, 1, EvalInt(limit)) ELSE rows

OffsetRows(rows, offset) ==
    IF offset = NoExpr THEN rows ELSE SubSeq(rows, EvalInt(offset) + 1, Len(rows))

Project(row, cols) ==
    [i \in 1..Len(cols) |-> IF cols[i] = SelectAll THEN ZeroValue ELSE EvalExpr(cols[i], row)]

ProjectRows(rows, cols) ==
    IF HasAggregateFunctions(cols) \/ cols[1] = SelectAll THEN rows
    ELSE [i \in 1..Len(rows) |-> Project(rows[i], cols)]

DistinctRows(rows) ==
    FoldLeft(LAMBDA seen, r : IF \E i \in 1..Len(seen) : JoinKey(seen[i]) = JoinKey(r)
                              THEN seen ELSE Append(seen, r), << >>, rows)

ExecuteSelectWithoutTable(s) == {<<Project(<< >>, s.cols)>>}

\* The rows after WHERE, grouped or aggregated.
Grouped(rows, s) ==
    CASE s.group # << >> /\ HasAggregateFunctions(s.cols) ->
            GroupWithAggregates(rows, s.group, s.cols)
      [] s.group # << >> -> GroupRows(rows, s.group)
      [] HasAggregateFunctions(s.cols) -> {ComputeAggregates(rows, s.cols)}
      [] OTHER -> {rows}

\* ORDER BY, LIMIT and OFFSET, the columns, and DISTINCT, in this order.
CutRows(rows, s) == OffsetRows(LimitRows(SortRows(rows, s.order), s.limit), s.offset)
DistinctIf(rows, distinct) == IF distinct THEN DistinctRows(rows) ELSE rows
FinishRows(rows, s) == DistinctIf(ProjectRows(CutRows(rows, s), s.cols), s.distinct)

RECURSIVE ExecuteSelect(_, _)

\* The rows of the statements of a UNION are put after one another.
AppendUnions(answers, unions, rows) ==
    FoldLeft(LAMBDA acc, u : {a \o b : a \in acc, b \in ExecuteSelect(u, rows)}, answers, unions)

\* The answers that statement s may have over the rows of the table.
ExecuteSelect(s, rows) ==
    IF ~s.from THEN ExecuteSelectWithoutTable(s)
    ELSE AppendUnions({FinishRows(g, s) : g \in Grouped(FilterRows(rows, s.where), s)},
                      s.union, rows)

----------------------------------------------------------------------------
(* The text of a statement, with no more parentheses than it needs: what a  *)
(* client writes for it.  Operators of a higher level bind more.            *)

Level(e) ==
    CASE e.type = "binary" /\ e.op = "OR" -> 1
      [] e.type = "binary" /\ e.op = "AND" -> 2
      [] e.type = "unary" /\ e.op = "NOT" -> 3
      [] e.type = "binary" /\ e.op \in {"+", "-", "||"} -> 5
      [] e.type = "binary" /\ e.op \in {"/", "%"} -> 6
      [] e.type \in {"binary", "in", "between"} -> 4
      [] e.type = "unary" -> 7
      [] OTHER -> 8

Separated(texts) ==
    FlattenSeq([i \in 1..Len(texts) |-> IF i = 1 THEN texts[i] ELSE <<Comma>> \o texts[i]])

RECURSIVE TextOfExpr(_, _)

TextOfLiteral(v) ==
    CASE v.kind = "null" -> Keyword("NULL")
      [] v.kind = "int" -> Number(v.n)
      [] v.kind = "bool" -> Keyword(IF v.n = 1 THEN "TRUE" ELSE "FALSE")
      [] OTHER -> Text(v.s)

TextOfArg(e) == IF e.type = "unary" /\ e.op = "DISTINCT"
                THEN <<Keyword("DISTINCT")>> \o TextOfExpr(e.right, 1) ELSE TextOfExpr(e, 1)

TextOfBinary(e) ==
    LET level == Level(e)
        left == IF level = 4 THEN 5 ELSE level
        op == CASE e.op = "IS NOT" -> <<Keyword("IS"), Keyword("NOT")>>
                [] e.op \in {"OR", "AND", "LIKE", "IS"} -> <<Keyword(e.op)>>
                [] OTHER -> <<Operator(e.op)>>
    IN  TextOfExpr(e.left, left) \o op \o TextOfExpr(e.right, level + 1)

TextOfCase(e) ==
    <<Keyword("CASE")>>
    \o (IF e.base = NoExpr THEN << >> ELSE TextOfExpr(e.base, 1))
    \o FlattenSeq([i \in 1..Len(e.whens) |->
                      <<Keyword("WHEN")>> \o TextOfExpr(e.whens[i][1], 1)
                      \o <<Keyword("THEN")>> \o TextOfExpr(e.whens[i][2], 1)])
    \o (IF e.else = NoExpr THEN << >> ELSE <<Keyword("ELSE")>> \o TextOfExpr(e.else, 1))
    \o <<Keyword("END")>>

TextOfExpr(e, level) ==
    LET args == [i \in 1..Len(e.args) |-> TextOfArg(e.args[i])]
        list == [i \in 1..Len(e.list) |-> TextOfExpr(e.list[i], 1)]
        text == CASE e.type = "literal" -> <<TextOfLiteral(e.v)>>
                  [] e.type = "column" -> <<Ident(e.column)>>
                  [] e.type = "function" ->
                        <<Ident(e.func), LParen>> \o Separated(args) \o <<RParen>>
                  [] e.type = "unary" /\ e.op = "NOT" ->
                        <<Keyword("NOT")>> \o TextOfExpr(e.right, 4)
                  [] e.type = "unary" -> <<Operator(e.op)>> \o TextOfExpr(e.right, 7)
                  [] e.type = "binary" -> TextOfBinary(e)
                  [] e.type = "in" -> TextOfExpr(e.left, 5) \o <<Keyword("IN"), LParen>>
                                      \o Separated(list) \o <<RParen>>
                  [] e.type = "between" ->
                        TextOfExpr(e.left, 5) \o <<Keyword("BETWEEN")>>
                        \o TextOfExpr(e.list[1], 5) \o <<Keyword("AND")>>
                        \o TextOfExpr(e.list[2], 5)
                  [] e.type = "case" -> TextOfCase(e)
                  [] OTHER -> <<Star>>
    IN  IF Level(e) < level THEN <<LParen>> \o text \o <<RParen>> ELSE text

RECURSIVE TextOf(_)
TextOf(s) ==
    LET clause(k, e) == IF e = NoExpr THEN << >> ELSE <<Keyword(k)>> \o TextOfExpr(e, 1)
        by(k, texts) == IF texts = << >> THEN << >>
                        ELSE <<Keyword(k), Keyword("BY")>> \o Separated(texts)
    IN  <<Keyword("SELECT")>> \o (IF s.distinct THEN <<Keyword("DISTINCT")>> ELSE << >>)
        \o Separated([i \in 1..Len(s.cols) |-> TextOfExpr(s.cols[i], 1)])
        \o (IF s.from THEN <<Keyword("FROM"), Ident("t")>> ELSE << >>)
        \o clause("WHERE", s.where)
        \o by("GROUP", [i \in 1..Len(s.group) |-> <<Ident(s.group[i])>>])
        \o clause("HAVING", s.having)
        \o by("ORDER", [i \in 1..Len(s.order) |->
                           Append(TextOfExpr(s.order[i][1], 1), Keyword(s.order[i][2]))])
        \o clause("LIMIT", s.limit) \o clause("OFFSET", s.offset)
        \o FlattenSeq([i \in 1..Len(s.union) |-> <<Keyword("UNION")>> \o TextOf(s.union[i])])

----------------------------------------------------------------------------
(* A client inserts rows and asks statements.                               *)

NoCommand == [text |-> << >>, meaning |-> EmptyStatement, parsed |-> Fail]

Init == table = << >> /\ stmt = EmptySelect /\ answer = << >> /\ command = NoCommand

\* The client has no statement under way.
Idle == stmt = EmptySelect /\ command.text = << >>

\* The column of type SEQ gets the next number.
Insert(r) ==
    /\ Idle
    /\ Len(table) < MaxRows
    /\ table' = Append(table, Append(r, NewIntValue(Len(table) + 1)))
    /\ UNCHANGED <<stmt, answer, command>>

\* A statement that does not parse has no answer.
Select(s) ==
    /\ Idle
    /\ stmt' = s
    /\ \E p \in {Parse(TextOf(s))} :
          answer' \in IF p.ok THEN ExecuteSelect(p.e, table) ELSE {<< >>}
    /\ UNCHANGED <<table, command>>

Command(c) ==
    /\ Idle /\ table = << >>
    /\ command' = [text |-> c.text, meaning |-> c.meaning, parsed |-> Parse(c.text)]
    /\ UNCHANGED <<table, stmt, answer>>

\* The client has read the answer.
Finish ==
    /\ ~Idle
    /\ stmt' = EmptySelect /\ answer' = << >> /\ command' = NoCommand
    /\ UNCHANGED table

Next ==
    \/ \E r \in Rows : Insert(r)
    \/ \E s \in Statements : Select(s)
    \/ \E i \in 1..Len(Commands) : Command(Commands[i])
    \/ Finish

Spec == Init /\ [][Next]_vars

----------------------------------------------------------------------------
(* Properties.                                                              *)

IsValue(v) ==
    /\ v.kind \in {"null", "int", "float", "str", "bool"}
    /\ v.n \in Int /\ v.d \in Nat \ {0} /\ \A i \in 1..Len(v.s) : v.s[i] \in Nat

\* Rows and answers hold values of a type, also where a row has nothing to
\* compute with (computeAggregates of no rows, functions that fail).
TypeOK ==
    /\ Len(table) <= MaxRows
    /\ \A i \in 1..Len(table) : \A j \in 1..Len(ColumnNames) : IsValue(table[i][j])
    /\ \A i \in 1..Len(answer) : \A j \in 1..Len(answer[i]) : IsValue(answer[i][j])

\* Words that parser_dml.go looks for as keywords and the lexer's table does not have.
Unlisted == {"ADD", "COLUMN", "MODIFY", "RENAME", "TO"}
Truncated(text) == \E i \in 1..Len(text) : text[i].type = "ident" /\ text[i].v \in Unlisted

\* The parser inverts the text of a statement: precedence, associativity, the AND
\* of BETWEEN, the clauses and the nesting of UNIONs come out as they were meant,
\* lists, optional words and the parts of a definition in any order do so in the
\* other statements, and every token is used.  Except after a word that is not in
\* the lexer's table: there the statement is cut short, and no error says so.
ParsesBack ==
    /\ stmt # EmptySelect => Parse(TextOf(stmt)) = Parsed(stmt, Len(TextOf(stmt)) + 1)
    /\ command.text # << >> =>
          IF Truncated(command.text)
          THEN command.parsed.ok /\ command.parsed.pos <= Len(command.text)
          ELSE command.parsed = Parsed(command.meaning, Len(command.text) + 1)

Id(row) == row[Len(ColumnNames)].n
Not(c) == NewUnaryExpr("NOT", c)

\* A condition said in other words: BETWEEN as two comparisons, IN as equalities,
\* AND and OR as each other, <> as NOT =, and < as > of the operands exchanged.
RECURSIVE Reworded(_)
Reworded(c) ==
    LET eq(i) == NewBinaryExpr(c.left, "=", c.list[i])
        dual(op) == Not(NewBinaryExpr(Not(Reworded(c.left)), op, Not(Reworded(c.right))))
        swap == [o \in {"<", ">", "<=", ">=", "="} |->
                    CASE o = "<" -> ">" [] o = ">" -> "<" [] o = "<=" -> ">="
                      [] o = ">=" -> "<=" [] OTHER -> "="]
    IN  CASE c.type = "between" ->
                NewBinaryExpr(NewBinaryExpr(c.left, ">=", c.list[1]), "AND",
                              NewBinaryExpr(c.left, "<=", c.list[2]))
          [] c.type = "in" ->
                FoldLeft(LAMBDA d, i : NewBinaryExpr(d, "OR", eq(i)), eq(1),
                         [i \in 1..(Len(c.list) - 1) |-> i + 1])
          [] c.type = "unary" /\ c.op = "NOT" -> Not(Reworded(c.right))
          [] c.type = "binary" /\ c.op = "AND" -> dual("OR")
          [] c.type = "binary" /\ c.op = "OR" -> dual("AND")
          [] c.type = "binary" /\ c.op \in {"<>", "!="} ->
                Not(NewBinaryExpr(c.right, "=", c.left))
          [] c.type = "binary" /\ c.op \in DOMAIN swap ->
                NewBinaryExpr(c.right, swap[c.op], c.left)
          [] OTHER -> c

\* The logic of WHERE has two values, with NULLs too: every row is selected by a
\* condition or by its NOT, never by both, and a condition said in other words
\* selects the same rows.
LogicHolds ==
    stmt.where # NoExpr =>
        LET c == stmt.where
        IN  /\ \A i \in 1..Len(table) : EvalBool(Not(c), table[i]) = ~EvalBool(c, table[i])
            /\ FilterRows(table, Reworded(c)) = FilterRows(table, c)

----------------------------------------------------------------------------
(* ORDER BY, LIMIT and OFFSET.                                              *)

\* Where numerals and other strings meet, Compare is not transitive ("10" < "5a",
\* "5a" < "9" and 9 < 10).  Values of one kind are ordered.
Comparable(values) ==
    \/ \A v \in values : IsNull(v) \/ ToFloat64(v).ok
    \/ \A v \in values : IsNull(v) \/ (v.kind = "str" /\ ~IsNumeral(v.s))

Less(v, w) ==
    CASE IsNull(w) -> FALSE
      [] IsNull(v) -> TRUE
      [] ToFloat64(v).ok -> ToFloat64(v).q[1] * ToFloat64(w).q[2]
                            < ToFloat64(w).q[1] * ToFloat64(v).q[2]
      [] OTHER -> LexLess(v.s, w.s)

\* Row x comes before row y: by the first key in which they differ, or else by age.
Precedes(x, y, order) ==
    LET less(v, w, k) == IF order[k][2] = "DESC" THEN Less(w, v) ELSE Less(v, w)
        before(k) == less(x.keys[k], y.keys[k], k)
        same(k) == ~before(k) /\ ~less(y.keys[k], x.keys[k], k)
    IN  \/ \E k \in 1..Len(order) : before(k) /\ \A j \in 1..(k - 1) : same(j)
        \/ (\A k \in 1..Len(order) : same(k)) /\ Id(x.row) < Id(y.row)

PlainSelect(s) ==
    s.from /\ s.group = << >> /\ ~HasAggregateFunctions(s.cols) /\ s.union = << >>

SelectedRows ==
    {table[i] : i \in {j \in 1..Len(table) :
                          stmt.where = NoExpr \/ EvalBool(stmt.where, table[j])}}

\* The number that LIMIT or OFFSET is given.
NumberOr(e, default) == IF e = NoExpr THEN default ELSE e.v.n

\* ORDER BY sorts by its keys, each ascending or descending, rows that are equal in
\* all of them by age; the answer is the part of that list which LIMIT and then
\* OFFSET leave, whatever WHERE removed before.
Ordered ==
    (PlainSelect(stmt) /\ stmt.cols = <<SelectAll>> /\ ~stmt.distinct) =>
        \E keyed \in {{[row |-> r, keys |-> [k \in 1..Len(stmt.order) |->
                                                EvalExpr(stmt.order[k][1], r)]] :
                          r \in SelectedRows}} :
            LET rank(y) == 1 + Cardinality({x \in keyed : Precedes(x, y, stmt.order)})
                skipped == NumberOr(stmt.offset, 0)
                shown == {y \in keyed : /\ rank(y) <= NumberOr(stmt.limit, Cardinality(keyed))
                                       /\ rank(y) > skipped}
            IN  (\A k \in 1..Len(stmt.order) : Comparable({x.keys[k] : x \in keyed}))
                => /\ Len(answer) = Cardinality(shown)
                   /\ \A y \in shown : answer[rank(y) - skipped] = y.row

----------------------------------------------------------------------------
(* GROUP BY, aggregates and DISTINCT.                                       *)

\* Keys are made of strings joined by |: a value that contains one, or reads like
\* NULL, is taken for another one.
Unambiguous(v) ==
    v.kind = "str" => v.s # StringOf(NewNullValue) /\ \A i \in 1..Len(v.s) : v.s[i] # 124

\* The value of a column of the answer for the set of rows it stands for.
Expected(c, class) ==
    LET arg(r) == EvalColumn(c.args[1].column, r)
        known == {r \in class : ~IsNull(arg(r))}
        any == CHOOSE r \in class : \A x \in class : Id(r) <= Id(x)
    IN  CASE ~IsAggregateColumn(c) -> EvalExpr(c, any)
          [] c.func = "COUNT" /\ c.args[1] = NewStarExpr -> NewIntValue(Cardinality(class))
          [] c.func = "COUNT" -> NewIntValue(Cardinality(known))
          [] c.func = "SUM" -> NewFloatValue(<<FoldSet(LAMBDA r, n : n + arg(r).n, 0, known), 1>>)
          [] known = {} -> NewNullValue
          [] OTHER -> arg(CHOOSE r \in known : \A x \in known : arg(r).n >= arg(x).n)

\* COUNT, SUM and MAX of integers, and what names the group.
Accounted(c) ==
    IsAggregateColumn(c) => /\ c.func \in {"COUNT", "SUM", "MAX"}
                            /\ c.args[1].type \in {"star", "column"}

\* GROUP BY gives one row for every combination of values that the selected rows
\* have, NULL being one of the values, and its COUNT, SUM and MAX are those of all
\* the rows with that combination and of no other; without GROUP BY they are those
\* of all the selected rows.
GroupsAddUp ==
    LET key(r) == [i \in 1..Len(stmt.group) |-> EvalColumn(stmt.group[i], r)]
        class(r) == {x \in SelectedRows : key(x) = key(r)}
        classes == {class(r) : r \in SelectedRows}
    IN  (/\ HasAggregateFunctions(stmt.cols) /\ \A i \in 1..Len(stmt.cols) : Accounted(stmt.cols[i])
         /\ stmt.limit = NoExpr /\ stmt.union = << >> /\ SelectedRows # {}
         /\ \A r \in SelectedRows : \A i \in 1..Len(stmt.group) : Unambiguous(key(r)[i]))
        => /\ Len(answer) = Cardinality(classes)
           /\ \A cl \in classes : \E i \in 1..Len(answer) :
                 answer[i] = [j \in 1..Len(stmt.cols) |-> Expected(stmt.cols[j], cl)]

\* DISTINCT removes repeated rows and nothing else, wherever they are.
DistinctExact ==
    LET shown == {Project(r, stmt.cols) : r \in SelectedRows}
    IN  (/\ stmt.distinct /\ PlainSelect(stmt) /\ stmt.limit = NoExpr /\ stmt.offset = NoExpr
         /\ stmt.cols[1] # SelectAll
         /\ \A s \in shown : \A i \in 1..Len(s) : Unambiguous(s[i]))
        => /\ Len(answer) = Cardinality(shown)
           /\ {answer[i] : i \in 1..Len(answer)} = shown

----------------------------------------------------------------------------
(* LIKE.                                                                    *)

\* pattern can be laid over str: ends[i] characters are used up by its first i.
Likens(str, pattern) ==
    \E ends \in [0..Len(pattern) -> 0..Len(str)] :
        /\ ends[0] = 0 /\ ends[Len(pattern)] = Len(str)
        /\ \A i \in 1..Len(pattern) :
              IF pattern[i] = 37 THEN ends[i] >= ends[i - 1]
              ELSE ends[i] = ends[i - 1] + 1 /\ pattern[i] \in {95, str[ends[i]]}

\* LIKE selects the strings that the pattern can be laid over: the matcher goes back
\* to a % as often as it has to, and a % may stand for nothing at all.
LikeMatches ==
    stmt.where.type = "binary" /\ stmt.where.op = "LIKE" =>
        \A i \in 1..Len(table) :
            LET v == EvalExpr(stmt.where.left, table[i])
                p == EvalExpr(stmt.where.right, table[i])
            IN  v.kind = "str" /\ (\A j \in 1..Len(v.s) : v.s[j] # 37) =>
                    EvalBool(stmt.where, table[i]) = Likens(v.s, p.s)

\* WHERE selects what its condition says, in the logic of its operators and for LIKE.
WhereSelects == LogicHolds /\ LikeMatches

\* Rows that are alike are found to be alike, and no others, by GROUP BY and DISTINCT,
\* and the answer is made of values.
ClassesExact == TypeOK /\ GroupsAddUp /\ DistinctExact
=============================================================================
