----------------------------- MODULE SQLParser -----------------------------
(***************************************************************************)
(* The parser (parser/parser.go): recursive descent over the tokens of the *)
(* lexer, for SELECT from parseSelect down to the primary expressions, and *)
(* for the other statements by the steps of SQLSyntax.                     *)
(*                                                                         *)
(* A token is a record of its type and value.  A parser function takes the *)
(* tokens and a position and returns what it parsed and the position after *)
(* it, or fails.  Left out: JOIN, subqueries, MATCH ... AGAINST, qualified *)
(* columns, and aliases, which are parsed and dropped because they only    *)
(* name the columns of the answer.                                         *)
(***************************************************************************)
EXTENDS SQLSyntax

----------------------------------------------------------------------------
(* Tokens and results.                                                      *)

Current(toks, pos) == IF pos > Len(toks) THEN EOF ELSE toks[pos]
Match(toks, pos, type) == Current(toks, pos).type = type
MatchValue(toks, pos, type, values) ==
    Match(toks, pos, type) /\ Current(toks, pos).v \in values
MatchKeyword(toks, pos, k) == MatchValue(toks, pos, "keyword", {k})

Fail == [ok |-> FALSE, e |-> NoExpr, pos |-> 0]
Parsed(e, pos) == [ok |-> TRUE, e |-> e, pos |-> pos]

\* expect: r, but that the token after it has to be there and is skipped.
Expect(toks, r, type, values) ==
    IF r.ok /\ MatchValue(toks, r.pos, type, values) THEN Parsed(r.e, r.pos + 1) ELSE Fail

----------------------------------------------------------------------------
(* Expressions, from the operators that bind least to those that bind most. *)

RECURSIVE Parser(_, _, _), OrLoop(_, _), AndLoop(_, _), AdditiveLoop(_, _),
          MultiplicativeLoop(_, _), ParseExprList(_, _, _), ParseArgs(_, _, _),
          ParseWhens(_, _, _)

\* The functions of the parser call one another by way of Parser, which is defined
\* below them.
ParseExpression(toks, pos) == Parser("or", toks, pos)

\* The loops that make OR, AND and the arithmetic operators associate to the left.
OrLoop(toks, l) ==
    IF ~l.ok \/ ~MatchKeyword(toks, l.pos, "OR") THEN l
    ELSE LET r == Parser("and", toks, l.pos + 1)
         IN  IF r.ok THEN OrLoop(toks, Parsed(NewBinaryExpr(l.e, "OR", r.e), r.pos)) ELSE Fail

ParseOrExpr(toks, pos) == OrLoop(toks, Parser("and", toks, pos))

AndLoop(toks, l) ==
    IF ~l.ok \/ ~MatchKeyword(toks, l.pos, "AND") THEN l
    ELSE LET r == Parser("not", toks, l.pos + 1)
         IN  IF r.ok THEN AndLoop(toks, Parsed(NewBinaryExpr(l.e, "AND", r.e), r.pos)) ELSE Fail

ParseAndExpr(toks, pos) == AndLoop(toks, Parser("not", toks, pos))

\* NOT applies to one comparison.
ParseNotExpr(toks, pos) ==
    IF ~MatchKeyword(toks, pos, "NOT") THEN Parser("comparison", toks, pos)
    ELSE LET r == Parser("comparison", toks, pos + 1)
         IN  IF r.ok THEN Parsed(NewUnaryExpr("NOT", r.e), r.pos) ELSE Fail

CompareOps == {"=", "<", ">", "<=", ">=", "<>", "!="}

\* IS [NOT] NULL is a binary operator whose right operand is NULL.
ParseIs(toks, l) ==
    LET negated == MatchKeyword(toks, l.pos + 1, "NOT")
        end == l.pos + (IF negated THEN 2 ELSE 1)
    IN  IF MatchKeyword(toks, end, "NULL")
        THEN Parsed(NewBinaryExpr(l.e, IF negated THEN "IS NOT" ELSE "IS",
                                  NewLiteralExpr(NewNullValue)), end + 1)
        ELSE Fail

ParseInExpr(toks, l) ==
    LET r == Expect(toks, ParseExprList(toks, l.pos + 2, << >>), "rparen", {")"})
    IN  IF Match(toks, l.pos + 1, "lparen") /\ r.ok
        THEN Parsed(NewInExpr(l.e, r.e), r.pos) ELSE Fail

\* The bounds are additive expressions, so that AND is the one of BETWEEN.
ParseBetweenExpr(toks, l) ==
    LET lo == Expect(toks, Parser("additive", toks, l.pos + 1), "keyword", {"AND"})
        hi == Parser("additive", toks, lo.pos)
    IN  IF lo.ok /\ hi.ok THEN Parsed(NewBetweenExpr(l.e, lo.e, hi.e), hi.pos) ELSE Fail

ParseComparisonExpr(toks, pos) ==
    LET l == Parser("additive", toks, pos)
        r == Parser("additive", toks, l.pos + 1)
    IN  CASE ~l.ok -> Fail
          [] MatchKeyword(toks, l.pos, "IS") -> ParseIs(toks, l)
          [] MatchKeyword(toks, l.pos, "IN") -> ParseInExpr(toks, l)
          [] MatchKeyword(toks, l.pos, "BETWEEN") -> ParseBetweenExpr(toks, l)
          [] \/ MatchValue(toks, l.pos, "operator", CompareOps)
             \/ MatchKeyword(toks, l.pos, "LIKE") ->
                IF r.ok THEN Parsed(NewBinaryExpr(l.e, Current(toks, l.pos).v, r.e), r.pos)
                ELSE Fail
          [] OTHER -> l

AdditiveLoop(toks, l) ==
    IF ~l.ok \/ ~MatchValue(toks, l.pos, "operator", {"+", "-", "||"}) THEN l
    ELSE LET op == Current(toks, l.pos).v
             r == Parser("multiplicative", toks, l.pos + 1)
         IN  IF r.ok THEN AdditiveLoop(toks, Parsed(NewBinaryExpr(l.e, op, r.e), r.pos)) ELSE Fail

\* Mutant of ParseAdditiveExpr: the operators associate to the right.
ParseAdditiveExprRight(toks, pos) ==
    LET l == Parser("multiplicative", toks, pos)
        r == Parser("additive", toks, l.pos + 1)
    IN  CASE ~l.ok \/ ~MatchValue(toks, l.pos, "operator", {"+", "-", "||"}) -> l
          [] r.ok -> Parsed(NewBinaryExpr(l.e, Current(toks, l.pos).v, r.e), r.pos)
          [] OTHER -> Fail

ParseAdditiveExpr(toks, pos) == AdditiveLoop(toks, Parser("multiplicative", toks, pos))

\* The operator * is among those looked for, but no token is an operator *.
MultiplicativeLoop(toks, l) ==
    IF ~l.ok \/ ~MatchValue(toks, l.pos, "operator", {"*", "/", "%"}) THEN l
    ELSE LET op == Current(toks, l.pos).v
             r == Parser("unary", toks, l.pos + 1)
         IN  IF r.ok THEN MultiplicativeLoop(toks, Parsed(NewBinaryExpr(l.e, op, r.e), r.pos))
             ELSE Fail

ParseMultiplicativeExpr(toks, pos) == MultiplicativeLoop(toks, Parser("unary", toks, pos))

ParseUnaryExpr(toks, pos) ==
    IF ~MatchValue(toks, pos, "operator", {"+", "-"}) THEN Parser("primary", toks, pos)
    ELSE LET r == Parser("unary", toks, pos + 1)
         IN  IF r.ok THEN Parsed(NewUnaryExpr(Current(toks, pos).v, r.e), r.pos) ELSE Fail

\* Expressions separated by commas, after those in done.
ParseExprList(toks, pos, done) ==
    LET r == ParseExpression(toks, pos)
        all == Append(done, r.e)
    IN  CASE ~r.ok -> Fail
          [] Match(toks, r.pos, "comma") -> ParseExprList(toks, r.pos + 1, all)
          [] OTHER -> Parsed(all, r.pos)

\* The arguments of a call; DISTINCT before one is a unary operator.
ParseArgs(toks, pos, done) ==
    LET distinct == MatchKeyword(toks, pos, "DISTINCT")
        r == ParseExpression(toks, IF distinct THEN pos + 1 ELSE pos)
        all == Append(done, IF distinct THEN NewUnaryExpr("DISTINCT", r.e) ELSE r.e)
    IN  CASE ~r.ok -> Fail
          [] Match(toks, r.pos, "comma") -> ParseArgs(toks, r.pos + 1, all)
          [] OTHER -> Parsed(all, r.pos)

\* Any identifier or keyword that comes here is a name.
ParseIdentOrFunction(toks, pos) ==
    LET name == Current(toks, pos).v
        args == CASE Match(toks, pos + 2, "star") -> Parsed(<<NewStarExpr>>, pos + 3)
                  [] Match(toks, pos + 2, "rparen") -> Parsed(<< >>, pos + 2)
                  [] OTHER -> ParseArgs(toks, pos + 2, << >>)
        call == Expect(toks, args, "rparen", {")"})
    IN  CASE ~Match(toks, pos + 1, "lparen") -> Parsed(NewColumnExpr(name), pos + 1)
          [] call.ok -> Parsed(NewFunctionExpr(name, call.e), call.pos)
          [] OTHER -> Fail

ParseWhens(toks, pos, done) ==
    LET cond == Expect(toks, ParseExpression(toks, pos + 1), "keyword", {"THEN"})
        then == ParseExpression(toks, cond.pos)
    IN  CASE ~MatchKeyword(toks, pos, "WHEN") -> Parsed(done, pos)
          [] cond.ok /\ then.ok -> ParseWhens(toks, then.pos, Append(done, <<cond.e, then.e>>))
          [] OTHER -> Fail

ParseCaseExpr(toks, pos) ==
    LET base == IF MatchKeyword(toks, pos + 1, "WHEN") THEN Parsed(NoExpr, pos + 1)
                ELSE ParseExpression(toks, pos + 1)
        whens == ParseWhens(toks, base.pos, << >>)
        else == IF MatchKeyword(toks, whens.pos, "ELSE")
                THEN ParseExpression(toks, whens.pos + 1) ELSE Parsed(NoExpr, whens.pos)
        end == Expect(toks, else, "keyword", {"END"})
    IN  IF base.ok /\ whens.ok /\ end.ok
        THEN Parsed(NewCaseExpr(base.e, whens.e, else.e), end.pos) ELSE Fail

ParsePrimaryExpr(toks, pos) ==
    LET tok == Current(toks, pos)
    IN  CASE tok.type \in {"number", "string"} -> Parsed(NewLiteralExpr(tok.v), pos + 1)
          [] MatchKeyword(toks, pos, "NULL") -> Parsed(NewLiteralExpr(NewNullValue), pos + 1)
          [] MatchValue(toks, pos, "keyword", {"TRUE", "FALSE"}) ->
                Parsed(NewLiteralExpr(BoolLiteral(tok.v = "TRUE")), pos + 1)
          [] MatchKeyword(toks, pos, "CASE") -> ParseCaseExpr(toks, pos)
          [] tok.type = "lparen" -> Expect(toks, ParseExpression(toks, pos + 1), "rparen", {")"})
          [] tok.type = "star" -> Parsed(NewStarExpr, pos + 1)
          [] tok.type \in {"keyword", "ident"} -> ParseIdentOrFunction(toks, pos)
          [] OTHER -> Fail
----------------------------------------------------------------------------
(* SELECT.  Each clause extends the statement parsed so far, p.             *)

RECURSIVE ParseSelectColumns(_, _, _), ParseGroupByList(_, _, _),
          ParseOrderByList(_, _, _), UnionLoop(_, _)

\* An alias after AS or on its own is skipped.
SkipAlias(toks, pos) ==
    LET at == IF MatchKeyword(toks, pos, "AS") THEN pos + 1 ELSE pos
    IN  IF Match(toks, at, "ident") THEN at + 1 ELSE at

ParseSelectColumn(toks, pos) ==
    LET r == ParseExpression(toks, pos)
    IN  CASE Match(toks, pos, "star") -> Parsed(SelectAll, pos + 1)
          [] r.ok -> Parsed(r.e, SkipAlias(toks, r.pos))
          [] OTHER -> Fail

ParseSelectColumns(toks, pos, done) ==
    LET r == ParseSelectColumn(toks, pos)
        all == Append(done, r.e)
    IN  CASE ~r.ok -> Fail
          [] Match(toks, r.pos, "comma") -> ParseSelectColumns(toks, r.pos + 1, all)
          [] OTHER -> Parsed(all, r.pos)

ParseGroupByList(toks, pos, done) ==
    LET all == Append(done, Current(toks, pos).v)
    IN  CASE ~Match(toks, pos, "ident") -> Fail
          [] Match(toks, pos + 1, "comma") -> ParseGroupByList(toks, pos + 2, all)
          [] OTHER -> Parsed(all, pos + 1)

ParseOrderByList(toks, pos, done) ==
    LET r == ParseExpression(toks, pos)
        given == MatchValue(toks, r.pos, "keyword", {"ASC", "DESC"})
        all == Append(done, <<r.e, IF given THEN Current(toks, r.pos).v ELSE "ASC">>)
        end == IF given THEN r.pos + 1 ELSE r.pos
    IN  CASE ~r.ok -> Fail
          [] Match(toks, end, "comma") -> ParseOrderByList(toks, end + 1, all)
          [] OTHER -> Parsed(all, end)

\* The clause that starts with keyword k is optional; what follows it, parsed as r,
\* becomes field f of the statement.
Clause(toks, p, k, r, f) ==
    CASE ~p.ok \/ ~MatchKeyword(toks, p.pos, k) -> p
      [] r.ok -> Parsed([p.e EXCEPT ![f] = r.e], r.pos)
      [] OTHER -> Fail

ParseFromClause(toks, p) ==
    CASE ~p.ok \/ ~MatchKeyword(toks, p.pos, "FROM") -> p
      [] Match(toks, p.pos + 1, "ident") ->
            Parsed([p.e EXCEPT !.from = TRUE], SkipAlias(toks, p.pos + 2))
      [] OTHER -> Fail

ExprClause(toks, p, k, f) == Clause(toks, p, k, ParseExpression(toks, p.pos + 1), f)

\* UNION and UNION ALL are told apart by a flag that nothing reads.  The statement
\* on the right takes the clauses and unions that follow it.
UnionLoop(toks, p) ==
    IF ~p.ok \/ ~MatchKeyword(toks, p.pos, "UNION") THEN p
    ELSE LET all == MatchKeyword(toks, p.pos + 1, "ALL")
             r == Parser("select", toks, IF all THEN p.pos + 2 ELSE p.pos + 1)
         IN  IF r.ok
             THEN UnionLoop(toks, Parsed([p.e EXCEPT !.union = Append(@, r.e)], r.pos))
             ELSE Fail

\* Each step of parseSelect, in order.
ParseSelect(toks, pos) ==
    LET distinct == MatchKeyword(toks, pos + 1, "DISTINCT")
        cols == ParseSelectColumns(toks, IF distinct THEN pos + 2 ELSE pos + 1, << >>)
        start == IF cols.ok
                 THEN Parsed([EmptySelect EXCEPT !.distinct = distinct, !.cols = cols.e], cols.pos)
                 ELSE Fail
        from == ParseFromClause(toks, start)
        where == ExprClause(toks, from, "WHERE", "where")
        group == Clause(toks, where, "GROUP",
                        IF MatchKeyword(toks, where.pos + 1, "BY")
                        THEN ParseGroupByList(toks, where.pos + 2, << >>) ELSE Fail, "group")
        having == ExprClause(toks, group, "HAVING", "having")
        order == Clause(toks, having, "ORDER",
                        IF MatchKeyword(toks, having.pos + 1, "BY")
                        THEN ParseOrderByList(toks, having.pos + 2, << >>) ELSE Fail, "order")
        limit == ExprClause(toks, order, "LIMIT", "limit")
        offset == ExprClause(toks, limit, "OFFSET", "offset")
    IN  UnionLoop(toks, offset)

----------------------------------------------------------------------------
(* Other statements: what a step does to p, the record and position reached *)
(* so far.                                                                  *)

RECURSIVE Run(_, _, _), RunLoop(_, _, _)

\* parseTableName: of database.table only the table is kept.
ParseTableName(toks, p, f) ==
    LET named(i) == Current(toks, i).type \in {"ident", "keyword"}
        db == Match(toks, p.pos + 1, "dot")
        at == IF db /\ named(p.pos + 2) THEN p.pos + 2 ELSE p.pos
        end == IF db THEN Max({at + 1, p.pos + 2}) ELSE p.pos + 1
    IN  IF Match(toks, p.pos, "ident")
        THEN Parsed([p.e EXCEPT ![f] = Current(toks, at).v], end) ELSE Fail

Matches(toks, pos, type, values) ==
    Match(toks, pos, type) /\ (values = {} \/ Current(toks, pos).v \in values)

\* The field f of p becomes what r has parsed.
Store(p, f, r) == IF r.ok THEN Parsed([p.e EXCEPT ![f] = r.e], r.pos) ELSE Fail

Literal(tok) == IF tok.type = "number" THEN tok.v.n ELSE tok.v

\* An entry of a map replaces the one that has its name.
Entry(toks, p, f, r) ==
    IF /\ Match(toks, p.pos, "ident") /\ MatchValue(toks, p.pos + 1, "operator", {"="})
       /\ r.ok
    THEN Parsed([p.e EXCEPT ![f] = (Current(toks, p.pos).v :> r.e) @@ @], r.pos)
    ELSE Fail

TakeToken(toks, pos, types) ==
    IF Current(toks, pos).type \in types THEN Parsed(Literal(Current(toks, pos)), pos + 1) ELSE Fail

Appended(p, f, r) == IF r.ok THEN Parsed([p.e EXCEPT ![f] = Append(@, r.e)], r.pos) ELSE Fail

Chosen(step, toks, p) ==
    LET here == {i \in 1..Len(step.alternatives) :
                    MatchValue(toks, p.pos, "keyword", step.alternatives[i][1])}
    IN  IF here = {} THEN step.others ELSE step.alternatives[Min(here)][2]

EndOfStatement(toks, pos) ==
    Min({i \in pos..(Len(toks) + 1) : Current(toks, i).type \in {"eof", "semicolon"}})

Do(step, toks, p) ==
    CASE step.do = "skip" -> Parsed(p.e, p.pos + 1)
      [] step.do = "reject" -> Fail
      [] step.do = "rest" -> Parsed(p.e, EndOfStatement(toks, p.pos))
      [] step.do = "need" ->
            IF Matches(toks, p.pos, step.type, step.values) THEN Parsed(p.e, p.pos + 1) ELSE Fail
      [] step.do = "put" -> Store(p, step.f, Parsed(step.v, p.pos))
      [] step.do = "take" -> Store(p, step.f, TakeToken(toks, p.pos, step.types))
      [] step.do = "push" -> Appended(p, step.f, TakeToken(toks, p.pos, {"ident"}))
      [] step.do = "table" -> ParseTableName(toks, p, step.f)
      [] step.do = "expr" -> Store(p, step.f, ParseExpression(toks, p.pos))
      [] step.do = "exprs" -> Appended(p, step.f, ParseExprList(toks, p.pos, << >>))
      [] step.do = "select" -> Store(p, step.f, Parser("select", toks, p.pos))
      [] step.do = "assign" -> Entry(toks, p, step.f, ParseExpression(toks, p.pos + 2))
      [] step.do = "option" ->
            Entry(toks, p, step.f, TakeToken(toks, p.pos + 2, {"string", "number", "ident"}))
      [] step.do = "part" -> Appended(p, step.f, Run(step.steps, toks, Parsed(step.new, p.pos)))
      [] step.do = "discard" ->
            LET r == Run(step.steps, toks, Parsed(step.new, p.pos))
            IN  IF r.ok THEN Parsed(p.e, r.pos) ELSE Fail
      [] step.do = "choose" -> Run(Chosen(step, toks, p), toks, p)
      [] step.do = "token" ->
            Run(IF Matches(toks, p.pos, step.type, step.values) THEN step.steps ELSE step.others,
                toks, p)
      [] step.do = "loop" -> RunLoop(step, toks, p)

RunLoop(step, toks, p) ==
    LET ended == \/ Current(toks, p.pos).type \in step.until
                 \/ step.words # {} /\ ~MatchValue(toks, p.pos, "keyword", step.words)
        r == Run(step.steps, toks, p)
    IN  CASE ended -> p
          [] ~r.ok \/ (step.comma /\ ~Match(toks, r.pos, "comma")) -> r
          [] OTHER -> RunLoop(step, toks, IF step.comma THEN Parsed(r.e, r.pos + 1) ELSE r)

Run(steps, toks, p) ==
    IF ~p.ok \/ steps = << >> THEN p ELSE Run(Tail(steps), toks, Do(Head(steps), toks, p))

----------------------------------------------------------------------------
(* The whole parser.                                                        *)

\* The function for a kind of expression, or for a statement.
Parser(kind, toks, pos) ==
    CASE kind = "select" -> ParseSelect(toks, pos)
      [] kind = "or" -> ParseOrExpr(toks, pos)
      [] kind = "and" -> ParseAndExpr(toks, pos)
      [] kind = "not" -> ParseNotExpr(toks, pos)
      [] kind = "comparison" -> ParseComparisonExpr(toks, pos)
      [] kind = "additive" -> ParseAdditiveExpr(toks, pos)
      [] kind = "multiplicative" -> ParseMultiplicativeExpr(toks, pos)
      [] kind = "unary" -> ParseUnaryExpr(toks, pos)
      [] kind = "primary" -> ParsePrimaryExpr(toks, pos)
      [] kind = "statement" -> Run(<<StatementSyntax>>, toks, Parsed(EmptyStatement, pos))

\* Tokens after the statement are not looked at.
Parse(toks) == Parser(IF MatchKeyword(toks, 1, "SELECT") THEN "select" ELSE "statement", toks, 1)
=============================================================================
