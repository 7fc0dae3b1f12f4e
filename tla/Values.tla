------------------------------- MODULE Values -------------------------------
(***************************************************************************)
(* types.Value (types/types.go): the values that rows and expressions      *)
(* have, and the conversions that every comparison, sort key and group key *)
(* goes through.                                                           *)
(*                                                                         *)
(* A string is the sequence of its code points, whose order is that of     *)
(* Go's strings.  A number is a fraction n/d, so the rounding of float64   *)
(* is left out.  The strings of the models are made of digits, letters and *)
(* the characters of LIKE patterns and group keys: the only ones of them   *)
(* that ParseFloat and ParseInt accept are sequences of digits, and none   *)
(* is a time.  Dates, blobs and files are left out.                        *)
(***************************************************************************)
EXTENDS Integers, Sequences, SequencesExt

Value(kind, n, d, s) == [kind |-> kind, n |-> n, d |-> d, s |-> s]

NewNullValue == Value("null", 0, 1, << >>)
NewIntValue(n) == Value("int", n, 1, << >>)
NewFloatValue(q) == Value("float", q[1], q[2], << >>)
NewStringValue(s) == Value("str", 0, 1, s)
NewBoolValue(b) == NewIntValue(IF b THEN 1 ELSE 0)

\* The literals TRUE and FALSE: NewValue of a Go bool, which is not NewBoolValue.
BoolLiteral(b) == Value("bool", IF b THEN 1 ELSE 0, 1, << >>)

\* The zero Value, of no type: an element of a row that nothing was assigned to.
ZeroValue == Value("zero", 0, 1, << >>)

IsNull(v) == v.kind = "null"

\* Outcomes of a conversion.
Error == [ok |-> FALSE, q |-> <<0, 1>>]
Ok(n, d) == [ok |-> TRUE, q |-> <<n, d>>]

----------------------------------------------------------------------------
(* Numbers and strings.                                                     *)

IsDigit(c) == c \in 48..57
ParseDigits(s) ==
    LET value[i \in 0..Len(s)] == IF i = 0 THEN 0 ELSE 10 * value[i - 1] + s[i] - 48
    IN  value[Len(s)]
IsNumeral(s) == s # << >> /\ \A i \in 1..Len(s) : IsDigit(s[i])

\* Division as Go has it, towards zero.
Truncate(q) == IF q[1] >= 0 THEN q[1] \div q[2] ELSE -((-q[1]) \div q[2])

RECURSIVE Digits(_)
Digits(n) == IF n < 0 THEN <<45>> \o Digits(-n)
             ELSE IF n < 10 THEN <<48 + n>> ELSE Append(Digits(n \div 10), 48 + (n % 10))

\* ToString.  (No model turns a fraction into a string: %v has its digits.)
StringOf(v) ==
    CASE v.kind = "null" -> <<78, 85, 76, 76>>
      [] v.kind = "int" -> Digits(v.n)
      [] v.kind = "float" -> IF v.n % v.d = 0 THEN Digits(v.n \div v.d)
                             ELSE Digits(Truncate(<<v.n, v.d>>)) \o <<46>>
      [] v.kind = "bool" -> IF v.n = 1 THEN <<116, 114, 117, 101>>
                            ELSE <<102, 97, 108, 115, 101>>
      [] v.kind = "zero" -> <<60, 110, 105, 108, 62>>
      [] OTHER -> v.s

\* ToFloat64 does not convert a bool.
ToFloat64(v) ==
    CASE v.kind \in {"int", "float"} -> Ok(v.n, v.d)
      [] v.kind = "str" /\ IsNumeral(v.s) -> Ok(ParseDigits(v.s), 1)
      [] OTHER -> Error

\* ToInt64 truncates a float and converts a bool.
ToInt64(v) ==
    CASE v.kind \in {"int", "float", "bool"} -> Ok(Truncate(<<v.n, v.d>>), 1)
      [] v.kind = "str" /\ IsNumeral(v.s) -> Ok(ParseDigits(v.s), 1)
      [] OTHER -> Error

\* ToBool: the strings are "true" and "yes", whose capitals are left out, and "1".
ToBool(v) ==
    CASE v.kind \in {"int", "float", "bool"} -> v.n # 0
      [] v.kind = "str" -> v.s \in {<<116, 114, 117, 101>>, <<49>>, <<121, 101, 115>>}
      [] OTHER -> FALSE

----------------------------------------------------------------------------
(* Comparison.                                                              *)

LexLess(s, t) ==
    \E i \in 1..Len(t) : /\ \A j \in 1..(i - 1) : j <= Len(s) /\ s[j] = t[j]
                         /\ i > Len(s) \/ s[i] < t[i]

Sign(lt, gt) == IF lt THEN -1 ELSE IF gt THEN 1 ELSE 0

\* NULL comes first and equals NULL.  Two values that both convert to a number are
\* compared as numbers, any others as strings.
Compare(v, w) ==
    LET p == ToFloat64(v)  q == ToFloat64(w)
    IN  CASE IsNull(v) \/ IsNull(w) -> Sign(~IsNull(w), ~IsNull(v))
          [] p.ok /\ q.ok -> Sign(p.q[1] * q.q[2] < q.q[1] * p.q[2],
                                  p.q[1] * q.q[2] > q.q[1] * p.q[2])
          [] OTHER -> Sign(LexLess(StringOf(v), StringOf(w)),
                           LexLess(StringOf(w), StringOf(v)))

Equals(v, w) == Compare(v, w) = 0
=============================================================================
