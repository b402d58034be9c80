--------------------------------- MODULE M4Eval ---------------------------------
(* src/m4/m4.c: eval, on symbols.  One operator for the ten functions from     *)
(* e_cond to e_mul, which differ in their operators only.  The functions move  *)
(* ep on; here each gives the value, the place after it, and whether an error  *)
(* was met.                                                                    *)
EXTENDS Integers, Sequences, SequencesExt

CONSTANT Bits \* of a number: 32 in the code

Limit == 2 ^ (Bits - 1)
wrap32(v) == ((v + Limit) % (2 * Limit)) - Limit

\* The operators of each function, the loosest first, and what must not follow them.
Levels == <<
  {<<"|", "|">>}, {<<"&", "&">>}, {<<"|">>}, {<<"^">>}, {<<"&">>}, {<<"=", "=">>, <<"!", "=">>},
  {<<"<", "=">>, <<">", "=">>, <<"<">>, <<">">>}, {<<"<", "<">>, <<">", ">">>}, {<<"+">>, <<"-">>}, {<<"*">>, <<"/">>, <<"%">>}>>
NotBefore(op) == CASE op \in {<<"|">>, <<"&">>, <<"+">>, <<"<">>, <<">">>} -> op
                   [] op \in {<<"*">>, <<"/">>, <<"%">>} -> <<"=">>
                   [] OTHER -> <<>>

At(s, i) == IF i <= Len(s) THEN s[i] ELSE "end"
ews(s, i) == CHOOSE j \in i..(Len(s) + 1) : At(s, j) \notin {" ", "\n"} /\ \A k \in i..(j - 1) : s[k] \in {" ", "\n"}
Begins(s, i, op) == i + Len(op) - 1 <= Len(s) /\ SubSeq(s, i, i + Len(op) - 1) = op
OperatorsAt(s, i, level) ==
  {op \in Levels[level] : /\ Begins(s, i, op)
                          /\ NotBefore(op) = <<>> \/ At(s, i + Len(op)) # NotBefore(op)[1]
                          /\ Len(op) = 1 => ~\E long \in Levels[level] : Len(long) = 2 /\ Begins(s, i, long)}

-----------------------------------------------------------------------------
(* C's operators on numbers of Bits bits.                                    *)
Bit(v, k) == (v \div (2 ^ k)) % 2
Bitwise2(a, b, op(_, _)) == wrap32(FoldLeft(LAMBDA sum, k : sum + op(Bit(a, k - 1), Bit(b, k - 1)) * (2 ^ (k - 1)), 0,
                                            [k \in 1..Bits |-> k]))
Truth(p) == IF p THEN 1 ELSE 0
Magnitude(v) == IF v < 0 THEN -v ELSE v
Quotient(a, b) == LET q == Magnitude(a) \div Magnitude(b) IN IF (a < 0) = (b < 0) THEN q ELSE -q

\* Dividing by 0 gives 0, and an error where it counts; the least number divided by -1 is itself.
Binary(op, a, b) ==
  CASE op = <<"|", "|">> -> Truth(a # 0 \/ b # 0)
    [] op = <<"&", "&">> -> Truth(a # 0 /\ b # 0)
    [] op = <<"|">> -> Bitwise2(a, b, LAMBDA x, y : IF x + y > 0 THEN 1 ELSE 0)
    [] op = <<"^">> -> Bitwise2(a, b, LAMBDA x, y : (x + y) % 2)
    [] op = <<"&">> -> Bitwise2(a, b, LAMBDA x, y : x * y)
    [] op = <<"=", "=">> -> Truth(a = b)
    [] op = <<"!", "=">> -> Truth(a # b)
    [] op = <<"<", "=">> -> Truth(a <= b)
    [] op = <<">", "=">> -> Truth(a >= b)
    [] op = <<"<">> -> Truth(a < b)
    [] op = <<">">> -> Truth(a > b)
    [] op = <<"<", "<">> -> wrap32(a * (2 ^ (b % Bits)))
    [] op = <<">", ">">> -> a \div (2 ^ (b % Bits))
    [] op = <<"+">> -> wrap32(a + b)
    [] op = <<"-">> -> wrap32(a - b)
    [] op = <<"*">> -> wrap32(a * b)
    [] b = 0 -> 0
    [] op = <<"/">> -> wrap32(Quotient(a, b))
    [] op = <<"%">> -> a - b * Quotient(a, b)
Unary(op, a) == CASE op = "+" -> a [] op = "-" -> wrap32(-a) [] op = "~" -> -a - 1 [] op = "!" -> Truth(a = 0)

-----------------------------------------------------------------------------
DigitsUpTo(base) == SubSeq(<<"0", "1", "2", "3", "4", "5", "6", "7", "8", "9", "a", "b", "c", "d", "e", "f">>, 1, base)
DigitValue(c) == SelectInSeq(DigitsUpTo(16), LAMBDA d : d = c) - 1
Alnum(s, i) == DigitValue(At(s, i)) >= 0 \/ At(s, i) \in {"x", "y", "z"}

\* A constant of base 10, 8 or 16.
Constant(s, i) ==
  LET hex == At(s, i) = "0" /\ At(s, i + 1) = "x"
      base == IF hex THEN 16 ELSE IF At(s, i) = "0" THEN 8 ELSE 10
      from == IF hex THEN i + 2 ELSE i
      to == CHOOSE j \in from..(Len(s) + 1) : ~Alnum(s, j) /\ \A k \in from..(j - 1) : Alnum(s, k)
      bad == {k \in from..(to - 1) : s[k] \notin Range(DigitsUpTo(base))}
  IN IF bad # {} THEN [v |-> 0, at |-> CHOOSE k \in bad : \A j \in bad : k <= j, err |-> TRUE]
     ELSE [v |-> wrap32(FoldLeft(LAMBDA v, c : (base * v + DigitValue(c)) % (2 * Limit), 0, SubSeq(s, from, to - 1))),
           at |-> to, err |-> hex /\ to = from]

RECURSIVE e_primary(_, _, _), e_level(_, _, _, _), Chain(_, _, _, _)

e_primary(s, i0, skip) ==
  LET i == ews(s, i0)  c == At(s, i)
      inner == e_level(s, i + 1, 1, skip)
      close == ews(s, inner.at)
      operand == e_primary(s, i + 1, skip)
  IN IF c = "(" THEN IF At(s, close) = ")" THEN [inner EXCEPT !.at = close + 1] ELSE [v |-> 0, at |-> close, err |-> TRUE]
     ELSE IF c \in {"+", "-", "~"} \/ (c = "!" /\ At(s, i + 1) # "=") THEN [operand EXCEPT !.v = Unary(c, operand.v)]
     ELSE IF c \in Range(DigitsUpTo(10)) THEN Constant(s, i)
     ELSE [v |-> 0, at |-> i, err |-> TRUE]

\* One of e_cond (1) to e_mul (10).  skip is eskip: the value is not asked for.
e_level(s, i, level, skip) ==
  IF level > Len(Levels) THEN e_primary(s, i, skip) ELSE Chain(s, level, skip, e_level(s, i, level + 1, skip))

Chain(s, level, skip, left) ==
  LET i == ews(s, left.at)
      ops == OperatorsAt(s, i, level)
      op == CHOOSE o \in ops : TRUE
      unasked == (op = <<"&", "&">> /\ left.v = 0) \/ (op = <<"|", "|">> /\ left.v # 0)
      right == e_level(s, i + Len(op), level + 1, skip \/ unasked)
      zero == op \in {<<"/">>, <<"%">>} /\ right.v = 0 /\ ~skip
  IN IF ops = {} THEN [left EXCEPT !.at = i]
     ELSE Chain(s, level, skip, [v |-> Binary(op, left.v, right.v), at |-> right.at, err |-> left.err \/ right.err \/ zero])

\* The value of an expression, if it has one.
do_eval(s) == LET r == e_level(s, 1, 1, FALSE) IN IF r.err \/ r.at <= Len(s) THEN {} ELSE {r.v}

\* A number in a radix, with zeros up to a width.
Shown(v, radix, width) ==
  LET digits[n \in 0..Limit] == IF n < radix THEN <<DigitsUpTo(16)[n + 1]>>
                                ELSE Append(digits[n \div radix], DigitsUpTo(16)[(n % radix) + 1])
      d == digits[Magnitude(v)]
  IN (IF v < 0 THEN <<"-">> ELSE <<>>) \o [i \in 1..(IF width > Len(d) THEN width - Len(d) ELSE 0) |-> "0"] \o d
===============================================================================
