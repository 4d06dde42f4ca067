-------------------------------- MODULE Words -------------------------------
(***************************************************************************)
(* What the operators of the language do to values, and the texts the      *)
(* runtime makes of numbers and booleans: common to the meaning of a       *)
(* program and to the code generated for it.  Integers have Width bits.    *)
(***************************************************************************)
EXTENDS Integers, Sequences

CONSTANT Width

Largest == 2 ^ (Width - 1) - 1
Least == -(2 ^ (Width - 1))
Wrap(n) == ((n - Least) % (2 ^ Width)) + Least
Flag(b) == IF b THEN <<1>> ELSE <<0>>

Absolute(n) == IF n < 0 THEN -n ELSE n
Quotient(a, b) ==                       \* truncated, as sdiv
    LET q == Absolute(a) \div Absolute(b)
    IN  IF (a < 0) = (b < 0) THEN q ELSE -q

(* x and y are values of one type; the divisor is not 0.                   *)
Apply(op, x, y) ==
    LET a == x[1]
        b == y[1]
    IN  CASE op = "+" -> <<Wrap(a + b)>>
          [] op = "-" -> <<Wrap(a - b)>>
          [] op = "*" -> <<Wrap(a * b)>>
          [] op = "/" -> <<Wrap(Quotient(a, b))>>
          [] op = "%" -> <<a - b * Quotient(a, b)>>
          [] op = "<" -> Flag(a < b)
          [] op = "<=" -> Flag(a <= b)
          [] op = ">" -> Flag(a > b)
          [] op = ">=" -> Flag(a >= b)
          [] op = "==" -> Flag(x = y)
          [] op = "!=" -> Flag(x # y)

(* str.from_int and str.from_bool, in ASCII.                               *)
Digits(n) == IF n < 10 THEN <<48 + n>> ELSE <<48 + (n \div 10), 48 + (n % 10)>>
TextOf(t, v) ==
    CASE t = "str" -> v
      [] t = "int" -> (IF v[1] < 0 THEN <<45>> ELSE <<>>) \o Digits(Absolute(v[1]))
      [] t = "bool" -> IF v = <<1>> THEN <<116, 114, 117, 101>>
                       ELSE <<102, 97, 108, 115, 101>>
=============================================================================
