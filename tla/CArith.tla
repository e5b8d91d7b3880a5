------------------------------- MODULE CArith -------------------------------
(* The operations of C on integers: those of GAL and DVE are these.  The   *)
(* integers of the models are far from the limits of an int.               *)
EXTENDS Integers

Comparisons == {"eq", "ne", "lt", "ge", "gt", "le"}

Compare(op, i, j) ==
  CASE op = "eq" -> i = j
    [] op = "ne" -> i # j
    [] op = "lt" -> i < j
    [] op = "ge" -> i >= j
    [] op = "gt" -> i > j
    [] op = "le" -> i <= j

Truth(b) == IF b THEN 1 ELSE 0

(* The division rounds towards zero.                                       *)
Abs(n) == IF n < 0 THEN - n ELSE n
Quotient(i, j) == IF (i < 0) = (j < 0) THEN Abs(i) \div Abs(j) ELSE - (Abs(i) \div Abs(j))
Remainder(i, j) == i - j * Quotient(i, j)

(* Bits, in two's complement: an integer that is neither 0 nor -1 is twice *)
(* its half, rounded down, plus its last bit.                              *)
BitAnd(i, j) ==
  LET and[m, n \in Int] ==
        CASE 0 \in {m, n} -> 0
          [] m = -1 -> n
          [] m # -1 /\ n = -1 -> m
          [] OTHER -> (m % 2) * (n % 2) + 2 * and[m \div 2, n \div 2]
  IN  and[i, j]

BitOr(i, j) == i + j - BitAnd(i, j)
BitXor(i, j) == i + j - 2 * BitAnd(i, j)
BitNot(i) == - i - 1
=============================================================================
