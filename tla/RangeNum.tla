------------------------------ MODULE RangeNum ------------------------------
(***************************************************************************)
(* Numbers that may be uncertain (schemas/range.py): Num = float | Range.  *)
(* A Range is a min, a typical and a max value; a scalar stands for three  *)
(* equal ones.  Arithmetic is elementwise, and its result is sorted.       *)
(* Exact integers stand for floats.                                        *)
(***************************************************************************)
EXTENDS Integers

Scalar(x) == [range |-> FALSE, min |-> x, typical |-> x, max |-> x]

Points == {"min", "typical", "max"}

(* The values that pass Range's validator, and the scalars. *)
Num ==
  { n \in [range : BOOLEAN, min : Int, typical : Int, max : Int] :
      /\ n.min <= n.typical /\ n.typical <= n.max
      /\ ~n.range => n.min = n.max }

NonNegative == {n \in Num : n.min >= 0}

Least(x, y) == IF x <= y THEN x ELSE y
Most(x, y)  == IF x <= y THEN y ELSE x

(* _normalized: the three values, sorted. *)
Normalized(isRange, x, y, z) ==
  LET lo == Least(x, Least(y, z))
      hi == Most(x, Most(y, z))
  IN  [range |-> isRange, min |-> lo, typical |-> x + y + z - lo - hi, max |-> hi]

Plus(a, b) ==
  Normalized(a.range \/ b.range, a.min + b.min, a.typical + b.typical, a.max + b.max)

Minus(a, b) ==
  Normalized(a.range \/ b.range, a.min - b.min, a.typical - b.typical, a.max - b.max)

Times(a, b) ==
  Normalized(a.range \/ b.range, a.min * b.min, a.typical * b.typical, a.max * b.max)

Over_Interval(a, b) ==
  Normalized(a.range \/ b.range, a.min \div b.max, a.typical \div b.typical, a.max \div b.min)

(* The divisor is positive, and the model divides only where it divides.   *)
Over(a, b) ==
  Normalized(a.range \/ b.range, a.min \div b.min, a.typical \div b.typical, a.max \div b.max)
=============================================================================
