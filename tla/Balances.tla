------------------------------ MODULE Balances ------------------------------
(***************************************************************************)
(* Amounts of the three assets of a pool and the fixed-point arithmetic on  *)
(* them: state/balances.move and helper/math.move.  A price or a fee is a   *)
(* natural number that stands for its quotient by Scale.                    *)
(***************************************************************************)
EXTENDS Integers

CONSTANT Scale     \* constants::float_scaling

ASSUME ScaleAssumption == Scale \in Nat \ {0}

Assets == {"base", "quote", "deep"}

BalanceSheets == [Assets -> Nat]

(* math::mul and math::div round down.                                       *)
mul(x, y) == (x * y) \div Scale

div(x, y) == (x * Scale) \div y

mul_round_up(x, y) == (x * y + Scale - 1) \div Scale

div_round_up(x, y) == (x * Scale + y - 1) \div y

new(base, quote, deep) == [base |-> base, quote |-> quote, deep |-> deep]

Nothing == new(0, 0, 0)

add_balances(a, b) == [x \in Assets |-> a[x] + b[x]]

mul_balances(a, factor) == [x \in Assets |-> mul(a[x], factor)]

non_zero_value(a) ==
    IF a.base > 0 THEN a.base ELSE IF a.quote > 0 THEN a.quote ELSE a.deep
=============================================================================
