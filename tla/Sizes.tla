--------------------------------- MODULE Sizes ---------------------------------
(***************************************************************************)
(* Sizes as the command line gives them and as int64 holds them: parseSize *)
(* of main.go, alignUp and alignDown of plan.go, with the wrap-around and  *)
(* the truncated division of the machine.  A text is taken apart into what *)
(* parseSize looks at: digits, a suffix and a unit.                        *)
(***************************************************************************)
EXTENDS Integers

CONSTANTS
    Limit,      \* 2^63: one more than the largest int64
    Kilo        \* 2^10

ASSUME SizesAssumption == Limit \in Nat \ {0} /\ Kilo \in Nat \ {0}

Suffixes == {"", "k", "m", "g"}
Units    == {"", "B", "iB"}
Texts    == [digits : {"number", "none", "other"}, n : Int, suffix : Suffixes, unit : Units]

Wrap(x)    == ((x + Limit) % (2 * Limit)) - Limit
Quot(a, b) == IF a >= 0 THEN a \div b ELSE -((-a) \div b)

Rem(a, b)  == a - Quot(a, b) * b

AlignUp(v, to)   == IF Rem(v, to) = 0 THEN v ELSE Wrap(v + (to - Rem(v, to)))
AlignDown(v, to) == v - Rem(v, to)

Mult(suffix) ==
    CASE suffix = "k" -> Kilo
      [] suffix = "m" -> Kilo * Kilo
      [] suffix = "g" -> Kilo * Kilo * Kilo
      [] OTHER -> 1

\* The size a person means.
Meant(t) == t.n * Mult(t.suffix)

\* A unit on its own leaves nothing whose last character could be looked at.
Panics(t) == t.digits = "none" /\ t.suffix = "" /\ t.unit # ""

Accepted(t) == t.digits = "number" /\ t.n >= 0 /\ t.n < Limit

ParseSize(t) == Wrap(Meant(t))
=============================================================================
