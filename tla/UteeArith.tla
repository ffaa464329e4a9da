----------------------------- MODULE UteeArith -----------------------------
(***************************************************************************)
(* A TA's calls of the arithmetic functions: two numbers x and y, and a    *)
(* destination that holds the left-overs of an earlier result and has its  *)
(* own capacity.  One call is made and its result compared with that of    *)
(* the integers.  Operands are as long as a TA may pass them (src_slice).  *)
(***************************************************************************)
EXTENDS BigInt

CONSTANTS
  Numbers,  \* integers the operands range over
  Moduli,   \* positive integers, the moduli
  DestCaps  \* capacities of the destination, in limbs

VARIABLES
  x, y,  \* operands
  dest,  \* destination
  did,   \* the call that was made and whether it ended without a panic, or NoOp
  out    \* what it returned beside the destination

arithVars == <<x, y, dest, did, out>>

NoOp == [f |-> "none"]

Value(op) ==
  (IF op.neg THEN -1 ELSE 1) * MapThenSumSet(LAMBDA i : op.w[i] * Base^(i - 1), 1..op.n)

\* The buffer of an integer.
Num(v, size) ==
  LET a == IF v < 0 THEN -v ELSE v
  IN  trim(Buffer(v < 0, size, [i \in 1..size |-> (a \div Base^(i - 1)) % Base]))

ArithInit ==
  /\ x \in {Num(v, Tmp) : v \in Numbers}
  /\ y \in {Num(v, Tmp) : v \in Numbers}
  /\ dest \in {Buffer(FALSE, c, [i \in 1..c |-> Base - 1]) : c \in DestCaps}
  /\ did = NoOp
  /\ out = NoOp

\* A call that writes the destination; it panics when there is no result.
Into(f, k, results) ==
  /\ did = NoOp /\ did' = [f |-> f, k |-> k, ok |-> results # {}]
  /\ dest' \in IF results = {} THEN {dest} ELSE results
  /\ UNCHANGED <<x, y, out>>

\* A call that returns a value.
Gives(f, k, v) ==
  /\ did = NoOp /\ did' = [f |-> f, k |-> k, ok |-> TRUE]
  /\ out' = v
  /\ UNCHANGED <<x, y, dest>>

Add == Into("add", 0, add(dest, x, y))

Sub == Into("sub", 0, sub(dest, x, y))

Mul == Into("mul", 0, {mul(dest, x, y)})

Neg == Into("neg", 0, {neg(dest, x)})

ShiftRight == \E k \in 0..(2 * Bits) : Into("shift_right", k, {shift_right(dest, x, k)})

\* The quotient goes to the destination, the remainder to a second one.
Div ==
  LET results == div(dest, dest, x, y)
  IN  /\ did = NoOp /\ did' = [f |-> "div", k |-> 0, ok |-> results # {}]
      /\ \E r \in IF results = {} THEN {[quot |-> dest, rem |-> dest]} ELSE results :
           dest' = r.quot /\ out' = r.rem
      /\ UNCHANGED <<x, y>>

Modular ==
  \E n \in Moduli :
    LET m == Num(n, Tmp)
    IN  \/ Into("modulo", n, modulo(dest, x, m))
        \/ Into("add_mod", n, add_mod(dest, x, y, m))
        \/ Into("sub_mod", n, sub_mod(dest, x, y, m))
        \/ Into("mul_mod", n, mul_mod(dest, x, y, m))
        \/ ~x.neg /\ Into("inv_mod", n, inv_mod(dest, x, m))
        \/ ~y.neg /\ Into("exp_mod", n, exp_mod(dest, x, y, m))

Compare == Gives("cmp", 0, cmp(x, y))

ExtendedGcd == ~x.neg /\ ~y.neg /\ Gives("gcd", 0, compute_extended_gcd(x, y))

RelativePrime == ~x.neg /\ ~y.neg /\ Gives("coprime", 0, relative_prime(x, y))

Prime == \E c \in {0, 2} : Gives("prime", c, is_probable_prime(x, c))

ToS32 == Gives("to_s32", 0, to_s32(x))

\* A number goes to octets and comes back.
ThroughOctets ==
  \E room \in 0..(Tmp * Octets) :
    LET s == to_octet_string(x, room)
        back == UNION {from_octet_string(cap(dest), o, x.neg) : o \in s}
    IN  /\ did = NoOp /\ did' = [f |-> "octets", k |-> room, ok |-> back # {}]
        /\ out' = s
        /\ dest' \in IF back = {} THEN {init(cap(dest))} ELSE back
        /\ UNCHANGED <<x, y>>

ArithNext ==
  \/ Add \/ Sub \/ Mul \/ Neg \/ ShiftRight \/ Div \/ Modular
  \/ Compare \/ ExtendedGcd \/ RelativePrime \/ Prime \/ ToS32 \/ ThroughOctets

----------------------------------------------------------------------------
(* The integers *)

Abs(v) == IF v < 0 THEN -v ELSE v

Sign(v) == IF v < 0 THEN -1 ELSE IF v = 0 THEN 0 ELSE 1

Divides(a, b) == \E q \in 0..b : a * q = b

IsPrime(v) == v > 1 /\ \A a \in 2..(v - 1) : ~Divides(a, v)

PowerMod(a, b, n) ==
  LET p[i \in 0..b] ==
        IF i = 0 THEN 1
        ELSE IF i % 2 = 0 THEN (p[i \div 2] * p[i \div 2]) % n ELSE (a * p[i - 1]) % n
  IN  p[b]

\* Buffers the other functions read as a number.
Canonical(op) ==
  /\ Sound(op)
  /\ op.n > 0 => op.w[op.n] # 0
  /\ op.n = 0 => ~op.neg

\* The call ended and the destination holds v.
Holds(v) == did.ok /\ Canonical(dest) /\ Value(dest) = v

Fits(v, limbs) == Abs(v) < Base^limbs

Limbs(v) == Num(v, Tmp).n

\* A sum of numbers of one sign takes a limb more than the longer one, used or
\* not.
SumFits(sameSign, room) == Max({x.n, y.n}) + (IF sameSign THEN 1 ELSE 0) <= room

SameSigns(negate) == x.neg = IF negate THEN neg(y, y).neg ELSE y.neg

\* The quotient of v and n and the divisor n fit into one temporary together.
Divisible(v, n) == Abs(v) < n * Base^(Tmp - Limbs(n))

\* The remainder is taken in the destination, which first holds v.
Reducible(v, n) == Fits(v, cap(dest)) /\ Fits(v % n, cap(dest)) /\ Divisible(v, n)

\* Every function computes what the integers say and does not panic, whatever
\* the signs, with left-overs of an earlier result in the destination, and
\* leaves a number in canonical form, as long as destination and temporaries
\* have room.  A destination needs room for what the function puts there on
\* the way: one limb more for a sum, the dividend for a remainder, the whole
\* product for mul_mod.  As for temporaries, a sum that is reduced and a
\* dividend whose quotient matters have to be shorter than the largest number
\* by a limb, and powers and the prime test take moduli of half its length.
\* Greatest common divisors and inverses are those of natural numbers.  No
\* prime is refused by the prime test, and what it accepts is 2 or odd and
\* passes the test of Fermat for every base tried.
ArithIsExact ==
  LET a == Value(x)
      b == Value(y)
      n == did.k
      short == x.n < Tmp /\ y.n < Tmp
  IN  CASE did.f = "none" -> TRUE
        [] did.f = "add" -> SumFits(SameSigns(FALSE), cap(dest)) => Holds(a + b)
        [] did.f = "sub" -> SumFits(SameSigns(TRUE), cap(dest)) => Holds(a - b)
        [] did.f = "mul" -> Fits(a * b, cap(dest)) => Holds(a * b)
        [] did.f = "neg" -> Fits(a, cap(dest)) => Holds(-a)
        [] did.f = "shift_right" -> Fits(a, cap(dest)) => Holds(Sign(a) * (Abs(a) \div 2^n))
        [] did.f = "div" ->
             x.n < Tmp /\ Fits(a, cap(dest)) =>
               /\ did.ok /\ Canonical(dest) /\ Canonical(out)
               /\ IF b = 0 THEN Value(dest) = 0 /\ Value(out) = 0
                  ELSE /\ a = Value(dest) * b + Value(out)
                       /\ Abs(Value(out)) < Abs(b) /\ Value(out) * a >= 0
        [] did.f = "modulo" -> Reducible(a, n) => Holds(a % n)
        [] did.f = "add_mod" ->
             SumFits(SameSigns(FALSE), Tmp) /\ Reducible(a + b, n) => Holds((a + b) % n)
        [] did.f = "sub_mod" ->
             SumFits(SameSigns(TRUE), Tmp) /\ Reducible(a - b, n) => Holds((a - b) % n)
        [] did.f = "mul_mod" -> Reducible(a * b, n) => Holds((a * b) % n)
        [] did.f = "inv_mod" ->
             x.n < Tmp /\ Limbs(n) < Tmp /\ Fits(n, cap(dest)) =>
               /\ did.ok /\ Canonical(dest) /\ Value(dest) \in 0..(n - 1)
               /\ IF \E i \in 0..(n - 1) : (a * i) % n = 1 % n THEN (a * Value(dest)) % n = 1 % n
                  ELSE Value(dest) = 0
        [] did.f = "exp_mod" ->
             LET p == PowerMod(a, b, n)
             IN  n > 1 /\ 2 * Limbs(n) <= Tmp /\ Divisible(a, n) /\ Fits(p, cap(dest)) => Holds(p)
        [] did.f = "cmp" -> out = Sign(a - b)
        [] did.f = "gcd" ->
             short => \E e \in out :
               LET g == Value(e.gcd)
               IN  /\ IF a = 0 /\ b = 0 THEN g = 0 ELSE g > 0 /\ Divides(g, a) /\ Divides(g, b)
                   /\ Value(e.u) * a + Value(e.v) * b = g
        [] did.f = "coprime" ->
             short => out = {\A d \in 2..Max({a, b, 2}) : ~(Divides(d, a) /\ Divides(d, b))}
        [] did.f = "prime" ->
             2 * x.n <= Tmp =>
               /\ IsPrime(a) => out
               /\ out => a = 2 \/ (a > 2 /\ a % 2 = 1 /\ \A c \in Bases(x, n) : PowerMod(c, a - 1, a) = 1)
        [] did.f = "to_s32" -> out = IF Abs(a) < Base \div 2 THEN {a} ELSE {}
        [] did.f = "octets" ->
             /\ out = {} <=> Abs(a) >= 2^(Octet * n)
             /\ out # {} /\ Fits(a, cap(dest)) => Holds(a)
============================================================================
