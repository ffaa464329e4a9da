------------------------------- MODULE BigInt -------------------------------
(***************************************************************************)
(* The big integers of crates/rustee-crypto/src/arith.rs.  A buffer is a   *)
(* sign, a count of limbs and an array of limbs, least significant first;  *)
(* the array may be longer than the count, and what lies behind the count  *)
(* is left over from earlier results.  An operation takes its destination  *)
(* as the first argument and returns what is in it afterwards.  The count  *)
(* may exceed the array after a copy into a buffer that is too short.      *)
(*                                                                         *)
(* What may fail is a set, empty on an error.  The errors of the octet and *)
(* integer conversions are returned; those of the operations are panics    *)
(* (an index beyond a buffer), and nothing comes after them.               *)
(*                                                                         *)
(* A temporary has room for the largest number a TA may pass, and for no   *)
(* more: [0u32; 130] is bigint_size_in_u32(MAX_BIGINT_BITS).               *)
(***************************************************************************)
EXTENDS Integers, Sequences, FiniteSetsExt

CONSTANTS
  Bits, \* bits of a limb, 32 in the code
  Tmp   \* limbs of a temporary buffer and of the largest number, 128 in the code

ASSUME BigIntAssumption == Bits \in Nat \ {0} /\ Tmp \in Nat \ {0}

Base == 2^Bits

Buffer(neg, n, w) == [neg |-> neg, n |-> n, w |-> w]

init(size) == Buffer(FALSE, 0, [i \in 1..size |-> 0])

cap(op) == Len(op.w)

\* nlimbs succeeds.
Sound(op) == op.n <= cap(op)

\* nlimbs(op).unwrap_or(0)
nlimbs(op) == IF Sound(op) THEN op.n ELSE 0

limb(op, i) == IF i \in 1..nlimbs(op) THEN op.w[i] ELSE 0

is_zero(op) == nlimbs(op) = 0

trim(op) ==
  LET n == Max({0} \cup {i \in 1..op.n : op.w[i] # 0})
  IN  [op EXCEPT !.n = n, !.neg = @ /\ n > 0]

assign(dest, src) ==
  [src EXCEPT !.w = [i \in 1..cap(dest) |-> IF i <= cap(src) THEN src.w[i] ELSE 0]]

abs(dest, src) == [assign(dest, src) EXCEPT !.neg = FALSE]

neg(dest, op) ==
  LET d == assign(dest, op) IN [d EXCEPT !.neg = ~is_zero(d) /\ ~@]

\* from_s32 of a magnitude of one limb.
from_s32(size, v) ==
  LET m == IF v < 0 THEN -v ELSE v
  IN  IF v = 0 THEN init(size)
      ELSE Buffer(v < 0, 1, [i \in 1..size |-> IF i = 1 THEN m ELSE 0])

\* to_s32; the least number of the type is refused.
to_s32(op) ==
  IF ~Sound(op) \/ op.n > 1 \/ (op.n = 1 /\ op.w[1] >= Base \div 2) THEN {}
  ELSE {IF op.n = 0 THEN 0 ELSE IF op.neg THEN -op.w[1] ELSE op.w[1]}

----------------------------------------------------------------------------
(* Comparison and bits *)

cmp_mag(a, b) ==
  LET differ == {i \in 1..nlimbs(a) : a.w[i] # b.w[i]}
      top == Max(differ)
  IN  IF nlimbs(a) # nlimbs(b) THEN IF nlimbs(a) > nlimbs(b) THEN 1 ELSE -1
      ELSE IF differ = {} THEN 0
      ELSE IF a.w[top] > b.w[top] THEN 1 ELSE -1

cmp(a, b) ==
  IF a.neg # b.neg THEN IF a.neg THEN -1 ELSE 1
  ELSE IF a.neg THEN -cmp_mag(a, b) ELSE cmp_mag(a, b)

get_bit(op, bit) == (limb(op, bit \div Bits + 1) \div 2^(bit % Bits)) % 2 = 1

get_bit_count(op) ==
  IF is_zero(op) THEN 0
  ELSE (op.n - 1) * Bits + Max({0} \cup {k \in 1..Bits : op.w[op.n] >= 2^(k - 1)})

\* A bit behind the count becomes part of the number with all limbs below it.
set_bit(op, bit, val) ==
  LET i == bit \div Bits + 1
      unit == 2^(bit % Bits)
      was == (op.w[i] \div unit) % 2
  IN  IF i > cap(op) THEN op
      ELSE IF val THEN [op EXCEPT !.w[i] = @ + (1 - was) * unit, !.n = Max({@, i})]
      ELSE IF i <= nlimbs(op) THEN trim([op EXCEPT !.w[i] = @ - was * unit])
      ELSE op

shift_right(dest, src, bits) ==
  LET d == assign(dest, src)
      words == bits \div Bits
      rem == bits % Bits
      m == nlimbs(d) - words
      At(i) == IF i <= m THEN d.w[i + words] ELSE 0
      w == [i \in 1..cap(d) |->
              (At(i) \div 2^rem) + (IF i < m THEN (At(i + 1) * 2^(Bits - rem)) % Base ELSE 0)]
  IN  IF bits = 0 THEN d
      ELSE IF words >= nlimbs(d) THEN init(cap(dest))
      ELSE trim(Buffer(d.neg, m, IF rem = 0 THEN [i \in 1..cap(d) |-> At(i)] ELSE w))

\* op << bits in place, or op itself when there is no room.
shl_words(op, bits) ==
  LET words == bits \div Bits
      rem == bits % Bits
      n == nlimbs(op)
      At(i) == IF i - words \in 1..n THEN op.w[i - words] ELSE 0
      w == [i \in 1..cap(op) |->
              ((At(i) * 2^rem) % Base) + (IF i > 1 /\ rem > 0 THEN At(i - 1) \div 2^(Bits - rem) ELSE 0)]
      carry == n + words + 1 <= cap(op) /\ w[n + words + 1] # 0
  IN  IF bits = 0 \/ is_zero(op) \/ n + words + 1 > cap(op) THEN op
      ELSE Buffer(op.neg, n + words + (IF carry THEN 1 ELSE 0), w)

----------------------------------------------------------------------------
(* Addition and subtraction *)

\* A faulty add_mag, for mutation: the last carry is dropped.
add_mag_no_carry(dest, a, b) ==
  LET n == Max({nlimbs(a), nlimbs(b)})
      c[i \in 0..n] == IF i = 0 THEN 0 ELSE (limb(a, i) + limb(b, i) + c[i - 1]) \div Base
  IN  IF n + 1 > cap(dest) THEN dest
      ELSE Buffer(FALSE, n, [i \in 1..cap(dest) |->
             IF i <= n THEN (limb(a, i) + limb(b, i) + c[i - 1]) % Base ELSE dest.w[i]])

\* add_mag; the destination stays as it is when there is no room for a carry.
add_mag(dest, a, b) ==
  LET n == Max({nlimbs(a), nlimbs(b)})
      c[i \in 0..n] == IF i = 0 THEN 0 ELSE (limb(a, i) + limb(b, i) + c[i - 1]) \div Base
  IN  IF ~Sound(a) \/ ~Sound(b) \/ n + 1 > cap(dest) THEN dest
      ELSE Buffer(FALSE, n + c[n], [i \in 1..cap(dest) |->
             IF i <= n THEN (limb(a, i) + limb(b, i) + c[i - 1]) % Base
             ELSE IF i = n + 1 THEN c[n] ELSE dest.w[i]])

\* sub_mag of a number not below b; a number longer than the destination is
\* written beyond its end.
sub_mag(dest, a, b) ==
  LET c[i \in 0..nlimbs(a)] ==
        IF i = 0 \/ limb(a, i) >= limb(b, i) + c[i - 1] THEN 0 ELSE 1
  IN  IF ~Sound(a) \/ ~Sound(b) THEN {dest}
      ELSE IF nlimbs(a) > cap(dest) THEN {}
      ELSE {trim(Buffer(FALSE, nlimbs(a), [i \in 1..cap(dest) |->
              IF i <= nlimbs(a) THEN (limb(a, i) - limb(b, i) - c[i - 1]) % Base ELSE dest.w[i]]))}

add(dest, op1, op2) ==
  LET s == add_mag(dest, op1, op2)
      c == cmp_mag(op1, op2)
  IN  IF op1.neg = op2.neg THEN {[s EXCEPT !.neg = op1.neg /\ ~is_zero(s)]}
      ELSE IF c = 0 THEN {init(cap(dest))}
      ELSE IF c = 1 THEN {[d EXCEPT !.neg = op1.neg] : d \in sub_mag(dest, op1, op2)}
      ELSE {[d EXCEPT !.neg = op2.neg] : d \in sub_mag(dest, op2, op1)}

sub(dest, op1, op2) == add(dest, op1, neg(init(Tmp), op2))

----------------------------------------------------------------------------
(* Multiplication and division *)

\* The rows of the schoolbook product, each with its carries.
mul(dest, op1, op2) ==
  LET la == nlimbs(op1)
      lb == nlimbs(op2)
      Row(t, i) ==
        LET c[j \in 0..lb] ==
              IF j = 0 THEN 0 ELSE (t[i + j - 1] + op1.w[i] * op2.w[j] + c[j - 1]) \div Base
        IN  [k \in DOMAIN t |->
               IF k \in i..(i + lb - 1)
               THEN (t[k] + op1.w[i] * op2.w[k - i + 1] + c[k - i]) % Base
               ELSE IF k = i + lb THEN c[lb] ELSE t[k]]
      rows[i \in 0..la] == IF i = 0 THEN [k \in 1..(la + lb + 1) |-> 0] ELSE Row(rows[i - 1], i)
  IN  assign(dest, trim(Buffer(op1.neg # op2.neg, la + lb, rows[la])))

\* Restoring division of magnitudes from bit b - 1 down to 0.  The divisor is
\* shifted in a temporary, and stays as it is where that has no room.
div(quot, rem, op1, op2) ==
  LET r0 == [assign(rem, op1) EXCEPT !.neg = FALSE]
      dvs == [assign(init(Tmp), op2) EXCEPT !.neg = FALSE]
      bits == Max({0, get_bit_count(r0) - get_bit_count(dvs)}) + 1
      Step(s, i) ==
        LET shifted == shl_words(dvs, i)
        IN  IF cmp_mag(s.rem, shifted) >= 0
            THEN {[rem |-> assign(rem, d), quot |-> set_bit(s.quot, i, TRUE)] :
                    d \in sub_mag(init(Tmp), s.rem, shifted)}
            ELSE {s}
      st[k \in 0..bits] ==
        IF k = 0 THEN {[rem |-> r0, quot |-> init(cap(quot))]}
        ELSE UNION {Step(s, bits - k) : s \in st[k - 1]}
  IN  IF is_zero(op2) THEN {[quot |-> init(cap(quot)), rem |-> init(cap(rem))]}
      ELSE IF cmp_mag(r0, dvs) < 0 THEN {[quot |-> init(cap(quot)), rem |-> [r0 EXCEPT !.neg = op1.neg]]}
      ELSE {[quot |-> trim([s.quot EXCEPT !.neg = op1.neg # op2.neg]),
             rem |-> trim([s.rem EXCEPT !.neg = op1.neg])] : s \in st[bits]}

\* The remainder of magnitudes.
Remainder(dest, op, n) == {[d.rem EXCEPT !.neg = FALSE] : d \in div(init(Tmp), dest, op, n)}

\* A faulty modulo, for mutation: the remainder of a negative number is kept.
modulo_of_abs(dest, op, n) == Remainder(dest, op, n)

modulo(dest, op, n) ==
  UNION {IF op.neg /\ ~is_zero(r)
         THEN {[assign(dest, t) EXCEPT !.neg = FALSE] : t \in sub(init(Tmp), n, r)}
         ELSE {r} : r \in Remainder(dest, op, n)}

add_mod(dest, op1, op2, n) == UNION {modulo(dest, s, n) : s \in add(init(Tmp), op1, op2)}

sub_mod(dest, op1, op2, n) == UNION {modulo(dest, s, n) : s \in sub(init(Tmp), op1, op2)}

mul_mod(dest, op1, op2, n) == modulo(dest, mul(init(2 * Tmp + 2), op1, op2), n)

exp_mod(dest, op, exp, n) ==
  LET Step(p, i) ==
        [base : mul_mod(init(Tmp), p.base, p.base, n),
         result : IF get_bit(exp, i) THEN mul_mod(init(Tmp), p.result, p.base, n) ELSE {p.result}]
      st[i \in 0..get_bit_count(exp)] ==
        IF i = 0 THEN [base : modulo(init(Tmp), op, n), result : {from_s32(Tmp, 1)}]
        ELSE UNION {Step(p, i - 1) : p \in st[i - 1]}
  IN  {assign(dest, p.result) : p \in st[get_bit_count(exp)]}

----------------------------------------------------------------------------
(* Greatest common divisors and primes *)

RECURSIVE egcd(_, _, _, _, _, _)

\* The loop of compute_extended_gcd.
egcd(r0, r1, s0, s1, t0, t1) ==
  IF is_zero(r1) THEN {[gcd |-> r0, u |-> s0, v |-> t0]}
  ELSE UNION {
         LET Less(p, q) == sub(init(Tmp), p, mul(init(Tmp), d.quot, q))
         IN  UNION {egcd(r1, d.rem, s1, e.s, t1, e.t) : e \in [s : Less(s0, s1), t : Less(t0, t1)]} :
         d \in div(init(Tmp), init(Tmp), r0, r1)}

compute_extended_gcd(op1, op2) ==
  egcd(abs(init(Tmp), op1), abs(init(Tmp), op2),
       from_s32(Tmp, 1), init(Tmp), init(Tmp), from_s32(Tmp, 1))

inv_mod(dest, op, n) ==
  UNION {IF cmp(e.gcd, from_s32(2, 1)) = 0 THEN modulo(dest, e.u, n) ELSE {init(cap(dest))} :
         e \in compute_extended_gcd(op, n)}

relative_prime(op1, op2) ==
  {cmp(e.gcd, from_s32(2, 1)) = 0 : e \in compute_extended_gcd(op1, op2)}

\* The bases 2, 3, ... below op, at most 8 of them.
Bases(op, confidence) ==
  {a \in 2..(1 + Max({1, Min({confidence, 8})})) : cmp_mag(from_s32(2, a), op) < 0}

\* A test of Fermat with each of the bases.  All its operands are temporaries,
\* so that nothing panics.
is_probable_prime(op, confidence) ==
  LET two == from_s32(2, 2)
      one == from_s32(2, 1)
      Powers(a) == UNION {exp_mod(init(Tmp), from_s32(2, a), n1, op) : n1 \in sub(init(Tmp), op, one)}
  IN  /\ ~op.neg /\ ~is_zero(op) /\ cmp(op, two) >= 0
      /\ \/ cmp(op, two) = 0
         \/ /\ get_bit(op, 0)
            /\ \A a \in Bases(op, confidence) : \A p \in Powers(a) : cmp(p, one) = 0

----------------------------------------------------------------------------
(* Octet strings, most significant first; Bits is a multiple of the octet. *)

CONSTANT Octet \* bits of an octet

Octets == Bits \div Octet

from_octet_string(size, buf, isNeg) ==
  LET k == Len(buf)
      n == (k + Octets - 1) \div Octets
      At(j) == IF j < k THEN buf[k - j] ELSE 0
      Word(i) == MapThenSumSet(LAMBDA o : At((i - 1) * Octets + o) * 2^(Octet * o), 0..(Octets - 1))
  IN  IF n > size THEN {}
      ELSE {trim(Buffer(isNeg, n, [i \in 1..size |-> IF i <= n THEN Word(i) ELSE 0]))}

\* to_octet_string into room octets; zero gives no octet at all.
to_octet_string(op, room) ==
  LET At(j) == (op.w[j \div Octets + 1] \div 2^(Octet * (j % Octets))) % 2^Octet
      k == 1 + Max({0} \cup {j \in 0..(op.n * Octets - 1) : At(j) # 0})
  IN  IF is_zero(op) THEN {<<>>}
      ELSE IF room < k THEN {}
      ELSE {[i \in 1..k |-> At(k - i)]}
============================================================================
