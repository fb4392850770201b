-------------------------------- MODULE Codec --------------------------------
(***************************************************************************)
(* The rules for single values that the writers and readers of module      *)
(* WireFormat share: flags, texts, numbers and rotations                   *)
(* (src/protocol/pose_codec.cpp, binary_writer.cpp, protocol_v8.cpp).      *)
(*                                                                         *)
(* Strings are UTF-8 bytes. Lengths are in units of 2.5 mm and yaws in     *)
(* units of 0.05 degrees, half of the finest step on the wire, so that     *)
(* every tie of the rounding is a value of the model. A quaternion is      *)
(* <<x, y, z, w>> in fixed point, Unit to the one, with a sixteenth of the *)
(* step of its ten-bit code as the last place; q and -q are the same       *)
(* rotation.                                                               *)
(***************************************************************************)
EXTENDS Integers, FiniteSets, SequencesExt, TLC

(* Flags *)

STEALTH == 1
PHYSICAL_VALID == 2
HEAD_VALID == 4
RIGHT_VALID == 8
LEFT_VALID == 16
VIRTUALS_VALID == 32
MOVING_FLOOR_LOCAL == 64
PHYSICAL_IS_XRORIGIN_DELTA == 16
ENCODING_FLAGS_DEFAULT == 31

\* The flag `bit`, a power of two, is set.
Has(flags, bit) == (flags \div bit) % 2 = 1

\* Scales, in units: 0.01 m, 0.01 m, 0.005 m and 0.1 degrees.
kAbsPosScale == 4
kLocoPosScale == 4
kRelPosScale == 2
kPhysicalYawScale == 2

sanitize_pose_flags(flags) ==
    IF Has(flags, STEALTH) THEN STEALTH
    ELSE IF Has(flags, HEAD_VALID) THEN flags
    ELSE (flags % RIGHT_VALID) + MOVING_FLOOR_LOCAL * (flags \div MOVING_FLOOR_LOCAL)

compute_encoding_flags(flags) ==
    IF Has(flags, MOVING_FLOOR_LOCAL)
    THEN ENCODING_FLAGS_DEFAULT - PHYSICAL_IS_XRORIGIN_DELTA
    ELSE ENCODING_FLAGS_DEFAULT

-----------------------------------------------------------------------------
(* Strings *)

is_continuation(b) == b \div 64 = 2

truncate_utf8_bytes(s, max) ==
    IF Len(s) <= max
    THEN s
    ELSE SubSeq(s, 1, Max({0} \cup {c \in 1..max : ~is_continuation(s[c + 1])}))

truncate_utf8_code_points(s, max) ==
    LET leads == {i \in DOMAIN s : ~is_continuation(s[i])}
        over == {i \in leads : Cardinality({j \in leads : j < i}) >= max}
    IN IF over = {} THEN s ELSE SubSeq(s, 1, Min(over) - 1)

-----------------------------------------------------------------------------
(* Quantisation: v / scale rounded half to even and clamped to the width. *)
(* The answers to NaN and to a scale that is not positive are left out.   *)

round_half_to_even(v, scale) ==
    LET lower == v \div scale
        twice == 2 * (v % scale)
    IN IF twice > scale \/ (twice = scale /\ lower % 2 = 1) THEN lower + 1 ELSE lower

clamp_rounded(v, scale, min, max) ==
    Max({min, Min({max, round_half_to_even(v, scale)})})

kInt16Min == -32768
kInt16Max == 32767
kInt24Min == -8388608
kInt24Max == 8388607

quantize_signed(v, scale) == clamp_rounded(v, scale, kInt16Min, kInt16Max)
quantize_signed_int24(v, scale) == clamp_rounded(v, scale, kInt24Min, kInt24Max)
dequantize_signed(n, scale) == n * scale

\* The unsigned number that carries a signed one whose largest value is max, and
\* the signed one that a reader makes of it.
Unsigned(n, max) == n % (2 * (max + 1))
SignExtend(u, max) == IF u > max THEN u - 2 * (max + 1) ELSE u

normalize_yaw_degrees(yaw) == ((yaw + 3600) % 7200) - 3600

-----------------------------------------------------------------------------
(* Rotations *)

Unit == 11574
kQuatComponentMin == -8184    \* -0.70710677
kQuatComponentMax == 8184
kMax10Bit == 1023
kQuatStep == 16               \* the two bounds are kMax10Bit steps apart

NoTurn == <<0, 0, 0, Unit>>

\* External, std::sqrt: six steps of Newton's method, for roots up to 3 * Unit.
Sqrt(n) ==
    LET Better(x) == (x + n \div x) \div 2
    IN IF n <= 0 THEN 0 ELSE Better(Better(Better(Better(Better(Better(Unit))))))

Norm2(q) == q[1] * q[1] + q[2] * q[2] + q[3] * q[3] + q[4] * q[4]

\* One that is shorter than kQuatNormalizeEpsilon is 0 here; one that is not
\* finite is left out.
normalize_quaternion(q) ==
    LET magnitude == Sqrt(Norm2(q))
    IN IF Norm2(q) = 0 THEN NoTurn
       ELSE [i \in 1..4 |-> round_half_to_even(q[i] * Unit, magnitude)]

Conjugate(q) == <<-q[1], -q[2], -q[3], q[4]>>

quaternion_inverse(q) == Conjugate(normalize_quaternion(q))

\* The terms of quaternion_multiply, Unit * Unit to the one.
Product(a, b) ==
    <<a[4] * b[1] + a[1] * b[4] + a[2] * b[3] - a[3] * b[2],
      a[4] * b[2] - a[1] * b[3] + a[2] * b[4] + a[3] * b[1],
      a[4] * b[3] + a[1] * b[2] - a[2] * b[1] + a[3] * b[4],
      a[4] * b[4] - a[1] * b[1] - a[2] * b[2] - a[3] * b[3]>>

quaternion_multiply(a, b) ==
    LET p == Product(a, b) IN [i \in 1..4 |-> round_half_to_even(p[i], Unit)]

\* The ten bits of a component, and the component they stand for.
Code(c) ==
    clamp_rounded(Max({kQuatComponentMin, Min({kQuatComponentMax, c})})
                      - kQuatComponentMin,
                  kQuatStep, 0, kMax10Bit)
Decode(code) == kQuatComponentMin + kQuatStep * code

Abs(n) == IF n < 0 THEN -n ELSE n

\* The first largest component is dropped after its sign was made positive.
compress_quaternion_smallest_three(q) ==
    LET v == normalize_quaternion(q)
        largest == Min({i \in 1..4 : \A j \in 1..4 : Abs(v[j]) <= Abs(v[i])})
        sign == IF v[largest] < 0 THEN -1 ELSE 1
    IN [largest |-> largest,
        rest |-> [i \in 1..4 \ {largest} |-> Code(sign * v[i])]]

\* The largest is what the others leave of the unit.
decompress_quaternion_smallest_three(packed) ==
    LET v == [i \in 1..4 |->
                IF i = packed.largest THEN 0 ELSE Decode(packed.rest[i])]
    IN normalize_quaternion(
            [v EXCEPT ![packed.largest] = Sqrt(Unit * Unit - Norm2(v))])

-----------------------------------------------------------------------------
(* Yaws *)

\* External, std::sin and std::cos of an angle in units of 0.025 degrees: their
\* series up to 45 degrees, the rest by symmetry.
SineTo45(a) ==
    LET x == (101 * a) \div 20
        cube == (x * ((x * x) \div Unit)) \div Unit
    IN x - cube \div 6 + (cube * ((x * x) \div Unit)) \div (120 * Unit)
CosineTo45(a) ==
    LET x == (101 * a) \div 20
        square == (x * x) \div Unit
        fourth == (square * square) \div Unit
    IN Unit - square \div 2 + fourth \div 24 - (fourth * square) \div (720 * Unit)
SineTo90(a) == IF a <= 1800 THEN SineTo45(a) ELSE CosineTo45(3600 - a)
Sine(a) ==
    LET r == a % 14400
    IN CASE r <= 3600 -> SineTo90(r)
         [] r > 3600 /\ r <= 7200 -> SineTo90(7200 - r)
         [] r > 7200 /\ r <= 10800 -> -SineTo90(r - 7200)
         [] r > 10800 -> -SineTo90(14400 - r)
Cosine(a) == Sine(a + 3600)

\* External, std::atan2 in units of a yaw: the last one, from 0 to 180 degrees,
\* that the direction has not passed.
Atan2(sin, cos) ==
    LET Further(a, bit) ==
            IF a + bit <= 3600
                 /\ Cosine(2 * (a + bit)) * Abs(sin) >= Sine(2 * (a + bit)) * cos
            THEN a + bit ELSE a
        angle == FoldLeft(Further, 0, [i \in 1..12 |-> 2^(12 - i)])
    IN IF sin < 0 THEN -angle ELSE angle

quaternion_to_yaw_degrees(q) ==
    LET n == normalize_quaternion(q)
        siny_cosp == (2 * (n[4] * n[2] + n[3] * n[1])) \div Unit
        cosy_cosp == Unit - (2 * (n[2] * n[2] + n[3] * n[3])) \div Unit
    IN normalize_yaw_degrees(Atan2(siny_cosp, cosy_cosp))

yaw_degrees_to_quaternion(yaw) == <<0, Sine(yaw), 0, Cosine(yaw)>>

\* v * c / Unit for any length v.
Times(v, c) == (v \div Unit) * c + round_half_to_even((v % Unit) * c, Unit)

rotate_yaw_vector(v, yaw) ==
    LET cos == Cosine(2 * yaw)
        sin == Sine(2 * yaw)
    IN <<Times(v[1], cos) + Times(v[3], sin), v[2],
         Times(v[3], cos) - Times(v[1], sin)>>

-----------------------------------------------------------------------------
(* What a receiver is meant to have, said without the writer and the reader  *)

\* The longest prefix of whole characters within both limits.
WholeCharacters(s, maxBytes, maxChars) ==
    LET Leads(k) == Cardinality({i \in 1..k : ~is_continuation(s[i])})
        fits == {k \in 0..Len(s) : /\ k <= maxBytes
                                   /\ Leads(k) <= maxChars
                                   /\ k < Len(s) => ~is_continuation(s[k + 1])}
    IN SubSeq(s, 1, Max(fits))

\* g is the multiple of the quantum nearest to v, ties to even, within the width.
Nearest(v, g, quantum, max) ==
    LET c == Max({-(max + 1) * quantum, Min({max * quantum, v})})
        error == 2 * Abs(g - c)
    IN /\ g % quantum = 0
       /\ error <= quantum
       /\ error = quantum => (g \div quantum) % 2 = 0

\* The components of g, or of -g, are those of q to the tolerance.
SameRotation(q, g, tolerance) ==
    LET n == normalize_quaternion(q)
    IN \E sign \in {-1, 1} : \A i \in 1..4 : Abs(n[i] - sign * g[i]) <= tolerance

\* Two yaws, a step apart at most, whatever the number of turns.
SameYaw(y, g) == Abs(normalize_yaw_degrees(y - g)) <= kPhysicalYawScale
=============================================================================
