------------------------------ MODULE Uint256 ------------------------------
(***************************************************************************)
(* src/evm/uint256.c: numbers of four words, 64 bits each in the code and  *)
(* W bits here.  A number of two words is <<upper, lower>>, one of four    *)
(* words a pair of those.                                                  *)
(***************************************************************************)
EXTENDS Integers, SequencesExt

CONSTANT W       \* bits in a word, an even number

ASSUME WAssumption == W \in Nat /\ W > 0 /\ W % 2 = 0

Word == 0 .. 2 ^ W - 1
U128 == Word \X Word
U256 == U128 \X U128

(* Arithmetic on words, modulo 2^W. *)
Wrap(n)    == n % 2 ^ W
Shl(x, n)  == Wrap(x * 2 ^ n)
Shr(x, n)  == x \div 2 ^ n
OrBits(x, y) == FoldLeft(LAMBDA sum, k : sum + (IF (x \div 2 ^ k) % 2 = 1 \/ (y \div 2 ^ k) % 2 = 1 THEN 2 ^ k ELSE 0),
                         0, [k \in 1 .. W |-> k - 1])
Bit(b)     == IF b THEN 1 ELSE 0

Zero128 == <<0, 0>>
One128  == <<0, 1>>
Zero256 == <<Zero128, Zero128>>
One256  == <<Zero128, One128>>

(* readu128BE and readu256BE, of words already read. *)
readu128BE(words) == <<words[1], words[2]>>
readu256BE(words) == <<readu128BE(SubSeq(words, 1, 2)), readu128BE(SubSeq(words, 3, 4))>>

-----------------------------------------------------------------------------
gt128(a, b)  == IF a[1] = b[1] THEN a[2] > b[2] ELSE a[1] > b[1]
gt256(a, b)  == IF a[1] = b[1] THEN gt128(a[2], b[2]) ELSE gt128(a[1], b[1])
gte128(a, b) == gt128(a, b) \/ a = b
gte256(a, b) == gt256(a, b) \/ a = b

add128(a, b) == <<Wrap(a[1] + b[1] + Bit(Wrap(a[2] + b[2]) < a[2])), Wrap(a[2] + b[2])>>

add256(a, b) ==
    LET low == add128(a[2], b[2])
        up  == add128(a[1], b[1])
    IN  <<IF gt128(a[2], low) THEN add128(up, One128) ELSE up, low>>

minus128(a, b) == <<Wrap(a[1] - b[1] - Bit(Wrap(a[2] - b[2]) > a[2])), Wrap(a[2] - b[2])>>

(* mutant: no borrow from the upper half *)
Minus256NoBorrow(a, b) == <<minus128(a[1], b[1]), minus128(a[2], b[2])>>

minus256(a, b) ==
    LET low == minus128(a[2], b[2])
        up  == minus128(a[1], b[1])
    IN  <<IF gt128(low, a[2]) THEN minus128(up, One128) ELSE up, low>>

or128(a, b) == <<OrBits(a[1], b[1]), OrBits(a[2], b[2])>>
or256(a, b) == <<or128(a[1], b[1]), or128(a[2], b[2])>>

shiftl128(a, n) ==
    IF n >= 2 * W THEN Zero128
    ELSE IF n = W THEN <<a[2], 0>>
    ELSE IF n = 0 THEN a
    ELSE IF n < W THEN <<Wrap(Shl(a[1], n) + Shr(a[2], W - n)), Shl(a[2], n)>>
    ELSE <<Shl(a[2], n - W), 0>>

shiftr128(a, n) ==
    IF n >= 2 * W THEN Zero128
    ELSE IF n = W THEN <<0, a[1]>>
    ELSE IF n = 0 THEN a
    ELSE IF n < W THEN <<Shr(a[1], n), Wrap(Shl(a[1], W - n) + Shr(a[2], n))>>
    ELSE <<0, Shr(a[1], n - W)>>

shiftl256(a, n) ==
    IF n >= 4 * W THEN Zero256
    ELSE IF n = 2 * W THEN <<a[2], Zero128>>
    ELSE IF n = 0 THEN a
    ELSE IF n < 2 * W THEN <<add128(shiftl128(a[1], n), shiftr128(a[2], 2 * W - n)), shiftl128(a[2], n)>>
    ELSE <<shiftl128(a[2], n - 2 * W), Zero128>>

shiftr256(a, n) ==
    IF n >= 4 * W THEN Zero256
    ELSE IF n = 2 * W THEN <<Zero128, a[1]>>
    ELSE IF n = 0 THEN a
    ELSE IF n < 2 * W THEN <<shiftr128(a[1], n), add128(shiftr128(a[2], n), shiftl128(a[1], 2 * W - n))>>
    ELSE <<Zero128, shiftr128(a[1], n - 2 * W)>>

(* The number of bits: how often it can be halved. *)
BitsOfWord(x) == Cardinality({n \in 0 .. W - 1 : Shr(x, n) # 0})
bits128(a) == IF a[1] # 0 THEN W + BitsOfWord(a[1]) ELSE BitsOfWord(a[2])
Halvings(a) == Cardinality({n \in 0 .. 2 * W - 1 : shiftr128(a, n) # Zero128})
bits256(a) == IF a[1] # Zero128 THEN 2 * W + Halvings(a[1]) ELSE Halvings(a[2])

-----------------------------------------------------------------------------
(* Long multiplication.  Row 3 - x of the products is top[x] times each    *)
(* word of bottom, the highest word being word 1 here.                     *)
H       == W \div 2
Upper(x) == x \div 2 ^ H
Lower(x) == x % 2 ^ H
Halves(a) == <<Upper(a[1]), Lower(a[1]), Upper(a[2]), Lower(a[2])>>

mul128(a, b) ==
    LET p(r, y) == Halves(a)[4 - r] * Halves(b)[y + 1]
        fourth32 == Lower(p(0, 3))
        third32  == Wrap(Lower(p(0, 2)) + Upper(p(0, 3)) + Lower(p(1, 3)))
        second32 == Wrap(Lower(p(0, 1)) + Upper(p(0, 2)) + Lower(p(1, 2)) + Upper(p(1, 3)) + Lower(p(2, 3)))
        first32  == Wrap(Lower(p(0, 0)) + Upper(p(0, 1)) + Lower(p(1, 1)) + Upper(p(1, 2))
                         + Lower(p(2, 2)) + Upper(p(2, 3)) + Lower(p(3, 3)))
    IN  add128(<<0, fourth32>>,
               add128(<<second32, 0>>, add128(<<Shl(first32, H), 0>>, <<Upper(third32), Shl(third32, H)>>)))

Words(a) == <<<<0, a[1][1]>>, <<0, a[1][2]>>, <<0, a[2][1]>>, <<0, a[2][2]>>>>
Add3(x, y, z) == add128(x, add128(y, z))

(* The carry of third64 goes to the highest word. *)
Columns(p) ==
    LET low(r, y) == <<0, p[r, y][2]>>
        up(r, y)  == <<0, p[r, y][1]>>
        fourth64 == low(0, 3)
        third64  == Add3(low(1, 3), low(0, 2), up(0, 3))
        second64 == Add3(low(2, 3), up(1, 3), Add3(low(1, 2), low(0, 1), up(0, 2)))
        first64  == Add3(low(3, 3), up(2, 3), Add3(low(2, 2), up(1, 2), Add3(low(1, 1), low(0, 0), up(0, 1))))
        target1  == <<shiftl128(first64, W), Zero128>>
        target2  == <<<<third64[1], 0>>, shiftl128(third64, W)>>
    IN  add256(<<Zero128, fourth64>>, add256(<<second64, Zero128>>, add256(target1, target2)))

mul256(a, b) == Columns([r \in 0 .. 3, y \in 0 .. 3 |-> mul128(Words(a)[4 - r], Words(b)[y + 1])])

-----------------------------------------------------------------------------
(* Division by shifting and subtracting: copyd is r shifted left, adder    *)
(* the bit of the quotient it stands for.                                  *)
DivStart128(l, r) ==
    LET diffBits == bits128(l) - bits128(r)
        copyd == shiftl128(r, diffBits)
        adder == shiftl128(One128, diffBits)
        back  == IF gt128(copyd, l) THEN 1 ELSE 0
    IN  [div |-> Zero128, mod |-> l, copyd |-> shiftr128(copyd, back), adder |-> shiftr128(adder, back)]

DivStep128(s) ==
    LET fits == gte128(s.mod, s.copyd)
    IN  [div |-> IF fits THEN or128(s.div, s.adder) ELSE s.div,
         mod |-> IF fits THEN minus128(s.mod, s.copyd) ELSE s.mod,
         copyd |-> shiftr128(s.copyd, 1), adder |-> shiftr128(s.adder, 1)]

divmod128(l, r) ==
    LET loop[s \in [div : U128, mod : U128, copyd : U128, adder : U128]] ==
            IF gte128(s.mod, r) THEN loop[DivStep128(s)] ELSE [div |-> s.div, mod |-> s.mod]
    IN  IF gt128(r, l) THEN [div |-> Zero128, mod |-> l] ELSE loop[DivStart128(l, r)]

DivStart256(l, r) ==
    LET diffBits == bits256(l) - bits256(r)
        copyd == shiftl256(r, diffBits)
        adder == shiftl256(One256, diffBits)
        back  == IF gt256(copyd, l) THEN 1 ELSE 0
    IN  [div |-> Zero256, mod |-> l, copyd |-> shiftr256(copyd, back), adder |-> shiftr256(adder, back)]

DivStep256(s) ==
    LET fits == gte256(s.mod, s.copyd)
    IN  [div |-> IF fits THEN or256(s.div, s.adder) ELSE s.div,
         mod |-> IF fits THEN minus256(s.mod, s.copyd) ELSE s.mod,
         copyd |-> shiftr256(s.copyd, 1), adder |-> shiftr256(s.adder, 1)]

divmod256(l, r) ==
    LET loop[s \in [div : U256, mod : U256, copyd : U256, adder : U256]] ==
            IF gte256(s.mod, r) THEN loop[DivStep256(s)] ELSE [div |-> s.div, mod |-> s.mod]
    IN  IF gt256(r, l) THEN [div |-> Zero256, mod |-> l] ELSE loop[DivStart256(l, r)]

(* The digits of a number in a base, the last one first; no more than room *)
(* of them are written.                                                    *)
NoText == [ok |-> FALSE, digits |-> << >>]

Digits128(s, d) == [rest |-> d.div, digits |-> Append(s.digits, d.mod[2]), more |-> d.div # Zero128]

tostring128(a, base, outLength) ==
    LET loop[s \in [rest : U128, digits : Seq(0 .. 15), more : BOOLEAN]] ==
            IF s.more
            THEN IF Len(s.digits) > outLength - 1 THEN NoText
                 ELSE loop[Digits128(s, divmod128(s.rest, <<0, base>>))]
            ELSE IF Len(s.digits) >= outLength THEN NoText
            ELSE [ok |-> TRUE, digits |-> Reverse(s.digits)]
    IN  IF outLength = 0 \/ base \notin 2 .. 16 THEN NoText
        ELSE loop[[rest |-> a, digits |-> << >>, more |-> TRUE]]

Digits256(s, d) == [rest |-> d.div, digits |-> Append(s.digits, d.mod[2][2]), more |-> d.div # Zero256]

tostring256(a, base, outLength) ==
    LET loop[s \in [rest : U256, digits : Seq(0 .. 15), more : BOOLEAN]] ==
            IF ~s.more THEN [ok |-> TRUE, digits |-> Reverse(s.digits)]
            ELSE IF Len(s.digits) > outLength - 2 THEN NoText
            ELSE loop[Digits256(s, divmod256(s.rest, <<Zero128, <<0, base>>>>))]
    IN  IF outLength <= 1 \/ base \notin 2 .. 16 THEN NoText
        ELSE loop[[rest |-> a, digits |-> << >>, more |-> TRUE]]

-----------------------------------------------------------------------------
(* Calls of the operations with the numbers of an instance, compared with  *)
(* the arithmetic of the numbers they stand for.                           *)
CONSTANTS Values,   \* numbers below 2^(4W)
          Bases,    \* of tostring
          Sizes     \* of its buffer

ASSUME CallsAssumption == /\ Values \subseteq 0 .. 2 ^ (4 * W) - 1
                          /\ Bases \subseteq 2 .. 2 ^ W - 1 /\ Sizes \subseteq Nat

VARIABLE call     \* the last call: its name, its inputs and its result

(* A number in words and back. *)
Modulus == 2 ^ (4 * W)
Of128(n) == <<(n \div 2 ^ W) % 2 ^ W, n % 2 ^ W>>
Of256(n) == <<Of128(n \div 2 ^ (2 * W)), Of128(n % 2 ^ (2 * W))>>
Is128(a) == a[1] * 2 ^ W + a[2]
Is256(a) == Is128(a[1]) * 2 ^ (2 * W) + Is128(a[2])

Pair(op, f(_, _)) ==
    \E x, y \in Values : call' = [fn |-> op, x |-> x, y |-> y, result |-> f(Of256(x), Of256(y))]

Add    == Pair("add", add256)
Minus  == Pair("minus", minus256)
Or     == Pair("or", or256)
Mul    == Pair("mul", mul256)
Mul128 == Pair("mul128", LAMBDA a, b : mul128(a[2], b[2]))
Compare == Pair("compare", LAMBDA a, b : [gt |-> gt256(a, b), gte |-> gte256(a, b)])

DivMod ==
    \E x, y \in Values :
        /\ y # 0
        /\ call' = [fn |-> "divmod", x |-> x, y |-> y, result |-> divmod256(Of256(x), Of256(y))]

DivMod128 ==
    \E x, y \in Values :
        /\ y % 2 ^ (2 * W) # 0
        /\ call' = [fn |-> "divmod128", x |-> x % 2 ^ (2 * W), y |-> y % 2 ^ (2 * W),
                    result |-> divmod128(Of256(x)[2], Of256(y)[2])]

Shift ==
    \E x \in Values, n \in 0 .. 4 * W + 1 :
        call' = [fn |-> "shift", x |-> x, n |-> n,
                 left |-> shiftl256(Of256(x), n), right |-> shiftr256(Of256(x), n)]

Bits == \E x \in Values : call' = [fn |-> "bits", x |-> x, result |-> bits256(Of256(x))]

Read ==
    \E x \in Values : call' = [fn |-> "read", x |-> x, result |-> readu256BE(Of256(x)[1] \o Of256(x)[2])]

AsText ==
    \E x \in Values, base \in Bases, size \in Sizes :
        call' = [fn |-> "tostring", x |-> x, base |-> base, size |-> size,
                 text |-> tostring256(Of256(x), base, size),
                 low  |-> tostring128(Of256(x)[2], base, size)]

Call == \/ Add \/ Minus \/ Or \/ Mul \/ Mul128 \/ Compare \/ DivMod \/ DivMod128
        \/ Shift \/ Bits \/ Read \/ AsText

-----------------------------------------------------------------------------
(* The product of two numbers in the width of a number, by the bytes of    *)
(* one of them: no intermediate leaves the integers of the checker.        *)
Product(x, y) ==
    LET half == 2 ^ (2 * W)
    IN  ((((x \div half) * y) % Modulus) * half + (x % half) * y) % Modulus

(* Sums and differences carry and borrow across all four words, and order  *)
(* is that of the numbers.                                                 *)
SumsCarry ==
    /\ call.fn = "add" => Is256(call.result) = (call.x + call.y) % Modulus
    /\ call.fn = "minus" => Is256(call.result) = (call.x - call.y) % Modulus
    /\ call.fn = "compare" => /\ call.result.gt <=> call.x > call.y
                              /\ call.result.gte <=> call.x >= call.y
    /\ call.fn = "mul128" => LET half == 2 ^ (2 * W)
                             IN  Is128(call.result) = ((call.x % half) * (call.y % half)) % half
    /\ call.fn = "read" => Is256(call.result) = call.x

(* Shifts by any number of bits, those of whole words and beyond included. *)
ShiftsCross ==
    /\ call.fn = "shift" => /\ Is256(call.left) = Product(call.x, IF call.n < 4 * W THEN 2 ^ call.n ELSE 0)
                            /\ Is256(call.right) = call.x \div 2 ^ call.n
    /\ call.fn = "bits" => /\ call.x < 2 ^ call.result
                           /\ call.result > 0 => call.x >= 2 ^ (call.result - 1)
    /\ call.fn = "or" => \A k \in 0 .. 4 * W - 1 :
           (Is256(call.result) \div 2 ^ k) % 2 = 1 <=> (call.x \div 2 ^ k) % 2 = 1 \/ (call.y \div 2 ^ k) % 2 = 1

(* The loop ends, with the quotient and the remainder. *)
DivisionExact ==
    /\ call.fn = "divmod" => /\ Is256(call.result.div) = call.x \div call.y
                             /\ Is256(call.result.mod) = call.x % call.y
    /\ call.fn = "divmod128" => /\ Is128(call.result.div) = call.x \div call.y
                                /\ Is128(call.result.mod) = call.x % call.y

(* The text of a number is its digits, none missing and none in front that *)
(* need not be; it is refused exactly when it does not fit.                *)
Digits(n, base) == CHOOSE k \in 1 .. 4 * W : n < base ^ k /\ (k > 1 => n >= base ^ (k - 1))

TextOf(text, n, base, size) ==
    /\ text.ok <=> Digits(n, base) < size
    /\ text.ok => text.digits = [k \in 1 .. Digits(n, base) |-> (n \div base ^ (Digits(n, base) - k)) % base]

TextExact ==
    call.fn = "tostring" => /\ TextOf(call.text, call.x, call.base, call.size)
                            /\ TextOf(call.low, call.x % 2 ^ (2 * W), call.base, call.size)

=============================================================================
