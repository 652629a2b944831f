---------------------------- MODULE DownSampling ----------------------------
(***************************************************************************)
(* What thread_downsampling does to the samples of a buffer, and what the  *)
(* recipient does to the bytes, at the widths of the code.  A group of     *)
(* sixteen words gives two averages of eight, right and left, which are    *)
(* packed into three bytes, the right one in the lower twelve bits.        *)
(* Shifts and masks are written as division and remainder.                 *)
(***************************************************************************)
EXTENDS Integers

DWS_RATE_FIX == 8
GroupLen == DWS_RATE_FIX * 2     \* words of a group

Conversions == 0 .. 4095         \* a 12-bit value of the ADC
Bytes == 0 .. 255

(* A word is the conversion in its bits 2 to 13; the others are trash.     *)
Word(c, trash) == (trash \div 4) * 16384 + c * 4 + (trash % 4)
Conversion(word) == (word \div 4) % 4096

Sum8(w, a) ==
    Conversion(w[a]) + Conversion(w[a + 1]) + Conversion(w[a + 2])
    + Conversion(w[a + 3]) + Conversion(w[a + 4]) + Conversion(w[a + 5])
    + Conversion(w[a + 6]) + Conversion(w[a + 7])

Right(w, g) == Sum8(w, g * GroupLen) \div 8
LeftSameWords(w, g) == Sum8(w, g * GroupLen) \div DWS_RATE_FIX
Left(w, g) == Sum8(w, DWS_RATE_FIX + g * GroupLen) \div DWS_RATE_FIX

(* downsampled_data, and the three bytes of it that are copied.            *)
Join(right, left) == (right % 4096) + left * 4096

LowBytes(x) == [k \in 0 .. 2 |-> IF k = 0 THEN x % 256
                                 ELSE IF k = 1 THEN (x \div 256) % 256
                                 ELSE (x \div 65536) % 256]

(* The bytes of a buffer w of n groups.                                    *)
Reduce(w, n) ==
    [k \in 0 .. 3 * n - 1 |->
        LowBytes(Join(Right(w, k \div 3), Left(w, k \div 3)))[k % 3]]

(* The reading of the bytes, as in print_values_downsampled.               *)
UnpackRight(b, k) == (b[k] + b[k + 1] * 256) % 4096
UnpackLeft(b, k)  == b[k + 1] \div 16 + b[k + 2] * 16

Unpack(b, g) == <<UnpackRight(b, 3 * g), UnpackLeft(b, 3 * g)>>
=============================================================================
