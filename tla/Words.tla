-------------------------------- MODULE Words --------------------------------
(* Machine words as the sets of their 1 bits, with the value operators of     *)
(* mm.h.  A mask of 32 bits complemented clears bits 32 and up as well.       *)
EXTENDS Integers

\* The words of 32 bits.
Word == SUBSET (0 .. 31)

\* The bits h down to l.
GENMASK(h, l) == l .. h

SETBIT(w, mask) == w \cup mask
CLRBIT(w, mask) == (w \cap 0 .. 31) \ mask

Shifted(w, offst) == {b + offst : b \in w}

\* Slip: the old value of the field shows through.
SETVAL_NoClear(w, value, mask, offst) == w \cup (Shifted(value, offst) \cap mask)

SETVAL(w, value, mask, offst) ==
  CLRBIT(w, mask) \cup (Shifted(value, offst) \cap mask)

GETVAL(w, mask, offst) == {b - offst : b \in w \cap mask}

\* What bit b of a number is worth.
Weight(b) ==
  <<1, 2, 4, 8, 16, 32, 64, 128, 256, 512, 1024, 2048, 4096, 8192, 16384, 32768,
    65536, 131072, 262144, 524288, 1048576, 2097152>>[b + 1]

\* The low 21 bits of a number, and the number of such a word.
Bits(n) == {b \in 0 .. 20 : (n \div Weight(b)) % 2 = 1}

Number(w) ==
  LET Low[k \in 0 .. 21] ==   \* the number of the bits below k
        IF k = 0 THEN 0
        ELSE IF k - 1 \in w THEN Low[k - 1] + Weight(k - 1) ELSE Low[k - 1]
  IN  Low[21]
=============================================================================
