------------------------------ MODULE Division ------------------------------
(***************************************************************************)
(* __umoddi3 and __udivdi3 of lib/math.c, called for every division of a   *)
(* uint64_t: long division, bit by bit.  Here a uint64_t has BITS bits.    *)
(***************************************************************************)
EXTENDS Naturals

CONSTANT BITS

ASSUME BitsAssumption == BITS \in Nat \ {0}

UINT64 == 2 ^ BITS

(* Bit i of n is brought down to the remainder, which loses its top bit.    *)
Extended(n, r, i) == ((2 * r) % UINT64) + ((n \div 2 ^ i) % 2)

DivStep(n, base, s, i) ==
  LET r == Extended(n, s.remain, i) IN
  IF r >= base THEN [remain |-> r - base, result |-> s.result + 2 ^ i] ELSE [s EXCEPT !.remain = r]

(* After the k highest bits *)
LongDivision(n, base) ==
  LET after[k \in 0 .. BITS] ==
        IF k = 0 THEN [remain |-> 0, result |-> 0] ELSE DivStep(n, base, after[k - 1], BITS - k)
  IN  after[BITS]

umoddi3(n, base) == IF base = 0 THEN 0 ELSE IF n < base THEN n ELSE LongDivision(n, base).remain
udivdi3(n, base) == IF base = 0 THEN UINT64 - 1 ELSE IF n < base THEN 0 ELSE LongDivision(n, base).result
=============================================================================
