--------------------------------- MODULE U64 ---------------------------------
(* The unsigned 64-bit integers of the program, with the width left as a
   parameter, and the Option type: an absent value is None. *)
EXTENDS Integers

CONSTANTS
  U64Max,  \* the largest value, 2^64 - 1 in the code
  None     \* Option::None

ASSUME U64MaxAssumption == U64Max \in Nat

U64Values == 0..U64Max

Lesser(a, b) == IF a <= b THEN a ELSE b

SaturatingAdd(a, b) == Lesser(a + b, U64Max)

SaturatingMul(a, b) == Lesser(a * b, U64Max)
===============================================================================
