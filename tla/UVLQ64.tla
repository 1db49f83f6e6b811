------------------------------- MODULE UVLQ64 -------------------------------
(***************************************************************************)
(* The sizes in binary chunks (libWexpr/UVLQ64.h): digits of 7 bits, the   *)
(* most significant first, a bit on each but the last.  Radix is 128 in    *)
(* the code.                                                               *)
(***************************************************************************)
EXTENDS Integers, Sequences

CONSTANT Radix    (* values of a digit of a size *)

Byte == 0 .. 2 * Radix - 1

(* v2_to_7, v2_to_14, ...: the first value too large for n digits.          *)
Power[n \in 0 .. 10] == IF n = 0 THEN 1 ELSE Power[n - 1] * Radix

(* Mutant: the first value too large for n digits is written in n digits. *)
bytesizeOneLate(value) ==
  CHOOSE n \in 1 .. 10 :
    /\ n = 10 \/ value <= Power[n]
    /\ n = 1 \/ value > Power[n - 1]

(* wexpr_uvlq64_bytesize: the first power that is larger, or ten digits.    *)
bytesize(value) ==
  CHOOSE n \in 1 .. 10 :
    /\ n = 10 \/ value < Power[n]
    /\ n = 1 \/ value >= Power[n - 1]

(* wexpr_uvlq64_write: every digit but the last carries the bit. *)
uvlq64(value) ==
  LET n == bytesize(value) IN
  [j \in 1 .. n |-> (IF j < n THEN Radix ELSE 0) + ((value \div Power[n - j]) % Radix)]
=============================================================================
