-------------------------------- MODULE Int64 --------------------------------
(* Go's int, int64 and time.Duration: integers of 64 bits that wrap around. *)
EXTENDS Integers

CONSTANT HalfRange  \* 2^63 in the program

Int64s == -HalfRange .. HalfRange - 1

Wrap(x) == ((x + HalfRange) % (2 * HalfRange)) - HalfRange
=============================================================================
