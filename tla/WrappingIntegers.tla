-------------------------- MODULE WrappingIntegers --------------------------
(***************************************************************************)
(* libsponge/wrapping_integers.{hh,cc}: the 32-bit sequence numbers on the *)
(* wire and the 64-bit absolute sequence numbers used inside the stack.    *)
(* A WrappingInt32 is a number in 0 .. Mod32-1, a uint64_t is a number in  *)
(* 0 .. Mod64-1, and unsigned arithmetic is written with % where the code  *)
(* lets it wrap around.  In the program Mod32 = 2^32 and Mod64 = 2^64.     *)
(***************************************************************************)
EXTENDS Integers

CONSTANTS Mod32,   \* number of wire sequence numbers
          Mod64    \* number of absolute sequence numbers

ASSUME ModAssumption ==
  /\ Mod32 \in Nat \ {0}
  /\ Mod64 \in Nat
  /\ Mod64 >= 2 * Mod32
  /\ Mod64 % Mod32 = 0

Seqno    == 0 .. Mod32 - 1
AbsSeqno == 0 .. Mod64 - 1

\* As wrap, without the final reduction
wrap_Unreduced(n, isn) == (n % Mod32) + isn

\* wrap: the wire number of the absolute number n
wrap(n, isn) == ((n % Mod32) + isn) % Mod32

\* |a - b| as the code computes it on unsigned operands
distance(a, b) == IF a > b THEN a - b ELSE b - a

\* As unwrap, for a checkpoint that is never below steps
unwrap_NoUnderflow(n, isn, checkpoint) ==
  LET steps == (n + Mod32 - isn) % Mod32
      prev  == ((checkpoint - steps) % Mod64) \div Mod32
      a     == steps + prev * Mod32
  IN  IF distance(checkpoint, a) < distance(checkpoint, a + Mod32) THEN a ELSE a + Mod32

\* The 64-bit number that wraps to n and lies closest to checkpoint.  The
\* subtraction checkpoint - steps wraps around when checkpoint < steps; then
\* prev is the last multiple of Mod32 and from_next wraps back to steps.
unwrap(n, isn, checkpoint) ==
  LET steps     == (n + Mod32 - isn) % Mod32
      prev      == ((checkpoint - steps) % Mod64) \div Mod32
      from_prev == (steps + prev * Mod32) % Mod64
      from_next == (steps + (prev + 1) * Mod32) % Mod64
  IN  IF distance(checkpoint, from_prev) < distance(checkpoint, from_next)
      THEN from_prev
      ELSE from_next

\* operator+ and operator- of a WrappingInt32 and an unsigned number
plus(a, b)  == (a + b) % Mod32
minus(a, b) == (a - b) % Mod32
=============================================================================
