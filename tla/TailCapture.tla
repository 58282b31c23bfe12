----------------------------- MODULE TailCapture ------------------------------
(* What a captured output stream promises: of everything written to it the *)
(* last bytes are kept, as many as fit, and the total is counted.          *)
EXTENDS Integers, Sequences

CONSTANT Writes     \* the sequences of bytes that may be written

VARIABLES input,    \* the last write
          cap,      \* how many bytes are kept
          tail,     \* the bytes kept
          total     \* how many bytes were written

TailInit == input = << >> /\ tail = << >> /\ total = 0

Least(a, b) == IF a < b THEN a ELSE b

LastOf(s, k) == SubSeq(s, Len(s) - k + 1, Len(s))

Accept(p) == /\ input' = p
             /\ total' = total + Len(p)
             /\ tail' = LastOf(tail \o p, Least(Len(tail) + Len(p), cap))
             /\ cap' = cap

TailSpec == TailInit /\ [][\E p \in Writes : Accept(p)]_<<input, cap, tail, total>>
===============================================================================
