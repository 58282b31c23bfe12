----------------------------- MODULE CappedWriter -----------------------------
(***************************************************************************)
(* internal/executil/run_command.go, cappedWriter: the ring buffer behind  *)
(* a command's stdout and stderr.  It keeps the last capBytes bytes        *)
(* written, however the command's output is cut into writes.               *)
(*                                                                         *)
(* Every method runs under w.mu, so a Write is one step.  Sequences of     *)
(* TLA+ count from 1, the buffer from 0 as in the code.                    *)
(***************************************************************************)
EXTENDS Integers, Sequences

CONSTANTS Byte,         \* the bytes a command may print
          Zero,         \* what make([]byte, n) fills a buffer with
          MinCap,       \* MinOutputBytes
          MaxCap,       \* HardMaxOutputBytes
          Requested,    \* arguments of newCappedWriter
          MaxWrite,     \* bound on the length of one write
          MaxTotal      \* bound on what is written altogether

ASSUME WriterAssumption ==
    /\ Zero \in Byte
    /\ MinCap \in Nat \ {0} /\ MaxCap \in Nat /\ MinCap <= MaxCap
    /\ Requested \subseteq Int
    /\ MaxWrite \in Nat /\ MaxTotal \in Nat

VARIABLES input,        \* the bytes of the last Write
          capBytes, buf, start, n, total, truncated

vars == <<input, capBytes, buf, start, n, total, truncated>>

Clamped(requested) ==
    IF requested < MinCap THEN MinCap
    ELSE IF requested > MaxCap THEN MaxCap ELSE requested

Init == /\ \E requested \in Requested : capBytes = Clamped(requested)
        /\ input = << >>
        /\ buf = [i \in 0 .. capBytes - 1 |-> Zero]
        /\ start = 0
        /\ n = 0
        /\ total = 0
        /\ truncated = FALSE

(* Faulty variant: the wrapped part of a write is lost. *)
CopiedFlat(p, end) ==
    [i \in 0 .. capBytes - 1 |->
        IF i >= end /\ i - end < Len(p) THEN p[i - end + 1] ELSE buf[i]]

(* The buffer with p copied to it from place end on, wrapping around. *)
Copied(p, end) ==
    [i \in 0 .. capBytes - 1 |->
        LET offset == (i - end + capBytes) % capBytes
        IN  IF offset < Len(p) THEN p[offset + 1] ELSE buf[i]]

(* A write that fills the buffer by itself replaces its contents. *)
WriteAll(p) ==
    /\ Len(p) >= capBytes
    /\ total' = total + Len(p)
    /\ buf' = [i \in 0 .. capBytes - 1 |-> p[Len(p) - capBytes + i + 1]]
    /\ start' = 0
    /\ n' = capBytes
    /\ truncated' = TRUE
    /\ UNCHANGED capBytes

Dropped(p) == IF n + Len(p) > capBytes THEN n + Len(p) - capBytes ELSE 0

(* A smaller one drops what it has to from the front and is appended; an   *)
(* empty one changes nothing.                                              *)
Place(p, begin, flag) ==
    /\ Len(p) < capBytes
    /\ total' = total + Len(p)
    /\ start' = begin
    /\ n' = n - Dropped(p) + Len(p)
    /\ buf' = Copied(p, (begin + n - Dropped(p)) % capBytes)
    /\ truncated' = flag
    /\ UNCHANGED capBytes

(* Faulty variants: start runs out of the buffer; a loss goes unnoticed. *)
WriteUnwrapped(p) == Place(p, start + Dropped(p), truncated \/ Dropped(p) > 0)
WriteSilently(p) == Place(p, (start + Dropped(p)) % capBytes, truncated)

WriteSome(p) ==
    Place(p, (start + Dropped(p)) % capBytes, truncated \/ Dropped(p) > 0)

Write(p) == WriteAll(p) \/ WriteSome(p)

Writes == UNION {[1 .. k -> Byte] : k \in 0 .. MaxWrite}

Next == \E p \in Writes : /\ total + Len(p) <= MaxTotal
                          /\ input' = p
                          /\ Write(p)

Spec == Init /\ [][Next]_vars

(* Bytes(): in one piece, or in two if the contents wrap around. *)
Bytes == IF start + n <= capBytes
         THEN [i \in 1 .. n |-> buf[start + i - 1]]
         ELSE [i \in 1 .. capBytes - start |-> buf[start + i - 1]]
              \o [i \in 1 .. n - (capBytes - start) |-> buf[i - 1]]

-------------------------------------------------------------------------------
(* The state has its types, and every index stays inside the buffer. *)
TypeOK == /\ input \in Seq(Byte)
          /\ capBytes \in MinCap .. MaxCap
          /\ buf \in [0 .. capBytes - 1 -> Byte]
          /\ start \in 0 .. capBytes - 1
          /\ n \in 0 .. capBytes
          /\ total \in Nat
          /\ truncated \in BOOLEAN

(* Output that is missing from the result is announced: if not everything  *)
(* that was written is still there, the truncated flag is set.             *)
LossIsAnnounced == total > n => truncated

(* "Keep the last capBytes bytes written across all writes": the ring is   *)
(* the plain tail of the stream.                                           *)
Stream == INSTANCE TailCapture WITH tail <- Bytes, cap <- capBytes

KeepsTheTail == Stream!TailSpec

(* The truncated flag is set only if something was dropped ("if we would   *)
(* exceed capacity").                                                      *)
NoFalseAlarm == truncated => total > n
===============================================================================
