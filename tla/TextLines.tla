----------------------------- MODULE TextLines -----------------------------
(* How the text tools see a file: lines, the kind of newline, whether the   *)
(* file ended with one; and how they find a block of lines in it. A text is *)
(* a sequence of characters, of which "LF", "CR" and "SP" matter. Lines are *)
(* counted from 1, as in the tools' answers.                                *)
EXTENDS Naturals, SequencesExt

Upto(s, n) == SubSeq(s, 1, n)
From(s, n) == SubSeq(s, n, Len(s))
Last1(s) == IF s = <<>> THEN "none" ELSE Last(s)

CRLFtoLF(s) ==
  FoldLeft(LAMBDA t, c : IF c = "LF" /\ Last1(t) = "CR" THEN Append(Front(t), c)
                         ELSE Append(t, c), <<>>, s)
CRtoLF(s) == [i \in DOMAIN s |-> IF s[i] = "CR" THEN "LF" ELSE s[i]]

Split(s) ==
  FoldLeft(LAMBDA lines, c : IF c = "LF" THEN Append(lines, <<>>)
                             ELSE Append(Front(lines), Append(Last(lines), c)),
           << <<>> >>, s)
Join(lines, sep) ==
  IF lines = <<>> THEN <<>>
  ELSE FoldLeft(LAMBDA s, l : s \o sep \o l, Head(lines), Tail(lines))

HasCRLF(s) == \E i \in 1..(Len(s) - 1) : s[i] = "CR" /\ s[i + 1] = "LF"

(* ReadTextFileUTF8. In a file with CRLF a lone CR stays where it is, in    *)
(* another it ends a line.                                                  *)
Parse(s) ==
  LET crlf == HasCRLF(s)
      norm == IF crlf THEN CRLFtoLF(s) ELSE CRtoLF(s)
      final == Last1(norm) = "LF"
      body == IF final THEN Front(norm) ELSE norm
  IN [ crlf |-> crlf, final |-> final,
       lines |-> IF body = <<>> /\ ~final THEN <<>> ELSE Split(body) ]

Sep(crlf) == IF crlf THEN <<"CR", "LF">> ELSE <<"LF">>

Render(t) ==
  LET sep == Sep(t.crlf)
      end == IF t.final THEN sep ELSE <<>>
  IN Join(t.lines, sep) \o end

TrimRightLF(s) == Upto(s, Max({0} \cup {i \in DOMAIN s : s[i] # "LF"}))

NormalizeLineBlockInput(in) ==
  FlattenSeq([i \in DOMAIN in |-> Split(TrimRightLF(CRtoLF(CRLFtoLF(in[i]))))])

Space == {"SP", "CR", "LF"}
TrimSpace(s) ==
  LET ink == {i \in DOMAIN s : s[i] \notin Space}
  IN IF ink = {} THEN <<>> ELSE SubSeq(s, Min(ink), Max(ink))
GetTrimmedLines(lines) == [i \in DOMAIN lines |-> TrimSpace(lines[i])]

IsBlockEqualsAt(haystack, needle, start) ==
  /\ start >= 1 /\ (start + Len(needle)) - 1 <= Len(haystack)
  /\ \A j \in DOMAIN needle : haystack[(start + j) - 1] = needle[j]

(* Faulty variant: what follows is looked for one line further down. *)
AdjacentBelow(tLines, tBefore, tMatch, tAfter, i) ==
  /\ IsBlockEqualsAt(tLines, tMatch, i)
  /\ tBefore # <<>> => i > Len(tBefore) /\ IsBlockEqualsAt(tLines, tBefore, i - Len(tBefore))
  /\ tAfter # <<>> => IsBlockEqualsAt(tLines, tAfter, i + Len(tMatch) + 1)

AdjacentAt(tLines, tBefore, tMatch, tAfter, i) ==
  /\ IsBlockEqualsAt(tLines, tMatch, i)
  /\ tBefore # <<>> => i > Len(tBefore) /\ IsBlockEqualsAt(tLines, tBefore, i - Len(tBefore))
  /\ tAfter # <<>> => IsBlockEqualsAt(tLines, tAfter, i + Len(tMatch))

(* A search goes through the lines and notes those that it is for, S.       *)
InOrder(S, lines) ==
  FoldLeftDomain(LAMBDA found, i : IF i \in S THEN Append(found, i) ELSE found, <<>>, lines)

FindTrimmedAdjacentBlockMatches(lines, before, match, after) ==
  LET t == GetTrimmedLines(lines)
      b == GetTrimmedLines(before)
      m == GetTrimmedLines(match)
      a == GetTrimmedLines(after)
  IN IF match = <<>> THEN <<>>
     ELSE InOrder({i \in DOMAIN lines : AdjacentAt(t, b, m, a, i)}, lines)

FindTrimmedBlockMatches(lines, block) ==
  FindTrimmedAdjacentBlockMatches(lines, <<>>, block, <<>>)

EnsureNonOverlapping(idxs, width) ==
  \A k \in 1..(Len(idxs) - 1) : idxs[k] + width <= idxs[k + 1]

(* replaceLinesSlice; a deletion puts nothing in. *)
ReplaceLinesSlice(lines, start, width, repl) ==
  Upto(lines, start - 1) \o repl \o From(lines, start + width)

(* From the end, so that the places found before stay right. *)
ReplaceMatches(lines, idxs, width, repl) ==
  FoldLeft(LAMBDA ls, i : ReplaceLinesSlice(ls, i, width, repl), lines, Reverse(idxs))

InsertLines(lines, at, new) == Upto(lines, at - 1) \o new \o From(lines, at)
----------------------------------------------------------------------------
(* What finding, replacing and writing promise, said without the loops.     *)

(* Where block is, with before and after around it. *)
Places(lines, before, block, after) ==
  LET all == GetTrimmedLines(before \o block \o after)
      trimmed == GetTrimmedLines(lines)
  IN {p \in DOMAIN lines : /\ p > Len(before)
                           /\ LET q == p - Len(before)
                              IN /\ (q + Len(all)) - 1 <= Len(lines)
                                 /\ SubSeq(trimmed, q, (q + Len(all)) - 1) = all}

(* The lines once the blocks of width w at the places P have become repl,   *)
(* said line by line.                                                       *)
Replaced(lines, P, w, repl) ==
  FlattenSeq([i \in DOMAIN lines |->
    IF i \in P THEN repl
    ELSE IF \E p \in P : p < i /\ i < p + w THEN <<>> ELSE << lines[i] >>])

(* Lines that a text file with the newline and the end of t cannot hold. *)
Unwritable(t, lines) ==
  \/ lines = <<>> /\ t.final
  \/ lines # <<>> /\ Last(lines) = <<>> /\ ~t.final
  \/ Len(lines) <= 1 /\ t.crlf /\ ~t.final
===========================================================================
