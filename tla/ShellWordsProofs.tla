-------------------------- MODULE ShellWordsProofs --------------------------
(* Proofs about how a command line is quoted and how it is read again: a    *)
(* line that is made by quoting words is one segment of these words to the  *)
(* filter, for all words (QuotedLines). The argument goes through the line  *)
(* word by word and symbol by symbol: what a prefix leaves the two readers  *)
(* in (Reads), and what one more word makes of it. Then a line that is      *)
(* composed of parts: it is judged by the commands that it is composed of   *)
(* (LineJudged), which goes from pieces to words, parts and the line.       *)
EXTENDS CommandLines, TextLinesProofs

MarkNames == {"quote", "escape", "escaped", "plain", "quoted"}
MarkStates == [in : {"none", "'", "DQ"}, esc : BOOLEAN, marks : Seq(MarkNames)]
NoMarks == [in |-> "none", esc |-> FALSE, marks |-> <<>>]

(* The mark of a symbol, and what it leaves the shell in.                   *)
LEMMA MarkSteps ==
  ASSUME NEW d, NEW acc \in MarkStates, NEW c
  PROVE  \E in \in {"none", "'", "DQ"}, esc \in BOOLEAN, m \in MarkNames :
           MarkStep(d, acc, c) = [in |-> in, esc |-> esc, marks |-> Append(acc.marks, m)]
<1> DEFINE escapes == c = Escape(d) /\ (acc.in # "'" \/ d = "cmd")
           quotes == \/ c = "'" /\ d # "cmd" /\ acc.in \in {"none", "'"}
                     \/ c = "DQ" /\ acc.in \in {"none", "DQ"}
           m == IF acc.in = "none" THEN "plain" ELSE "quoted"
           in == IF acc.in = "none" THEN c ELSE "none"
<1>1. acc = [in |-> acc.in, esc |-> acc.esc, marks |-> acc.marks]
  BY DEF MarkStates
<1>2. acc.in \in {"none", "'", "DQ"} /\ acc.esc \in BOOLEAN
  BY DEF MarkStates
<1>3. m \in MarkNames /\ {"escaped", "escape", "quote"} \subseteq MarkNames
  BY DEF MarkNames
<1>4. quotes => in \in {"none", "'", "DQ"}
  OBVIOUS
<1>5. MarkStep(d, acc, c) =
        IF acc.esc THEN [acc EXCEPT !.esc = FALSE, !.marks = Append(@, "escaped")]
        ELSE IF escapes THEN [acc EXCEPT !.esc = TRUE, !.marks = Append(@, "escape")]
        ELSE IF quotes
        THEN [acc EXCEPT !.in = IF @ = "none" THEN c ELSE "none", !.marks = Append(@, "quote")]
        ELSE [acc EXCEPT !.marks = Append(@, IF acc.in = "none" THEN "plain" ELSE "quoted")]
  BY DEF MarkStep
<1> HIDE DEF escapes, quotes
<1>6. CASE acc.esc
  <2>1. MarkStep(d, acc, c) = [in |-> acc.in, esc |-> FALSE, marks |-> Append(acc.marks, "escaped")]
    BY <1>1, <1>5, <1>6
  <2>2. QED
    BY <1>2, <1>3, <2>1
<1>7. CASE ~acc.esc /\ escapes
  <2>1. MarkStep(d, acc, c) = [in |-> acc.in, esc |-> TRUE, marks |-> Append(acc.marks, "escape")]
    BY <1>1, <1>5, <1>7
  <2>2. QED
    BY <1>2, <1>3, <2>1
<1>8. CASE ~acc.esc /\ ~escapes /\ quotes
  <2>1. MarkStep(d, acc, c) = [in |-> in, esc |-> acc.esc, marks |-> Append(acc.marks, "quote")]
    BY <1>1, <1>5, <1>8
  <2>2. QED
    BY <1>2, <1>3, <1>4, <1>8, <2>1
<1>9. CASE ~acc.esc /\ ~escapes /\ ~quotes
  <2>1. MarkStep(d, acc, c) = [in |-> acc.in, esc |-> acc.esc, marks |-> Append(acc.marks, m)]
    BY <1>1, <1>5, <1>9
  <2>2. QED
    BY <1>2, <1>3, <2>1
<1>10. QED
  BY <1>6, <1>7, <1>8, <1>9

(* A symbol makes a state of a state.                                       *)
LEMMA MarkStays ==
  ASSUME NEW d, NEW acc \in MarkStates, NEW c
  PROVE  MarkStep(d, acc, c) \in MarkStates
<1>1. PICK in \in {"none", "'", "DQ"}, esc \in BOOLEAN, m \in MarkNames :
        MarkStep(d, acc, c) = [in |-> in, esc |-> esc, marks |-> Append(acc.marks, m)]
  BY MarkSteps, SMTT(60)
<1>2. Append(acc.marks, m) \in Seq(MarkNames)
  <2>1. acc.marks \in Seq(MarkNames)
    BY DEF MarkStates
  <2>2. QED
    BY <2>1, AppendProperties
<1>3. QED
  BY <1>1, <1>2 DEF MarkStates

(* What the marking of a line goes through.                                 *)
MarksAlong(g, d, s) ==
  /\ g \in [0..Len(s) -> MarkStates] /\ g[0] = NoMarks /\ Marked(s, d) = g[Len(s)]
  /\ \A i \in 1..Len(s) : g[i] = MarkStep(d, g[i - 1], s[i])

(* Marking goes through the line one symbol at a time.                      *)
LEMMA MarkTrace ==
  ASSUME NEW d, NEW C, NEW s \in Seq(C)
  PROVE  \E g : MarksAlong(g, d, s)
<1> DEFINE n == Len(s)
           A == MarkStates
           base == [in |-> "none", esc |-> FALSE, marks |-> <<>>]
           step == [a \in A |-> [i \in 1..n |-> MarkStep(d, a, s[i])]]
           Eq(j) == j = [x \in SUBSET DOMAIN s |->
                           IF x = {} THEN base ELSE MarkStep(d, j[x \ {Max(x)}], s[Max(x)])]
           ch == CHOOSE j : Eq(j)
<1>1. n \in Nat /\ DOMAIN s = 1..n
  BY LenProperties
<1>2. base \in A
  <2>1. <<>> \in Seq(MarkNames)
    BY EmptySeq
  <2>2. QED
    BY <2>1 DEF MarkStates
<1>3. step \in [A -> [1..n -> A]]
  <2> HIDE DEF n
  <2>1. \A a \in A, i \in 1..n : MarkStep(d, a, s[i]) \in A
    BY MarkStays
  <2> HIDE DEF A
  <2>2. QED
    BY <2>1
<1>4. Marked(s, d) = ch[DOMAIN s]
  BY DEF Marked, FoldLeft, MapThenFoldSet
<1> HIDE DEF A, base, n
<1>5. ASSUME NEW a \in A, NEW i \in 1..n PROVE step[a][i] = MarkStep(d, a, s[i])
  BY <1>5
<1> HIDE DEF step
<1>6. PICK it \in [SUBSET (1..n) -> A] : FoldsTo(it, base, step, n)
  BY <1>1, <1>2, <1>3, LeftFold
<1>7. ASSUME NEW x \in SUBSET (1..n), x # {}
      PROVE  Max(x) \in 1..n /\ x \ {Max(x)} \in SUBSET (1..n)
  BY <1>1, <1>7, MaxOf
<1>8. Eq(it)
  <2>1. \A x \in SUBSET (1..n) : x # {} => it[x] = MarkStep(d, it[x \ {Max(x)}], s[Max(x)])
    BY <1>5, <1>6, <1>7 DEF FoldsTo
  <2>2. it[{}] = base
    BY <1>6 DEF FoldsTo
  <2>3. QED
    BY <1>1, <1>6, <2>1, <2>2
<1>9. Eq(ch)
  BY <1>8
<1> HIDE DEF ch
<1>10. Follows(ch, A, base, step, n)
  <2>1. ch[{}] = base
    BY <1>9
  <2>2. \A x \in SUBSET (1..n) : x # {} => ch[x] = MarkStep(d, ch[x \ {Max(x)}], s[Max(x)])
    BY <1>1, <1>9
  <2>3. ASSUME NEW x \in SUBSET (1..n), x # {}, ch[x \ {Max(x)}] \in A
        PROVE  ch[x] = step[ch[x \ {Max(x)}]][Max(x)]
    BY <1>5, <1>7, <2>2, <2>3
  <2>4. QED
    BY <2>1, <2>3 DEF Follows
<1>11. Yields(A, base, step, n, ch[1..n])
  BY <1>1, <1>2, <1>3, <1>10, ChosenFold
<1>12. PICK g : GoesThrough(g, A, base, step, n) /\ g[n] = ch[1..n]
  BY <1>11 DEF Yields
<1>13. \A i \in 1..n : g[i - 1] \in A /\ g[i] = step[g[i - 1]][i]
  BY <1>1, <1>12 DEF GoesThrough
<1>14. \A i \in 1..n : g[i] = MarkStep(d, g[i - 1], s[i])
  BY <1>5, <1>13
<1>15. QED
  BY <1>1, <1>4, <1>12, <1>14, ZenonT(60) DEF GoesThrough, MarksAlong, NoMarks, n, A, base

(* A symbol more is a step more.                                            *)
LEMMA MarkedAppend ==
  ASSUME NEW d, NEW C, NEW s \in Seq(C), NEW c \in C
  PROVE  Marked(Append(s, c), d) = MarkStep(d, Marked(s, d), c) /\ Marked(s, d) \in MarkStates
<1> DEFINE n == Len(s)
           t == Append(s, c)
<1>0. t \in Seq(C)
  BY AppendProperties
<1>1. n \in Nat /\ Len(t) = n + 1 /\ t[n + 1] = c /\ \A i \in 1..n : t[i] = s[i]
  BY AppendProperties, LenProperties
<1> HIDE DEF t
<1>2. PICK g : MarksAlong(g, d, s)
  BY MarkTrace
<1>3. PICK h : MarksAlong(h, d, t)
  BY <1>0, MarkTrace
<1>4. \A i \in 1..n : g[i - 1] = h[i - 1] => g[i] = h[i]
  BY <1>1, <1>2, <1>3 DEF MarksAlong
<1>5. Alike(g, h, n)
  BY <1>2, <1>3, <1>4 DEF Alike, MarksAlong
<1>6. g[n] = h[n]
  BY <1>1, <1>5, SameTrace
<1>7. n + 1 \in 1..(n + 1) /\ (n + 1) - 1 = n
  BY <1>1
<1>8. h[n + 1] = MarkStep(d, h[n], c)
  BY <1>1, <1>3, <1>7 DEF MarksAlong
<1>9. g[n] \in MarkStates
  BY <1>1, <1>2 DEF MarksAlong
<1>10. QED
  BY <1>1, <1>2, <1>3, <1>6, <1>8, <1>9 DEF t, n, MarksAlong

----------------------------------------------------------------------------
(* Words and a word that is not yet ended.                                  *)
FieldStates(C) == [words : Seq(Seq(C)), word : Seq(C)]
NoFields == [words |-> <<>>, word |-> <<>>]

(* The words of a line with these marks, the last one open.                 *)
Fielded(mark, s) ==
  FoldLeftDomain(LAMBDA acc, i : FieldStep(acc, mark[i], s[i]), NoFields, s)

(* What ends a word, and a symbol, make words of words.                     *)
LEMMA FieldSteps ==
  ASSUME NEW C, NEW acc \in FieldStates(C), NEW m, NEW c \in C
  PROVE  Flush(acc) \in FieldStates(C) /\ FieldStep(acc, m, c) \in FieldStates(C)
<1>1. acc.words \in Seq(Seq(C)) /\ acc.word \in Seq(C)
  BY DEF FieldStates
<1>2. <<>> \in Seq(C) /\ Append(acc.words, acc.word) \in Seq(Seq(C)) /\ Append(acc.word, c) \in Seq(C)
  BY <1>1, AppendProperties, EmptySeq
<1>3. acc = [words |-> acc.words, word |-> acc.word]
  BY DEF FieldStates
<1>4. Flush(acc) \in FieldStates(C)
  BY <1>2 DEF Flush, FieldStates
<1>5. [words |-> acc.words, word |-> Append(acc.word, c)] \in FieldStates(C)
  BY <1>1, <1>2, <1>3 DEF FieldStates
<1>6. QED
  BY <1>4, <1>5 DEF FieldStep

(* What the splitting of a line into words goes through.                    *)
FieldsAlong(g, mark, s, C) ==
  /\ g \in [0..Len(s) -> FieldStates(C)] /\ g[0] = NoFields /\ Fielded(mark, s) = g[Len(s)]
  /\ \A i \in 1..Len(s) : g[i] = FieldStep(g[i - 1], mark[i], s[i])

(* The words are made one symbol at a time.                                 *)
LEMMA FieldTrace ==
  ASSUME NEW mark, NEW C, NEW s \in Seq(C)
  PROVE  \E g : FieldsAlong(g, mark, s, C)
<1> DEFINE n == Len(s)
           q == [i \in DOMAIN s |-> i]
           A == FieldStates(C)
           base == NoFields
           step == [a \in A |-> [i \in 1..n |-> FieldStep(a, mark[i], s[i])]]
           Eq(j) == j = [x \in SUBSET DOMAIN q |->
                           IF x = {} THEN base
                           ELSE FieldStep(j[x \ {Max(x)}], mark[q[Max(x)]], s[q[Max(x)]])]
           ch == CHOOSE j : Eq(j)
<1>1. n \in Nat /\ DOMAIN s = 1..n /\ \A i \in 1..n : s[i] \in C
  BY LenProperties, ElementOfSeq
<1>2. base \in A
  <2>1. <<>> \in Seq(C) /\ <<>> \in Seq(Seq(C))
    BY EmptySeq
  <2>2. QED
    BY <2>1 DEF FieldStates, NoFields
<1>3. step \in [A -> [1..n -> A]]
  <2> HIDE DEF n
  <2>1. \A a \in A, i \in 1..n : FieldStep(a, mark[i], s[i]) \in A
    BY <1>1, FieldSteps
  <2> HIDE DEF A
  <2>2. QED
    BY <2>1
<1>4. Fielded(mark, s) = ch[DOMAIN q]
  BY DEF Fielded, FoldLeftDomain, FoldLeft, MapThenFoldSet
<1>0. DOMAIN q = 1..n /\ \A i \in 1..n : q[i] = i
  BY <1>1
<1> HIDE DEF A, base, n, q
<1>5. ASSUME NEW a \in A, NEW i \in 1..n PROVE step[a][i] = FieldStep(a, mark[i], s[i])
  BY <1>5
<1> HIDE DEF step
<1>6. PICK it \in [SUBSET (1..n) -> A] : FoldsTo(it, base, step, n)
  BY <1>1, <1>2, <1>3, LeftFold
<1>7. ASSUME NEW x \in SUBSET (1..n), x # {}
      PROVE  Max(x) \in 1..n /\ x \ {Max(x)} \in SUBSET (1..n) /\ q[Max(x)] = Max(x)
  BY <1>0, <1>1, <1>7, MaxOf
<1>8. Eq(it)
  <2>1. \A x \in SUBSET (1..n) : x # {} =>
          it[x] = FieldStep(it[x \ {Max(x)}], mark[q[Max(x)]], s[q[Max(x)]])
    BY <1>5, <1>6, <1>7 DEF FoldsTo
  <2>2. it[{}] = base
    BY <1>6 DEF FoldsTo
  <2>3. QED
    BY <1>0, <1>6, <2>1, <2>2
<1>9. Eq(ch)
  BY <1>8
<1> HIDE DEF ch
<1>10. Follows(ch, A, base, step, n)
  <2>1. ch[{}] = base
    BY <1>9
  <2>2. \A x \in SUBSET (1..n) : x # {} =>
          ch[x] = FieldStep(ch[x \ {Max(x)}], mark[q[Max(x)]], s[q[Max(x)]])
    BY <1>0, <1>9
  <2>3. ASSUME NEW x \in SUBSET (1..n), x # {}, ch[x \ {Max(x)}] \in A
        PROVE  ch[x] = step[ch[x \ {Max(x)}]][Max(x)]
    <3>1. Max(x) \in 1..n /\ q[Max(x)] = Max(x)
      BY <1>7, <2>3
    <3>2. step[ch[x \ {Max(x)}]][Max(x)] = FieldStep(ch[x \ {Max(x)}], mark[Max(x)], s[Max(x)])
      BY <1>5, <2>3, <3>1, Zenon
    <3>3. ch[x] = FieldStep(ch[x \ {Max(x)}], mark[q[Max(x)]], s[q[Max(x)]])
      BY <2>2, <2>3, Zenon
    <3>4. QED
      BY <3>1, <3>2, <3>3
  <2>4. QED
    BY <2>1, <2>3 DEF Follows
<1>11. Yields(A, base, step, n, ch[1..n])
  BY <1>1, <1>2, <1>3, <1>10, ChosenFold
<1>12. PICK g : GoesThrough(g, A, base, step, n) /\ g[n] = ch[1..n]
  BY <1>11 DEF Yields
<1>13. \A i \in 1..n : g[i - 1] \in A /\ g[i] = step[g[i - 1]][i]
  BY <1>1, <1>12 DEF GoesThrough
<1>14. \A i \in 1..n : g[i] = FieldStep(g[i - 1], mark[i], s[i])
  BY <1>5, <1>13
<1>15. QED
  BY <1>0, <1>1, <1>4, <1>12, <1>14 DEF GoesThrough, FieldsAlong, n, A, base

(* A symbol more is a step more, whatever the marks after it.               *)
LEMMA FieldedAppend ==
  ASSUME NEW C, NEW s \in Seq(C), NEW c \in C, NEW mark, NEW more,
         \A i \in 1..Len(s) : more[i] = mark[i]
  PROVE  /\ Fielded(mark, s) \in FieldStates(C)
         /\ Fielded(more, Append(s, c)) = FieldStep(Fielded(mark, s), more[Len(s) + 1], c)
<1> DEFINE n == Len(s)
           t == Append(s, c)
<1>0. t \in Seq(C)
  BY AppendProperties
<1>1. n \in Nat /\ Len(t) = n + 1 /\ t[n + 1] = c /\ \A i \in 1..n : t[i] = s[i]
  BY AppendProperties, LenProperties
<1> HIDE DEF t
<1>2. PICK g : FieldsAlong(g, mark, s, C)
  BY FieldTrace
<1>3. PICK h : FieldsAlong(h, more, t, C)
  BY <1>0, FieldTrace
<1>4. \A i \in 1..n : g[i - 1] = h[i - 1] => g[i] = h[i]
  BY <1>1, <1>2, <1>3 DEF FieldsAlong
<1>5. Alike(g, h, n)
  BY <1>2, <1>3, <1>4 DEF Alike, FieldsAlong
<1>6. g[n] = h[n]
  BY <1>1, <1>5, SameTrace
<1>7. n + 1 \in 1..(n + 1) /\ (n + 1) - 1 = n
  BY <1>1
<1>8. h[n + 1] = FieldStep(h[n], more[n + 1], c)
  BY <1>1, <1>3, <1>7 DEF FieldsAlong
<1>9. g[n] \in FieldStates(C)
  BY <1>1, <1>2 DEF FieldsAlong
<1>10. QED
  BY <1>1, <1>2, <1>3, <1>6, <1>8, <1>9 DEF t, n, FieldsAlong
----------------------------------------------------------------------------
(* A sequence, element by element through f.                                *)
Mapped(f, s) == [i \in DOMAIN s |-> f[s[i]]]

(* Through f, e comes to the end of s.                                      *)
MapsMore(f, s, e) == Mapped(f, Append(s, e)) = Append(Mapped(f, s), f[e])

(* Elements come to the end of both.                                        *)
LEMMA MapAppend ==
  ASSUME NEW C, NEW D, NEW f \in [C -> D], NEW s \in Seq(C), NEW e \in C
  PROVE  Mapped(f, s) \in Seq(D) /\ MapsMore(f, s, e)
<1> DEFINE n == Len(s)
           t == Append(s, e)
           old == Mapped(f, s)
           new == Mapped(f, t)
           b == f[e]
<1>1. /\ n \in Nat /\ DOMAIN s = 1..n /\ \A i \in 1..n : s[i] \in C
      /\ DOMAIN t = 1..(n + 1) /\ t[n + 1] = e /\ \A i \in 1..n : t[i] = s[i]
  BY AppendProperties, LenProperties, ElementOfSeq
<1> HIDE DEF t, n
<1>2. /\ old = [i \in 1..n |-> f[s[i]]] /\ new = [i \in 1..(n + 1) |-> f[t[i]]]
      /\ b \in D
  BY <1>1 DEF Mapped
<1> HIDE DEF old, new, b
<1>3. old \in [1..n -> D] /\ \A i \in 1..n : old[i] = f[s[i]] /\ f[s[i]] \in D
  BY <1>1, <1>2
<1>4. old \in Seq(D) /\ Len(old) = n
  BY <1>1, <1>3, IsASeq, LenProperties
<1>5. \A i \in 1..(n + 1) : i \in 1..n \/ i = n + 1
  BY <1>1
<1>6. \A i \in 1..(n + 1) : new[i] = f[t[i]] /\ f[t[i]] \in D
  BY <1>1, <1>2, <1>3, <1>5
<1>7. new \in Seq(D) /\ Len(new) = n + 1
  <2>1. new \in [1..(n + 1) -> D]
    BY <1>2, <1>6
  <2>2. QED
    BY <1>1, <2>1, IsASeq, LenProperties
<1>8. /\ Append(old, b) \in Seq(D) /\ Len(Append(old, b)) = n + 1 /\ Append(old, b)[n + 1] = b
      /\ \A i \in 1..n : Append(old, b)[i] = old[i]
  <2>1. old \in Seq(D) /\ b \in D /\ Len(old) = n
    BY <1>2, <1>4
  <2>2. QED
    BY <2>1, AppendProperties
<1>9. \A i \in 1..(n + 1) : new[i] = Append(old, b)[i]
  <2>1. \A i \in 1..n : new[i] = old[i]
    BY <1>1, <1>3, <1>6
  <2>2. new[n + 1] = b /\ n + 1 \in 1..(n + 1)
    BY <1>1, <1>6 DEF b
  <2>3. QED
    BY <1>5, <1>8, <2>1, <2>2
<1>10. new = Append(old, b)
  BY <1>7, <1>8, <1>9, SeqEqual
<1>11. QED
  BY <1>4, <1>10 DEF old, new, t, b, MapsMore

(* e goes to what is left of s without x, unless it is x.                   *)
Leaves(x, s, e) ==
  Without(x, Append(s, e)) = IF e = x THEN Without(x, s) ELSE Append(Without(x, s), e)

(* What is left of a sequence without x, as elements come.                  *)
LEMMA WithoutMore ==
  ASSUME NEW C, NEW x, NEW s \in Seq(C), NEW e \in C
  PROVE  Without(x, s) \in Seq(C) /\ Leaves(x, s, e)
<1> DEFINE f == [y \in C |-> IF y = x THEN <<>> ELSE <<y>>]
           t == Append(s, e)
           b == f[e]
<1>1. f \in [C -> Seq(C)]
  BY EmptySeq, Single
<1>2. t \in Seq(C) /\ b \in Seq(C)
  BY <1>1, AppendProperties
<1>3. ASSUME NEW u \in Seq(C) PROVE Without(x, u) = FlattenSeq(Mapped(f, u))
  <2>1. \A i \in DOMAIN u : f[u[i]] = IF u[i] = x THEN <<>> ELSE <<u[i]>>
    BY ElementOfSeq, LenProperties
  <2> HIDE DEF f
  <2>2. Mapped(f, u) = [i \in DOMAIN u |-> IF u[i] = x THEN <<>> ELSE <<u[i]>>]
    BY <2>1 DEF Mapped
  <2>3. QED
    BY <2>2 DEF Without
<1>4. b = IF e = x THEN <<>> ELSE <<e>>
  OBVIOUS
<1> HIDE DEF f, t, b
<1>5. Mapped(f, s) \in Seq(Seq(C)) /\ MapsMore(f, s, e)
  BY <1>1, MapAppend
<1>6. FlattenSeq(Mapped(f, t)) = FlattenSeq(Mapped(f, s)) \o b
  BY <1>2, <1>5, FlattenAppend DEF MapsMore, t, b
<1> DEFINE m == FlattenSeq(Mapped(f, s))
<1>7. m \in Seq(C)
  BY <1>5, FlattenSeqs
<1>8. Without(x, s) = m /\ Without(x, t) = m \o b
  BY <1>2, <1>3, <1>6
<1> HIDE DEF m
<1>9. Without(x, t) = IF e = x THEN m ELSE Append(m, e)
  BY <1>4, <1>7, <1>8
<1>10. QED
  BY <1>7, <1>8, <1>9 DEF t, Leaves

(* One that is not x stays; none are none.                                  *)
LEMMA WithoutOne ==
  ASSUME NEW x, NEW e
  PROVE  Without(x, <<>>) = <<>> /\ (e # x => Without(x, <<e>>) = <<e>>)
<1> DEFINE none == << >>
           D == {e}
<1>1. none \in Seq(D) /\ DOMAIN none = {} /\ e \in D /\ Append(none, e) = <<e>>
  OBVIOUS
<1>2. Without(x, <<>>) = <<>>
  <2>1. [i \in DOMAIN none |-> IF none[i] = x THEN <<>> ELSE <<none[i]>>] = <<>>
    OBVIOUS
  <2>2. Without(x, none) = FlattenSeq([i \in DOMAIN none |-> IF none[i] = x THEN <<>> ELSE <<none[i]>>])
    BY DEF Without
  <2> HIDE DEF none
  <2>3. Without(x, none) = <<>>
    BY <2>1, <2>2, FlattenEmpty
  <2>4. QED
    BY <2>3 DEF none
<1> HIDE DEF none, D
<1>3. e # x => Without(x, Append(none, e)) = Append(Without(x, none), e)
  <2>1. none \in Seq(D) /\ e \in D
    BY <1>1
  <2>2. Leaves(x, none, e)
    BY <2>1, WithoutMore, Zenon
  <2>3. QED
    BY <2>2 DEF Leaves
<1>4. QED
  BY <1>1, <1>2, <1>3 DEF none

(* A text that has its ink from lo to hi.                                   *)
LEMMA TrimOf ==
  ASSUME NEW C, NEW s \in Seq(C), NEW lo \in 1..Len(s), NEW hi \in 1..Len(s),
         s[lo] \notin Space, s[hi] \notin Space,
         \A i \in 1..Len(s) : s[i] \notin Space => lo <= i /\ i <= hi
  PROVE  TrimSpace(s) = SubSeq(s, lo, hi)
<1> DEFINE ink == {i \in DOMAIN s : s[i] \notin Space}
<1>1. Len(s) \in Nat /\ DOMAIN s = 1..Len(s)
  BY LenProperties
<1>2. lo \in ink /\ hi \in ink /\ (\A i \in ink : lo <= i /\ i <= hi) /\ ink \subseteq Int
      /\ lo \in Int /\ hi \in Int
  BY <1>1
<1>3. TrimSpace(s) = IF ink = {} THEN <<>> ELSE SubSeq(s, Min(ink), Max(ink))
  BY DEF TrimSpace
<1> HIDE DEF ink
<1>4. Min(ink) = lo
  <2>1. Min(ink) \in ink /\ \A i \in ink : Min(ink) <= i
    BY <1>2 DEF Min
  <2>2. Min(ink) <= lo /\ lo <= Min(ink) /\ Min(ink) \in Int /\ lo \in Int
    BY <1>1, <1>2, <2>1, Zenon
  <2>3. QED
    BY <2>2
<1>5. Max(ink) = hi
  <2>1. Max(ink) \in ink /\ \A i \in ink : i <= Max(ink)
    BY <1>2 DEF Max
  <2>2. hi <= Max(ink) /\ Max(ink) <= hi /\ Max(ink) \in Int /\ hi \in Int
    BY <1>1, <1>2, <2>1, Zenon
  <2>3. QED
    BY <2>2
<1>6. QED
  BY <1>2, <1>3, <1>4, <1>5

(* What begins and ends with a quote stays as it is, and is what is left of *)
(* it behind a space.                                                       *)
LEMMA TrimQuoted ==
  ASSUME NEW C, NEW s \in Seq(C), s # <<>>, s[1] = "'", s[Len(s)] = "'", "SP" \in C
  PROVE  TrimSpace(s) = s /\ TrimSpace(<<"SP">> \o s) = s
<1>1. Len(s) \in Nat \ {0} /\ "'" \notin Space /\ "SP" \in Space
  BY EmptySeq, LenProperties DEF Space
<1>2. SubSeq(s, 1, Len(s)) = s
  BY <1>1
<1>3. TrimSpace(s) = s
  <2>1. 1 \in 1..Len(s) /\ Len(s) \in 1..Len(s) /\ \A i \in 1..Len(s) : 1 <= i /\ i <= Len(s)
    BY <1>1
  <2>2. TrimSpace(s) = SubSeq(s, 1, Len(s))
    BY <1>1, <2>1, TrimOf
  <2>3. QED
    BY <1>2, <2>2
<1> DEFINE t == <<"SP">> \o s
<1>4. /\ t \in Seq(C) /\ Len(t) = Len(s) + 1 /\ t[1] = "SP"
      /\ \A i \in 1..Len(s) : t[i + 1] = s[i]
  <2>1. <<"SP">> \in Seq(C) /\ Len(<<"SP">>) = 1
    BY Single
  <2>2. QED
    BY <1>1, <2>1, ConcatProperties
<1>5. SubSeq(t, 2, Len(t)) = s
  BY <1>1
<1> HIDE DEF t
<1>6. t[2] = "'" /\ t[Len(t)] = "'" /\ \A i \in 1..Len(t) : t[i] \notin Space => 2 <= i /\ i <= Len(t)
  <2>1. t[1 + 1] = s[1] /\ t[Len(s) + 1] = s[Len(s)]
    BY <1>1, <1>4
  <2>2. \A i \in 1..Len(t) : i = 1 \/ (2 <= i /\ i <= Len(t))
    BY <1>1, <1>4
  <2>3. QED
    BY <1>1, <1>4, <2>1, <2>2
<1>7. 2 \in 1..Len(t) /\ Len(t) \in 1..Len(t)
  BY <1>1, <1>4
<1>8. TrimSpace(t) = SubSeq(t, 2, Len(t))
  BY <1>1, <1>4, <1>6, <1>7, TrimOf
<1>9. QED
  BY <1>3, <1>5, <1>8 DEF t
----------------------------------------------------------------------------
(* The shell has read p, is within in, and has the words f; nothing but     *)
(* spaces has been plain.                                                   *)
Reads(p, d, in, f, C) ==
  /\ p \in Seq(C) /\ f \in FieldStates(C)
  /\ Marked(p, d) = [in |-> in, esc |-> FALSE, marks |-> Marks(p, d)]
  /\ Marks(p, d) \in Seq(MarkNames) /\ Len(Marks(p, d)) = Len(p)
  /\ \A i \in 1..Len(p) : Marks(p, d)[i] = "plain" => p[i] = "SP"
  /\ Fielded(Marks(p, d), p) = f

(* c is marked m and leaves the shell within out.                           *)
MarksAs(d, in, c, m, out) ==
  \A k \in Seq(MarkNames) :
    MarkStep(d, [in |-> in, esc |-> FALSE, marks |-> k], c) =
      [in |-> out, esc |-> FALSE, marks |-> Append(k, m)]

(* Nothing has been read.                                                   *)
LEMMA ReadNothing ==
  ASSUME NEW C, NEW d
  PROVE  Reads(<<>>, d, "none", NoFields, C)
<1> DEFINE none == << >>
<1>1. none \in Seq(C) /\ Len(none) = 0
  BY EmptySeq
<1> HIDE DEF none
<1>2. PICK g : MarksAlong(g, d, none)
  BY <1>1, MarkTrace
<1>3. Marked(none, d) = NoMarks
  BY <1>1, <1>2 DEF MarksAlong
<1>4. /\ NoMarks.marks = << >> /\ << >> \in Seq(MarkNames) /\ Len(<< >>) = 0
      /\ NoMarks = [in |-> "none", esc |-> FALSE, marks |-> NoMarks.marks]
  BY EmptySeq DEF NoMarks
<1>5. PICK h : FieldsAlong(h, Marks(none, d), none, C)
  BY <1>1, FieldTrace
<1>6. Fielded(Marks(none, d), none) = NoFields /\ NoFields \in FieldStates(C)
  BY <1>1, <1>5 DEF FieldsAlong
<1>7. Marks(none, d) = << >>
  BY <1>3, <1>4 DEF Marks
<1>8. Marked(none, d) = [in |-> "none", esc |-> FALSE, marks |-> Marks(none, d)]
  BY <1>3, <1>4, <1>7
<1>9. Reads(none, d, "none", NoFields, C)
  BY <1>1, <1>4, <1>6, <1>7, <1>8 DEF Reads
<1>10. QED
  BY <1>9 DEF none

(* One symbol more has been read.                                           *)
LEMMA ReadMore ==
  ASSUME NEW C, NEW d, NEW p, NEW in, NEW f, Reads(p, d, in, f, C), NEW c \in C,
         NEW m \in MarkNames, NEW out, MarksAs(d, in, c, m, out), m = "plain" => c = "SP"
  PROVE  Reads(Append(p, c), d, out, FieldStep(f, m, c), C)
<1> DEFINE n == Len(p)
           t == Append(p, c)
           k == Marks(p, d)
           l == Marks(t, d)
<1>1. /\ p \in Seq(C) /\ f \in FieldStates(C) /\ k \in Seq(MarkNames) /\ Len(k) = n
      /\ Marked(p, d) = [in |-> in, esc |-> FALSE, marks |-> k]
      /\ \A i \in 1..n : k[i] = "plain" => p[i] = "SP"
      /\ Fielded(k, p) = f
  BY DEF Reads
<1>2. t \in Seq(C) /\ n \in Nat /\ Len(t) = n + 1 /\ t[n + 1] = c /\ \A i \in 1..n : t[i] = p[i]
  BY <1>1, AppendProperties, LenProperties
<1>3. Marked(t, d) = MarkStep(d, Marked(p, d), c)
  BY <1>1, MarkedAppend
<1> HIDE DEF t, k
<1>4. Marked(t, d) = [in |-> out, esc |-> FALSE, marks |-> Append(k, m)]
  BY <1>1, <1>3 DEF MarksAs
<1>5. l = Append(k, m)
  BY <1>4 DEF Marks
<1>6. l \in Seq(MarkNames) /\ Len(l) = n + 1 /\ l[n + 1] = m /\ \A i \in 1..n : l[i] = k[i]
  BY <1>1, <1>5, AppendProperties
<1> HIDE DEF l
<1>7. Fielded(l, t) = FieldStep(f, m, c)
  <2>1. Fielded(l, Append(p, c)) = FieldStep(Fielded(k, p), l[Len(p) + 1], c)
    BY <1>1, <1>6, FieldedAppend
  <2>2. QED
    BY <1>1, <1>6, <2>1 DEF t
<1>8. FieldStep(f, m, c) \in FieldStates(C)
  BY <1>1, FieldSteps
<1>9. \A i \in 1..Len(t) : l[i] = "plain" => t[i] = "SP"
  <2>1. \A i \in 1..(n + 1) : i \in 1..n \/ i = n + 1
    BY <1>2
  <2>2. QED
    BY <1>1, <1>2, <1>6, <2>1
<1>10. Reads(t, d, out, FieldStep(f, m, c), C)
  BY <1>2, <1>4, <1>5, <1>6, <1>7, <1>8, <1>9 DEF Reads, l
<1>11. QED
  BY <1>10 DEF t

(* How quotes, what is within them, and spaces are marked.                  *)
LEMMA MarksRight ==
  ASSUME NEW d \in {"sh", "powershell"}, NEW c
  PROVE  /\ MarksAs(d, "none", "'", "quote", "'") /\ MarksAs(d, "'", "'", "quote", "none")
         /\ MarksAs(d, "none", "DQ", "quote", "DQ") /\ MarksAs(d, "DQ", "DQ", "quote", "none")
         /\ MarksAs(d, "DQ", "'", "quoted", "DQ") /\ MarksAs(d, "none", "SP", "plain", "none")
         /\ c # "'" => MarksAs(d, "'", c, "quoted", "'")
<1>1. d # "cmd" /\ Escape(d) \in {"BS", "BT"}
  BY DEF Escape
<1>2. QED
  BY <1>1 DEF MarksAs, MarkStep
----------------------------------------------------------------------------
(* What a quote within a word becomes, and the word between its quotes.     *)
Inner(d) == IF d = "sh" THEN <<"'", "DQ", "'", "DQ", "'">> ELSE <<"'", "'">>
Within(d, w) == FlattenSeq([i \in DOMAIN w |-> IF w[i] = "'" THEN Inner(d) ELSE <<w[i]>>])

(* The word as the filter sees it.                                          *)
Seen(d, w) == IF d = "sh" THEN w ELSE Without("'", w)

Quotables == {"'", "DQ", "SP"}

(* c comes to the word between its quotes.                                  *)
WithinMore(d, w, c) ==
  Within(d, Append(w, c)) = Within(d, w) \o (IF c = "'" THEN Inner(d) ELSE <<c>>)

(* The word between its quotes, as symbols come.                            *)
LEMMA WithinAppend ==
  ASSUME NEW C, Quotables \subseteq C, NEW d, NEW w \in Seq(C), NEW c \in C
  PROVE  Within(d, w) \in Seq(C) /\ WithinMore(d, w, c)
<1> DEFINE f == [y \in C |-> IF y = "'" THEN Inner(d) ELSE <<y>>]
           t == Append(w, c)
           b == f[c]
<1>1. f \in [C -> Seq(C)]
  <2>1. Inner(d) \in Seq(C)
    BY DEF Inner, Quotables
  <2>2. QED
    BY <2>1, Single
<1>2. t \in Seq(C) /\ b \in Seq(C)
  BY <1>1, AppendProperties
<1>3. ASSUME NEW u \in Seq(C) PROVE Within(d, u) = FlattenSeq(Mapped(f, u))
  <2>1. \A i \in DOMAIN u : f[u[i]] = IF u[i] = "'" THEN Inner(d) ELSE <<u[i]>>
    BY ElementOfSeq, LenProperties
  <2> HIDE DEF f
  <2>2. Mapped(f, u) = [i \in DOMAIN u |-> IF u[i] = "'" THEN Inner(d) ELSE <<u[i]>>]
    BY <2>1 DEF Mapped
  <2>3. QED
    BY <2>2 DEF Within
<1>4. b = IF c = "'" THEN Inner(d) ELSE <<c>>
  OBVIOUS
<1> HIDE DEF f, t, b
<1>5. Mapped(f, w) \in Seq(Seq(C)) /\ MapsMore(f, w, c)
  BY <1>1, MapAppend
<1>6. FlattenSeq(Mapped(f, t)) = FlattenSeq(Mapped(f, w)) \o b
  BY <1>2, <1>5, FlattenAppend DEF MapsMore, t, b
<1>7. FlattenSeq(Mapped(f, w)) \in Seq(C)
  BY <1>5, FlattenSeqs
<1>8. QED
  BY <1>2, <1>3, <1>4, <1>6, <1>7 DEF t, WithinMore

(* What appending one symbol after the other makes.                         *)
LEMMA AppendedOnes ==
  ASSUME NEW C, NEW s \in Seq(C), NEW a \in C, NEW b \in C
  PROVE  /\ s \o <<a>> = Append(s, a)
         /\ s \o <<a, b>> = Append(Append(s, a), b)
         /\ s \o <<a, b, a, b, a>> = Append(Append(Append(Append(Append(s, a), b), a), b), a)
OBVIOUS
(* c comes to the open word.                                                *)
WithSymbol(f, c) == [words |-> f.words, word |-> Append(f.word, c)]

(* What quotes, what is quoted, and plain spaces do to the words.           *)
LEMMA FieldStepOf ==
  ASSUME NEW f, NEW c
  PROVE  /\ FieldStep(f, "quote", c) = f /\ FieldStep(f, "quoted", c) = WithSymbol(f, c)
         /\ FieldStep(f, "plain", "SP") = Flush(f)
BY DEF FieldStep, WithSymbol, Space

(* What a quote within a word does to the words.                            *)
AfterInner(d, f) == IF d = "sh" THEN WithSymbol(f, "'") ELSE f

(* A quote within a word has been read.                                     *)
LEMMA InnerRead ==
  ASSUME NEW C, Quotables \subseteq C, NEW d \in {"sh", "powershell"}, NEW p, NEW f,
         Reads(p, d, "'", f, C)
  PROVE  Reads(p \o Inner(d), d, "'", AfterInner(d, f), C)
<1> DEFINE a == "'"
           b == "DQ"
           h == WithSymbol(f, a)
           p1 == Append(p, a)
           p2 == Append(p1, b)
           p3 == Append(p2, a)
           p4 == Append(p3, b)
           q2 == Append(p1, a)
<1>1. p \in Seq(C) /\ a \in C /\ b \in C /\ {"quote", "quoted"} \subseteq MarkNames
  BY DEF Reads, Quotables, MarkNames
<1>2. "quote" # "plain" /\ "quoted" # "plain"
  OBVIOUS
<1>3. /\ p \o <<a, a>> = Append(Append(p, a), a)
      /\ p \o <<a, b, a, b, a>> = Append(Append(Append(Append(Append(p, a), b), a), b), a)
  BY <1>1, AppendedOnes
<1>4. \A g, c : FieldStep(g, "quote", c) = g
  BY FieldStepOf
<1>5. FieldStep(f, "quoted", a) = h
  BY FieldStepOf
<1>6. /\ MarksAs(d, "none", a, "quote", "'") /\ MarksAs(d, "'", a, "quote", "none")
      /\ MarksAs(d, "none", b, "quote", "DQ") /\ MarksAs(d, "DQ", b, "quote", "none")
      /\ MarksAs(d, "DQ", a, "quoted", "DQ")
  BY MarksRight
<1>7. Inner(d) = IF d = "sh" THEN <<a, b, a, b, a>> ELSE <<a, a>>
  BY DEF Inner
<1> HIDE DEF a, b, h, p1, p2, p3, p4, q2
<1>8. Reads(p1, d, "none", f, C)
  <2>1. Reads(p1, d, "none", FieldStep(f, "quote", a), C)
    BY <1>1, <1>2, <1>6, ReadMore DEF p1
  <2>2. QED
    BY <1>4, <2>1
<1>9. Reads(p2, d, "DQ", f, C)
  <2>1. Reads(p2, d, "DQ", FieldStep(f, "quote", b), C)
    BY <1>1, <1>2, <1>6, <1>8, ReadMore DEF p2
  <2>2. QED
    BY <1>4, <2>1
<1>10. Reads(p3, d, "DQ", h, C)
  <2>1. Reads(p3, d, "DQ", FieldStep(f, "quoted", a), C)
    BY <1>1, <1>2, <1>6, <1>9, ReadMore DEF p3
  <2>2. QED
    BY <1>5, <2>1
<1>11. Reads(p4, d, "none", h, C)
  <2>1. Reads(p4, d, "none", FieldStep(h, "quote", b), C)
    BY <1>1, <1>2, <1>6, <1>10, ReadMore DEF p4
  <2>2. QED
    BY <1>4, <2>1
<1>12. Reads(Append(p4, a), d, "'", h, C)
  <2>1. Reads(Append(p4, a), d, "'", FieldStep(h, "quote", a), C)
    BY <1>1, <1>2, <1>6, <1>11, ReadMore
  <2>2. QED
    BY <1>4, <2>1
<1>13. Reads(q2, d, "'", f, C)
  <2>1. Reads(q2, d, "'", FieldStep(f, "quote", a), C)
    BY <1>1, <1>2, <1>6, <1>8, ReadMore DEF q2
  <2>2. QED
    BY <1>4, <2>1
<1>14. CASE d = "sh"
  <2>1. p \o Inner(d) = Append(p4, a)
    BY <1>3, <1>7, <1>14 DEF p1, p2, p3, p4
  <2>2. AfterInner(d, f) = h
    BY <1>14 DEF AfterInner, h, a
  <2>3. QED
    BY <1>12, <2>1, <2>2
<1>15. CASE d # "sh"
  <2>1. p \o Inner(d) = q2
    BY <1>3, <1>7, <1>15 DEF p1, q2
  <2>2. AfterInner(d, f) = f
    BY <1>15 DEF AfterInner
  <2>3. QED
    BY <1>13, <2>1, <2>2
<1>16. QED
  BY <1>14, <1>15

(* The words f with w at the end of the open one.                           *)
WithWord(f, w) == [words |-> f.words, word |-> f.word \o w]

(* What a symbol c of the word w, when it is read, does to the words f.     *)
ReadsOn(d, f, w, c) ==
  WithWord(f, Seen(d, Append(w, c))) =
    IF c = "'" THEN AfterInner(d, WithWord(f, Seen(d, w)))
    ELSE WithSymbol(WithWord(f, Seen(d, w)), c)

(* A symbol more of the word, as the filter sees it.                        *)
LEMMA SeenMore ==
  ASSUME NEW C, NEW d, NEW f \in FieldStates(C), NEW w \in Seq(C), NEW c \in C
  PROVE  Seen(d, w) \in Seq(C) /\ ReadsOn(d, f, w, c)
<1> DEFINE s == Seen(d, w)
           t == Seen(d, Append(w, c))
<1>1. f.words \in Seq(Seq(C)) /\ f.word \in Seq(C)
  BY DEF FieldStates
<1>2. Without("'", w) \in Seq(C) /\ Leaves("'", w, c)
  BY WithoutMore
<1>3. s \in Seq(C)
  BY <1>2 DEF Seen
<1>4. t = IF d # "sh" /\ c = "'" THEN s ELSE Append(s, c)
  BY <1>2 DEF Seen, Leaves
<1> DEFINE x == f.word
           y == f.words
<1>0. x \in Seq(C)
  BY <1>1
<1> HIDE DEF s, t, x, y
<1>5. x \o Append(s, c) = Append(x \o s, c)
  BY <1>0, <1>3, ConcatAppend
<1>6. WithWord(f, Append(s, c)) = WithSymbol(WithWord(f, s), c)
  <2>1. \A r : WithWord(f, r) = [words |-> y, word |-> x \o r]
    BY DEF WithWord, x, y
  <2>2. \A r : WithSymbol([words |-> y, word |-> r], c) = [words |-> y, word |-> Append(r, c)]
    BY Zenon DEF WithSymbol
  <2>3. QED
    BY <1>5, <2>1, <2>2
<1>7. WithWord(f, t) =
        IF c = "'" THEN AfterInner(d, WithWord(f, s)) ELSE WithSymbol(WithWord(f, s), c)
  <2>1. CASE c = "'"
    BY <1>4, <1>6, <2>1 DEF AfterInner
  <2>2. CASE c # "'"
    BY <1>4, <1>6, <2>2
  <2>3. QED
    BY <2>1, <2>2
<1>8. QED
  BY <1>3, <1>7 DEF s, t, ReadsOn

(* The word between its quotes has been read.                               *)
LEMMA WordRead ==
  ASSUME NEW C, Quotables \subseteq C, NEW d \in {"sh", "powershell"}, NEW p, NEW f,
         Reads(p, d, "'", f, C), NEW word \in Seq(C)
  PROVE  Reads(p \o Within(d, word), d, "'", WithWord(f, Seen(d, word)), C)
<1> DEFINE T == {w \in Seq(C) : Reads(p \o Within(d, w), d, "'", WithWord(f, Seen(d, w)), C)}
           none == << >>
<1>1. p \in Seq(C) /\ f \in FieldStates(C) /\ "quoted" \in MarkNames
  BY DEF Reads, MarkNames
<1>2. <<>> \in T
  <2>1. none \in Seq(C) /\ DOMAIN none = {} /\ p \o none = p
    BY <1>1, EmptySeq, ConcatEmptySeq
  <2>2. [i \in DOMAIN none |-> IF none[i] = "'" THEN Inner(d) ELSE <<none[i]>>] = << >>
    OBVIOUS
  <2>3. Within(d, none) = << >>
    BY <2>2, FlattenEmpty DEF Within
  <2>4. Seen(d, none) = << >>
    BY WithoutOne DEF Seen
  <2>5. WithWord(f, << >>) = f
    <3>1. f = [words |-> f.words, word |-> f.word] /\ f.word \in Seq(C)
      BY <1>1 DEF FieldStates
    <3>2. f.word \o << >> = f.word
      BY <3>1, ConcatEmptySeq
    <3>3. QED
      BY <3>1, <3>2 DEF WithWord
  <2>6. Reads(p \o Within(d, none), d, "'", WithWord(f, Seen(d, none)), C)
    BY <2>1, <2>3, <2>4, <2>5
  <2>7. QED
    BY <2>1, <2>6
<1>3. ASSUME NEW w \in Seq(C), NEW c \in C, w \in T PROVE Append(w, c) \in T
  <2> DEFINE u == Within(d, w)
             g == WithWord(f, Seen(d, w))
             v == Append(w, c)
             h == WithWord(f, Seen(d, v))
  <2>1. v \in Seq(C)
    BY AppendProperties
  <2>2. u \in Seq(C) /\ WithinMore(d, w, c)
    BY WithinAppend
  <2>3. ReadsOn(d, f, w, c)
    BY <1>1, SeenMore
  <2>4. Reads(p \o u, d, "'", g, C)
    BY <1>3
  <2> HIDE DEF u, g, v, h
  <2>5. Within(d, v) = u \o (IF c = "'" THEN Inner(d) ELSE <<c>>)
    BY <2>2 DEF WithinMore, u, v
  <2>6. h = IF c = "'" THEN AfterInner(d, g) ELSE WithSymbol(g, c)
    BY <2>3 DEF ReadsOn, g, h, v
  <2>7. ASSUME c = "'" PROVE Reads(p \o Within(d, v), d, "'", h, C)
    <3>1. Reads((p \o u) \o Inner(d), d, "'", AfterInner(d, g), C)
      BY <2>4, InnerRead
    <3>2. (p \o u) \o Inner(d) = p \o Within(d, v)
      <4>1. Inner(d) \in Seq(C)
        BY DEF Inner, Quotables
      <4>2. (p \o u) \o Inner(d) = p \o (u \o Inner(d))
        <5>1. Associates(p, u, Inner(d))
          BY <1>1, <2>2, <4>1, AllAssociate, Zenon
        <5>2. QED
          BY <5>1 DEF Associates
      <4>3. QED
        BY <2>5, <2>7, <4>2
    <3>3. QED
      BY <2>6, <2>7, <3>1, <3>2
  <2>8. ASSUME c # "'" PROVE Reads(p \o Within(d, v), d, "'", h, C)
    <3>1. MarksAs(d, "'", c, "quoted", "'")
      BY <2>8, MarksRight
    <3>2. "quoted" # "plain"
      OBVIOUS
    <3>3. Reads(Append(p \o u, c), d, "'", FieldStep(g, "quoted", c), C)
      BY <1>1, <2>4, <3>1, <3>2, ReadMore
    <3>4. FieldStep(g, "quoted", c) = h
      BY <2>6, <2>8, FieldStepOf
    <3>5. Append(p \o u, c) = p \o Within(d, v)
      <4>1. Append(u, c) = u \o <<c>>
        BY <2>2, AppendIsConcat
      <4>2. p \o Append(u, c) = Append(p \o u, c)
        BY <1>1, <2>2, ConcatAppend
      <4>3. QED
        BY <2>5, <2>8, <4>1, <4>2
    <3>6. QED
      BY <3>3, <3>4, <3>5
  <2>9. Reads(p \o Within(d, v), d, "'", h, C)
    BY <2>7, <2>8
  <2>10. QED
    BY <2>1, <2>9 DEF v, h
<1> HIDE DEF T
<1>4. Seq(C) \subseteq T
  BY <1>2, <1>3, ByAppend
<1>5. QED
  BY <1>4 DEF T

(* A quoted word has been read.                                             *)
LEMMA QuoteRead ==
  ASSUME NEW C, Quotables \subseteq C, NEW d \in {"sh", "powershell"}, NEW p, NEW f,
         Reads(p, d, "none", f, C), NEW w \in Seq(C)
  PROVE  Reads(p \o Quote(d, w), d, "none", WithWord(f, Seen(d, w)), C)
<1> DEFINE a == "'"
           u == Within(d, w)
           g == WithWord(f, Seen(d, w))
<1>1. p \in Seq(C) /\ a \in C /\ "quote" \in MarkNames /\ "quote" # "plain"
  BY DEF Reads, Quotables, MarkNames
<1>2. \A h, c : FieldStep(h, "quote", c) = h
  BY FieldStepOf
<1>3. MarksAs(d, "none", a, "quote", "'") /\ MarksAs(d, "'", a, "quote", "none")
  BY MarksRight
<1>4. u \in Seq(C)
  BY <1>1, WithinAppend
<1>5. Quote(d, w) = (<<a>> \o u) \o <<a>>
  BY DEF Quote, Within, Inner
<1> HIDE DEF a, u, g
<1>6. Reads(Append(p, a), d, "'", f, C)
  <2>1. Reads(Append(p, a), d, "'", FieldStep(f, "quote", a), C)
    BY <1>1, <1>3, ReadMore
  <2>2. QED
    BY <1>2, <2>1
<1>7. Reads(Append(p, a) \o u, d, "'", g, C)
  BY <1>6, WordRead DEF u, g
<1>8. Reads(Append(Append(p, a) \o u, a), d, "none", g, C)
  <2>1. Reads(Append(Append(p, a) \o u, a), d, "none", FieldStep(g, "quote", a), C)
    BY <1>1, <1>3, <1>7, ReadMore
  <2>2. QED
    BY <1>2, <2>1
<1>9. Append(Append(p, a) \o u, a) = p \o ((<<a>> \o u) \o <<a>>)
  <2> DEFINE one == <<a>>
  <2>1. one \in Seq(C) /\ one \o u \in Seq(C) /\ Append(p, a) \in Seq(C)
    BY <1>1, <1>4, Single, ConcatProperties, AppendProperties
  <2>2. Append(p, a) = p \o one
    BY <1>1, AppendIsConcat
  <2>3. Append(Append(p, a) \o u, a) = (Append(p, a) \o u) \o one
    <3>1. Append(p, a) \o u \in Seq(C)
      BY <1>4, <2>1, ConcatProperties
    <3>2. QED
      BY <1>1, <3>1, AppendIsConcat
  <2> HIDE DEF one
  <2>4. Associates(p, one, u) /\ Associates(p, one \o u, one)
    BY <1>1, <1>4, <2>1, AllAssociate, Zenon
  <2>5. QED
    BY <2>2, <2>3, <2>4 DEF Associates, one
<1>10. QED
  BY <1>5, <1>8, <1>9 DEF g
----------------------------------------------------------------------------
(* The quoted words, and the line that they make.                           *)
QuotedWords(d, argv) == [i \in DOMAIN argv |-> Quote(d, argv[i])]
QuotedLine(d, argv) == Join(QuotedWords(d, argv), <<"SP">>)

(* The words as the filter sees them.                                       *)
AllSeen(d, argv) == Without(<<>>, [i \in DOMAIN argv |-> Seen(d, argv[i])])

(* A quoted word begins and ends with a quote.                              *)
LEMMA QuoteEnds ==
  ASSUME NEW C, Quotables \subseteq C, NEW d, NEW w \in Seq(C)
  PROVE  /\ Quote(d, w) \in Seq(C) /\ Len(Quote(d, w)) \in Nat \ {0}
         /\ Quote(d, w)[1] = "'" /\ Quote(d, w)[Len(Quote(d, w))] = "'"
<1> DEFINE a == "'"
           u == Within(d, w)
           one == <<a>>
<1>1. a \in C /\ u \in Seq(C)
  BY WithinAppend DEF Quotables
<1>2. Quote(d, w) = (one \o u) \o one
  BY DEF Quote, Within, Inner
<1>3. one \in Seq(C) /\ Len(one) = 1 /\ one[1] = a
  BY <1>1, Single
<1> HIDE DEF a, u, one
<1>4. one \o u \in Seq(C) /\ Len(one \o u) = 1 + Len(u) /\ Len(u) \in Nat /\ (one \o u)[1] = a
  <2>1. Len(u) \in Nat /\ 1 \in 1..(Len(one) + Len(u)) /\ 1 <= Len(one)
    BY <1>1, <1>3, LenProperties
  <2>2. /\ one \o u \in Seq(C) /\ Len(one \o u) = Len(one) + Len(u)
        /\ \A i \in 1..(Len(one) + Len(u)) :
             (one \o u)[i] = IF i <= Len(one) THEN one[i] ELSE u[i - Len(one)]
    BY <1>1, <1>3, ConcatProperties
  <2>3. QED
    BY <1>3, <2>1, <2>2
<1> DEFINE v == one \o u
<1> HIDE DEF v
<1>5. v \in Seq(C) /\ Len(v) \in Nat \ {0} /\ v[1] = a
  BY <1>4 DEF v
<1>6. /\ v \o one \in Seq(C) /\ Len(v \o one) = Len(v) + 1
      /\ (v \o one)[1] = a /\ (v \o one)[Len(v) + 1] = a
  <2>1. 1 \in 1..(Len(v) + Len(one)) /\ Len(v) + 1 \in 1..(Len(v) + Len(one)) /\ 1 <= Len(v)
        /\ ~(Len(v) + 1 <= Len(v)) /\ (Len(v) + 1) - Len(v) = 1
    BY <1>3, <1>5
  <2>2. /\ v \o one \in Seq(C) /\ Len(v \o one) = Len(v) + Len(one)
        /\ \A i \in 1..(Len(v) + Len(one)) :
             (v \o one)[i] = IF i <= Len(v) THEN v[i] ELSE one[i - Len(v)]
    BY <1>3, <1>5, ConcatProperties
  <2>3. QED
    BY <1>3, <1>5, <2>1, <2>2
<1>7. QED
  BY <1>2, <1>5, <1>6 DEF v, a

(* The line has one word more.                                              *)
LineGrows(d, argv, w) ==
  QuotedLine(d, Append(argv, w)) =
    IF argv = <<>> THEN Quote(d, w) ELSE (QuotedLine(d, argv) \o <<"SP">>) \o Quote(d, w)

(* The line, word by word.                                                  *)
LEMMA LineMore ==
  ASSUME NEW C, Quotables \subseteq C, NEW d, NEW argv \in Seq(Seq(C)), NEW w \in Seq(C)
  PROVE  QuotedLine(d, argv) \in Seq(C) /\ LineGrows(d, argv, w)
<1> DEFINE f == [x \in Seq(C) |-> Quote(d, x)]
           more == Append(argv, w)
           old == Mapped(f, argv)
           q == f[w]
           sep == <<"SP">>
<1>1. f \in [Seq(C) -> Seq(C)]
  BY QuoteEnds
<1>2. more \in Seq(Seq(C)) /\ q \in Seq(C) /\ q = Quote(d, w)
  BY <1>1, AppendProperties
<1>3. ASSUME NEW a \in Seq(Seq(C)) PROVE QuotedWords(d, a) = Mapped(f, a)
  <2>1. \A i \in DOMAIN a : f[a[i]] = Quote(d, a[i])
    BY ElementOfSeq, LenProperties
  <2> HIDE DEF f
  <2>2. QED
    BY <2>1 DEF Mapped, QuotedWords
<1>4. sep \in Seq(C)
  BY Single DEF Quotables
<1> HIDE DEF f, more, q, sep
<1>5. old \in Seq(Seq(C)) /\ MapsMore(f, argv, w)
  BY <1>1, MapAppend
<1>6. (old = <<>>) <=> (argv = <<>>)
  <2>1. DOMAIN old = DOMAIN argv
    BY DEF Mapped
  <2> HIDE DEF old
  <2>2. DOMAIN old = 1..Len(old) /\ DOMAIN argv = 1..Len(argv) /\ Len(old) \in Nat /\ Len(argv) \in Nat
    BY <1>5, LenProperties
  <2>3. Len(old) = 0 <=> Len(argv) = 0
    <3>1. \A n \in Nat : n = 0 <=> 1..n = {}
      <4>1. ASSUME NEW n \in Nat, n # 0 PROVE 1 \in 1..n
        BY <4>1
      <4>2. 1..0 = {}
        OBVIOUS
      <4>3. QED
        BY <4>1, <4>2
    <3>2. QED
      BY <2>1, <2>2, <3>1
  <2>4. old \in Seq(Seq(C))
    BY <1>5
  <2>5. argv # <<>> => Len(argv) \in Nat \ {0}
    BY EmptySeq, Zenon
  <2>6. old # <<>> => Len(old) \in Nat \ {0}
    BY <2>4, EmptySeq, Zenon
  <2>7. (argv = <<>> => Len(argv) = 0) /\ (old = <<>> => Len(old) = 0)
    BY EmptySeq
  <2>8. QED
    BY <2>3, <2>5, <2>6, <2>7
<1>7. QuotedLine(d, argv) = Join(old, sep)
  BY <1>3 DEF QuotedLine, sep
<1>8. QuotedLine(d, more) = Join(Append(old, q), sep)
  BY <1>2, <1>3, <1>5 DEF QuotedLine, sep, MapsMore, more, q
<1> HIDE DEF old
<1>9. Join(old, sep) \in Seq(C)
  BY <1>4, <1>5, JoinText
<1>10. CASE argv = <<>>
  <2>1. Append(old, q) = <<q>>
    BY <1>6, <1>10
  <2>2. Join(<<q>>, sep) = q
    BY <1>2, <1>4, JoinOne
  <2>3. LineGrows(d, argv, w)
    BY <1>2, <1>8, <1>10, <2>1, <2>2 DEF LineGrows, more
  <2>4. QED
    BY <1>7, <1>9, <2>3
<1>11. CASE argv # <<>>
  <2>1. Join(Append(old, q), sep) = (Join(old, sep) \o sep) \o q
    BY <1>2, <1>4, <1>5, <1>6, <1>11, JoinMore
  <2>2. LineGrows(d, argv, w)
    BY <1>2, <1>7, <1>8, <1>11, <2>1 DEF LineGrows, more, sep
  <2>3. QED
    BY <1>7, <1>9, <2>2
<1>12. QED
  BY <1>10, <1>11

(* w comes to the words that are seen, unless it is empty.                  *)
SeenGrow(d, argv, w) ==
  AllSeen(d, Append(argv, w)) =
    IF Seen(d, w) = <<>> THEN AllSeen(d, argv) ELSE Append(AllSeen(d, argv), Seen(d, w))

(* A word that is seen is a word.                                           *)
LEMMA SeenWord ==
  ASSUME NEW C, Quotables \subseteq C, NEW d, NEW w \in Seq(C)
  PROVE  Seen(d, w) \in Seq(C)
<1>1. "'" \in C
  BY DEF Quotables
<1>2. Without("'", w) \in Seq(C)
  BY <1>1, WithoutMore
<1>3. QED
  BY <1>2 DEF Seen

(* The words that are seen, word by word.                                   *)
LEMMA AllSeenMore ==
  ASSUME NEW C, Quotables \subseteq C, NEW d, NEW argv \in Seq(Seq(C)), NEW w \in Seq(C)
  PROVE  AllSeen(d, argv) \in Seq(Seq(C)) /\ SeenGrow(d, argv, w)
<1> DEFINE f == [x \in Seq(C) |-> Seen(d, x)]
           more == Append(argv, w)
           old == Mapped(f, argv)
           q == f[w]
           e == <<>>
<1>1. f \in [Seq(C) -> Seq(C)]
  BY SeenWord
<1>2. more \in Seq(Seq(C)) /\ q \in Seq(C) /\ q = Seen(d, w)
  BY <1>1, AppendProperties
<1>3. ASSUME NEW a \in Seq(Seq(C)) PROVE AllSeen(d, a) = Without(e, Mapped(f, a))
  <2>1. \A i \in DOMAIN a : f[a[i]] = Seen(d, a[i])
    BY ElementOfSeq, LenProperties
  <2> HIDE DEF f
  <2>2. Mapped(f, a) = [i \in DOMAIN a |-> Seen(d, a[i])]
    BY <2>1 DEF Mapped
  <2>3. QED
    BY <2>2 DEF AllSeen
<1> HIDE DEF f, more, q, e
<1>4. old \in Seq(Seq(C)) /\ MapsMore(f, argv, w)
  BY <1>1, MapAppend
<1>5. AllSeen(d, argv) = Without(e, old)
  BY <1>3
<1>6. AllSeen(d, more) = Without(e, Append(old, q))
  BY <1>2, <1>3, <1>4 DEF MapsMore, more, q
<1> HIDE DEF old
<1>7. Without(e, old) \in Seq(Seq(C)) /\ Leaves(e, old, q)
  BY <1>2, <1>4, WithoutMore
<1>8. SeenGrow(d, argv, w)
  BY <1>2, <1>5, <1>6, <1>7 DEF SeenGrow, Leaves, more, e
<1>9. QED
  BY <1>5, <1>7, <1>8

(* Words, and none that is open.                                            *)
NoneOpen(words) == [words |-> words, word |-> <<>>]

(* The shell reads s as words.                                              *)
ReadsTo(s, d, words, C) == \E f : Reads(s, d, "none", f, C) /\ Flush(f).words = words

(* The next word has been read.                                             *)
LEMMA NextWord ==
  ASSUME NEW C, Quotables \subseteq C, NEW d \in {"sh", "powershell"},
         NEW argv \in Seq(Seq(C)), NEW w \in Seq(C), NEW p,
         Reads(p, d, "none", NoneOpen(AllSeen(d, argv)), C)
  PROVE  ReadsTo(p \o Quote(d, w), d, AllSeen(d, Append(argv, w)), C)
<1> DEFINE e == <<>>
           W == AllSeen(d, argv)
           s == Seen(d, w)
           g == [words |-> W, word |-> e]
           f == WithWord(g, s)
<1>1. Reads(p \o Quote(d, w), d, "none", f, C)
  <2>1. Reads(p, d, "none", g, C)
    BY DEF NoneOpen
  <2> HIDE DEF g, s
  <2>2. QED
    BY <2>1, QuoteRead DEF s
<1>2. s \in Seq(C) /\ W \in Seq(Seq(C)) /\ SeenGrow(d, argv, w)
  BY SeenWord, AllSeenMore
<1>3. AllSeen(d, Append(argv, w)) = IF s = <<>> THEN W ELSE Append(W, s)
  BY <1>2 DEF SeenGrow
<1> HIDE DEF W, s
<1>4. f = [words |-> W, word |-> s]
  <2>1. e \o s = s
    BY <1>2, ConcatEmptySeq
  <2>2. g.words = W /\ g.word = e
    OBVIOUS
  <2> HIDE DEF g, e
  <2>3. QED
    BY <2>1, <2>2 DEF WithWord
<1> HIDE DEF f
<1>5. Flush(f).words = IF s = <<>> THEN W ELSE Append(W, s)
  BY <1>4 DEF Flush
<1>6. Flush(f).words = AllSeen(d, Append(argv, w))
  BY <1>3, <1>5
<1>7. QED
  BY <1>1, <1>6, Zenon DEF ReadsTo

(* The shell reads the line of the words argv as these words; the line      *)
(* begins and ends with a quote.                                            *)
ReadsLine(d, argv, C) ==
  LET s == QuotedLine(d, argv)
  IN /\ Len(s) \in Nat \ {0} /\ s[1] = "'" /\ s[Len(s)] = "'"
     /\ ReadsTo(s, d, AllSeen(d, argv), C)

(* A space ends a word.                                                     *)
LEMMA SpaceRead ==
  ASSUME NEW C, Quotables \subseteq C, NEW d \in {"sh", "powershell"}, NEW p, NEW f,
         Reads(p, d, "none", f, C)
  PROVE  Reads(p \o <<"SP">>, d, "none", NoneOpen(Flush(f).words), C)
<1>1. p \in Seq(C) /\ "SP" \in C /\ "plain" \in MarkNames /\ f \in FieldStates(C)
  BY DEF Reads, Quotables, MarkNames
<1>2. MarksAs(d, "none", "SP", "plain", "none")
  BY MarksRight
<1>3. Reads(Append(p, "SP"), d, "none", FieldStep(f, "plain", "SP"), C)
  BY <1>1, <1>2, ReadMore
<1>4. FieldStep(f, "plain", "SP") = Flush(f)
  BY FieldStepOf
<1>5. Flush(f) = NoneOpen(Flush(f).words)
  <2>1. f = [words |-> f.words, word |-> f.word]
    BY <1>1 DEF FieldStates
  <2>2. CASE f.word = <<>>
    <3>1. Flush(f) = f
      BY <2>2 DEF Flush
    <3>2. f = [words |-> f.words, word |-> <<>>]
      BY <2>1, <2>2
    <3>3. QED
      BY <3>1, <3>2 DEF NoneOpen
  <2>3. CASE f.word # <<>>
    BY <2>3 DEF Flush, NoneOpen
  <2>4. QED
    BY <2>2, <2>3
<1>6. p \o <<"SP">> = Append(p, "SP")
  BY <1>1, AppendIsConcat
<1>7. QED
  BY <1>3, <1>4, <1>5, <1>6

(* A text with a quoted word at its end.                                    *)
LEMMA QuotedAtEnd ==
  ASSUME NEW C, NEW p \in Seq(C), NEW q \in Seq(C), Len(q) \in Nat \ {0},
         q[Len(q)] = "'", p = <<>> => q[1] = "'", p # <<>> => p[1] = "'"
  PROVE  /\ Len(p \o q) \in Nat \ {0} /\ (p \o q)[1] = "'"
         /\ (p \o q)[Len(p \o q)] = "'"
<1> DEFINE s == p \o q
<1>1. /\ Len(s) = Len(p) + Len(q) /\ Len(p) \in Nat
      /\ \A i \in 1..(Len(p) + Len(q)) : s[i] = IF i <= Len(p) THEN p[i] ELSE q[i - Len(p)]
  BY ConcatProperties, LenProperties
<1> HIDE DEF s
<1>2. p # <<>> => Len(p) \in Nat \ {0}
  BY EmptySeq
<1>3. p = <<>> => Len(p) = 0
  BY EmptySeq
<1>4. s[Len(s)] = "'"
  <2>1. Len(s) \in 1..(Len(p) + Len(q)) /\ ~(Len(s) <= Len(p)) /\ Len(s) - Len(p) = Len(q)
    BY <1>1
  <2>2. QED
    BY <1>1, <2>1
<1>5. s[1] = "'"
  <2>1. 1 \in 1..(Len(p) + Len(q))
    BY <1>1
  <2>2. CASE p = <<>>
    BY <1>1, <1>3, <2>1, <2>2
  <2>3. CASE p # <<>>
    BY <1>1, <1>2, <2>1, <2>3
  <2>4. QED
    BY <2>2, <2>3
<1>6. Len(s) \in Nat \ {0}
  BY <1>1
<1>7. QED
  BY <1>4, <1>5, <1>6 DEF s

(* Words, quoted, are read as these words.                                  *)
LEMMA LineRead ==
  ASSUME NEW C, Quotables \subseteq C, NEW d \in {"sh", "powershell"},
         NEW words \in Seq(Seq(C)), words # <<>>
  PROVE  ReadsLine(d, words, C)
<1> DEFINE T == {a \in Seq(Seq(C)) : a # <<>> => ReadsLine(d, a, C)}
           none == << >>
<1>1. <<>> \in T
  BY EmptySeq
<1>2. ASSUME NEW a \in Seq(Seq(C)), NEW w \in Seq(C), a \in T PROVE Append(a, w) \in T
  <2> DEFINE more == Append(a, w)
             q == Quote(d, w)
  <2>1. more \in Seq(Seq(C))
    BY AppendProperties
  <2>2. q \in Seq(C) /\ Len(q) \in Nat \ {0} /\ q[1] = "'" /\ q[Len(q)] = "'"
    BY QuoteEnds
  <2>3. QuotedLine(d, a) \in Seq(C) /\ LineGrows(d, a, w)
    BY LineMore
  <2> HIDE DEF q
  <2>4. \E p : /\ Reads(p, d, "none", NoneOpen(AllSeen(d, a)), C)
               /\ QuotedLine(d, more) = p \o q
               /\ p \in Seq(C) /\ (p # <<>> => p[1] = "'")
    <3>1. CASE a = <<>>
      <4>1. Reads(none, d, "none", NoFields, C)
        BY ReadNothing
      <4>2. AllSeen(d, a) = <<>>
        <5>1. [i \in DOMAIN none |-> Seen(d, none[i])] = << >>
          OBVIOUS
        <5>2. AllSeen(d, none) = << >>
          BY <5>1, WithoutOne DEF AllSeen
        <5>3. QED
          BY <3>1, <5>2
      <4>3. NoFields = NoneOpen(AllSeen(d, a))
        BY <4>2 DEF NoFields, NoneOpen
      <4>4. QuotedLine(d, more) = none \o q
        <5>1. none \o q = q
          BY <2>2, ConcatEmptySeq
        <5>2. QED
          BY <2>3, <3>1, <5>1 DEF LineGrows, q
      <4>5. none \in Seq(C)
        BY EmptySeq
      <4>6. QED
        BY <4>1, <4>3, <4>4, <4>5
    <3>2. CASE a # <<>>
      <4> DEFINE s == QuotedLine(d, a)
                 p == s \o <<"SP">>
      <4>1. /\ Len(s) \in Nat \ {0} /\ s[1] = "'"
            /\ ReadsTo(s, d, AllSeen(d, a), C)
        BY <1>2, <3>2 DEF ReadsLine
      <4>2. PICK f : Reads(s, d, "none", f, C) /\ Flush(f).words = AllSeen(d, a)
        BY <4>1 DEF ReadsTo
      <4>3. QuotedLine(d, more) = p \o q
        BY <2>3, <3>2 DEF LineGrows, q
      <4>4. s \in Seq(C)
        BY <2>3
      <4> HIDE DEF s
      <4>5. Reads(p, d, "none", NoneOpen(Flush(f).words), C)
        BY <4>2, SpaceRead
      <4>6. p \in Seq(C) /\ p[1] = "'"
        <5> DEFINE one == <<"SP">>
        <5>1. one \in Seq(C) /\ Len(one) = 1
          BY Single DEF Quotables
        <5> HIDE DEF one
        <5>2. /\ s \o one \in Seq(C)
              /\ \A i \in 1..(Len(s) + Len(one)) :
                   (s \o one)[i] = IF i <= Len(s) THEN s[i] ELSE one[i - Len(s)]
          BY <4>4, <5>1, ConcatProperties
        <5>3. 1 \in 1..(Len(s) + Len(one)) /\ 1 <= Len(s)
          BY <4>1, <5>1
        <5>4. (s \o one)[1] = "'"
          BY <4>1, <5>2, <5>3
        <5>5. QED
          BY <5>2, <5>4 DEF one
      <4> HIDE DEF p
      <4>7. QED
        BY <4>2, <4>3, <4>5, <4>6
    <3>3. QED
      BY <3>1, <3>2
  <2>5. PICK p : /\ Reads(p, d, "none", NoneOpen(AllSeen(d, a)), C)
                 /\ QuotedLine(d, more) = p \o q
                 /\ p \in Seq(C) /\ (p # <<>> => p[1] = "'")
    BY <2>4
  <2>6. ReadsTo(p \o q, d, AllSeen(d, more), C)
    <3>1. Reads(p, d, "none", NoneOpen(AllSeen(d, a)), C)
      BY <2>5
    <3>2. QED
      BY <3>1, NextWord, Zenon DEF q
  <2> DEFINE s == p \o q
  <2>7. Len(s) \in Nat \ {0} /\ s[1] = "'" /\ s[Len(s)] = "'"
    <3>1. p \in Seq(C) /\ q \in Seq(C) /\ Len(q) \in Nat \ {0} /\ q[Len(q)] = "'"
      BY <2>2, <2>5
    <3>2. (p = <<>> => q[1] = "'") /\ (p # <<>> => p[1] = "'")
      BY <2>2, <2>5
    <3>3. QED
      BY <3>1, <3>2, QuotedAtEnd, Zenon
  <2> HIDE DEF s, more
  <2>8. ReadsLine(d, more, C)
    BY <2>5, <2>6, <2>7 DEF ReadsLine, s
  <2>9. QED
    BY <2>1, <2>8 DEF more
<1> HIDE DEF T
<1>3. Seq(Seq(C)) \subseteq T
  BY <1>1, <1>2, ByAppend
<1>4. QED
  BY <1>3 DEF T
----------------------------------------------------------------------------
NoSegments == [segs |-> <<>>, start |-> 1, ended |-> FALSE]

(* The segments of a line with these marks, the last one open.              *)
Segmented(s, mark, d) ==
  FoldLeftDomain(LAMBDA acc, i : SegmentStep(s, mark, d, acc, i), NoSegments, s)

(* Where nothing but spaces is plain, nothing is a segment of its own.      *)
LEMMA NoSegmentEnds ==
  ASSUME NEW C, NEW s \in Seq(C), NEW d, NEW mark,
         \A i \in 1..Len(s) : mark[i] = "plain" => s[i] = "SP"
  PROVE  Segmented(s, mark, d) = NoSegments
<1> DEFINE n == Len(s)
           q == [i \in DOMAIN s |-> i]
           A == {NoSegments}
           base == NoSegments
           step == [a \in A |-> [i \in 1..n |-> SegmentStep(s, mark, d, a, i)]]
           Eq(j) == j = [x \in SUBSET DOMAIN q |->
                           IF x = {} THEN base
                           ELSE SegmentStep(s, mark, d, j[x \ {Max(x)}], q[Max(x)])]
           ch == CHOOSE j : Eq(j)
<1>1. n \in Nat /\ DOMAIN s = 1..n
  BY LenProperties
<1>2. base \in A
  OBVIOUS
<1>3. step \in [A -> [1..n -> A]]
  <2>1. ASSUME NEW i \in 1..n PROVE SegmentStep(s, mark, d, NoSegments, i) = NoSegments
    <3>1. CASE mark[i] # "plain"
      BY <3>1 DEF SegmentStep
    <3>2. CASE mark[i] = "plain"
      <4>1. s[i] = "SP"
        BY <3>2
      <4>2. ~StartsComment(s, d, i)
        BY <4>1 DEF StartsComment
      <4>3. SeparatorLength(s, d, i) = 0
        BY <4>1 DEF SeparatorLength
      <4>4. ~(SeparatorLength(s, d, i) > 0)
        BY <4>3
      <4>5. QED
        BY <4>2, <4>4 DEF SegmentStep
    <3>3. QED
      BY <3>1, <3>2
  <2> HIDE DEF n
  <2>2. \A a \in A, i \in 1..n : SegmentStep(s, mark, d, a, i) \in A
    BY <2>1
  <2> HIDE DEF A
  <2>3. QED
    BY <2>2
<1>4. Segmented(s, mark, d) = ch[DOMAIN q]
  BY DEF Segmented, FoldLeftDomain, FoldLeft, MapThenFoldSet
<1>0. DOMAIN q = 1..n /\ \A i \in 1..n : q[i] = i
  BY <1>1
<1> HIDE DEF A, base, n, q
<1>5. ASSUME NEW a \in A, NEW i \in 1..n PROVE step[a][i] = SegmentStep(s, mark, d, a, i)
  BY <1>5
<1> HIDE DEF step
<1>6. PICK it \in [SUBSET (1..n) -> A] : FoldsTo(it, base, step, n)
  BY <1>1, <1>2, <1>3, LeftFold
<1>7. ASSUME NEW x \in SUBSET (1..n), x # {}
      PROVE  Max(x) \in 1..n /\ x \ {Max(x)} \in SUBSET (1..n) /\ q[Max(x)] = Max(x)
  BY <1>0, <1>1, <1>7, MaxOf
<1>8. Eq(it)
  <2>1. \A x \in SUBSET (1..n) : x # {} =>
          it[x] = SegmentStep(s, mark, d, it[x \ {Max(x)}], q[Max(x)])
    BY <1>5, <1>6, <1>7 DEF FoldsTo
  <2>2. it[{}] = base
    BY <1>6 DEF FoldsTo
  <2>3. QED
    BY <1>0, <1>6, <2>1, <2>2
<1>9. Eq(ch)
  BY <1>8
<1> HIDE DEF ch
<1>10. Follows(ch, A, base, step, n)
  <2>1. ch[{}] = base
    BY <1>9
  <2>2. \A x \in SUBSET (1..n) : x # {} =>
          ch[x] = SegmentStep(s, mark, d, ch[x \ {Max(x)}], q[Max(x)])
    BY <1>0, <1>9
  <2>3. ASSUME NEW x \in SUBSET (1..n), x # {}, ch[x \ {Max(x)}] \in A
        PROVE  ch[x] = step[ch[x \ {Max(x)}]][Max(x)]
    <3>1. Max(x) \in 1..n /\ q[Max(x)] = Max(x)
      BY <1>7, <2>3
    <3>2. step[ch[x \ {Max(x)}]][Max(x)] = SegmentStep(s, mark, d, ch[x \ {Max(x)}], Max(x))
      BY <1>5, <2>3, <3>1, Zenon
    <3>3. ch[x] = SegmentStep(s, mark, d, ch[x \ {Max(x)}], q[Max(x)])
      BY <2>2, <2>3, Zenon
    <3>4. QED
      BY <3>1, <3>2, <3>3
  <2>4. QED
    BY <2>1, <2>3 DEF Follows
<1>11. Yields(A, base, step, n, ch[1..n])
  BY <1>1, <1>2, <1>3, <1>10, ChosenFold
<1>12. PICK g : GoesThrough(g, A, base, step, n) /\ g[n] = ch[1..n]
  BY <1>11 DEF Yields
<1>13. g[n] \in A
  BY <1>1, <1>12 DEF GoesThrough
<1>14. QED
  BY <1>0, <1>4, <1>12, <1>13 DEF A

(* What the filter sees in s: one segment, s, with words.                   *)
SeenAs(s, d, words) ==
  /\ Segments(s, d) = <<s>> /\ ShellFields(s, d) = words
  /\ TrimSpace(s) = s /\ TrimSpace(<<"SP">> \o s) = s

(* To the filter, a line of quoted words is one command, of these words     *)
(* (quotePOSIX and quotePowerShell against forEachSegment and shellFields). *)
THEOREM QuotedLines ==
  ASSUME NEW C, Quotables \subseteq C, NEW d \in {"sh", "powershell"},
         NEW words \in Seq(Seq(C)), words # <<>>
  PROVE  SeenAs(QuotedLine(d, words), d, AllSeen(d, words))
<1> DEFINE s == QuotedLine(d, words)
           mark == Marks(s, d)
<1>1. /\ Len(s) \in Nat \ {0} /\ s[1] = "'" /\ s[Len(s)] = "'"
      /\ ReadsTo(s, d, AllSeen(d, words), C)
  BY LineRead DEF ReadsLine
<1> HIDE DEF s
<1>2. PICK f : Reads(s, d, "none", f, C) /\ Flush(f).words = AllSeen(d, words)
  BY <1>1 DEF ReadsTo
<1>3. /\ s \in Seq(C) /\ Fielded(mark, s) = f
      /\ \A i \in 1..Len(s) : mark[i] = "plain" => s[i] = "SP"
  BY <1>2 DEF Reads
<1> HIDE DEF mark
<1>4. ShellFields(s, d) = AllSeen(d, words)
  <2>1. ShellFields(s, d) = Flush(Fielded(Marks(s, d), s)).words
    BY DEF ShellFields, Fielded, NoFields
  <2>2. QED
    BY <1>2, <1>3, <2>1 DEF mark
<1>5. s # <<>> /\ "SP" \in C
  BY <1>1, EmptySeq DEF Quotables
<1>6. TrimSpace(s) = s /\ TrimSpace(<<"SP">> \o s) = s
  BY <1>1, <1>3, <1>5, TrimQuoted
<1>7. Segmented(s, mark, d) = NoSegments
  BY <1>3, NoSegmentEnds
<1>8. Segments(s, d) = Without(<<>>, IF NoSegments.ended THEN NoSegments.segs
                                     ELSE Emit(s, NoSegments, Len(s) + 1).segs)
  <2>1. Segments(s, d) =
          LET end == Segmented(s, mark, d)
          IN Without(<<>>, IF end.ended THEN end.segs ELSE Emit(s, end, Len(s) + 1).segs)
    BY DEF Segments, Segmented, NoSegments, mark
  <2>2. QED
    BY <1>7, <2>1
<1>9. Emit(s, NoSegments, Len(s) + 1).segs = <<s>> /\ ~NoSegments.ended
  <2>1. SubSeq(s, NoSegments.start, (Len(s) + 1) - 1) = s
    <3>1. NoSegments.start = 1 /\ (Len(s) + 1) - 1 = Len(s)
      BY <1>1 DEF NoSegments
    <3>2. SubSeq(s, 1, Len(s)) = s
      BY <1>3, SubSeqFull
    <3>3. QED
      BY <3>1, <3>2
  <2>2. TrimSpace(SubSeq(s, NoSegments.start, (Len(s) + 1) - 1)) = s
    BY <1>6, <2>1
  <2>3. Emit(s, NoSegments, Len(s) + 1).segs = Append(NoSegments.segs, s)
    BY <2>2 DEF Emit, NoSegments
  <2>4. QED
    BY <2>3 DEF NoSegments
<1>10. Without(<<>>, <<s>>) = <<s>>
  BY <1>5, WithoutOne
<1>11. Segments(s, d) = <<s>>
  BY <1>8, <1>9, <1>10
<1>12. QED
  BY <1>4, <1>6, <1>11 DEF SeenAs, s

(* The first line and those after it.                                       *)
LEMMA JoinFirst ==
  ASSUME NEW C, NEW h \in Seq(C), NEW sep \in Seq(C), NEW lines \in Seq(Seq(C)), lines # <<>>
  PROVE  Join(<<h>> \o lines, sep) = (h \o sep) \o Join(lines, sep)
<1> DEFINE one == <<h>>
           p == h \o sep
           T == {t \in Seq(Seq(C)) : t # <<>> => Join(one \o t, sep) = p \o Join(t, sep)}
<1>1. one \in Seq(Seq(C)) /\ one # <<>> /\ Join(one, sep) = h /\ p \in Seq(C)
  BY Single, JoinOne, ConcatProperties
<1> HIDE DEF one, p
<1>2. <<>> \in T
  BY EmptySeq
<1>3. ASSUME NEW t \in Seq(Seq(C)), NEW l \in Seq(C), t \in T PROVE Append(t, l) \in T
  <2> DEFINE more == Append(t, l)
  <2>1. more \in Seq(Seq(C))
    BY AppendProperties
  <2> DEFINE u == one \o t
  <2>2. one \o more = Append(u, l) /\ u \in Seq(Seq(C))
    <3> DEFINE last == <<l>>
    <3>1. u \in Seq(Seq(C))
      BY <1>1, ConcatProperties
    <3>2. last \in Seq(Seq(C)) /\ more = t \o last
      BY Single, AppendIsConcat
    <3>3. Append(u, l) = u \o last
      <4> HIDE DEF u
      <4>1. QED
        BY <3>1, AppendIsConcat
    <3> HIDE DEF last, more
    <3>4. Associates(one, t, last)
      BY <1>1, <3>2, AllAssociate, Zenon
    <3>5. QED
      BY <3>1, <3>2, <3>3, <3>4 DEF Associates
  <2>3. u # <<>>
    <3>1. one \o t = <<>> => one = <<>>
      BY <1>1, ConcatSimplifications
    <3>2. QED
      BY <1>1, <3>1
  <2> HIDE DEF u
  <2>4. Join(one \o more, sep) = (Join(u, sep) \o sep) \o l
    BY <2>2, <2>3, JoinMore, ZenonT(60)
  <2>5. Join(one \o more, sep) = p \o Join(more, sep)
    <3>1. CASE t = <<>>
      <4>1. one \o t = one /\ more = <<l>>
        BY <1>1, <3>1, ConcatEmptySeq
      <4>2. Join(more, sep) = l
        BY <4>1, JoinOne
      <4>3. QED
        BY <1>1, <2>4, <4>1, <4>2 DEF p, u
    <3>2. CASE t # <<>>
      <4> DEFINE j == Join(t, sep)
      <4>1. Join(one \o t, sep) = p \o j
        BY <1>3, <3>2
      <4>2. Join(more, sep) = (j \o sep) \o l
        BY <3>2, JoinMore
      <4>3. j \in Seq(C) /\ j \o sep \in Seq(C)
        BY JoinText, ConcatProperties
      <4> HIDE DEF j, more
      <4>4. Associates(p, j, sep) /\ Associates(p, j \o sep, l)
        BY <1>1, <4>3, AllAssociate, Zenon
      <4>5. QED
        BY <2>4, <4>1, <4>2, <4>4 DEF Associates, u
    <3>3. QED
      BY <3>1, <3>2
  <2>6. QED
    BY <2>1, <2>5
<1> HIDE DEF T
<1>4. Seq(Seq(C)) \subseteq T
  BY <1>2, <1>3, ByAppend
<1>5. QED
  BY <1>4 DEF T, one, p

(* The command of these words is their line, in PowerShell behind its call  *)
(* operator (CommandFromArgv).                                              *)
LEMMA CommandIsLine ==
  ASSUME NEW C, Quotables \cup {"&"} \subseteq C, NEW d \in {"sh", "powershell"},
         NEW words \in Seq(Seq(C)), words # <<>>
  PROVE  CommandFromArgv(d, words) =
           IF d = "powershell" THEN <<"&", "SP">> \o QuotedLine(d, words)
           ELSE QuotedLine(d, words)
<1> DEFINE f == [x \in Seq(C) |-> Quote(d, x)]
           q == QuotedWords(d, words)
           sep == <<"SP">>
           h == <<"&">>
<1>1. q \in Seq(Seq(C)) /\ q # <<>>
  <2>1. f \in [Seq(C) -> Seq(C)] /\ <<>> \in Seq(C)
    BY QuoteEnds, EmptySeq
  <2>2. \A i \in DOMAIN words : f[words[i]] = Quote(d, words[i])
    BY ElementOfSeq, LenProperties
  <2> HIDE DEF f
  <2>3. q = Mapped(f, words)
    BY <2>2 DEF Mapped, QuotedWords
  <2>4. Mapped(f, words) \in Seq(Seq(C))
    BY <2>1, MapAppend
  <2>5. DOMAIN q = DOMAIN words /\ 1 \in DOMAIN words
    <3>1. Len(words) \in Nat \ {0} /\ DOMAIN words = 1..Len(words)
      BY EmptySeq, LenProperties
    <3>2. QED
      BY <3>1 DEF QuotedWords
  <2>6. QED
    BY <2>3, <2>4, <2>5
<1>2. CommandFromArgv(d, words) = Join(IF d = "powershell" THEN <<h>> \o q ELSE q, sep)
  BY DEF CommandFromArgv, QuotedWords
<1>3. h \in Seq(C) /\ sep \in Seq(C) /\ h \o sep = <<"&", "SP">>
  <2>1. "&" \in C /\ "SP" \in C
    BY DEF Quotables
  <2>2. h \in Seq(C) /\ sep \in Seq(C)
    BY <2>1
  <2>3. h \o sep = <<"&", "SP">>
    <3>1. Append(h, "SP") = h \o <<"SP">>
      BY <2>1, <2>2, AppendIsConcat
    <3>2. ASSUME NEW a, NEW b PROVE Append(<<a>>, b) = <<a, b>>
      <4> DEFINE D == {a, b}
                 one == <<a>>
                 both == <<a, b>>
                 s == Append(one, b)
      <4>1. a \in D /\ b \in D /\ one \in Seq(D) /\ Len(one) = 1 /\ one[1] = a
        BY Single
      <4>2. both \in Seq(D) /\ Len(both) = 2 /\ both[1] = a /\ both[2] = b
        OBVIOUS
      <4> HIDE DEF D, one, both
      <4>3. s \in Seq(D) /\ Len(s) = 2 /\ s[1] = a /\ s[2] = b
        <5>0. one \in Seq(D) /\ b \in D
          BY <4>1
        <5>1. /\ s \in Seq(D) /\ Len(s) = Len(one) + 1 /\ s[Len(one) + 1] = b
              /\ \A i \in 1..Len(one) : s[i] = one[i]
          BY <5>0, AppendProperties
        <5>2. 1 \in 1..Len(one)
          BY <4>1
        <5>3. QED
          BY <4>1, <5>1, <5>2
      <4> HIDE DEF s
      <4>4. \A i \in 1..2 : s[i] = both[i]
        BY <4>2, <4>3
      <4>5. s = both
        BY <4>2, <4>3, <4>4, SeqEqual
      <4>6. QED
        BY <4>5 DEF s, both, one
    <3>3. Append(h, "SP") = <<"&", "SP">>
      BY <3>2, Zenon
    <3>4. QED
      BY <3>1, <3>3
  <2>4. QED
    BY <2>2, <2>3
<1>4. QuotedLine(d, words) = Join(q, sep)
  BY DEF QuotedLine
<1> HIDE DEF q, sep, h
<1>5. Join(<<h>> \o q, sep) = (h \o sep) \o Join(q, sep)
  BY <1>1, <1>3, JoinFirst
<1>6. QED
  BY <1>2, <1>3, <1>4, <1>5

----------------------------------------------------------------------------
(* The symbols of a line.                                                   *)
LineSymbols ==
  STRING \cup {"BS", "BT", "^", "'", "DQ", "SP", "CR", "LF", "&", "|", "<", ">", "(", ")", ";", "#"}

(* What is said of strings holds of symbols, and an escape is one.          *)
LEMMA SymbolsOf ==
  ASSUME NEW d
  PROVE  /\ Seq(STRING) \subseteq Seq(LineSymbols) /\ Escape(d) \in LineSymbols
         /\ Gaps \subseteq Seq(LineSymbols)
<1>1. STRING \subseteq LineSymbols /\ {"SP", "CR"} \subseteq LineSymbols
  BY DEF LineSymbols
<1>2. Seq(STRING) \subseteq Seq(LineSymbols)
  BY <1>1, SeqMonotonic
<1>3. Gaps \subseteq Seq(LineSymbols)
  BY <1>1, SeqMonotonic DEF Gaps
<1>4. Escape(d) \in LineSymbols
  BY DEF LineSymbols, Escape
<1>5. QED
  BY <1>2, <1>3, <1>4

(* The shell has read p, is within in, maybe behind an escape, and has the  *)
(* words f.                                                                 *)
Taken(p, d, in, esc, f, C) ==
  /\ p \in Seq(C) /\ f \in FieldStates(C)
  /\ Marked(p, d) = [in |-> in, esc |-> esc, marks |-> Marks(p, d)]
  /\ Marks(p, d) \in Seq(MarkNames) /\ Len(Marks(p, d)) = Len(p)
  /\ Fielded(Marks(p, d), p) = f

(* c is marked m and takes the shell from one state to another.             *)
TurnsTo(d, in, esc, c, m, out, e) ==
  \A k \in Seq(MarkNames) :
    MarkStep(d, [in |-> in, esc |-> esc, marks |-> k], c) =
      [in |-> out, esc |-> e, marks |-> Append(k, m)]

(* How each symbol is marked outside of quotes and within them.             *)
LEMMA SymbolMarks ==
  ASSUME NEW d \in Dialects, NEW c
  PROVE  /\ TurnsTo(d, "none", TRUE, c, "escaped", "none", FALSE)
         /\ TurnsTo(d, "none", FALSE, Escape(d), "escape", "none", TRUE)
         /\ c \notin {Escape(d), "DQ"} /\ (d = "cmd" \/ c # "'") =>
              TurnsTo(d, "none", FALSE, c, "plain", "none", FALSE)
         /\ d # "cmd" => /\ TurnsTo(d, "none", FALSE, "'", "quote", "'", FALSE)
                         /\ TurnsTo(d, "'", FALSE, "'", "quote", "none", FALSE)
                         /\ c # "'" => TurnsTo(d, "'", FALSE, c, "quoted", "'", FALSE)
         /\ TurnsTo(d, "none", FALSE, "DQ", "quote", "DQ", FALSE)
         /\ TurnsTo(d, "DQ", FALSE, "DQ", "quote", "none", FALSE)
         /\ c \notin {Escape(d), "DQ"} => TurnsTo(d, "DQ", FALSE, c, "quoted", "DQ", FALSE)
<1>1. Escape(d) \in {"BS", "BT", "^"}
  BY DEF Escape
<1>2. QED
  BY <1>1, Zenon DEF TurnsTo, MarkStep, Dialects

(* Nothing has been taken.                                                  *)
LEMMA TakenNothing ==
  ASSUME NEW C, NEW d
  PROVE  Taken(<<>>, d, "none", FALSE, NoFields, C)
<1>1. Reads(<<>>, d, "none", NoFields, C)
  BY ReadNothing
<1>2. QED
  BY <1>1 DEF Reads, Taken

(* One symbol more has been taken, and is marked m.                         *)
TakesMore(p, d, out, e, f, m, c, C) ==
  /\ Taken(Append(p, c), d, out, e, FieldStep(f, m, c), C)
  /\ Marks(Append(p, c), d) = Append(Marks(p, d), m)
(* A symbol that the shell turns on takes it there.                        *)
LEMMA TakeMore ==
  ASSUME NEW C, NEW d, NEW p, NEW in, NEW esc, NEW f, Taken(p, d, in, esc, f, C), NEW c \in C,
         NEW m \in MarkNames, NEW out, NEW e, TurnsTo(d, in, esc, c, m, out, e)
  PROVE  TakesMore(p, d, out, e, f, m, c, C)
<1> DEFINE n == Len(p)
           t == Append(p, c)
           k == Marks(p, d)
           l == Marks(t, d)
<1>1. /\ p \in Seq(C) /\ f \in FieldStates(C) /\ k \in Seq(MarkNames) /\ Len(k) = n
      /\ Marked(p, d) = [in |-> in, esc |-> esc, marks |-> k]
      /\ Fielded(k, p) = f
  BY DEF Taken
<1>2. t \in Seq(C) /\ n \in Nat /\ Len(t) = n + 1 /\ t[n + 1] = c /\ \A i \in 1..n : t[i] = p[i]
  BY <1>1, AppendProperties, LenProperties
<1>3. Marked(t, d) = MarkStep(d, Marked(p, d), c)
  BY <1>1, MarkedAppend
<1> HIDE DEF t, k
<1>4. Marked(t, d) = [in |-> out, esc |-> e, marks |-> Append(k, m)]
  BY <1>1, <1>3 DEF TurnsTo
<1>5. l = Append(k, m)
  BY <1>4 DEF Marks
<1>6. l \in Seq(MarkNames) /\ Len(l) = n + 1 /\ l[n + 1] = m /\ \A i \in 1..n : l[i] = k[i]
  BY <1>1, <1>5, AppendProperties
<1> HIDE DEF l
<1>7. Fielded(l, t) = FieldStep(f, m, c)
  <2>1. Fielded(l, Append(p, c)) = FieldStep(Fielded(k, p), l[Len(p) + 1], c)
    BY <1>1, <1>6, FieldedAppend
  <2>2. QED
    BY <1>1, <1>6, <2>1 DEF t
<1>8. FieldStep(f, m, c) \in FieldStates(C)
  BY <1>1, FieldSteps
<1>9. Taken(t, d, out, e, FieldStep(f, m, c), C)
  BY <1>2, <1>4, <1>5, <1>6, <1>7, <1>8 DEF Taken, l
<1>10. QED
  BY <1>5, <1>9 DEF t, k, l, TakesMore

(* What each mark does to the words.                                        *)
LEMMA MarkFields ==
  ASSUME NEW C, NEW f \in FieldStates(C), NEW c \in C
  PROVE  /\ FieldStep(f, "quote", c) = f /\ FieldStep(f, "escape", c) = f
         /\ FieldStep(f, "quoted", c) = WithSymbol(f, c) /\ FieldStep(f, "escaped", c) = WithSymbol(f, c)
         /\ c \notin Space => FieldStep(f, "plain", c) = WithSymbol(f, c)
         /\ c \in Space => FieldStep(f, "plain", c) = Flush(f)
BY DEF FieldStep, WithSymbol

(* A word that grows by symbols.                                            *)
WordGrows(f, r, c) == WithWord(f, Append(r, c)) = WithSymbol(WithWord(f, r), c)
(* A symbol behind what comes to the word is one that comes to the word.   *)
LEMMA WithWordMore ==
  ASSUME NEW C, NEW f \in FieldStates(C), NEW r \in Seq(C), NEW c \in C
  PROVE  /\ WordGrows(f, r, c) /\ WithWord(f, <<c>>) = WithSymbol(f, c)
         /\ WithWord(f, r) \in FieldStates(C)
<1>1. f.word \in Seq(C) /\ f.words \in Seq(Seq(C)) /\ f = [words |-> f.words, word |-> f.word]
  BY DEF FieldStates
<1>2. f.word \o Append(r, c) = Append(f.word \o r, c)
  BY <1>1, ConcatAppend
<1>3. f.word \o <<c>> = Append(f.word, c) /\ f.word \o r \in Seq(C)
  BY <1>1, AppendIsConcat, ConcatProperties
<1>4. QED
  BY <1>1, <1>2, <1>3 DEF WithWord, WithSymbol, WordGrows, FieldStates

(* A word that does not grow.                                               *)
LEMMA WithNothing ==
  ASSUME NEW C, NEW f \in FieldStates(C)
  PROVE  WithWord(f, <<>>) = f
BY ConcatEmptySeq DEF WithWord, FieldStates

(* Nothing behind p is plain.                                               *)
NonePlain(d, p, t) == \A i \in 1..Len(t) : i > Len(p) => Marks(t, d)[i] # "plain"

(* One symbol more that is not plain.                                       *)
LEMMA NonePlainMore ==
  ASSUME NEW C, NEW d, NEW p, NEW q, q \in Seq(C), NEW c \in C, NonePlain(d, p, q),
         NEW m \in MarkNames, m # "plain", Marks(q, d) \in Seq(MarkNames),
         Len(Marks(q, d)) = Len(q), Marks(Append(q, c), d) = Append(Marks(q, d), m)
  PROVE  NonePlain(d, p, Append(q, c))
<1> DEFINE n == Len(q)
           k == Marks(q, d)
           l == Append(k, m)
<1>1. /\ n \in Nat /\ Len(Append(q, c)) = n + 1 /\ Len(k) = n /\ l[n + 1] = m
      /\ \A i \in 1..n : l[i] = k[i]
  BY AppendProperties, LenProperties
<1>2. \A i \in 1..n : i > Len(p) => k[i] # "plain"
  BY DEF NonePlain
<1> HIDE DEF n, k, l
<1>3. \A i \in 1..(n + 1) : i > Len(p) => l[i] # "plain"
  <2>1. \A i \in 1..(n + 1) : i \in 1..n \/ i = n + 1
    BY <1>1
  <2>2. QED
    BY <1>1, <1>2, <2>1
<1>4. QED
  BY <1>1, <1>3 DEF NonePlain, l, k

(* A run of symbols that are all marked m has been taken.                   *)
RunTaken(o, p, d, q, r, f, m, C) ==
  /\ Taken(p \o r, d, q, FALSE, WithWord(f, r), C)
  /\ m # "plain" => NonePlain(d, o, p \o r)
(* A run of symbols that leave the shell where it is comes to the open word. *)
LEMMA RunTakes ==
  ASSUME NEW C, NEW d, NEW p, NEW q, NEW f, Taken(p, d, q, FALSE, f, C), NEW r \in Seq(C),
         NEW m \in {"quoted", "plain"}, NEW o, m # "plain" => NonePlain(d, o, p),
         \A c \in ToSet(r) : TurnsTo(d, q, FALSE, c, m, q, FALSE) /\ (m = "plain" => c \notin Space)
  PROVE  RunTaken(o, p, d, q, r, f, m, C)
<1> DEFINE S == ToSet(r)
           T == {t \in Seq(S) : RunTaken(o, p, d, q, t, f, m, C)}
<1>1. p \in Seq(C) /\ f \in FieldStates(C) /\ m \in MarkNames
  BY DEF Taken, MarkNames
<1>2. S \subseteq C /\ r \in Seq(S)
  <2>1. \A i \in DOMAIN r : r[i] \in C
    BY ElementOfSeq, LenProperties
  <2>2. S = {r[i] : i \in DOMAIN r}
    BY DEF ToSet
  <2>3. Len(r) \in Nat /\ DOMAIN r = 1..Len(r) /\ r = [i \in 1..Len(r) |-> r[i]]
    BY LenProperties
  <2> HIDE DEF S
  <2>4. r \in [1..Len(r) -> S]
    BY <2>2, <2>3
  <2>5. r \in Seq(S)
    BY <2>3, <2>4
  <2>6. QED
    BY <2>1, <2>2, <2>5
<1> HIDE DEF S
<1>3. <<>> \in T
  <2> DEFINE none == << >>
  <2>1. p \o none = p /\ none \in Seq(S)
    BY <1>1, ConcatEmptySeq, EmptySeq
  <2>2. WithWord(f, none) = f
    BY <1>1, WithNothing
  <2> HIDE DEF none
  <2>3. RunTaken(o, p, d, q, none, f, m, C)
    BY <2>1, <2>2 DEF RunTaken
  <2>4. QED
    BY <2>1, <2>3 DEF none
<1>4. ASSUME NEW t \in Seq(S), NEW c \in S, t \in T PROVE Append(t, c) \in T
  <2> DEFINE u == p \o t
             g == WithWord(f, t)
  <2>1. Taken(u, d, q, FALSE, g, C) /\ (m # "plain" => NonePlain(d, o, u))
    BY <1>4 DEF RunTaken
  <2>2. c \in C /\ t \in Seq(C) /\ TurnsTo(d, q, FALSE, c, m, q, FALSE)
    <3>1. TurnsTo(d, q, FALSE, c, m, q, FALSE)
      BY DEF S
    <3>2. t \in Seq(C)
      BY <1>2
    <3>3. QED
      BY <1>2, <3>1, <3>2
  <2>3. g \in FieldStates(C) /\ u \in Seq(C)
    BY <2>1 DEF Taken
  <2>4. p \o Append(t, c) = Append(u, c)
    BY <1>1, <2>2, ConcatAppend
  <2> HIDE DEF T
  <2>5. WithWord(f, Append(t, c)) = WithSymbol(g, c)
    <3>1. WordGrows(f, t, c)
      BY <1>1, <2>2, WithWordMore
    <3>2. QED
      BY <3>1 DEF WordGrows
  <2>6. Append(t, c) \in Seq(S)
    BY AppendProperties
  <2> HIDE DEF u, g
  <2>7. TakesMore(u, d, q, FALSE, g, m, c, C)
    BY <1>1, <2>1, <2>2, TakeMore
  <2>8. Taken(Append(u, c), d, q, FALSE, WithSymbol(g, c), C)
    <3>1. m = "plain" => c \notin Space
      BY DEF S
    <3>2. FieldStep(g, m, c) = WithSymbol(g, c)
      BY <2>2, <2>3, <3>1, MarkFields
    <3>3. QED
      BY <2>7, <3>2 DEF TakesMore
  <2>9. m # "plain" => NonePlain(d, o, Append(u, c))
    <3>1. Marks(u, d) \in Seq(MarkNames) /\ Len(Marks(u, d)) = Len(u)
      BY <2>1 DEF Taken
    <3>2. Marks(Append(u, c), d) = Append(Marks(u, d), m)
      BY <2>7 DEF TakesMore
    <3>3. QED
      BY <1>1, <2>1, <2>2, <2>3, <3>1, <3>2, NonePlainMore
  <2>10. RunTaken(o, p, d, q, Append(t, c), f, m, C)
    BY <2>4, <2>5, <2>8, <2>9 DEF RunTaken
  <2>11. QED
    BY <2>6, <2>10 DEF T
<1> HIDE DEF T
<1>5. Seq(S) \subseteq T
  BY <1>3, <1>4, ByAppend
<1>6. QED
  BY <1>2, <1>5 DEF T

(* A piece of a word has been taken: what it means comes to the open word.  *)
PieceTaken(p, d, a, f) ==
  /\ Taken(p \o Spelled(d, a), d, "none", FALSE, WithWord(f, a.run), LineSymbols)
  /\ a.form \in {"escaped", "single", "double"} => NonePlain(d, p, p \o Spelled(d, a))
(* A piece of one plain symbol comes to the open word.                     *)
LEMMA PlainPiece ==
  ASSUME NEW d \in Dialects, NEW a, IsPiece(d, a), NEW p, NEW f,
         Taken(p, d, "none", FALSE, f, LineSymbols),
         a.form \in {"bare", "ampersand", "redirection"}
  PROVE  PieceTaken(p, d, a, f)
<1>1. a.run \in Seq(LineSymbols) /\ Spelled(d, a) = a.run
  BY SymbolsOf DEF IsPiece, Spelled
<1>2. \A c \in ToSet(a.run) : c \notin {Escape(d), "DQ"} /\ (d = "cmd" \/ c # "'") /\ c \notin Space
  <2>1. CASE a.form = "bare"
    <3>1. Len(a.run) = 1 /\ a.run[1] \notin Meta(d)
      BY <2>1 DEF IsPiece
    <3>2. \A c \in ToSet(a.run) : c \notin Meta(d)
      BY <1>1, <3>1 DEF ToSet
    <3>3. QED
      BY <3>2 DEF Meta, Space
  <2>2. CASE a.form # "bare"
    <3>1. a.run = <<"&">> \/ a.run \in Redirections(d)
      BY <2>2 DEF IsPiece
    <3>2. \A c \in ToSet(a.run) : c \in {"&", "<", ">"}
      BY <3>1 DEF ToSet, Redirections
    <3>3. QED
      BY <3>2 DEF Escape, Space
  <2>3. QED
    BY <2>1, <2>2
<1>3. \A c \in ToSet(a.run) : TurnsTo(d, "none", FALSE, c, "plain", "none", FALSE)
  BY <1>2, SymbolMarks
<1>4. RunTaken(p, p, d, "none", a.run, f, "plain", LineSymbols)
  BY <1>1, <1>2, <1>3, RunTakes
<1>5. QED
  BY <1>1, <1>4 DEF RunTaken, PieceTaken
(* Nothing is behind p.                                                     *)
LEMMA NonePlainYet ==
  ASSUME NEW C, NEW p \in Seq(C), NEW d
  PROVE  NonePlain(d, p, p)
BY LenProperties DEF NonePlain

(* One symbol that is not plain has been taken behind p.                    *)
LEMMA TakeMarked ==
  ASSUME NEW C, NEW d, NEW p, NEW u, NEW in, NEW esc, NEW f, Taken(u, d, in, esc, f, C),
         NonePlain(d, p, u), NEW c \in C, NEW m \in {"quote", "escape", "escaped"}, NEW out, NEW e,
         TurnsTo(d, in, esc, c, m, out, e)
  PROVE  /\ Taken(Append(u, c), d, out, e, IF m = "escaped" THEN WithSymbol(f, c) ELSE f, C)
         /\ NonePlain(d, p, Append(u, c))
<1>1. m \in MarkNames /\ m # "plain"
  BY DEF MarkNames
<1>2. TakesMore(u, d, out, e, f, m, c, C)
  BY <1>1, TakeMore
<1>3. /\ u \in Seq(C) /\ f \in FieldStates(C) /\ Marks(u, d) \in Seq(MarkNames)
      /\ Len(Marks(u, d)) = Len(u)
  BY DEF Taken
<1>4. FieldStep(f, m, c) = IF m = "escaped" THEN WithSymbol(f, c) ELSE f
  BY <1>3, MarkFields
<1>5. NonePlain(d, p, Append(u, c))
  BY <1>1, <1>2, <1>3, NonePlainMore DEF TakesMore
<1>6. QED
  BY <1>2, <1>4, <1>5 DEF TakesMore

(* Quoted pieces.                                                           *)
Quoted(q, r) == <<q>> \o r \o <<q>>
(* What is between quotes comes to the open word, the quotes do not.       *)
LEMMA QuotedTaken ==
  ASSUME NEW C, NEW d, NEW p, NEW f, Taken(p, d, "none", FALSE, f, C), NEW q \in C,
         NEW r \in Seq(C), TurnsTo(d, "none", FALSE, q, "quote", q, FALSE),
         TurnsTo(d, q, FALSE, q, "quote", "none", FALSE),
         \A c \in ToSet(r) : TurnsTo(d, q, FALSE, c, "quoted", q, FALSE)
  PROVE  /\ Taken(p \o Quoted(q, r), d, "none", FALSE, WithWord(f, r), C)
         /\ NonePlain(d, p, p \o Quoted(q, r))
<1> DEFINE u == Append(p, q)
           v == u \o r
<1>1. p \in Seq(C)
  BY DEF Taken
<1>2. u \in Seq(C) /\ v \in Seq(C)
  BY <1>1, AppendProperties, ConcatProperties
<1>3. p \o Quoted(q, r) = Append(v, q)
  <2> DEFINE one == <<q>>
  <2>1. one \in Seq(C) /\ u = p \o one
    BY <1>1, Single, AppendIsConcat
  <2>2. Append(v, q) = v \o one
    <3> HIDE DEF v
    <3>1. QED
      BY <1>2, AppendIsConcat
  <2>3. one \o r \in Seq(C)
    BY <2>1, ConcatProperties
  <2>4. Quoted(q, r) = (one \o r) \o one
    BY DEF Quoted
  <2> HIDE DEF one, u
  <2>5. Associates(p, one, r) /\ Associates(p, one \o r, one)
    BY <1>1, <2>1, <2>3, AllAssociate
  <2>6. QED
    BY <2>1, <2>2, <2>4, <2>5 DEF Associates
<1>4. NonePlain(d, p, p)
  BY <1>1, NonePlainYet
<1>5. Taken(u, d, q, FALSE, f, C) /\ NonePlain(d, p, u)
  BY <1>4, TakeMarked
<1> HIDE DEF u
<1>6. RunTaken(p, u, d, q, r, f, "quoted", C)
  BY <1>5, RunTakes
<1>7. Taken(v, d, q, FALSE, WithWord(f, r), C) /\ NonePlain(d, p, v)
  BY <1>6 DEF RunTaken
<1> HIDE DEF v
<1>8. Taken(Append(v, q), d, "none", FALSE, WithWord(f, r), C) /\ NonePlain(d, p, Append(v, q))
  BY <1>7, TakeMarked
<1>9. QED
  BY <1>3, <1>8

(* Every piece is taken for what it means.                                 *)
LEMMA PieceTakes ==
  ASSUME NEW d \in Dialects, NEW a, IsPiece(d, a), NEW p, NEW f,
         Taken(p, d, "none", FALSE, f, LineSymbols)
  PROVE  PieceTaken(p, d, a, f)
<1>1. a.run \in Seq(LineSymbols) /\ a.form \in Forms
  BY SymbolsOf DEF IsPiece
<1>2. CASE a.form \in {"bare", "ampersand", "redirection"}
  BY <1>2, PlainPiece
<1>3. CASE a.form = "single"
  <2>1. d # "cmd" /\ "'" \notin ToSet(a.run) /\ Spelled(d, a) = Quoted("'", a.run)
    BY <1>3 DEF IsPiece, Spelled, Quoted
  <2>2. /\ TurnsTo(d, "none", FALSE, "'", "quote", "'", FALSE)
        /\ TurnsTo(d, "'", FALSE, "'", "quote", "none", FALSE)
    BY <2>1, SymbolMarks
  <2>3. \A c \in ToSet(a.run) : TurnsTo(d, "'", FALSE, c, "quoted", "'", FALSE)
    <3>1. ASSUME NEW c \in ToSet(a.run) PROVE TurnsTo(d, "'", FALSE, c, "quoted", "'", FALSE)
      <4>1. c # "'"
        BY <2>1
      <4>2. QED
        BY <2>1, <4>1, SymbolMarks
    <3>2. QED
      BY <3>1
  <2>4. /\ Taken(p \o Quoted("'", a.run), d, "none", FALSE, WithWord(f, a.run), LineSymbols)
        /\ NonePlain(d, p, p \o Quoted("'", a.run))
    BY <1>1, <2>2, <2>3, QuotedTaken DEF LineSymbols
  <2>5. QED
    BY <2>1, <2>4 DEF PieceTaken
<1>4. CASE a.form = "double"
  <2>1. /\ "DQ" \notin ToSet(a.run) /\ Escape(d) \notin ToSet(a.run)
        /\ Spelled(d, a) = Quoted("DQ", a.run)
    BY <1>4 DEF IsPiece, Spelled, Quoted
  <2>2. /\ TurnsTo(d, "none", FALSE, "DQ", "quote", "DQ", FALSE)
        /\ TurnsTo(d, "DQ", FALSE, "DQ", "quote", "none", FALSE)
    BY <2>1, SymbolMarks
  <2>3. \A c \in ToSet(a.run) : TurnsTo(d, "DQ", FALSE, c, "quoted", "DQ", FALSE)
    <3>1. ASSUME NEW c \in ToSet(a.run) PROVE TurnsTo(d, "DQ", FALSE, c, "quoted", "DQ", FALSE)
      <4>1. c \notin {Escape(d), "DQ"}
        BY <2>1
      <4>2. QED
        BY <2>1, <4>1, SymbolMarks
    <3>2. QED
      BY <3>1
  <2>4. /\ Taken(p \o Quoted("DQ", a.run), d, "none", FALSE, WithWord(f, a.run), LineSymbols)
        /\ NonePlain(d, p, p \o Quoted("DQ", a.run))
    BY <1>1, <2>2, <2>3, QuotedTaken DEF LineSymbols
  <2>5. QED
    BY <2>1, <2>4 DEF PieceTaken
<1>5. CASE a.form = "escaped"
  <2> DEFINE e == Escape(d)
             c == a.run[1]
             u == Append(p, e)
             v == Append(u, c)
  <2>1. Len(a.run) = 1 /\ Spelled(d, a) = <<e>> \o a.run
    BY <1>5 DEF IsPiece, Spelled
  <2>2. c \in LineSymbols /\ a.run = <<c>> /\ e \in LineSymbols /\ p \in Seq(LineSymbols) /\ f \in FieldStates(LineSymbols)
    <3>1. p \in Seq(LineSymbols) /\ f \in FieldStates(LineSymbols)
      BY DEF Taken
    <3>2. e \in LineSymbols
      BY SymbolsOf
    <3>3. c \in LineSymbols /\ a.run = <<c>>
      BY <1>1, <2>1
    <3>4. QED
      BY <3>1, <3>2, <3>3
  <2>3. p \o Spelled(d, a) = v
    <3> HIDE DEF c, e
    <3>1. v = (p \o <<e>>) \o <<c>>
      <4>1. u = p \o <<e>> /\ u \in Seq(LineSymbols)
        BY <2>2, AppendIsConcat, AppendProperties
      <4> HIDE DEF u
      <4>2. v = u \o <<c>>
        BY <2>2, <4>1, AppendIsConcat
      <4>3. QED
        BY <4>1, <4>2
    <3>2. Associates(p, <<e>>, <<c>>)
      BY <2>2, AllAssociate, Single
    <3>3. QED
      BY <2>1, <2>2, <3>1, <3>2 DEF Associates
  <2>4. NonePlain(d, p, p)
    BY <2>2, NonePlainYet
  <2>5. /\ TurnsTo(d, "none", FALSE, e, "escape", "none", TRUE)
        /\ TurnsTo(d, "none", TRUE, c, "escaped", "none", FALSE)
    BY SymbolMarks
  <2>6. WithWord(f, a.run) = WithSymbol(f, c)
    BY <1>1, <2>2, WithWordMore
  <2> HIDE DEF e, c
  <2>7. Taken(u, d, "none", TRUE, f, LineSymbols) /\ NonePlain(d, p, u)
    BY <2>2, <2>4, <2>5, TakeMarked
  <2> HIDE DEF u
  <2>8. Taken(v, d, "none", FALSE, WithSymbol(f, c), LineSymbols) /\ NonePlain(d, p, v)
    BY <2>2, <2>5, <2>7, TakeMarked
  <2>9. QED
    BY <2>3, <2>6, <2>8 DEF PieceTaken
<1>6. QED
  BY <1>1, <1>2, <1>3, <1>4, <1>5 DEF Forms

----------------------------------------------------------------------------
(* The mark of a symbol and the state behind it, from the state before it.  *)
Escapes(d, in, c) == c = Escape(d) /\ (in # "'" \/ d = "cmd")
Quotes(d, in, c) ==
  \/ c = "'" /\ d # "cmd" /\ in \in {"none", "'"}
  \/ c = "DQ" /\ in \in {"none", "DQ"}
MarkOf(d, in, esc, c) ==
  IF esc THEN "escaped" ELSE IF Escapes(d, in, c) THEN "escape"
  ELSE IF Quotes(d, in, c) THEN "quote" ELSE IF in = "none" THEN "plain" ELSE "quoted"
InOf(d, in, esc, c) ==
  IF ~esc /\ ~Escapes(d, in, c) /\ Quotes(d, in, c) THEN (IF in = "none" THEN c ELSE "none") ELSE in
EscOf(d, in, esc, c) == ~esc /\ Escapes(d, in, c)

(* These are what a step makes.                                             *)
StepsTo(d, acc, c) ==
  MarkStep(d, acc, c) = [ in |-> InOf(d, acc.in, acc.esc, c), esc |-> EscOf(d, acc.in, acc.esc, c),
                          marks |-> Append(acc.marks, MarkOf(d, acc.in, acc.esc, c)) ]
(* Every step marks a symbol and moves as these say.                       *)
LEMMA MarkForm ==
  ASSUME NEW d, NEW acc \in MarkStates, NEW c
  PROVE  StepsTo(d, acc, c) /\ MarkOf(d, acc.in, acc.esc, c) \in MarkNames
<1> DEFINE escapes == Escapes(d, acc.in, c)
           quotes == Quotes(d, acc.in, c)
           m == IF acc.in = "none" THEN "plain" ELSE "quoted"
           in == IF acc.in = "none" THEN c ELSE "none"
<1>1. /\ acc = [in |-> acc.in, esc |-> acc.esc, marks |-> acc.marks]
      /\ acc.in \in {"none", "'", "DQ"} /\ acc.esc \in BOOLEAN
  BY DEF MarkStates
<1>2. MarkStep(d, acc, c) =
        IF acc.esc THEN [acc EXCEPT !.esc = FALSE, !.marks = Append(@, "escaped")]
        ELSE IF escapes THEN [acc EXCEPT !.esc = TRUE, !.marks = Append(@, "escape")]
        ELSE IF quotes
        THEN [acc EXCEPT !.in = IF @ = "none" THEN c ELSE "none", !.marks = Append(@, "quote")]
        ELSE [acc EXCEPT !.marks = Append(@, IF acc.in = "none" THEN "plain" ELSE "quoted")]
  BY DEF MarkStep, Escapes, Quotes
<1>3. MarkOf(d, acc.in, acc.esc, c) \in MarkNames
  BY DEF MarkOf, MarkNames
<1>4. CASE acc.esc
  <2>1. MarkStep(d, acc, c) = [in |-> acc.in, esc |-> FALSE, marks |-> Append(acc.marks, "escaped")]
    BY <1>1, <1>2, <1>4
  <2>2. QED
    BY <1>3, <1>4, <2>1 DEF StepsTo, MarkOf, InOf, EscOf
<1> HIDE DEF escapes, quotes
<1>5. CASE ~acc.esc /\ escapes
  <2>1. MarkStep(d, acc, c) = [in |-> acc.in, esc |-> TRUE, marks |-> Append(acc.marks, "escape")]
    BY <1>1, <1>2, <1>5
  <2>2. QED
    BY <1>3, <1>5, <2>1 DEF StepsTo, MarkOf, InOf, EscOf, escapes
<1>6. CASE ~acc.esc /\ ~escapes /\ quotes
  <2>1. MarkStep(d, acc, c) = [in |-> in, esc |-> FALSE, marks |-> Append(acc.marks, "quote")]
    BY <1>1, <1>2, <1>6
  <2>2. QED
    BY <1>3, <1>6, <2>1 DEF StepsTo, MarkOf, InOf, EscOf, escapes, quotes
<1>7. CASE ~acc.esc /\ ~escapes /\ ~quotes
  <2>1. MarkStep(d, acc, c) = [in |-> acc.in, esc |-> FALSE, marks |-> Append(acc.marks, m)]
    BY <1>1, <1>2, <1>7
  <2>2. QED
    BY <1>3, <1>7, <2>1 DEF StepsTo, MarkOf, InOf, EscOf, escapes, quotes
<1>8. QED
  BY <1>1, <1>4, <1>5, <1>6, <1>7

(* What has been read leaves no quote open and no escape behind it.         *)
Closed(t, d, C) ==
  /\ t \in Seq(C) /\ Marked(t, d) = [in |-> "none", esc |-> FALSE, marks |-> Marks(t, d)]
  /\ Marks(t, d) \in Seq(MarkNames) /\ Len(Marks(t, d)) = Len(t)

(* Behind p, q is marked as it is by itself.                                *)
MarksAfter(p, q, d) ==
  Marked(p \o q, d) =
    [in |-> Marked(q, d).in, esc |-> Marked(q, d).esc, marks |-> Marks(p, d) \o Marks(q, d)]
MarkedRight(q, d) ==
  /\ Marked(q, d) \in MarkStates /\ Marks(q, d) \in Seq(MarkNames) /\ Len(Marks(q, d)) = Len(q)
(* A line is marked symbol by symbol.                                      *)
LEMMA MarksOfAll ==
  ASSUME NEW C, NEW d, NEW q \in Seq(C)
  PROVE  MarkedRight(q, d)
<1> DEFINE T == {t \in Seq(C) : MarkedRight(t, d)}
<1>1. <<>> \in T
  <2> DEFINE none == << >>
  <2>1. Taken(none, d, "none", FALSE, NoFields, C)
    BY TakenNothing
  <2> HIDE DEF none
  <2>2. MarkedRight(none, d) /\ none \in Seq(C)
    BY <2>1 DEF Taken, MarkedRight, MarkStates
  <2>3. QED
    BY <2>2 DEF none
<1>2. ASSUME NEW t \in Seq(C), NEW c \in C, t \in T PROVE Append(t, c) \in T
  <2> DEFINE u == Append(t, c)
             acc == Marked(t, d)
  <2>1. acc \in MarkStates /\ Marks(t, d) \in Seq(MarkNames) /\ Len(Marks(t, d)) = Len(t)
    BY <1>2 DEF MarkedRight
  <2>2. Marked(u, d) = MarkStep(d, acc, c)
    BY MarkedAppend
  <2>3. u \in Seq(C) /\ Len(u) = Len(t) + 1
    BY AppendProperties
  <2> HIDE DEF u, acc
  <2>4. StepsTo(d, acc, c) /\ MarkOf(d, acc.in, acc.esc, c) \in MarkNames /\ Marked(u, d) \in MarkStates
    BY <2>1, <2>2, MarkForm, MarkStays
  <2>5. Marks(u, d) = Append(Marks(t, d), MarkOf(d, acc.in, acc.esc, c))
    BY <2>2, <2>4 DEF StepsTo, Marks, acc
  <2>6. Marks(u, d) \in Seq(MarkNames) /\ Len(Marks(u, d)) = Len(u)
    BY <2>1, <2>3, <2>4, <2>5, AppendProperties
  <2>7. QED
    BY <2>3, <2>4, <2>6 DEF MarkedRight, u
<1> HIDE DEF T
<1>3. Seq(C) \subseteq T
  BY <1>1, <1>2, ByAppend
<1>4. QED
  BY <1>3 DEF T

(* What is behind a text that is closed is marked as it is by itself.      *)
LEMMA MarksConcat ==
  ASSUME NEW C, NEW d, NEW p, Closed(p, d, C), NEW q \in Seq(C)
  PROVE  MarksAfter(p, q, d)
<1> DEFINE T == {t \in Seq(C) : MarksAfter(p, t, d)}
           k == Marks(p, d)
<1>1. p \in Seq(C) /\ k \in Seq(MarkNames) /\ Marked(p, d) = [in |-> "none", esc |-> FALSE, marks |-> k]
  BY DEF Closed
<1>2. <<>> \in T
  <2> DEFINE none == << >>
  <2>1. Marked(none, d) = [in |-> "none", esc |-> FALSE, marks |-> Marks(none, d)] /\ Marks(none, d) = none
    <3>1. Taken(none, d, "none", FALSE, NoFields, C)
      BY TakenNothing
    <3>2. Marks(none, d) \in Seq(MarkNames) /\ Len(Marks(none, d)) = 0
      BY <3>1 DEF Taken
    <3> HIDE DEF none
    <3>3. Marks(none, d) = << >>
      BY <3>2, EmptySeq
    <3>4. QED
      BY <3>1, <3>3 DEF Taken, none
  <2>2. p \o none = p /\ k \o none = k /\ none \in Seq(C)
    BY <1>1, ConcatEmptySeq, EmptySeq
  <2> HIDE DEF none, k
  <2>3. MarksAfter(p, none, d)
    BY <1>1, <2>1, <2>2 DEF MarksAfter, k
  <2>4. QED
    BY <2>2, <2>3 DEF none
<1>3. ASSUME NEW t \in Seq(C), NEW c \in C, t \in T PROVE Append(t, c) \in T
  <2> DEFINE u == Append(t, c)
             acc == Marked(t, d)
             l == Marks(t, d)
             v == p \o t
             m == MarkOf(d, acc.in, acc.esc, c)
             big == [in |-> acc.in, esc |-> acc.esc, marks |-> k \o l]
  <2>1. acc \in MarkStates /\ l \in Seq(MarkNames) /\ MarkedRight(t, d)
    BY MarksOfAll DEF MarkedRight
  <2>2. v \in Seq(C) /\ p \o u = Append(v, c) /\ u \in Seq(C)
    BY <1>1, ConcatProperties, ConcatAppend, AppendProperties
  <2>3. Marked(v, d) = big
    BY <1>3 DEF MarksAfter
  <2>4. Marked(u, d) = MarkStep(d, acc, c)
    BY MarkedAppend
  <2>5. acc.marks = l
    BY DEF Marks
  <2> HIDE DEF u, acc, l, v, k, T
  <2>6. Marked(p \o u, d) = MarkStep(d, big, c)
    BY <2>2, <2>3, MarkedAppend
  <2>7. big \in MarkStates
    <3>1. k \o l \in Seq(MarkNames)
      BY <1>1, <2>1, ConcatProperties
    <3>2. QED
      BY <2>1, <3>1 DEF MarkStates
  <2>8. StepsTo(d, acc, c) /\ m \in MarkNames
    BY <2>1, MarkForm
  <2>9. StepsTo(d, big, c)
    BY <2>7, MarkForm
  <2> HIDE DEF m
  <2>10. /\ Marked(u, d).in = InOf(d, acc.in, acc.esc, c) /\ Marked(u, d).esc = EscOf(d, acc.in, acc.esc, c)
         /\ Marks(u, d) = Append(l, m)
    BY <2>4, <2>5, <2>8 DEF StepsTo, Marks, m
  <2>11. Marked(p \o u, d) = [ in |-> InOf(d, acc.in, acc.esc, c), esc |-> EscOf(d, acc.in, acc.esc, c),
                               marks |-> Append(k \o l, m) ]
    BY <2>6, <2>9 DEF StepsTo, m
  <2>12. k \o Append(l, m) = Append(k \o l, m)
    BY <1>1, <2>1, <2>8, ConcatAppend
  <2>13. MarksAfter(p, u, d)
    BY <2>10, <2>11, <2>12 DEF MarksAfter, k
  <2>14. QED
    BY <2>2, <2>13 DEF T, u
<1> HIDE DEF T
<1>4. Seq(C) \subseteq T
  BY <1>2, <1>3, ByAppend
<1>5. QED
  BY <1>4 DEF T

----------------------------------------------------------------------------
(* The text of a sequence, of which each element has the text f gives it.   *)
TextOf(f, s) == FlattenSeq(Mapped(f, s))
TextGrows(f, s, e) == TextOf(f, Append(s, e)) = TextOf(f, s) \o f[e]

(* Text comes to the end of the text.                                       *)
LEMMA TextMore ==
  ASSUME NEW C, NEW X, NEW f \in [X -> Seq(C)], NEW s \in Seq(X), NEW e \in X
  PROVE  TextOf(f, s) \in Seq(C) /\ TextGrows(f, s, e) /\ TextOf(f, <<>>) = <<>>
<1> DEFINE Y == Seq(C)
           none == << >>
           m == Mapped(f, s)
           b == f[e]
<1>1. m \in Seq(Y) /\ MapsMore(f, s, e) /\ b \in Y
  BY MapAppend
<1>2. TextOf(f, <<>>) = <<>>
  <2>1. Mapped(f, none) = << >>
    BY DEF Mapped
  <2>2. QED
    BY <2>1, FlattenEmpty DEF TextOf
<1> HIDE DEF m, b
<1>3. FlattenSeq(m) \in Seq(C)
  BY <1>1, FlattenSeqs
<1>4. FlattenSeq(Append(m, b)) = FlattenSeq(m) \o b
  BY <1>1, FlattenAppend
<1>5. QED
  BY <1>1, <1>2, <1>3, <1>4 DEF TextOf, TextGrows, MapsMore, m, b

(* The ends of a text that is two.                                          *)
EndsOf(p, q) ==
  LET s == p \o q
  IN /\ p # <<>> => s # <<>> /\ Head(s) = Head(p)
     /\ q # <<>> => s # <<>> /\ Last(s) = Last(q)
     /\ p = <<>> => s = q
     /\ q = <<>> => s = p
(* Two texts have the one's first symbol and the other's last.             *)
LEMMA ConcatEnds ==
  ASSUME NEW C, NEW p \in Seq(C), NEW q \in Seq(C)
  PROVE  EndsOf(p, q)
<1> DEFINE s == p \o q
<1>1. /\ s \in Seq(C) /\ Len(s) = Len(p) + Len(q)
      /\ \A i \in 1..(Len(p) + Len(q)) : s[i] = IF i <= Len(p) THEN p[i] ELSE q[i - Len(p)]
  BY ConcatProperties
<1>2. /\ Len(p) \in Nat /\ Len(q) \in Nat /\ (p # <<>> => Len(p) > 0) /\ (q # <<>> => Len(q) > 0)
  BY LenProperties, EmptySeq
<1>3. (p = <<>> => s = q) /\ (q = <<>> => s = p)
  BY ConcatEmptySeq
<1>4. ASSUME NEW t \in Seq(C), t # <<>> PROVE Head(t) = t[1]
  BY <1>4
<1> HIDE DEF s
<1>5. s # <<>> <=> Len(s) # 0
  BY <1>1, EmptySeq
<1>6. ASSUME p # <<>> PROVE s # <<>> /\ Head(s) = Head(p)
  <2>1. s # <<>> /\ 1 \in 1..(Len(p) + Len(q)) /\ 1 <= Len(p)
    BY <1>1, <1>2, <1>5, <1>6
  <2>2. s[1] = p[1]
    BY <1>1, <2>1
  <2>3. QED
    BY <1>1, <1>4, <1>6, <2>1, <2>2
<1>7. ASSUME q # <<>> PROVE s # <<>> /\ Last(s) = Last(q)
  <2>1. s # <<>> /\ Len(s) \in 1..(Len(p) + Len(q)) /\ ~(Len(s) <= Len(p)) /\ Len(s) - Len(p) = Len(q)
    BY <1>1, <1>2, <1>5, <1>7
  <2>2. s[Len(s)] = q[Len(q)]
    BY <1>1, <2>1
  <2>3. QED
    BY <2>1, <2>2 DEF Last
<1>8. QED
  BY <1>3, <1>6, <1>7 DEF EndsOf, s

(* Neighbours that make no operator, all along.                             *)
AllApart(f, s) == \A i \in 1..(Len(s) - 1) : Apart(f[s[i]], f[s[i + 1]])

(* Induction on a sequence with such neighbours, for a set.                 *)
LEMMA ByApart ==
  ASSUME NEW C, NEW X, NEW f \in [X -> Seq(C)], \A x \in X : f[x] # <<>>, NEW T, <<>> \in T,
         \A s \in Seq(X), x \in X : s \in T /\ Apart(TextOf(f, s), f[x]) => Append(s, x) \in T
  PROVE  \A s \in Seq(X) : AllApart(f, s) =>
           s \in T /\ (s # <<>> => TextOf(f, s) # <<>> /\ Last(TextOf(f, s)) = Last(f[Last(s)]))
<1> DEFINE E(s) == s # <<>> => TextOf(f, s) # <<>> /\ Last(TextOf(f, s)) = Last(f[Last(s)])
           U == {s \in Seq(X) : AllApart(f, s) => s \in T /\ E(s)}
<1>1. <<>> \in U
  BY EmptySeq
<1>2. ASSUME NEW s \in Seq(X), NEW x \in X, s \in U PROVE Append(s, x) \in U
  <2> DEFINE u == Append(s, x)
             t == TextOf(f, s)
             l == f[x]
             n == Len(s)
  <2>1. /\ u \in Seq(X) /\ n \in Nat /\ Len(u) = n + 1 /\ u[n + 1] = x
        /\ \A i \in 1..n : u[i] = s[i]
    BY AppendProperties, LenProperties
  <2>2. SUFFICES ASSUME AllApart(f, u) PROVE u \in T /\ E(u)
    BY <2>1
  <2>3. t \in Seq(C) /\ TextOf(f, u) = t \o l /\ TextOf(f, <<>>) = <<>>
    BY TextMore DEF TextGrows
  <2>4. l \in Seq(C) /\ l # <<>>
    OBVIOUS
  <2>5. s \in T /\ E(s)
    <3>1. ASSUME NEW i \in 1..(n - 1) PROVE Apart(f[s[i]], f[s[i + 1]])
      <4>1. i \in 1..(Len(u) - 1) /\ i \in 1..n /\ i + 1 \in 1..n
        BY <2>1
      <4>2. Apart(f[u[i]], f[u[i + 1]])
        BY <2>2, <4>1 DEF AllApart
      <4>3. QED
        BY <2>1, <4>1, <4>2
    <3>2. AllApart(f, s)
      BY <3>1 DEF AllApart
    <3>3. QED
      BY <1>2, <3>2
  <2>6. Apart(t, l)
    <3>1. CASE s = <<>>
      BY <2>3, <3>1 DEF Apart
    <3>2. CASE s # <<>>
      <4>1. t # <<>> /\ Last(t) = Last(f[Last(s)])
        BY <2>5, <3>2
      <4>2. n \in 1..(Len(u) - 1) /\ n \in 1..n
        BY <2>1, <3>2, EmptySeq
      <4>3. Apart(f[u[n]], f[u[n + 1]])
        BY <2>2, <4>2 DEF AllApart
      <4>4. Last(s) = s[n] /\ u[n] = s[n] /\ u[n + 1] = x
        BY <2>1, <4>2 DEF Last
      <4>5. Apart(f[Last(s)], l)
        BY <4>3, <4>4
      <4>6. f[Last(s)] # <<>>
        BY <3>2, FrontAndLast
      <4> HIDE DEF t, l
      <4>7. QED
        BY <4>1, <4>5, <4>6 DEF Apart
    <3>3. QED
      BY <3>1, <3>2
  <2>7. u \in T
    BY <2>5, <2>6
  <2>8. Last(u) = x
    BY AppendEnds
  <2> HIDE DEF t, l, u
  <2>9. EndsOf(t, l)
    BY <2>3, <2>4, ConcatEnds
  <2>10. TextOf(f, u) # <<>> /\ Last(TextOf(f, u)) = Last(l)
    BY <2>3, <2>4, <2>9 DEF EndsOf
  <2>11. QED
    BY <2>7, <2>8, <2>10 DEF l
<1> HIDE DEF U
<1>3. Seq(X) \subseteq U
  BY <1>1, <1>2, ByAppend
<1>4. QED
  BY <1>3 DEF U

(* What is marked behind p comes behind its marks.                          *)
LEMMA JoinedMarks ==
  ASSUME NEW p, NEW q, NEW d, MarksAfter(p, q, d)
  PROVE  Marks(p \o q, d) = Marks(p, d) \o Marks(q, d)
<1> DEFINE k == Marks(p, d) \o Marks(q, d)
           r == [in |-> Marked(q, d).in, esc |-> Marked(q, d).esc, marks |-> k]
<1>1. Marked(p \o q, d) = r
  BY DEF MarksAfter
<1> HIDE DEF k
<1>2. r.marks = k
  OBVIOUS
<1> HIDE DEF r
<1>3. Marks(p \o q, d) = k
  BY <1>1, <1>2, Zenon DEF Marks
<1>4. QED
  BY <1>3 DEF k

----------------------------------------------------------------------------
(* What is anywhere in two texts, and how it is marked.                     *)
Beside(p, q, d) ==
  LET s == p \o q
      m == Marks(s, d)
  IN /\ Len(s) = Len(p) + Len(q) /\ DOMAIN s = 1..(Len(p) + Len(q))
     /\ \A i \in 1..(Len(p) + Len(q)) :
          /\ i <= Len(p) => s[i] = p[i] /\ m[i] = Marks(p, d)[i]
          /\ i > Len(p) => s[i] = q[i - Len(p)] /\ m[i] = Marks(q, d)[i - Len(p)]
(* Behind a closed text every symbol is marked as it is by itself.         *)
LEMMA AreBeside ==
  ASSUME NEW C, NEW d, NEW p, Closed(p, d, C), NEW q \in Seq(C)
  PROVE  Beside(p, q, d)
<1> DEFINE s == p \o q
           m == Marks(s, d)
           k == Marks(p, d)
           l == Marks(q, d)
<1>1. /\ p \in Seq(C) /\ k \in Seq(MarkNames) /\ Len(k) = Len(p)
      /\ l \in Seq(MarkNames) /\ Len(l) = Len(q)
  BY MarksOfAll DEF Closed, MarkedRight
<1>2. m = k \o l
  <2>1. MarksAfter(p, q, d)
    BY MarksConcat
  <2>2. QED
    BY <2>1, JoinedMarks
<1>3. /\ s \in Seq(C) /\ Len(s) = Len(p) + Len(q) /\ DOMAIN s = 1..(Len(p) + Len(q))
      /\ \A i \in 1..(Len(p) + Len(q)) : s[i] = IF i <= Len(p) THEN p[i] ELSE q[i - Len(p)]
  BY <1>1, ConcatProperties, LenProperties
<1> HIDE DEF s, k, l
<1>4. \A i \in 1..(Len(p) + Len(q)) : m[i] = IF i <= Len(p) THEN k[i] ELSE l[i - Len(p)]
  BY <1>1, <1>2, ConcatProperties
<1>5. Len(p) \in Nat /\ Len(q) \in Nat
  BY <1>1, LenProperties
<1> HIDE DEF m
<1>6. QED
  BY <1>3, <1>4, <1>5 DEF Beside, s, m, k, l

(* Two closed texts are one.                                                *)
LEMMA ClosedConcat ==
  ASSUME NEW C, NEW d, NEW p, Closed(p, d, C), NEW q, Closed(q, d, C)
  PROVE  Closed(p \o q, d, C)
<1>1. /\ p \in Seq(C) /\ q \in Seq(C) /\ Marks(p, d) \in Seq(MarkNames) /\ Len(Marks(p, d)) = Len(p)
      /\ Marks(q, d) \in Seq(MarkNames) /\ Len(Marks(q, d)) = Len(q)
      /\ Marked(q, d) = [in |-> "none", esc |-> FALSE, marks |-> Marks(q, d)]
  BY DEF Closed
<1>2. MarksAfter(p, q, d)
  BY <1>1, MarksConcat
<1> DEFINE s == p \o q
           k == Marks(p, d)
           l == Marks(q, d)
<1>3. Marks(s, d) = k \o l
  BY <1>2, JoinedMarks
<1>4. Marked(s, d) = [in |-> "none", esc |-> FALSE, marks |-> Marks(s, d)]
  BY <1>1, <1>2, <1>3 DEF MarksAfter
<1>5. s \in Seq(C) /\ Len(s) = Len(p) + Len(q)
  BY <1>1, ConcatProperties
<1> HIDE DEF s, k, l
<1>6. k \o l \in Seq(MarkNames) /\ Len(k \o l) = Len(p) + Len(q)
  <2>1. k \in Seq(MarkNames) /\ l \in Seq(MarkNames) /\ Len(k) = Len(p) /\ Len(l) = Len(q)
    BY <1>1 DEF k, l
  <2>2. k \o l \in Seq(MarkNames) /\ Len(k \o l) = Len(k) + Len(l)
    BY <2>1, ConcatProperties, Zenon
  <2>3. QED
    BY <2>1, <2>2
<1>7. QED
  BY <1>3, <1>4, <1>5, <1>6 DEF Closed, s

(* What is in two texts at an index, if anything.                           *)
AtEither(p, q) ==
  \A i \in Int :
    /\ At(p, i) = IF i \in 1..Len(p) THEN p[i] ELSE "end"
    /\ At(q, i) = IF i \in 1..Len(q) THEN q[i] ELSE "end"
    /\ At(p \o q, i) = IF i <= Len(p) THEN At(p, i) ELSE At(q, i - Len(p))
(* Every index is in the one text, in the other or in neither.             *)
LEMMA AtsOf ==
  ASSUME NEW C, NEW p \in Seq(C), NEW q \in Seq(C)
  PROVE  AtEither(p, q)
<1> DEFINE s == p \o q
<1>1. /\ Len(s) = Len(p) + Len(q) /\ s \in Seq(C) /\ Len(p) \in Nat /\ Len(q) \in Nat
      /\ \A i \in 1..(Len(p) + Len(q)) : s[i] = IF i <= Len(p) THEN p[i] ELSE q[i - Len(p)]
  BY ConcatProperties, LenProperties
<1> HIDE DEF s
<1>2. ASSUME NEW t \in Seq(C), NEW i \in Int PROVE At(t, i) = IF i \in 1..Len(t) THEN t[i] ELSE "end"
  BY LenProperties DEF At
<1>3. ASSUME NEW i \in Int PROVE At(s, i) = IF i <= Len(p) THEN At(p, i) ELSE At(q, i - Len(p))
  <2>1. At(s, i) = IF i \in 1..Len(s) THEN s[i] ELSE "end"
    BY <1>1, <1>2
  <2>2. i - Len(p) \in Int
    BY <1>1
  <2>3. /\ At(p, i) = IF i \in 1..Len(p) THEN p[i] ELSE "end"
        /\ At(q, i - Len(p)) = IF i - Len(p) \in 1..Len(q) THEN q[i - Len(p)] ELSE "end"
    BY <1>2, <2>2
  <2>4. QED
    BY <1>1, <2>1, <2>3
<1>4. QED
  BY <1>2, <1>3 DEF AtEither, s

(* The ends of apart texts, as indices.                                     *)
LEMMA ApartEnds ==
  ASSUME NEW C, NEW p \in Seq(C), NEW q \in Seq(C), Apart(p, q)
  PROVE  At(p, Len(p)) \in Operators => At(q, 1) \notin Operators
<1>1. Len(p) \in Nat /\ Len(q) \in Nat /\ (p = <<>> <=> Len(p) = 0) /\ (q = <<>> <=> Len(q) = 0)
  BY LenProperties, EmptySeq
<1>2. AtEither(p, q)
  BY AtsOf
<1>3. Len(p) \in Int /\ 1 \in Int
  BY <1>1
<1>4. At(p, Len(p)) = IF Len(p) = 0 THEN "end" ELSE Last(p)
  BY <1>1, <1>2, <1>3 DEF AtEither, Last
<1>5. At(q, 1) = IF Len(q) = 0 THEN "end" ELSE Head(q)
  BY <1>1, <1>2, <1>3 DEF AtEither
<1>6. "end" \notin Operators
  BY DEF Operators
<1>7. QED
  BY <1>1, <1>4, <1>5, <1>6 DEF Apart

(* A text in which nothing separates commands or begins a comment.          *)
CalmAt(t, d, i) ==
  Marks(t, d)[i] = "plain" =>
    /\ t[i] \notin {"|", "LF", "(", ")"} /\ (d # "cmd" => t[i] \notin {";", "#"})
    /\ t[i] = "&" => d # "cmd" /\ At(t, i + 1) # "&"
Calm(t, d, C) == Closed(t, d, C) /\ \A i \in 1..Len(t) : CalmAt(t, d, i)

(* Calm texts that make no operator where they meet are one.                *)
LEMMA CalmConcat ==
  ASSUME NEW C, NEW d, NEW p, Calm(p, d, C), NEW q, Calm(q, d, C), Apart(p, q)
  PROVE  Calm(p \o q, d, C)
<1> DEFINE s == p \o q
           m == Marks(s, d)
           k == Marks(p, d)
           l == Marks(q, d)
<1>1. Closed(p, d, C) /\ Closed(q, d, C) /\ Closed(s, d, C)
  BY ClosedConcat DEF Calm
<1>2. p \in Seq(C) /\ q \in Seq(C) /\ Len(p) \in Nat /\ Len(q) \in Nat
  BY <1>1, LenProperties DEF Closed
<1>3. Beside(p, q, d) /\ AtEither(p, q) /\ (At(p, Len(p)) \in Operators => At(q, 1) \notin Operators)
  BY <1>1, <1>2, AreBeside, AtsOf, ApartEnds
<1>4. /\ Len(s) = Len(p) + Len(q)
      /\ \A i \in 1..(Len(p) + Len(q)) :
          /\ i <= Len(p) => s[i] = p[i] /\ m[i] = k[i]
          /\ i > Len(p) => s[i] = q[i - Len(p)] /\ m[i] = l[i - Len(p)]
  BY <1>3 DEF Beside
<1>5. \A i \in Int : /\ At(p, i) = IF i \in 1..Len(p) THEN p[i] ELSE "end"
                     /\ At(s, i) = IF i <= Len(p) THEN At(p, i) ELSE At(q, i - Len(p))
  BY <1>3 DEF AtEither
<1>6. ASSUME NEW i \in 1..Len(s) PROVE CalmAt(s, d, i)
  <2>1. CASE i <= Len(p)
    <3>1. i \in 1..Len(p) /\ s[i] = p[i] /\ m[i] = k[i] /\ i + 1 \in Int
      BY <1>2, <1>4, <2>1
    <3>2. CalmAt(p, d, i)
      BY <3>1 DEF Calm
    <3>3. CASE i < Len(p)
      <4>1. At(s, i + 1) = At(p, i + 1)
        BY <1>2, <1>5, <3>1, <3>3
      <4> HIDE DEF s
      <4>2. QED
        BY <3>1, <3>2, <4>1 DEF CalmAt
    <3>4. CASE i = Len(p)
      <4>1. At(s, i + 1) = At(q, 1) /\ At(p, Len(p)) = p[i]
        <5>1. ~(i + 1 <= Len(p)) /\ (i + 1) - Len(p) = 1
          BY <1>2, <3>4
        <5>2. At(s, i + 1) = At(q, 1)
          BY <1>5, <3>1, <5>1
        <5>3. QED
          BY <1>5, <3>1, <3>4, <5>2
      <4>2. p[i] = "&" => At(q, 1) # "&"
        BY <1>3, <4>1 DEF Operators
      <4> HIDE DEF s
      <4>3. QED
        BY <3>1, <3>2, <4>1, <4>2 DEF CalmAt
    <3>5. QED
      BY <1>2, <2>1, <3>1, <3>3, <3>4
  <2>2. CASE i > Len(p)
    <3> DEFINE j == i - Len(p)
    <3>1. /\ j \in 1..Len(q) /\ s[i] = q[j] /\ m[i] = l[j] /\ i + 1 \in Int /\ ~(i + 1 <= Len(p))
          /\ (i + 1) - Len(p) = j + 1
      BY <1>2, <1>4, <2>2
    <3> HIDE DEF j
    <3>2. CalmAt(q, d, j)
      BY <3>1 DEF Calm
    <3>3. At(s, i + 1) = At(q, j + 1)
      BY <1>5, <3>1
    <3> HIDE DEF s
    <3>4. QED
      BY <3>1, <3>2, <3>3 DEF CalmAt
  <2>3. QED
    BY <1>2, <1>4, <2>1, <2>2
<1>7. QED
  BY <1>1, <1>6 DEF Calm

----------------------------------------------------------------------------
(* A plain &, where the run of them before i begins, and one that puts a    *)
(* command into the background.                                             *)
AmpAt(s, i) == s[i] = "&" /\ Marks(s, "sh")[i] = "plain"
RunFrom(s, i) == Max({0} \cup {j \in 1..(i - 1) : ~AmpAt(s, j)}) + 1
BackAt(s, i) ==
  /\ AmpAt(s, i) /\ At(s, i + 1) \notin {"&", ">"} /\ (i - RunFrom(s, i)) % 2 = 0
  /\ At(s, i - 1) \notin {">", "<", "|"}

(* These are what the code looks for.                                       *)
LEMMA BackIs ==
  ASSUME NEW s
  PROVE  HasBackgroundAmpersand(s) <=> \E i \in DOMAIN s : BackAt(s, i)
BY Zenon DEF HasBackgroundAmpersand, BackAt, RunFrom, AmpAt

(* The run begins where every symbol from there on is such an & and the one *)
(* before is not.                                                           *)
RunBegins(s, i, r) ==
  r \in 1..i /\ (\A j \in r..(i - 1) : AmpAt(s, j)) /\ (r > 1 => ~AmpAt(s, r - 1))
(* The run that is looked for begins so, and only there.                   *)
LEMMA RunsFrom ==
  ASSUME NEW s, NEW i \in Nat \ {0}
  PROVE  RunBegins(s, i, RunFrom(s, i)) /\ \A r : RunBegins(s, i, r) => r = RunFrom(s, i)
<1> DEFINE x == {j \in 1..(i - 1) : ~AmpAt(s, j)}
           k == Max({0} \cup x)
<1>1. i - 1 \in Nat /\ x \in SUBSET (1..(i - 1))
  OBVIOUS
<1>2. k \in 0..(i - 1)
  <2> HIDE DEF x
  <2>1. QED
    BY <1>1, MaxOrZero
<1>3. k \in {0} \cup x /\ \A j \in x : j <= k
  <2> DEFINE z == {0} \cup x
  <2>1. z \subseteq 0..(i - 1) /\ z # {}
    BY <1>1
  <2>2. \E m \in z : \A j \in z : m >= j
    <3>1. CASE x = {}
      BY <3>1
    <3>2. CASE x # {}
      <4> HIDE DEF x
      <4>1. Max(x) \in x /\ \A j \in x : j <= Max(x)
        BY <1>1, <3>2, MaxOf
      <4> DEFINE m == Max(x)
      <4> HIDE DEF m
      <4>2. m \in x /\ (\A j \in x : j <= m) /\ m \in 1..(i - 1)
        BY <1>1, <4>1 DEF m
      <4>3. \A j \in z : m >= j
        BY <1>1, <4>2
      <4>4. QED
        BY <4>2, <4>3
    <3>3. QED
      BY <3>1, <3>2
  <2>3. Max(z) \in z /\ \A j \in z : Max(z) >= j
    <3> HIDE DEF z
    <3>1. QED
      BY <2>2 DEF Max
  <2>4. \A j \in x : j \in Int /\ k \in Int /\ j \in z
    BY <1>2
  <2>5. QED
    BY <2>3, <2>4
<1> HIDE DEF k
<1>4. \A j \in (k + 1)..(i - 1) : AmpAt(s, j)
  <2>1. ASSUME NEW j \in (k + 1)..(i - 1) PROVE AmpAt(s, j)
    <3>1. j \in 1..(i - 1) /\ ~(j <= k)
      BY <1>2
    <3>2. QED
      BY <1>3, <3>1
  <2>2. QED
    BY <2>1
<1>5. k + 1 > 1 => ~AmpAt(s, (k + 1) - 1)
  <2>1. (k + 1) - 1 = k /\ (k + 1 > 1 => k # 0)
    BY <1>2
  <2>2. QED
    BY <1>3, <2>1
<1>6. k + 1 \in 1..i
  BY <1>2
<1>7. RunBegins(s, i, k + 1)
  BY <1>4, <1>5, <1>6 DEF RunBegins
<1>8. ASSUME NEW r, RunBegins(s, i, r) PROVE r = k + 1
  <2>1. r \in 1..i /\ (\A j \in r..(i - 1) : AmpAt(s, j)) /\ (r > 1 => ~AmpAt(s, r - 1))
    BY <1>8 DEF RunBegins
  <2>2. CASE r < k + 1
    <3>1. k \in r..(i - 1) /\ k # 0
      BY <1>2, <2>1, <2>2
    <3>2. QED
      BY <1>3, <2>1, <3>1
  <2>3. CASE r > k + 1
    <3>1. r - 1 \in (k + 1)..(i - 1) /\ r > 1
      BY <1>2, <2>1, <2>3
    <3>2. QED
      BY <1>4, <2>1, <3>1
  <2>4. QED
    BY <1>6, <2>1, <2>2, <2>3
<1>9. RunFrom(s, i) = k + 1
  BY DEF RunFrom, k
<1>10. QED
  BY <1>7, <1>8, <1>9

(* Whether a command is put into the background is seen in its own text.    *)
BacksAlike(s, i, t, j) == BackAt(s, i) <=> BackAt(t, j)
(* With equal symbols around it, an & is judged alike.                     *)
LEMMA BacksBeside ==
  ASSUME NEW C, NEW p, Closed(p, "sh", C), NEW q \in Seq(C), Apart(p, q)
  PROVE  /\ \A i \in 1..Len(p) : BacksAlike(p \o q, i, p, i)
         /\ \A j \in 1..Len(q) : BacksAlike(p \o q, Len(p) + j, q, j)
<1> DEFINE s == p \o q
           n == Len(p)
<1>1. p \in Seq(C) /\ n \in Nat /\ Len(q) \in Nat
  BY LenProperties DEF Closed
<1>2. Beside(p, q, "sh") /\ AtEither(p, q) /\ (At(p, n) \in Operators => At(q, 1) \notin Operators)
  BY <1>1, AreBeside, AtsOf, ApartEnds
<1>3. /\ \A i \in 1..n : AmpAt(s, i) <=> AmpAt(p, i)
      /\ \A j \in 1..Len(q) : AmpAt(s, n + j) <=> AmpAt(q, j)
  <2> DEFINE m == Marks(s, "sh")
             k == Marks(p, "sh")
             l == Marks(q, "sh")
  <2>1. \A i \in 1..(Len(p) + Len(q)) :
          /\ i <= Len(p) => s[i] = p[i] /\ m[i] = k[i]
          /\ i > Len(p) => s[i] = q[i - Len(p)] /\ m[i] = l[i - Len(p)]
    BY <1>2 DEF Beside
  <2> HIDE DEF s, m, k, l
  <2>2. ASSUME NEW i \in 1..n PROVE s[i] = p[i] /\ m[i] = k[i]
    <3>1. i \in 1..(Len(p) + Len(q)) /\ i <= Len(p)
      BY <1>1
    <3>2. QED
      BY <2>1, <3>1
  <2>3. ASSUME NEW j \in 1..Len(q) PROVE s[n + j] = q[j] /\ m[n + j] = l[j]
    <3>1. n + j \in 1..(Len(p) + Len(q)) /\ n + j > Len(p) /\ (n + j) - Len(p) = j
      BY <1>1
    <3>2. QED
      BY <2>1, <3>1
  <2> HIDE DEF n
  <2>4. QED
    BY <2>2, <2>3 DEF AmpAt, m, k, l
<1>4. \A i \in Int :
        /\ At(p, i) = IF i \in 1..n THEN p[i] ELSE "end"
        /\ At(q, i) = IF i \in 1..Len(q) THEN q[i] ELSE "end"
        /\ At(s, i) = IF i <= n THEN At(p, i) ELSE At(q, i - n)
  BY <1>2 DEF AtEither
<1> HIDE DEF s
<1>5. ASSUME NEW i \in 1..n PROVE BackAt(s, i) <=> BackAt(p, i)
  <2>1. i \in Nat \ {0} /\ i + 1 \in Int /\ i - 1 \in Int
    BY <1>1
  <2>2. RunBegins(p, i, RunFrom(p, i))
    BY <2>1, RunsFrom
  <2> DEFINE r == RunFrom(p, i)
  <2> HIDE DEF r
  <2>3. RunBegins(s, i, r)
    <3>1. r \in 1..i /\ (\A j \in r..(i - 1) : AmpAt(p, j)) /\ (r > 1 => ~AmpAt(p, r - 1))
      BY <2>2 DEF RunBegins, r
    <3>2. (\A j \in r..(i - 1) : j \in 1..n) /\ (r > 1 => r - 1 \in 1..n)
      BY <1>1, <3>1
    <3>3. QED
      BY <1>3, <3>1, <3>2 DEF RunBegins
  <2>4. RunFrom(s, i) = RunFrom(p, i)
    BY <2>1, <2>3, RunsFrom DEF r
  <2>5. At(s, i - 1) = At(p, i - 1)
    <3>1. i - 1 <= n
      BY <1>1
    <3>2. QED
      BY <1>4, <2>1, <3>1
  <2>6. AmpAt(p, i) => (At(s, i + 1) \notin {"&", ">"} <=> At(p, i + 1) \notin {"&", ">"})
    <3>1. CASE i < n
      <4>1. i + 1 <= n
        BY <1>1, <3>1
      <4>2. QED
        BY <1>4, <2>1, <4>1
    <3>2. CASE i = n
      <4>1. ~(i + 1 <= n) /\ (i + 1) - n = 1 /\ i + 1 \notin 1..n
        BY <1>1, <3>2
      <4>2. At(s, i + 1) = At(q, 1) /\ At(p, i + 1) = "end" /\ At(p, n) = p[i]
        BY <1>4, <2>1, <3>2, <4>1
      <4>3. AmpAt(p, i) => At(q, 1) \notin Operators
        BY <1>2, <4>2 DEF AmpAt, Operators
      <4>4. QED
        BY <4>2, <4>3 DEF Operators
    <3>3. QED
      BY <1>1, <3>1, <3>2
  <2>7. AmpAt(s, i) <=> AmpAt(p, i)
    BY <1>3
  <2>8. QED
    BY <2>4, <2>5, <2>6, <2>7, Zenon DEF BackAt
<1>6. ASSUME NEW j \in 1..Len(q) PROVE BackAt(s, n + j) <=> BackAt(q, j)
  <2> DEFINE i == n + j
             r == RunFrom(q, j)
  <2>1. j \in Nat \ {0} /\ i \in Nat \ {0} /\ i + 1 \in Int /\ i - 1 \in Int /\ 1 \in Int
    BY <1>1
  <2>2. AmpAt(s, i) <=> AmpAt(q, j)
    BY <1>3
  <2>3. SUFFICES ASSUME AmpAt(q, j) PROVE BackAt(s, i) <=> BackAt(q, j)
    BY <2>2 DEF BackAt
  <2>4. /\ r \in 1..j /\ (\A h \in r..(j - 1) : AmpAt(q, h)) /\ (r > 1 => ~AmpAt(q, r - 1))
    BY <2>1, RunsFrom DEF RunBegins
  <2>5. At(q, 1) = q[1] /\ At(p, n) = IF n = 0 THEN "end" ELSE p[n]
    <3>1. 1 \in 1..Len(q) /\ n \in Int /\ (n # 0 => n \in 1..n) /\ (n = 0 => n \notin 1..n)
      BY <1>1
    <3>2. QED
      BY <1>4, <2>1, <3>1
  <2> HIDE DEF r
  <2>6. r = 1 => At(p, n) \notin {"&", ">", "<", "|"}
    <3>1. ASSUME r = 1 PROVE AmpAt(q, 1)
      <4>1. j = 1 \/ 1 \in r..(j - 1)
        BY <3>1
      <4>2. QED
        BY <2>3, <2>4, <4>1
    <3>2. r = 1 => At(q, 1) \in Operators
      BY <2>5, <3>1 DEF AmpAt, Operators
    <3>3. QED
      BY <1>2, <3>2 DEF Operators
  <2>7. RunBegins(s, i, n + r)
    <3>1. n + r \in 1..i
      BY <1>1, <2>4
    <3>2. \A h \in (n + r)..(i - 1) : AmpAt(s, h)
      <4>1. ASSUME NEW h \in (n + r)..(i - 1) PROVE AmpAt(s, h)
        <5>1. h - n \in r..(j - 1) /\ h - n \in 1..Len(q) /\ n + (h - n) = h
          BY <1>1, <2>4
        <5>2. QED
          BY <1>3, <2>4, <5>1
      <4>2. QED
        BY <4>1
    <3>3. ASSUME n + r > 1 PROVE ~AmpAt(s, (n + r) - 1)
      <4>1. CASE r > 1
        <5>1. r - 1 \in 1..Len(q) /\ (n + r) - 1 = n + (r - 1)
          BY <1>1, <2>4, <4>1
        <5>2. QED
          BY <1>3, <2>4, <4>1, <5>1
      <4>2. CASE r = 1
        <5>1. n \in 1..n /\ (n + r) - 1 = n /\ n # 0
          BY <1>1, <3>3, <4>2
        <5>2. ~AmpAt(p, n)
          BY <2>5, <2>6, <4>2, <5>1 DEF AmpAt
        <5>3. QED
          BY <1>3, <5>1, <5>2
      <4>3. QED
        BY <2>4, <4>1, <4>2
    <3>4. QED
      BY <3>1, <3>2, <3>3 DEF RunBegins
  <2>8. RunFrom(s, i) = n + r
    BY <2>1, <2>7, RunsFrom
  <2>9. i - RunFrom(s, i) = j - RunFrom(q, j)
    <3>1. i - (n + r) = j - r
      BY <1>1, <2>4
    <3>2. QED
      BY <2>8, <3>1 DEF r
  <2>10. At(s, i + 1) = At(q, j + 1)
    <3>1. ~(i + 1 <= n) /\ (i + 1) - n = j + 1
      BY <1>1
    <3>2. QED
      BY <1>4, <2>1, <3>1
  <2>11. At(s, i - 1) \notin {">", "<", "|"} <=> At(q, j - 1) \notin {">", "<", "|"}
    <3>1. CASE j = 1
      <4>1. i - 1 = n /\ j - 1 = 0 /\ 0 \notin 1..Len(q) /\ 0 \in Int
        BY <1>1, <3>1
      <4>2. At(s, i - 1) = At(p, n) /\ At(q, j - 1) = "end"
        BY <1>1, <1>4, <4>1
      <4>3. r = 1
        BY <2>4, <3>1
      <4>4. QED
        BY <2>6, <4>2, <4>3
    <3>2. CASE j > 1
      <4>1. ~(i - 1 <= n) /\ (i - 1) - n = j - 1
        BY <1>1, <3>2
      <4>2. At(s, i - 1) = At(q, j - 1)
        BY <1>4, <2>1, <4>1
      <4>3. QED
        BY <4>2
    <3>3. QED
      BY <3>1, <3>2
  <2> HIDE DEF i
  <2>12. QED
    BY <2>2, <2>9, <2>10, <2>11, Zenon DEF BackAt
<1>7. QED
  BY <1>5, <1>6 DEF BacksAlike, s, n

(* A text of two puts a command into the background if one of them does.    *)
LEMMA BackConcat ==
  ASSUME NEW C, NEW p, Closed(p, "sh", C), NEW q \in Seq(C), Apart(p, q)
  PROVE  HasBackgroundAmpersand(p \o q) <=> HasBackgroundAmpersand(p) \/ HasBackgroundAmpersand(q)
<1> DEFINE s == p \o q
           n == Len(p)
<1>1. /\ p \in Seq(C) /\ n \in Nat /\ Len(q) \in Nat /\ DOMAIN p = 1..n /\ DOMAIN q = 1..Len(q)
  BY LenProperties DEF Closed
<1>2. DOMAIN s = 1..(n + Len(q))
  BY <1>1, AreBeside DEF Beside
<1>3. /\ \A i \in 1..n : BackAt(s, i) <=> BackAt(p, i)
      /\ \A j \in 1..Len(q) : BackAt(s, n + j) <=> BackAt(q, j)
  BY BacksBeside DEF BacksAlike
<1> HIDE DEF s, n
<1>4. ASSUME NEW i \in DOMAIN s, BackAt(s, i)
      PROVE  (\E j \in DOMAIN p : BackAt(p, j)) \/ (\E j \in DOMAIN q : BackAt(q, j))
  <2>1. CASE i <= n
    <3>1. i \in 1..n
      BY <1>1, <1>2, <2>1
    <3>2. QED
      BY <1>1, <1>3, <1>4, <3>1
  <2>2. CASE ~(i <= n)
    <3>1. i - n \in 1..Len(q) /\ n + (i - n) = i
      BY <1>1, <1>2, <2>2
    <3>2. BackAt(q, i - n)
      BY <1>3, <1>4, <3>1
    <3>3. QED
      BY <1>1, <3>1, <3>2
  <2>3. QED
    BY <2>1, <2>2
<1>5. (\A i \in 1..n : i \in DOMAIN s) /\ (\A j \in 1..Len(q) : n + j \in DOMAIN s)
  BY <1>1, <1>2
<1>6. (\E i \in DOMAIN s : BackAt(s, i)) <=>
        (\E j \in DOMAIN p : BackAt(p, j)) \/ (\E j \in DOMAIN q : BackAt(q, j))
  BY <1>1, <1>3, <1>4, <1>5
<1>7. QED
  BY <1>6, BackIs DEF s

----------------------------------------------------------------------------
(* A text where nothing is plain, and one without a plain &.                *)
LEMMA QuietText ==
  ASSUME NEW C, NEW t \in Seq(C), NEW d, Closed(t, d, C)
  PROVE  /\ (\A i \in 1..Len(t) : Marks(t, d)[i] # "plain") => Calm(t, d, C)
         /\ (\A i \in 1..Len(t) : ~AmpAt(t, i)) => ~HasBackgroundAmpersand(t)
<1>1. DOMAIN t = 1..Len(t)
  BY LenProperties
<1>2. (\A i \in 1..Len(t) : Marks(t, d)[i] # "plain") => Calm(t, d, C)
  BY DEF Calm, CalmAt
<1>3. (\A i \in 1..Len(t) : ~AmpAt(t, i)) => ~HasBackgroundAmpersand(t)
  BY <1>1, BackIs DEF BackAt
<1>4. QED
  BY <1>2, <1>3

(* A lone & is plain, and puts a command into the background.               *)
LEMMA LoneAmpersand ==
  HasBackgroundAmpersand(<<"&">>)
<1> DEFINE t == <<"&">>
           none == << >>
<1>1. "sh" \in Dialects /\ "&" \in LineSymbols /\ "plain" \in MarkNames
  BY DEF Dialects, LineSymbols, MarkNames
<1>2. Taken(none, "sh", "none", FALSE, NoFields, LineSymbols)
  BY TakenNothing
<1>3. TurnsTo("sh", "none", FALSE, "&", "plain", "none", FALSE)
  BY <1>1, SymbolMarks DEF Escape
<1>4. Append(none, "&") = t
  BY <1>1, Single
<1> HIDE DEF none
<1>5. TakesMore(none, "sh", "none", FALSE, NoFields, "plain", "&", LineSymbols)
  BY <1>1, <1>2, <1>3, TakeMore
<1>6. Marks(t, "sh") = Append(Marks(none, "sh"), "plain")
  BY <1>4, <1>5 DEF TakesMore
<1>7. Marks(none, "sh") = << >>
  <2>1. Marks(none, "sh") \in Seq(MarkNames) /\ Len(Marks(none, "sh")) = 0
    BY <1>2 DEF Taken, none
  <2>2. QED
    BY <2>1, EmptySeq
<1>8. Marks(t, "sh")[1] = "plain"
  BY <1>1, <1>6, <1>7, Single
<1>9. AmpAt(t, 1) /\ DOMAIN t = {1}
  BY <1>8 DEF AmpAt
<1>10. At(t, 2) = "end" /\ At(t, 0) = "end"
  BY <1>9 DEF At
<1>11. RunFrom(t, 1) = 1
  <2>1. RunBegins(t, 1, 1)
    BY DEF RunBegins
  <2>2. QED
    BY <2>1, RunsFrom
<1>12. 1 + 1 = 2 /\ 1 - 1 = 0 /\ 0 % 2 = 0
  OBVIOUS
<1>13. BackAt(t, 1)
  BY <1>9, <1>10, <1>11, <1>12 DEF BackAt
<1>14. QED
  BY <1>9, <1>13, BackIs

(* The text of a piece.                                                     *)
PieceReads(d, a) ==
  LET t == Spelled(d, a)
  IN /\ t # <<>> /\ Calm(t, d, LineSymbols)
     /\ Head(t) \notin Space /\ (Last(t) \in Space => a.form = "escaped" /\ a.run[1] \in Space)
     /\ d = "sh" => ~HasBackgroundAmpersand(t)
(* A piece is read to its end, and is no lone & of sh.                     *)
LEMMA PieceText ==
  ASSUME NEW d \in Dialects, NEW a, IsPiece(d, a)
  PROVE  PieceReads(d, a)
<1> DEFINE t == Spelled(d, a)
           C == LineSymbols
           k == Marks(t, d)
           none == << >>
<1>1. a.run \in Seq(C) /\ a.form \in Forms /\ Escape(d) \in C
  BY SymbolsOf DEF IsPiece
<1>2. t \in Seq(C)
  <2>1. "'" \in C /\ "DQ" \in C
    BY DEF LineSymbols
  <2> HIDE DEF C
  <2>2. QED
    BY <1>1, <2>1 DEF Spelled
<1>3. Closed(t, d, C) /\ (a.form \in {"escaped", "single", "double"} => \A i \in 1..Len(t) : k[i] # "plain")
  <2>1. Taken(none, d, "none", FALSE, NoFields, C) /\ Len(none) = 0
    BY TakenNothing
  <2>2. none \o t = t
    BY <1>2, ConcatEmptySeq
  <2> HIDE DEF none, C
  <2>3. PieceTaken(none, d, a, NoFields)
    BY <2>1, PieceTakes DEF C
  <2>4. Taken(t, d, "none", FALSE, WithWord(NoFields, a.run), LineSymbols)
    BY <2>2, <2>3 DEF PieceTaken
  <2>5. a.form \in {"escaped", "single", "double"} => NonePlain(d, none, t)
    BY <2>2, <2>3 DEF PieceTaken
  <2>6. \A i \in 1..Len(t) : i > Len(none)
    BY <2>1
  <2> HIDE DEF t
  <2>7. QED
    BY <2>4, <2>5, <2>6 DEF Taken, Closed, NonePlain, C
<1> HIDE DEF C, k
<1>4. Len(t) \in Nat /\ DOMAIN t = 1..Len(t)
  BY <1>2, LenProperties
<1>5. CASE a.form \in {"escaped", "single", "double"}
  <2>1. Calm(t, d, C) /\ (d = "sh" => ~HasBackgroundAmpersand(t))
    <3>1. \A i \in 1..Len(t) : k[i] # "plain"
      BY <1>3, <1>5
    <3>2. d = "sh" => \A i \in 1..Len(t) : ~AmpAt(t, i)
      BY <3>1 DEF AmpAt, k
    <3> HIDE DEF t
    <3>3. QED
      BY <1>2, <1>3, <3>1, <3>2, QuietText DEF k
  <2>2. CASE a.form = "escaped"
    <3>1. Len(a.run) = 1 /\ t = <<Escape(d)>> \o a.run
      BY <2>2 DEF IsPiece, Spelled
    <3>2. t # <<>> /\ Head(t) = Escape(d) /\ Last(t) = a.run[1]
      BY <1>1, <3>1 DEF Last
    <3>3. Escape(d) \notin Space
      BY DEF Escape, Space
    <3>4. QED
      BY <1>5, <2>1, <2>2, <3>2, <3>3 DEF PieceReads, C
  <2>3. CASE a.form # "escaped"
    <3>1. t = Quoted("'", a.run) \/ t = Quoted("DQ", a.run)
      BY <1>5, <2>3 DEF Spelled, Quoted
    <3>2. PICK q \in {"'", "DQ"} : t = Quoted(q, a.run)
      BY <3>1
    <3>3. t # <<>> /\ Head(t) = q /\ Last(t) = q
      BY <1>1, <3>2 DEF Last, Quoted
    <3>4. q \notin Space
      BY <3>2 DEF Space
    <3>5. QED
      BY <1>5, <2>1, <3>3, <3>4 DEF PieceReads, C
  <2>4. QED
    BY <2>2, <2>3
<1>6. CASE a.form = "bare"
  <2>1. t = a.run /\ Len(a.run) = 1 /\ a.run[1] \notin Meta(d)
    BY <1>6 DEF IsPiece, Spelled
  <2>2. /\ t # <<>> /\ Head(t) = a.run[1] /\ Last(t) = a.run[1] /\ Len(t) = 1
        /\ \A i \in 1..Len(t) : t[i] \notin Meta(d)
    BY <1>1, <2>1 DEF Last
  <2>3. Space \subseteq Meta(d) /\ {"|", "LF", "(", ")", "&"} \subseteq Meta(d) /\ (d # "cmd" => {";", "#"} \subseteq Meta(d))
    BY DEF Meta, Space, Operators
  <2>4. \A i \in 1..Len(t) : CalmAt(t, d, i) /\ ~AmpAt(t, i)
    BY <2>2, <2>3 DEF CalmAt, AmpAt
  <2>5. a.run[1] \notin Space
    BY <2>1, <2>3
  <2> HIDE DEF t
  <2>6. Calm(t, d, C) /\ (d = "sh" => ~HasBackgroundAmpersand(t))
    BY <1>2, <1>3, <2>4, QuietText DEF Calm
  <2>7. QED
    BY <1>6, <2>2, <2>5, <2>6 DEF PieceReads, C, t
<1>7. CASE a.form \in {"ampersand", "redirection"}
  <2>1. t = a.run
    BY <1>7 DEF Spelled
  <2>2. \/ a.form = "ampersand" /\ d # "cmd" /\ t = <<"&">>
        \/ a.form = "redirection" /\ t \in {<<">">>, <<"<">>, <<">", ">">>}
        \/ a.form = "redirection" /\ d # "cmd" /\ t \in {<<">", "&">>, <<"<", "&">>, <<"&", ">">>}
    BY <1>7, <2>1 DEF IsPiece, Redirections
  <2> HIDE DEF t
  <2>3. /\ t # <<>> /\ Head(t) \in {"&", "<", ">"} /\ Last(t) \in {"&", "<", ">"}
        /\ \A i \in 1..Len(t) : t[i] \in {"&", "<", ">"}
        /\ \A i \in 1..Len(t) : t[i] = "&" => d # "cmd" /\ (i = Len(t) \/ t[i + 1] = ">")
    <3>1. CASE t \in {<<"&">>, <<">">>, <<"<">>}
      <4>1. PICK x \in {"&", "<", ">"} : t = <<x>>
        BY <3>1
      <4>2. t # <<>> /\ Head(t) = x /\ Len(t) = 1 /\ t[1] = x
        BY <4>1
      <4>3. x = "&" => d # "cmd"
        BY <2>2, <4>1
      <4> HIDE DEF t
      <4>4. \A i \in 1..Len(t) : i = 1
        BY <4>2
      <4>5. QED
        BY <4>2, <4>3, <4>4 DEF Last
    <3>2. CASE t \in {<<">", ">">>, <<">", "&">>, <<"<", "&">>, <<"&", ">">>}
      <4>1. PICK x \in {"&", "<", ">"}, y \in {"&", "<", ">"} : t = <<x, y>> /\ (x = "&" => y = ">")
        BY <3>2
      <4>2. t # <<>> /\ Head(t) = x /\ Len(t) = 2 /\ t[1] = x /\ t[2] = y
        BY <4>1
      <4>3. x = "&" \/ y = "&" => d # "cmd"
        BY <2>2, <4>1
      <4>4. \A i \in 1..Len(t) : i = 1 \/ i = 2
        BY <4>2
      <4>5. QED
        BY <4>1, <4>2, <4>3, <4>4 DEF Last
    <3>3. QED
      BY <2>2, <3>1, <3>2
  <2>4. \A i \in 1..Len(t) : CalmAt(t, d, i)
    <3>1. ASSUME NEW i \in 1..Len(t), t[i] = "&" PROVE d # "cmd" /\ At(t, i + 1) # "&"
      <4>1. CASE i = Len(t)
        <5>1. i + 1 \notin DOMAIN t
          BY <1>4, <4>1
        <5>2. QED
          BY <2>3, <3>1, <5>1 DEF At
      <4>2. CASE i # Len(t)
        <5>0. Len(t) \in Nat
          BY <1>4
        <5>1. i + 1 \in DOMAIN t
          <6>1. i + 1 \in 1..Len(t)
            BY <4>2, <5>0
          <6>2. QED
            BY <1>4, <6>1, Zenon
        <5>2. t[i + 1] = ">" /\ d # "cmd"
          BY <2>3, <3>1, <4>2
        <5>3. QED
          BY <5>1, <5>2 DEF At
      <4>3. QED
        BY <4>1, <4>2
    <3>2. QED
      BY <2>3, <3>1 DEF CalmAt
  <2>5. d = "sh" => ~HasBackgroundAmpersand(t)
    <3>1. CASE a.form = "ampersand"
      <4>1. d = "powershell"
        BY <3>1 DEF IsPiece
      <4>2. QED
        BY <4>1
    <3>2. CASE a.form # "ampersand"
      <4>1. ASSUME NEW i \in DOMAIN t PROVE ~BackAt(t, i)
        <5>1. t[i] = "&" => At(t, i + 1) = ">" \/ At(t, i - 1) \in {">", "<"}
          <6>1. CASE t \in {<<">">>, <<"<">>, <<">", ">">>}
            <7>1. t[i] # "&"
              BY <6>1
            <7>2. QED
              BY <7>1
          <6>2. CASE t = <<"&", ">">>
            BY <6>2 DEF At
          <6>3. CASE t = <<">", "&">>
            BY <6>3 DEF At
          <6>4. CASE t = <<"<", "&">>
            BY <6>4 DEF At
          <6>5. QED
            BY <1>7, <2>2, <3>2, <6>1, <6>2, <6>3, <6>4
        <5>2. QED
          BY <5>1 DEF BackAt, AmpAt
      <4>2. QED
        BY <3>2, <4>1, BackIs
    <3>3. QED
      BY <3>1, <3>2
  <2>6. Calm(t, d, C)
    BY <1>3, <2>4 DEF Calm
  <2>7. Head(t) \notin Space /\ Last(t) \notin Space
    BY <2>3 DEF Space
  <2>8. QED
    BY <2>3, <2>5, <2>6, <2>7 DEF PieceReads, C, t
<1>8. QED
  BY <1>1, <1>5, <1>6, <1>7 DEF Forms

----------------------------------------------------------------------------
(* The pieces of words, their text and their meaning.                       *)
PieceOf(d) == {a \in [form : Forms, run : Seq(STRING)] : IsPiece(d, a)}
Spell(d) == [a \in PieceOf(d) |-> Spelled(d, a)]
Mean(d) == [a \in PieceOf(d) |-> a.run]

(* Pieces are texts of symbols.                                             *)
LEMMA PiecesRead ==
  ASSUME NEW d \in Dialects
  PROVE  /\ Spell(d) \in [PieceOf(d) -> Seq(LineSymbols)] /\ Mean(d) \in [PieceOf(d) -> Seq(LineSymbols)]
         /\ \A a \in PieceOf(d) : /\ IsPiece(d, a) /\ PieceReads(d, a) /\ Spell(d)[a] # <<>>
                                  /\ Spell(d)[a] = Spelled(d, a) /\ Mean(d)[a] = a.run
<1>1. ASSUME NEW a \in PieceOf(d)
      PROVE  Spelled(d, a) \in Seq(LineSymbols) /\ a.run \in Seq(LineSymbols) /\ PieceReads(d, a) /\ IsPiece(d, a)
             /\ Spelled(d, a) # <<>>
  <2>1. IsPiece(d, a) /\ a.run \in Seq(STRING)
    BY DEF PieceOf
  <2>2. PieceReads(d, a) /\ a.run \in Seq(LineSymbols)
    BY <2>1, PieceText, SymbolsOf
  <2>3. QED
    BY <2>1, <2>2 DEF PieceReads, Calm, Closed
<1>2. QED
  BY <1>1 DEF Spell, Mean

(* Words that grow by two texts grow by both as one.                        *)
WordsGrow(f, r, q) == WithWord(WithWord(f, r), q) = WithWord(f, r \o q)
(* Texts come to a word one by one or as one.                              *)
LEMMA WithBoth ==
  ASSUME NEW C, NEW f \in FieldStates(C), NEW r \in Seq(C), NEW q \in Seq(C)
  PROVE  WordsGrow(f, r, q)
<1>1. f.word \in Seq(C)
  BY DEF FieldStates
<1>2. Associates(f.word, r, q)
  BY <1>1, AllAssociate
<1> DEFINE g == WithWord(f, r)
<1>3. g.words = f.words /\ g.word = f.word \o r
  BY DEF WithWord
<1> HIDE DEF g
<1>4. WithWord(g, q) = [words |-> f.words, word |-> (f.word \o r) \o q]
  BY <1>3 DEF WithWord
<1>5. QED
  BY <1>2, <1>4 DEF WordsGrow, WithWord, Associates, g

(* The pieces of a word have been taken.                                    *)
PiecesTaken(p, d, s, f) ==
  Taken(p \o TextOf(Spell(d), s), d, "none", FALSE, WithWord(f, TextOf(Mean(d), s)), LineSymbols)
(* Pieces are taken for what they mean together.                           *)
LEMMA PiecesTake ==
  ASSUME NEW d \in Dialects, NEW s \in Seq(PieceOf(d)), NEW p, NEW f,
         Taken(p, d, "none", FALSE, f, LineSymbols)
  PROVE  PiecesTaken(p, d, s, f)
<1> DEFINE X == PieceOf(d)
           C == LineSymbols
           g == Spell(d)
           h == Mean(d)
           T == {t \in Seq(X) : PiecesTaken(p, d, t, f)}
<1>1. p \in Seq(C) /\ f \in FieldStates(C)
  BY DEF Taken
<1>2. g \in [X -> Seq(C)] /\ h \in [X -> Seq(C)]
  BY PiecesRead
<1> HIDE DEF C, g, h
<1>3. <<>> \in T
  <2> DEFINE none == << >>
  <2>1. TextOf(g, none) = none /\ TextOf(h, none) = none
    BY FlattenEmpty DEF TextOf, Mapped
  <2>2. p \o none = p /\ WithWord(f, none) = f /\ none \in Seq(X)
    BY <1>1, ConcatEmptySeq, WithNothing, EmptySeq
  <2> HIDE DEF none
  <2>3. PiecesTaken(p, d, none, f)
    BY <2>1, <2>2 DEF PiecesTaken, g, h
  <2>4. QED
    BY <2>2, <2>3 DEF none
<1>4. ASSUME NEW t \in Seq(X), NEW a \in X, t \in T PROVE Append(t, a) \in T
  <2> DEFINE u == Append(t, a)
             r == TextOf(g, t)
             m == TextOf(h, t)
             k == WithWord(f, m)
  <2>1. u \in Seq(X)
    BY AppendProperties
  <2>2. r \in Seq(C) /\ m \in Seq(C) /\ TextOf(g, u) = r \o g[a] /\ TextOf(h, u) = m \o h[a]
    <3>1. r \in Seq(C) /\ TextGrows(g, t, a)
      BY <1>2, TextMore
    <3>2. m \in Seq(C) /\ TextGrows(h, t, a)
      BY <1>2, TextMore
    <3>3. QED
      BY <3>1, <3>2 DEF TextGrows
  <2>3. g[a] \in Seq(C) /\ h[a] \in Seq(C) /\ IsPiece(d, a) /\ g[a] = Spelled(d, a) /\ h[a] = a.run
    BY <1>2, PiecesRead DEF g, h
  <2>4. Taken(p \o r, d, "none", FALSE, k, LineSymbols)
    BY <1>4 DEF PiecesTaken, g, h
  <2> HIDE DEF r, m, T, u
  <2>5. PieceTaken(p \o r, d, a, k)
    BY <2>3, <2>4, PieceTakes
  <2>6. Associates(p, r, g[a]) /\ WordsGrow(f, m, h[a])
    BY <1>1, <2>2, <2>3, AllAssociate, WithBoth
  <2>7. PiecesTaken(p, d, u, f)
    BY <2>2, <2>3, <2>5, <2>6 DEF PieceTaken, PiecesTaken, Associates, WordsGrow, g, h
  <2>8. QED
    BY <2>1, <2>7 DEF T, u
<1> HIDE DEF T, X
<1>5. Seq(X) \subseteq T
  BY <1>3, <1>4, ByAppend
<1>6. QED
  BY <1>5 DEF T, X

(* Nothing is a calm text.                                                  *)
LEMMA NothingCalm ==
  ASSUME NEW d
  PROVE  Calm(<<>>, d, LineSymbols) /\ ~HasBackgroundAmpersand(<<>>)
<1> DEFINE none == << >>
<1>0. Len(none) = 0 /\ DOMAIN none = {}
  OBVIOUS
<1>1. Taken(none, d, "none", FALSE, NoFields, LineSymbols)
  BY TakenNothing
<1> HIDE DEF none
<1>2. Closed(none, d, LineSymbols) /\ \A i \in 1..Len(none) : FALSE
  BY <1>0, <1>1 DEF Taken, Closed
<1>3. Calm(none, d, LineSymbols)
  BY <1>2 DEF Calm
<1>4. ~HasBackgroundAmpersand(none)
  BY <1>0, BackIs
<1>5. QED
  BY <1>3, <1>4 DEF none

(* The text of the pieces of a word.                                        *)
(* The pieces of a word are read to the end, and none is a lone &.         *)
LEMMA PiecesText ==
  ASSUME NEW d \in Dialects, NEW s \in Seq(PieceOf(d)), AllApart(Spell(d), s)
  PROVE  LET t == TextOf(Spell(d), s)
         IN /\ Calm(t, d, LineSymbols) /\ (d = "sh" => ~HasBackgroundAmpersand(t))
            /\ s # <<>> => t # <<>> /\ Head(t) \notin Space /\ Last(t) = Last(Spelled(d, Last(s)))
<1> DEFINE X == PieceOf(d)
           C == LineSymbols
           g == Spell(d)
           Good(s0) == LET t == TextOf(g, s0)
                       IN /\ Calm(t, d, C) /\ (d = "sh" => ~HasBackgroundAmpersand(t))
                          /\ s0 # <<>> => t # <<>> /\ Head(t) \notin Space
           T == {s0 \in Seq(X) : Good(s0)}
<1>1. g \in [X -> Seq(C)] /\ \A x \in X : g[x] # <<>>
  BY PiecesRead
<1>2. <<>> \in T
  <2> DEFINE none == << >>
  <2>1. TextOf(g, none) = none
    BY FlattenEmpty DEF TextOf, Mapped
  <2>2. QED
    BY <2>1, NothingCalm, EmptySeq
<1> HIDE DEF g, C
<1>3. ASSUME NEW u \in Seq(X), NEW a \in X, u \in T, Apart(TextOf(g, u), g[a])
      PROVE  Append(u, a) \in T
  <2> DEFINE v == Append(u, a)
             r == TextOf(g, u)
             l == g[a]
  <2>1. /\ v \in Seq(X) /\ Len(u) \in Nat /\ DOMAIN u = 1..Len(u) /\ DOMAIN v = 1..(Len(u) + 1)
        /\ v[Len(u) + 1] = a /\ \A i \in 1..Len(u) : v[i] = u[i]
    BY AppendProperties, LenProperties
  <2>2. r \in Seq(C) /\ l \in Seq(C) /\ TextOf(g, v) = r \o l
    BY <1>1, TextMore DEF TextGrows
  <2>3. Good(u)
    BY <1>3
  <2>4. /\ l # <<>> /\ Calm(l, d, C) /\ Head(l) \notin Space
        /\ d = "sh" => ~HasBackgroundAmpersand(l)
    BY PiecesRead DEF PieceReads, g, C
  <2>6. TextOf(g, v) # <<>> /\ Head(TextOf(g, v)) \notin Space
    <3>1. CASE u = <<>>
      <4>1. r = <<>>
        BY <3>1, FlattenEmpty DEF TextOf, Mapped
      <4>2. EndsOf(r, l)
        BY <2>2, ConcatEnds
      <4> HIDE DEF r, l
      <4>3. QED
        BY <2>2, <2>4, <4>1, <4>2 DEF EndsOf
    <3>2. CASE u # <<>>
      <4>1. r # <<>> /\ Head(r) \notin Space
        BY <2>3, <3>2
      <4> HIDE DEF r, l
      <4>2. EndsOf(r, l)
        BY <2>2, ConcatEnds
      <4>3. QED
        BY <2>2, <4>1, <4>2 DEF EndsOf
    <3>3. QED
      BY <3>1, <3>2
  <2>7. Calm(r \o l, d, C)
    <3>1. Calm(r, d, C) /\ Apart(r, l)
      BY <1>3, <2>3
    <3> HIDE DEF r, l
    <3>2. QED
      BY <2>4, <3>1, CalmConcat
  <2>8. d = "sh" => ~HasBackgroundAmpersand(r \o l)
    <3>1. Calm(r, d, C) /\ Apart(r, l) /\ (d = "sh" => ~HasBackgroundAmpersand(r))
      BY <1>3, <2>3
    <3> HIDE DEF r, l, v
    <3>2. ASSUME d = "sh"
          PROVE HasBackgroundAmpersand(r \o l) <=> HasBackgroundAmpersand(r) \/ HasBackgroundAmpersand(l)
      <4>1. Closed(r, "sh", C)
        BY <3>1, <3>2 DEF Calm
      <4>2. QED
        BY <2>2, <3>1, <4>1, BackConcat
    <3>3. QED
      BY <2>4, <3>1, <3>2
  <2> HIDE DEF r, l
  <2>9. Good(v)
    BY <2>2, <2>6, <2>7, <2>8
  <2>10. QED
    BY <2>1, <2>9
<1> HIDE DEF T, X
<1>4. s \in T /\ (s # <<>> => TextOf(g, s) # <<>> /\ Last(TextOf(g, s)) = Last(g[Last(s)]))
  <2>1. s \in Seq(X) /\ AllApart(g, s)
    BY DEF X, g
  <2>2. QED
    BY <1>1, <1>2, <1>3, <2>1, ByApart
<1>5. s # <<>> => g[Last(s)] = Spelled(d, Last(s))
  <2>1. s # <<>> => Last(s) \in PieceOf(d)
    BY FrontAndLast
  <2>2. QED
    BY <2>1, PiecesRead DEF g
<1>6. QED
  BY <1>4, <1>5 DEF T, g, C

----------------------------------------------------------------------------
(* What ends an open word leaves none open.                                 *)
LEMMA FlushedOpen ==
  ASSUME NEW C, NEW f \in FieldStates(C)
  PROVE  Flush(f) = NoneOpen(Flush(f).words) /\ Flush(Flush(f)) = Flush(f)
<1>1. f = [words |-> f.words, word |-> f.word]
  BY DEF FieldStates
<1>2. CASE f.word = <<>>
  <2>1. Flush(f) = f
    BY <1>2 DEF Flush
  <2>2. f = [words |-> f.words, word |-> <<>>]
    BY <1>1, <1>2
  <2>3. QED
    BY <2>1, <2>2 DEF NoneOpen
<1>3. CASE f.word # <<>>
  <2>1. Flush(f) = [words |-> Append(f.words, f.word), word |-> <<>>]
    BY <1>3 DEF Flush
  <2>2. Flush(f).words = Append(f.words, f.word) /\ Flush(f).word = <<>>
    BY <2>1
  <2>3. Flush(Flush(f)) = Flush(f)
    BY <2>2 DEF Flush
  <2>4. QED
    BY <2>1, <2>2, <2>3 DEF NoneOpen
<1>4. QED
  BY <1>2, <1>3

(* A gap has been taken.                                                    *)
GapTaken(p, d, g, f) ==
  Taken(p \o g, d, "none", FALSE, IF g = <<>> THEN f ELSE NoneOpen(Flush(f).words), LineSymbols)
(* A gap ends the open word.                                               *)
LEMMA GapTakes ==
  ASSUME NEW d \in Dialects, NEW g \in Gaps, NEW p, NEW f,
         Taken(p, d, "none", FALSE, f, LineSymbols)
  PROVE  GapTaken(p, d, g, f)
<1> DEFINE S == {"SP", "CR"}
           C == LineSymbols
           T == {t \in Seq(S) : GapTaken(p, d, t, f)}
<1>1. p \in Seq(C) /\ f \in FieldStates(C) /\ g \in Seq(S) /\ "plain" \in MarkNames
  BY DEF Taken, Gaps, MarkNames
<1>2. \A c \in S : c \in C /\ c \in Space /\ TurnsTo(d, "none", FALSE, c, "plain", "none", FALSE)
  <2>1. ASSUME NEW c \in S PROVE c \in C /\ c \in Space /\ c \notin {Escape(d), "DQ", "'"}
    BY DEF LineSymbols, Space, Escape
  <2> HIDE DEF S, C
  <2>2. QED
    BY <2>1, SymbolMarks
<1> HIDE DEF S, C
<1>3. <<>> \in T
  <2> DEFINE none == << >>
  <2>1. p \o none = p /\ none \in Seq(S)
    BY <1>1, ConcatEmptySeq, EmptySeq
  <2>2. none = << >>
    OBVIOUS
  <2> HIDE DEF none
  <2>3. GapTaken(p, d, none, f)
    BY <2>1, <2>2 DEF GapTaken
  <2>4. QED
    BY <2>1, <2>3 DEF none
<1>4. ASSUME NEW t \in Seq(S), NEW c \in S, t \in T PROVE Append(t, c) \in T
  <2> DEFINE u == p \o t
             v == Append(t, c)
             h == IF t = <<>> THEN f ELSE NoneOpen(Flush(f).words)
  <2>1. Taken(u, d, "none", FALSE, h, LineSymbols)
    BY <1>4 DEF GapTaken
  <2>2. v \in Seq(S) /\ v # <<>> /\ t \in Seq(C)
    <3>1. S \subseteq C
      BY <1>2
    <3>2. QED
      BY <3>1, AppendProperties, SeqMonotonic
  <2>3. p \o v = Append(u, c)
    BY <1>1, <1>2, <2>2, ConcatAppend
  <2>4. Flush(h) = NoneOpen(Flush(f).words)
    BY <1>1, FlushedOpen
  <2>5. h \in FieldStates(C)
    BY <2>1 DEF Taken, C
  <2> HIDE DEF u, h, v, T
  <2>6. TakesMore(u, d, "none", FALSE, h, "plain", c, LineSymbols)
    BY <1>1, <1>2, <2>1, TakeMore DEF C
  <2>7. FieldStep(h, "plain", c) = Flush(h)
    BY <1>2, <2>5, MarkFields
  <2>8. GapTaken(p, d, v, f)
    BY <2>2, <2>3, <2>4, <2>6, <2>7 DEF TakesMore, GapTaken
  <2>9. QED
    BY <2>2, <2>8 DEF T, v
<1> HIDE DEF T
<1>5. Seq(S) \subseteq T
  BY <1>3, <1>4, ByAppend
<1>6. QED
  BY <1>1, <1>5 DEF T

(* A gap is a calm text of spaces.                                          *)
LEMMA GapText ==
  ASSUME NEW d \in Dialects, NEW g \in Gaps
  PROVE  /\ g \in Seq(LineSymbols) /\ Calm(g, d, LineSymbols) /\ (\A i \in 1..Len(g) : g[i] \in Space)
         /\ d = "sh" => ~HasBackgroundAmpersand(g)
         /\ \A t : Apart(g, t) /\ Apart(t, g)
<1> DEFINE none == << >>
<1>1. g \in Seq({"SP", "CR"}) /\ g \in Seq(LineSymbols)
  BY SymbolsOf DEF Gaps
<1>2. Closed(g, d, LineSymbols)
  <2>1. Taken(none, d, "none", FALSE, NoFields, LineSymbols)
    BY TakenNothing
  <2>2. none \o g = g
    BY <1>1, ConcatEmptySeq
  <2> HIDE DEF none
  <2>3. GapTaken(none, d, g, NoFields)
    BY <2>1, GapTakes
  <2> DEFINE h == IF g = <<>> THEN NoFields ELSE NoneOpen(Flush(NoFields).words)
  <2>4. Taken(g, d, "none", FALSE, h, LineSymbols)
    BY <2>2, <2>3 DEF GapTaken
  <2> HIDE DEF h
  <2>5. QED
    BY <2>4 DEF Taken, Closed
<1>3. \A i \in 1..Len(g) : g[i] \in {"SP", "CR"}
  BY <1>1, ElementOfSeq
<1>4. \A i \in 1..Len(g) : CalmAt(g, d, i) /\ ~AmpAt(g, i) /\ g[i] \in Space
  BY <1>3 DEF CalmAt, AmpAt, Space
<1>5. ASSUME NEW t PROVE Apart(g, t) /\ Apart(t, g)
  <2>1. ASSUME g # <<>> PROVE Head(g) \in {"SP", "CR"} /\ Last(g) \in {"SP", "CR"}
    <3>1. Len(g) \in Nat \ {0} /\ Head(g) = g[1]
      BY <1>1, <2>1, EmptySeq
    <3>2. 1 \in 1..Len(g) /\ Len(g) \in 1..Len(g)
      BY <3>1
    <3>3. QED
      BY <1>3, <3>1, <3>2 DEF Last
  <2>2. QED
    BY <2>1 DEF Apart, Operators
<1>6. Calm(g, d, LineSymbols) /\ (d = "sh" => ~HasBackgroundAmpersand(g))
  BY <1>1, <1>2, <1>4, QuietText DEF Calm
<1>7. QED
  BY <1>1, <1>4, <1>5, <1>6

----------------------------------------------------------------------------
(* A sequence of elements of D.                                             *)
LEMMA SeqWithin ==
  ASSUME NEW C, NEW D, NEW s \in Seq(C), \A i \in DOMAIN s : s[i] \in D
  PROVE  s \in Seq(D)
<1>1. Len(s) \in Nat /\ DOMAIN s = 1..Len(s) /\ s = [i \in 1..Len(s) |-> s[i]]
  BY LenProperties
<1>2. s \in [1..Len(s) -> D]
  BY <1>1
<1>3. QED
  BY <1>1, <1>2

(* Words, those that a gap is behind, and what they mean.                   *)
WordOf(d) == {w \in [pieces : Seq([form : Forms, run : Seq(STRING)]), gap : Gaps] : IsWord(d, w)}
Gapped(d) == {w \in WordOf(d) : w.gap # <<>>}
Worded(d) == [w \in WordOf(d) |-> WordText(d, w) \o w.gap]
Meant(d) == [w \in WordOf(d) |-> WordMeant(w)]

(* The pieces of a word.                                                    *)
WordIs(d, w) ==
  LET s == w.pieces
  IN /\ s \in Seq(PieceOf(d)) /\ s # <<>> /\ AllApart(Spell(d), s) /\ w.gap \in Gaps
     /\ WordText(d, w) = TextOf(Spell(d), s) /\ WordText(d, w) \in Seq(LineSymbols)
     /\ WordMeant(w) = TextOf(Mean(d), s) /\ WordMeant(w) \in Seq(LineSymbols)
(* Every word is made of such pieces.                                      *)
LEMMA WordsAre ==
  ASSUME NEW d \in Dialects, NEW w, IsWord(d, w)
  PROVE  WordIs(d, w)
<1> DEFINE s == w.pieces
           R == [form : Forms, run : Seq(STRING)]
<1>1. /\ s \in Seq(R) /\ s # <<>> /\ w.gap \in Gaps /\ \A i \in DOMAIN s : IsPiece(d, s[i])
      /\ \A i \in 1..(Len(s) - 1) : Apart(Spelled(d, s[i]), Spelled(d, s[i + 1]))
  BY DEF IsWord
<1>2. Len(s) \in Nat /\ DOMAIN s = 1..Len(s)
  BY <1>1, LenProperties
<1>3. \A i \in DOMAIN s : s[i] \in PieceOf(d)
  <2>1. \A i \in DOMAIN s : s[i] \in R
    BY <1>1, <1>2, ElementOfSeq
  <2>2. QED
    BY <1>1, <2>1 DEF PieceOf
<1>4. WordText(d, w) = FlattenSeq([i \in DOMAIN s |-> Spelled(d, s[i])]) /\ WordMeant(w) = FlattenSeq([i \in DOMAIN s |-> s[i].run])
  BY DEF WordText, WordMeant
<1> HIDE DEF s, R
<1>5. s \in Seq(PieceOf(d))
  BY <1>1, <1>3, SeqWithin
<1>6. \A i \in DOMAIN s : Spell(d)[s[i]] = Spelled(d, s[i]) /\ Mean(d)[s[i]] = s[i].run
  BY <1>3, PiecesRead
<1>7. /\ Mapped(Spell(d), s) = [i \in DOMAIN s |-> Spelled(d, s[i])]
      /\ Mapped(Mean(d), s) = [i \in DOMAIN s |-> s[i].run]
  BY <1>6 DEF Mapped
<1>8. AllApart(Spell(d), s)
  <2>1. \A i \in 1..(Len(s) - 1) : i \in DOMAIN s /\ i + 1 \in DOMAIN s
    BY <1>2
  <2>2. QED
    BY <1>1, <1>6, <2>1 DEF AllApart
<1>9. Spell(d) \in [PieceOf(d) -> Seq(LineSymbols)] /\ Mean(d) \in [PieceOf(d) -> Seq(LineSymbols)]
  BY PiecesRead
<1>10. \E a : a \in PieceOf(d)
  <2>1. 1 \in DOMAIN s
    BY <1>1, <1>2, EmptySeq
  <2>2. QED
    BY <1>3, <2>1
<1>11. TextOf(Spell(d), s) \in Seq(LineSymbols) /\ TextOf(Mean(d), s) \in Seq(LineSymbols)
  BY <1>5, <1>9, <1>10, TextMore
<1>12. QED
  BY <1>1, <1>4, <1>5, <1>7, <1>8, <1>11 DEF WordIs, TextOf, s

(* The text of a word, and how the shell takes it.                          *)
WordReads(d, w) ==
  LET t == WordText(d, w)
  IN /\ t # <<>> /\ Calm(t, d, LineSymbols) /\ Head(t) \notin Space /\ (EndsWhole(w) => Last(t) \notin Space)
     /\ d = "sh" => ~HasBackgroundAmpersand(t)
WordTaken(p, d, w, f) == Taken(p \o WordText(d, w), d, "none", FALSE, WithWord(f, WordMeant(w)), LineSymbols)
(* Every word is read so, and taken for what it means.                     *)
LEMMA WordsRead ==
  ASSUME NEW d \in Dialects, NEW w, IsWord(d, w)
  PROVE  /\ WordReads(d, w)
         /\ \A p, f : Taken(p, d, "none", FALSE, f, LineSymbols) => WordTaken(p, d, w, f)
<1> DEFINE s == w.pieces
           t == TextOf(Spell(d), s)
<1>1. /\ s \in Seq(PieceOf(d)) /\ s # <<>> /\ AllApart(Spell(d), s) /\ WordText(d, w) = t
      /\ WordMeant(w) = TextOf(Mean(d), s)
  BY WordsAre DEF WordIs
<1>2. ASSUME NEW p, NEW f, Taken(p, d, "none", FALSE, f, LineSymbols) PROVE WordTaken(p, d, w, f)
  <2>1. PiecesTaken(p, d, s, f)
    <3> HIDE DEF s
    <3>1. QED
      BY <1>1, <1>2, PiecesTake
  <2>2. QED
    BY <1>1, <2>1 DEF PiecesTaken, WordTaken
<1>3. /\ Calm(t, d, LineSymbols) /\ (d = "sh" => ~HasBackgroundAmpersand(t))
      /\ t # <<>> /\ Head(t) \notin Space /\ Last(t) = Last(Spelled(d, Last(s)))
  <2> HIDE DEF s
  <2>1. QED
    BY <1>1, PiecesText
<1>4. Last(s) \in PieceOf(d)
  BY <1>1, FrontAndLast
<1>5. PieceReads(d, Last(s))
  BY <1>4, PiecesRead
<1>6. EndsWhole(w) => Last(t) \notin Space
  BY <1>3, <1>5 DEF PieceReads, EndsWhole
<1> HIDE DEF t
<1>7. WordReads(d, w)
  BY <1>1, <1>3, <1>6 DEF WordReads
<1>8. QED
  BY <1>2, <1>7

(* Words have texts and meanings.                                           *)
LEMMA WordMaps ==
  ASSUME NEW d \in Dialects
  PROVE  /\ Worded(d) \in [WordOf(d) -> Seq(LineSymbols)] /\ Meant(d) \in [WordOf(d) -> Seq(LineSymbols)]
         /\ \A w \in WordOf(d) : /\ IsWord(d, w) /\ w.gap \in Gaps /\ WordIs(d, w) /\ WordReads(d, w)
                                 /\ Worded(d)[w] = WordText(d, w) \o w.gap /\ Meant(d)[w] = WordMeant(w)
                                 /\ Worded(d)[w] # <<>>
<1>1. ASSUME NEW w \in WordOf(d)
      PROVE  /\ IsWord(d, w) /\ w.gap \in Gaps /\ WordIs(d, w) /\ WordReads(d, w)
             /\ WordText(d, w) \o w.gap \in Seq(LineSymbols) /\ WordMeant(w) \in Seq(LineSymbols)
             /\ WordText(d, w) \o w.gap # <<>>
  <2> DEFINE t == WordText(d, w)
             g == w.gap
  <2>1. IsWord(d, w)
    BY DEF WordOf
  <2>2. WordIs(d, w) /\ WordReads(d, w)
    BY <2>1, WordsAre, WordsRead
  <2>3. t \in Seq(LineSymbols) /\ WordMeant(w) \in Seq(LineSymbols) /\ g \in Gaps /\ t # <<>>
    BY <2>2 DEF WordIs, WordReads
  <2>4. g \in Seq(LineSymbols)
    BY <2>3, GapText
  <2> HIDE DEF t, g
  <2>5. t \o g \in Seq(LineSymbols) /\ EndsOf(t, g)
    BY <2>3, <2>4, ConcatProperties, ConcatEnds
  <2>6. t \o g # <<>>
    BY <2>3, <2>5 DEF EndsOf
  <2>7. QED
    BY <2>1, <2>2, <2>3, <2>5, <2>6 DEF t, g
<1>2. QED
  BY <1>1 DEF Worded, Meant

----------------------------------------------------------------------------
(* What words mean together.                                                *)
AllMeant(d, s) == Without(<<>>, Mapped(Meant(d), s))
MeantMore(d, s, w) ==
  AllMeant(d, Append(s, w)) =
    IF WordMeant(w) = <<>> THEN AllMeant(d, s) ELSE Append(AllMeant(d, s), WordMeant(w))

(* One word more.                                                           *)
LEMMA MeantGrow ==
  ASSUME NEW d \in Dialects, NEW s \in Seq(WordOf(d)), NEW w \in WordOf(d)
  PROVE  AllMeant(d, s) \in Seq(Seq(LineSymbols)) /\ MeantMore(d, s, w) /\ AllMeant(d, <<>>) = <<>>
<1> DEFINE f == Meant(d)
           old == Mapped(f, s)
           q == f[w]
           e == << >>
           Y == Seq(LineSymbols)
<1>1. f \in [WordOf(d) -> Y] /\ q = WordMeant(w) /\ q \in Y
  BY WordMaps
<1> HIDE DEF Y, f
<1>2. old \in Seq(Y) /\ MapsMore(f, s, w)
  BY <1>1, MapAppend
<1>3. AllMeant(d, s) = Without(e, old) /\ AllMeant(d, Append(s, w)) = Without(e, Append(old, q))
  BY <1>2 DEF AllMeant, MapsMore, f
<1>4. AllMeant(d, <<>>) = <<>>
  <2>1. Mapped(Meant(d), e) = e
    BY DEF Mapped
  <2>2. Without(e, e) = e
    BY WithoutOne
  <2>3. QED
    BY <2>1, <2>2 DEF AllMeant
<1> HIDE DEF old, q, e
<1>5. Without(e, old) \in Seq(Y) /\ Leaves(e, old, q)
  BY <1>1, <1>2, WithoutMore
<1>6. QED
  BY <1>1, <1>3, <1>4, <1>5 DEF MeantMore, Leaves, Y, e

(* A word has been taken where none is open.                                *)
LEMMA NextMeant ==
  ASSUME NEW d \in Dialects, NEW s \in Seq(WordOf(d)), NEW w \in WordOf(d)
  PROVE  Flush(WithWord(NoneOpen(AllMeant(d, s)), WordMeant(w))).words = AllMeant(d, Append(s, w))
<1> DEFINE V == AllMeant(d, s)
           m == WordMeant(w)
           g == NoneOpen(V)
           e == << >>
<1>1. V \in Seq(Seq(LineSymbols)) /\ MeantMore(d, s, w)
  BY MeantGrow
<1>2. m \in Seq(LineSymbols)
  BY WordMaps DEF WordIs
<1>3. g.words = V /\ g.word = e /\ e \o m = m
  BY <1>2, ConcatEmptySeq DEF NoneOpen
<1>4. AllMeant(d, Append(s, w)) = IF m = e THEN V ELSE Append(V, m)
  BY <1>1 DEF MeantMore
<1> HIDE DEF V, m, g, e
<1> DEFINE h == WithWord(g, m)
<1>5. h.words = V /\ h.word = m
  BY <1>3 DEF WithWord
<1> HIDE DEF h
<1>6. Flush(h).words = IF m = e THEN V ELSE Append(V, m)
  BY <1>5 DEF Flush, e
<1>7. QED
  BY <1>4, <1>6 DEF h, m, g, V

(* Words with gaps have been taken.                                         *)
WordsTaken(d, s) ==
  Taken(TextOf(Worded(d), s), d, "none", FALSE, NoneOpen(AllMeant(d, s)), LineSymbols)
(* Words that have gaps behind them are taken for what they mean.          *)
LEMMA WordsTake ==
  ASSUME NEW d \in Dialects, NEW s \in Seq(Gapped(d))
  PROVE  WordsTaken(d, s)
<1> DEFINE X == Gapped(d)
           C == LineSymbols
           f == Worded(d)
           T == {u \in Seq(X) : WordsTaken(d, u)}
<1>1. f \in [WordOf(d) -> Seq(C)] /\ X \subseteq WordOf(d)
  BY WordMaps DEF Gapped
<1> HIDE DEF C, f
<1>2. <<>> \in T
  <2> DEFINE none == << >>
  <2>1. TextOf(f, none) = none
    BY FlattenEmpty DEF TextOf, Mapped
  <2>2. NoneOpen(AllMeant(d, none)) = NoFields /\ none \in Seq(X)
    <3>1. Mapped(Meant(d), none) = none
      BY DEF Mapped
    <3>2. Without(none, none) = none
      BY WithoutOne
    <3>3. QED
      BY <3>1, <3>2, EmptySeq DEF AllMeant, NoneOpen, NoFields
  <2>3. Taken(none, d, "none", FALSE, NoFields, LineSymbols)
    BY TakenNothing
  <2> HIDE DEF none
  <2>4. WordsTaken(d, none)
    BY <2>1, <2>2, <2>3 DEF WordsTaken, f
  <2>5. QED
    BY <2>2, <2>4 DEF none
<1>3. ASSUME NEW u \in Seq(X), NEW w \in X, u \in T PROVE Append(u, w) \in T
  <2> DEFINE v == Append(u, w)
             r == TextOf(f, u)
             h == NoneOpen(AllMeant(d, u))
             t == WordText(d, w)
             g == w.gap
  <2>1. v \in Seq(X) /\ u \in Seq(WordOf(d)) /\ w \in WordOf(d) /\ g # <<>>
    <3>1. u \in Seq(WordOf(d))
      BY <1>1, SeqMonotonic
    <3>2. QED
      BY <1>1, <3>1, AppendProperties DEF Gapped
  <2>2. r \in Seq(C) /\ TextGrows(f, u, w)
    BY <1>1, <2>1, TextMore
  <2>3. Taken(r, d, "none", FALSE, h, LineSymbols)
    BY <1>3 DEF WordsTaken, f
  <2>4. IsWord(d, w) /\ g \in Gaps /\ f[w] = t \o g /\ t \in Seq(C) /\ g \in Seq(C)
    <3>1. IsWord(d, w) /\ g \in Gaps /\ f[w] = t \o g /\ WordIs(d, w)
      BY <2>1, WordMaps DEF f
    <3>2. QED
      BY <3>1, GapText DEF WordIs, C
  <2> DEFINE k == WithWord(h, WordMeant(w))
  <2>5. Flush(k).words = AllMeant(d, v)
    BY <2>1, NextMeant
  <2> HIDE DEF r, h, t, g, k, v, T
  <2>6. Taken(r \o t, d, "none", FALSE, k, LineSymbols)
    <3>1. WordTaken(r, d, w, h)
      BY <2>3, <2>4, WordsRead
    <3>2. QED
      BY <3>1 DEF WordTaken, t, k
  <2>7. Taken((r \o t) \o g, d, "none", FALSE, NoneOpen(Flush(k).words), LineSymbols)
    <3> DEFINE y == r \o t
    <3> HIDE DEF y
    <3>1. GapTaken(y, d, g, k)
      BY <2>4, <2>6, GapTakes DEF y
    <3>2. QED
      BY <2>1, <3>1 DEF GapTaken, y
  <2>8. Associates(r, t, g)
    BY <2>2, <2>4, AllAssociate
  <2>9. WordsTaken(d, v)
    BY <2>2, <2>4, <2>5, <2>7, <2>8 DEF WordsTaken, Associates, TextGrows, f, r, v
  <2>10. QED
    BY <2>1, <2>9 DEF T, v
<1> HIDE DEF T, X
<1>4. Seq(X) \subseteq T
  BY <1>2, <1>3, ByAppend
<1>5. QED
  BY <1>4 DEF T, X

(* The text of words that gaps set off from each other.                     *)
(* Words are read to the end, and none has a lone &.                       *)
LEMMA WordsText ==
  ASSUME NEW d \in Dialects, NEW s \in Seq(WordOf(d)), \A i \in 1..(Len(s) - 1) : s[i].gap # <<>>
  PROVE  LET t == TextOf(Worded(d), s)
         IN Calm(t, d, LineSymbols) /\ (d = "sh" => ~HasBackgroundAmpersand(t))
<1> DEFINE X == WordOf(d)
           C == LineSymbols
           f == Worded(d)
           Good(u) == LET t == TextOf(f, u)
                      IN Calm(t, d, C) /\ (d = "sh" => ~HasBackgroundAmpersand(t))
           T == {u \in Seq(X) : Good(u)}
<1>1. f \in [X -> Seq(C)] /\ \A w \in X : f[w] # <<>>
  BY WordMaps
<1>2. <<>> \in T
  <2> DEFINE none == << >>
  <2>1. TextOf(f, none) = none
    BY FlattenEmpty DEF TextOf, Mapped
  <2>2. QED
    BY <2>1, NothingCalm, EmptySeq
<1>3. ASSUME NEW w \in X
      PROVE  /\ Calm(f[w], d, C) /\ (d = "sh" => ~HasBackgroundAmpersand(f[w]))
             /\ w.gap # <<>> => \A t : Apart(f[w], t)
  <2> DEFINE t == WordText(d, w)
             g == w.gap
  <2>1. /\ WordReads(d, w) /\ g \in Gaps /\ f[w] = t \o g /\ WordIs(d, w)
    BY WordMaps
  <2>2. /\ Calm(t, d, C) /\ Closed(t, d, C) /\ t \in Seq(C) /\ t # <<>>
        /\ d = "sh" => ~HasBackgroundAmpersand(t)
    BY <2>1 DEF WordReads, WordIs, Calm
  <2>3. Calm(g, d, C) /\ g \in Seq(C) /\ (d = "sh" => ~HasBackgroundAmpersand(g)) /\ Apart(t, g)
    BY <2>1, GapText
  <2>4. g # <<>> => Last(g) \in Space
    <3>1. \A i \in 1..Len(g) : g[i] \in Space
      BY <2>1, GapText
    <3>2. ASSUME g # <<>> PROVE Len(g) \in 1..Len(g)
      BY <2>3, <3>2, EmptySeq
    <3>3. QED
      BY <3>1, <3>2 DEF Last
  <2> HIDE DEF t, g, C, f
  <2>5. Calm(t \o g, d, C)
    BY <2>2, <2>3, CalmConcat
  <2>6. d = "sh" => (HasBackgroundAmpersand(t \o g) <=> HasBackgroundAmpersand(t) \/ HasBackgroundAmpersand(g))
    BY <2>2, <2>3, BackConcat
  <2>7. g # <<>> => Last(f[w]) \in Space
    <3>1. EndsOf(t, g)
      BY <2>2, <2>3, ConcatEnds
    <3>2. QED
      BY <2>1, <2>4, <3>1 DEF EndsOf
  <2>8. g # <<>> => \A z : Apart(f[w], z)
    BY <2>7 DEF Apart, Space, Operators
  <2>9. QED
    BY <2>1, <2>2, <2>3, <2>5, <2>6, <2>8 DEF g
<1> HIDE DEF f, C
<1>4. ASSUME NEW u \in Seq(X), NEW w \in X, u \in T, Apart(TextOf(f, u), f[w])
      PROVE  Append(u, w) \in T
  <2> DEFINE v == Append(u, w)
             r == TextOf(f, u)
             l == f[w]
  <2>1. /\ v \in Seq(X) /\ Len(u) \in Nat /\ DOMAIN u = 1..Len(u) /\ DOMAIN v = 1..(Len(u) + 1)
        /\ v[Len(u) + 1] = w /\ \A i \in 1..Len(u) : v[i] = u[i]
    BY AppendProperties, LenProperties
  <2>2. r \in Seq(C) /\ l \in Seq(C) /\ TextOf(f, v) = r \o l
    BY <1>1, TextMore DEF TextGrows
  <2>3. Calm(r, d, C) /\ (d = "sh" => ~HasBackgroundAmpersand(r)) /\ Apart(r, l)
    BY <1>4
  <2>4. Calm(l, d, C) /\ (d = "sh" => ~HasBackgroundAmpersand(l))
    BY <1>3
  <2> HIDE DEF r, l, v
  <2>6. Calm(r \o l, d, C)
    BY <2>3, <2>4, CalmConcat
  <2>7. d = "sh" => (HasBackgroundAmpersand(r \o l) <=> HasBackgroundAmpersand(r) \/ HasBackgroundAmpersand(l))
    BY <2>2, <2>3, BackConcat DEF Calm
  <2>8. Good(v)
    BY <2>2, <2>3, <2>4, <2>6, <2>7
  <2>9. QED
    BY <2>1, <2>8 DEF v
<1>5. AllApart(f, s)
  <2>1. ASSUME NEW i \in 1..(Len(s) - 1) PROVE Apart(f[s[i]], f[s[i + 1]])
    <3>1. i \in 1..Len(s)
      BY LenProperties
    <3>2. s[i] \in X /\ s[i].gap # <<>>
      BY <3>1, ElementOfSeq
    <3>3. QED
      BY <1>3, <3>2
  <2>2. QED
    BY <2>1 DEF AllApart
<1> HIDE DEF T
<1>6. s \in T
  <2>1. s \in Seq(X)
    OBVIOUS
  <2> HIDE DEF X
  <2>2. QED
    BY <1>1, <1>2, <1>4, <1>5, <2>1, ByApart
<1>7. QED
  BY <1>6 DEF T, f, C

----------------------------------------------------------------------------
(* What is between two gaps is what is left without them.                   *)
LEMMA TrimWithin ==
  ASSUME NEW C, NEW a \in Seq(C), NEW c \in Seq(C), NEW b \in Seq(C),
         \A i \in 1..Len(a) : a[i] \in Space, \A i \in 1..Len(b) : b[i] \in Space,
         c # <<>>, Head(c) \notin Space, Last(c) \notin Space
  PROVE  TrimSpace((a \o c) \o b) = c
<1> DEFINE u == a \o c
           s == u \o b
           lo == Len(a) + 1
           hi == Len(a) + Len(c)
<1>1. /\ u \in Seq(C) /\ Len(u) = hi
      /\ \A i \in 1..hi : u[i] = IF i <= Len(a) THEN a[i] ELSE c[i - Len(a)]
  BY ConcatProperties
<1>2. Len(a) \in Nat /\ Len(b) \in Nat /\ Len(c) \in Nat \ {0} /\ Head(c) = c[1] /\ Last(c) = c[Len(c)]
  <2>1. Len(a) \in Nat /\ Len(b) \in Nat /\ Len(c) \in Nat
    BY LenProperties
  <2>2. Len(c) # 0
    BY EmptySeq
  <2>3. Head(c) = c[1]
    OBVIOUS
  <2>4. QED
    BY <2>1, <2>2, <2>3 DEF Last
<1> HIDE DEF u
<1>0. /\ s \in Seq(C) /\ Len(s) = Len(u) + Len(b)
      /\ \A i \in 1..(Len(u) + Len(b)) : s[i] = IF i <= Len(u) THEN u[i] ELSE b[i - Len(u)]
  <2>1. u \in Seq(C)
    BY <1>1
  <2>2. QED
    BY <2>1, ConcatProperties
<1> HIDE DEF s
<1>3. /\ s \in Seq(C) /\ Len(s) = hi + Len(b)
      /\ \A i \in 1..(hi + Len(b)) : s[i] = IF i <= hi THEN u[i] ELSE b[i - hi]
  <2>1. Len(u) = hi
    BY <1>1
  <2> HIDE DEF hi
  <2>2. QED
    BY <1>0, <2>1
<1>4. \A i \in 1..Len(s) : s[i] = IF i <= Len(a) THEN a[i] ELSE IF i <= hi THEN c[i - Len(a)] ELSE b[i - hi]
  <2>1. \A i \in 1..Len(s) : i <= hi => i \in 1..hi
    BY <1>2
  <2>2. QED
    BY <1>1, <1>2, <1>3, <2>1
<1>5. lo \in 1..Len(s) /\ hi \in 1..Len(s) /\ ~(lo <= Len(a)) /\ ~(hi <= Len(a)) /\ lo <= hi
      /\ lo - Len(a) = 1 /\ hi - Len(a) = Len(c)
  BY <1>2, <1>3
<1>6. s[lo] \notin Space /\ s[hi] \notin Space
  <2>1. s[lo] = c[1]
    <3>1. s[lo] = IF lo <= Len(a) THEN a[lo] ELSE IF lo <= hi THEN c[lo - Len(a)] ELSE b[lo - hi]
      BY <1>4, <1>5
    <3> HIDE DEF lo, hi
    <3>2. QED
      BY <1>5, <3>1
  <2>2. s[hi] = c[Len(c)]
    <3>1. s[hi] = IF hi <= Len(a) THEN a[hi] ELSE IF hi <= hi THEN c[hi - Len(a)] ELSE b[hi - hi]
      BY <1>4, <1>5
    <3>2. hi <= hi
      BY <1>2
    <3> HIDE DEF lo, hi
    <3>3. QED
      BY <1>5, <3>1, <3>2
  <2> HIDE DEF lo, hi
  <2>3. QED
    BY <1>2, <2>1, <2>2
<1>7. \A i \in 1..Len(s) : s[i] \notin Space => lo <= i /\ i <= hi
  <2>1. ASSUME NEW i \in 1..Len(s), i <= Len(a) PROVE s[i] \in Space
    <3>1. i \in 1..Len(a)
      BY <2>1
    <3>2. QED
      BY <1>4, <2>1, <3>1
  <2>2. ASSUME NEW i \in 1..Len(s), i > hi PROVE s[i] \in Space
    <3>1. i - hi \in 1..Len(b) /\ ~(i <= Len(a)) /\ ~(i <= hi)
      BY <1>2, <1>3, <2>2
    <3>2. QED
      BY <1>4, <3>1
  <2>3. QED
    BY <1>2, <2>1, <2>2
<1>8. TrimSpace(s) = SubSeq(s, lo, hi)
  BY <1>3, <1>5, <1>6, <1>7, TrimOf
<1>9. SubSeq(s, lo, hi) = c
  <2> DEFINE z == SubSeq(s, lo, hi)
  <2>1. \A i \in lo..hi : s[i] \in C
    <3>1. \A i \in lo..hi : i \in 1..Len(s)
      BY <1>2, <1>3
    <3>2. QED
      BY <1>3, <3>1, ElementOfSeq
  <2>2. /\ z \in Seq(C) /\ Len(z) = IF lo <= hi THEN (hi - lo) + 1 ELSE 0
        /\ \A i \in 1..((hi - lo) + 1) : z[i] = s[(lo + i) - 1]
    <3> HIDE DEF lo, hi
    <3>1. lo \in Int /\ hi \in Int
      BY <1>5
    <3>2. QED
      BY <2>1, <3>1, SubSeqProperties
  <2> HIDE DEF z
  <2>3. Len(z) = Len(c) /\ (hi - lo) + 1 = Len(c)
    BY <1>2, <2>2
  <2>4. ASSUME NEW i \in 1..Len(c) PROVE z[i] = c[i]
    <3>1. /\ (lo + i) - 1 = Len(a) + i /\ Len(a) + i \in 1..Len(s) /\ ~(Len(a) + i <= Len(a))
          /\ Len(a) + i <= hi /\ (Len(a) + i) - Len(a) = i
      BY <1>2, <1>3
    <3>2. QED
      BY <1>4, <2>2, <2>3, <3>1
  <2>5. z = c
    BY <2>2, <2>3, <2>4, SeqEqual
  <2>6. QED
    BY <2>5 DEF z
<1>10. QED
  BY <1>8, <1>9 DEF s, u

(* Nothing is left of a gap.                                                *)
LEMMA TrimGap ==
  ASSUME NEW C, NEW g \in Seq(C), \A i \in 1..Len(g) : g[i] \in Space
  PROVE  TrimSpace(g) = <<>>
<1>1. DOMAIN g = 1..Len(g)
  BY LenProperties
<1>2. {i \in DOMAIN g : g[i] \notin Space} = {}
  BY <1>1
<1>3. QED
  BY <1>2 DEF TrimSpace

(* A part is its words behind what leads it.                                *)
PartIs(d, p) ==
  LET s == p.words
  IN /\ p.lead \in Gaps /\ s \in Seq(WordOf(d)) /\ (\A i \in 1..(Len(s) - 1) : s[i].gap # <<>>)
     /\ PartText(d, p) = p.lead \o TextOf(Worded(d), s) /\ WordsOf(p) = AllMeant(d, s)
     /\ s # <<>> => /\ Front(s) \in Seq(Gapped(d)) /\ Last(s) \in WordOf(d) /\ EndsWhole(Last(s))
                    /\ s = Append(Front(s), Last(s))
(* Every part is made of such words.                                       *)
LEMMA PartsAre ==
  ASSUME NEW d \in Dialects, NEW p, IsPart(d, p)
  PROVE  PartIs(d, p)
<1> DEFINE s == p.words
           S == {s[i] : i \in DOMAIN s}
<1>1. /\ p.lead \in Gaps /\ s \in Seq(S) /\ (\A i \in DOMAIN s : IsWord(d, s[i]))
      /\ (\A i \in 1..(Len(s) - 1) : s[i].gap # <<>>) /\ (s # <<>> => EndsWhole(Last(s)))
  BY DEF IsPart
<1>2. \A i \in DOMAIN s : s[i] \in WordOf(d)
  BY <1>1 DEF IsWord, WordOf
<1>3. /\ PartText(d, p) = p.lead \o FlattenSeq([i \in DOMAIN s |-> WordText(d, s[i]) \o s[i].gap])
      /\ WordsOf(p) = Without(<<>>, [i \in DOMAIN s |-> WordMeant(s[i])])
  BY DEF PartText, WordsOf
<1> HIDE DEF s, S
<1>4. s \in Seq(WordOf(d)) /\ Len(s) \in Nat /\ DOMAIN s = 1..Len(s)
  BY <1>1, <1>2, SeqWithin, LenProperties
<1>5. \A i \in DOMAIN s : Worded(d)[s[i]] = WordText(d, s[i]) \o s[i].gap /\ Meant(d)[s[i]] = WordMeant(s[i])
  BY <1>2, WordMaps
<1>6. /\ Mapped(Worded(d), s) = [i \in DOMAIN s |-> WordText(d, s[i]) \o s[i].gap]
      /\ Mapped(Meant(d), s) = [i \in DOMAIN s |-> WordMeant(s[i])]
  BY <1>5 DEF Mapped
<1>7. ASSUME s # <<>>
      PROVE  Front(s) \in Seq(Gapped(d)) /\ Last(s) \in WordOf(d) /\ s = Append(Front(s), Last(s))
  <2> DEFINE t == Front(s)
  <2>1. t \in Seq(WordOf(d)) /\ Last(s) \in WordOf(d) /\ s = Append(t, Last(s)) /\ Len(t) = Len(s) - 1
    BY <1>4, <1>7, FrontAndLast
  <2> HIDE DEF t
  <2>2. \A i \in 1..Len(t) : s[i] = t[i]
    BY <2>1, AppendProperties
  <2>3. ASSUME NEW i \in DOMAIN t PROVE t[i] \in Gapped(d)
    <3>1. i \in 1..Len(t) /\ i \in 1..(Len(s) - 1)
      BY <2>1, LenProperties
    <3>2. t[i] \in WordOf(d) /\ t[i].gap # <<>>
      BY <1>1, <2>1, <2>2, <3>1, ElementOfSeq
    <3>3. QED
      BY <3>2 DEF Gapped
  <2>4. t \in Seq(Gapped(d))
    BY <2>1, <2>3, SeqWithin
  <2>5. QED
    BY <2>1, <2>4 DEF t
<1>8. QED
  BY <1>1, <1>3, <1>4, <1>6, <1>7 DEF PartIs, TextOf, AllMeant, s

(* Words begin with ink.                                                    *)
LEMMA WordsHead ==
  ASSUME NEW d \in Dialects, NEW s \in Seq(Gapped(d)), s # <<>>
  PROVE  Head(TextOf(Worded(d), s)) \notin Space
<1> DEFINE X == Gapped(d)
           C == LineSymbols
           f == Worded(d)
           T == {u \in Seq(X) : u # <<>> => TextOf(f, u) # <<>> /\ Head(TextOf(f, u)) \notin Space}
<1>1. f \in [WordOf(d) -> Seq(C)] /\ X \subseteq WordOf(d)
  BY WordMaps DEF Gapped
<1>2. <<>> \in T
  BY EmptySeq
<1>3. ASSUME NEW u \in Seq(X), NEW w \in X, u \in T PROVE Append(u, w) \in T
  <2> DEFINE v == Append(u, w)
             r == TextOf(f, u)
             t == WordText(d, w)
             g == w.gap
             l == f[w]
  <2>1. v \in Seq(X) /\ u \in Seq(WordOf(d)) /\ w \in WordOf(d)
    <3>1. u \in Seq(WordOf(d))
      BY <1>1, SeqMonotonic
    <3>2. QED
      BY <1>1, <3>1, AppendProperties
  <2>2. r \in Seq(C) /\ TextGrows(f, u, w)
    <3> HIDE DEF f
    <3>1. QED
      BY <1>1, <2>1, TextMore
  <2>3. /\ l \in Seq(C) /\ g \in Gaps /\ l = t \o g /\ t \in Seq(C) /\ t # <<>> /\ Head(t) \notin Space
    BY <2>1, WordMaps DEF WordIs, WordReads
  <2>4. g \in Seq(C)
    BY <2>3, GapText
  <2> HIDE DEF t, g
  <2>5. l # <<>> /\ Head(l) \notin Space
    <3>1. EndsOf(t, g)
      BY <2>3, <2>4, ConcatEnds
    <3>2. QED
      BY <2>3, <3>1 DEF EndsOf
  <2>6. u = <<>> => r = <<>>
    BY FlattenEmpty DEF TextOf, Mapped
  <2>7. r # <<>> => Head(r) \notin Space
    BY <1>3, <2>6
  <2> HIDE DEF r, l, v, f, T
  <2>8. TextOf(f, v) = r \o l
    BY <2>2 DEF TextGrows, r, l, v
  <2>9. EndsOf(r, l)
    BY <2>2, <2>3, ConcatEnds
  <2>10. TextOf(f, v) # <<>> /\ Head(TextOf(f, v)) \notin Space
    BY <2>5, <2>7, <2>8, <2>9 DEF EndsOf
  <2>11. QED
    BY <2>1, <2>10 DEF T, v
<1> HIDE DEF T, X
<1>4. Seq(X) \subseteq T
  BY <1>2, <1>3, ByAppend
<1>5. QED
  BY <1>4 DEF T, X

(* What the shell reads in the text of a part.                              *)
PartReads(d, p) ==
  LET t == PartText(d, p)
  IN /\ Calm(t, d, LineSymbols) /\ (d = "sh" => ~HasBackgroundAmpersand(t))
     /\ ShellFields(TrimSpace(t), d) = WordsOf(p)
(* Every part is read so (shellFields, hasBackgroundAmpersand).            *)
LEMMA PartsRead ==
  ASSUME NEW d \in Dialects, NEW p, IsPart(d, p)
  PROVE  PartReads(d, p)
<1> DEFINE s == p.words
           C == LineSymbols
           r == TextOf(Worded(d), s)
           t == PartText(d, p)
<1>1. PartIs(d, p)
  BY PartsAre
<1>2. /\ p.lead \in Gaps /\ s \in Seq(WordOf(d)) /\ (\A i \in 1..(Len(s) - 1) : s[i].gap # <<>>)
      /\ t = p.lead \o r /\ WordsOf(p) = AllMeant(d, s)
  BY <1>1 DEF PartIs
<1>3. p.lead \in Seq(C) /\ Calm(p.lead, d, C) /\ (d = "sh" => ~HasBackgroundAmpersand(p.lead)) /\ Apart(p.lead, r)
      /\ \A i \in 1..Len(p.lead) : p.lead[i] \in Space
  BY <1>2, GapText
<1>4. Calm(r, d, C) /\ (d = "sh" => ~HasBackgroundAmpersand(r))
  <2> HIDE DEF s
  <2>1. QED
    BY <1>2, WordsText
<1> HIDE DEF r, s, C, t
<1>5. Calm(t, d, C) /\ (d = "sh" => ~HasBackgroundAmpersand(t))
  <2>1. Calm(p.lead \o r, d, C)
    BY <1>3, <1>4, CalmConcat
  <2>2. d = "sh" => (HasBackgroundAmpersand(p.lead \o r) <=> HasBackgroundAmpersand(p.lead) \/ HasBackgroundAmpersand(r))
    BY <1>3, <1>4, BackConcat DEF Calm, Closed
  <2>3. QED
    BY <1>2, <1>3, <1>4, <2>1, <2>2
<1>6. ShellFields(TrimSpace(t), d) = WordsOf(p)
  <2>1. CASE s = <<>>
    <3>1. r = <<>>
      BY <2>1, FlattenEmpty DEF r, TextOf, Mapped
    <3>2. t = p.lead
      BY <1>2, <1>3, <3>1, ConcatEmptySeq
    <3>3. TrimSpace(t) = <<>>
      BY <1>3, <3>2, TrimGap
    <3>4. WordsTaken(d, s)
      BY <2>1, WordsTake, EmptySeq
    <3>5. Taken(r, d, "none", FALSE, NoneOpen(AllMeant(d, s)), LineSymbols)
      BY <3>4 DEF WordsTaken, r
    <3>6. Fielded(Marks(r, d), r) = NoneOpen(AllMeant(d, s))
      BY <3>5 DEF Taken
    <3>7. Flush(NoneOpen(AllMeant(d, s))).words = AllMeant(d, s)
      BY DEF Flush, NoneOpen
    <3>8. ShellFields(r, d) = AllMeant(d, s)
      BY <3>6, <3>7 DEF ShellFields, Fielded, NoFields
    <3>9. QED
      BY <1>2, <3>1, <3>3, <3>8
  <2>2. CASE s # <<>>
    <3> DEFINE u == Front(s)
               w == Last(s)
               a == TextOf(Worded(d), u)
               x == WordText(d, w)
               b == w.gap
               c == a \o x
               h == NoneOpen(AllMeant(d, u))
               k == WithWord(h, WordMeant(w))
    <3>1. u \in Seq(Gapped(d)) /\ w \in WordOf(d) /\ EndsWhole(w) /\ s = Append(u, w)
      BY <1>1, <2>2 DEF PartIs, s
    <3>2. u \in Seq(WordOf(d)) /\ Worded(d) \in [WordOf(d) -> Seq(C)]
      <4>1. Gapped(d) \subseteq WordOf(d)
        BY DEF Gapped
      <4>2. QED
        BY <3>1, <4>1, SeqMonotonic, WordMaps DEF C
    <3>3. b \in Gaps /\ IsWord(d, w) /\ WordReads(d, w) /\ Worded(d)[w] = x \o b /\ x \in Seq(C)
      BY <3>1, WordMaps DEF WordIs, C
    <3>4. b \in Seq(C) /\ \A i \in 1..Len(b) : b[i] \in Space
      BY <3>3, GapText DEF C
    <3>5. a \in Seq(C) /\ TextGrows(Worded(d), u, w)
      BY <3>1, <3>2, TextMore
    <3>6. Taken(a, d, "none", FALSE, h, LineSymbols)
      BY <3>1, WordsTake DEF WordsTaken
    <3>7. Flush(k).words = AllMeant(d, s)
      BY <3>1, <3>2, NextMeant
    <3>8. x # <<>> /\ Head(x) \notin Space /\ Last(x) \notin Space
      BY <3>1, <3>3 DEF WordReads
    <3>9. a # <<>> => Head(a) \notin Space
      <4>1. CASE u = <<>>
        <5>1. a = <<>>
          BY <4>1, FlattenEmpty DEF TextOf, Mapped
        <5>2. QED
          BY <5>1
      <4>2. CASE u # <<>>
        BY <3>1, <4>2, WordsHead
      <4>3. QED
        BY <4>1, <4>2
    <3> HIDE DEF u, w, a, x, b, h, k
    <3>10. Taken(c, d, "none", FALSE, k, LineSymbols)
      <4>1. WordTaken(a, d, w, h)
        BY <3>3, <3>6, WordsRead
      <4>2. QED
        BY <4>1 DEF WordTaken, x, k
    <3>11. c \in Seq(C) /\ c # <<>> /\ Head(c) \notin Space /\ Last(c) \notin Space
      <4>1. EndsOf(a, x) /\ c \in Seq(C)
        BY <3>3, <3>5, ConcatEnds, ConcatProperties
      <4>2. QED
        BY <3>8, <3>9, <4>1 DEF EndsOf
    <3>12. t = (p.lead \o c) \o b
      <4>1. r = a \o (x \o b)
        BY <3>1, <3>3, <3>5 DEF TextGrows, r, a, s
      <4>2. Associates(a, x, b)
        BY <3>3, <3>4, <3>5, AllAssociate
      <4>3. r = c \o b
        BY <4>1, <4>2 DEF Associates
      <4> HIDE DEF c
      <4>4. Associates(p.lead, c, b)
        BY <1>3, <3>4, <3>11, AllAssociate
      <4>5. QED
        BY <1>2, <4>3, <4>4 DEF Associates
    <3> HIDE DEF c
    <3>13. TrimSpace(t) = c
      BY <1>3, <3>4, <3>11, <3>12, TrimWithin
    <3>14. ShellFields(c, d) = Flush(k).words
      <4>1. Fielded(Marks(c, d), c) = k
        BY <3>10 DEF Taken
      <4>2. QED
        BY <4>1 DEF ShellFields, Fielded, NoFields
    <3>15. QED
      BY <1>2, <3>7, <3>13, <3>14
  <2>3. QED
    BY <2>1, <2>2
<1>7. QED
  BY <1>5, <1>6 DEF PartReads, t, s, C

----------------------------------------------------------------------------
(* The smallest of some indices.                                            *)
LEMMA SmallestOf ==
  ASSUME NEW n \in Nat, NEW x \in SUBSET (1..n), x # {}
  PROVE  \E m \in x : \A i \in x : m <= i
<1> DEFINE y == {(n + 1) - i : i \in x}
<1>1. y \in SUBSET (1..n) /\ y # {}
  <2>1. PICK i \in x : TRUE
    OBVIOUS
  <2>2. (n + 1) - i \in y
    BY <2>1
  <2>3. \A j \in x : (n + 1) - j \in 1..n
    OBVIOUS
  <2>4. QED
    BY <2>2, <2>3
<1> HIDE DEF y
<1>2. Max(y) \in y /\ \A j \in y : j <= Max(y)
  BY <1>1, MaxOf
<1>3. PICK m \in x : Max(y) = (n + 1) - m
  BY <1>2 DEF y
<1>4. \A i \in x : (n + 1) - i <= (n + 1) - m
  BY <1>2, <1>3 DEF y
<1>5. \A i \in x : m <= i
  BY <1>4
<1>6. QED
  BY <1>5

(* That is the smallest.                                                    *)
LEMMA MinOf ==
  ASSUME NEW n \in Nat, NEW x \in SUBSET (1..n), x # {}
  PROVE  Min(x) \in x
BY SmallestOf DEF Min

(* A text that is trimmed is made of the same characters.                   *)
LEMMA TrimSpaceText ==
  ASSUME NEW C, NEW s \in Seq(C)
  PROVE  TrimSpace(s) \in Seq(C)
<1> DEFINE ink == {i \in DOMAIN s : s[i] \notin Space}
<1>1. Len(s) \in Nat /\ ink \in SUBSET (1..Len(s))
  BY LenProperties
<1>2. TrimSpace(s) = IF ink = {} THEN <<>> ELSE SubSeq(s, Min(ink), Max(ink))
  BY DEF TrimSpace
<1> HIDE DEF ink
<1>3. CASE ink = {}
  BY <1>2, <1>3, EmptySeq
<1>4. CASE ink # {}
  <2>1. Min(ink) \in ink /\ Max(ink) \in ink
    BY <1>1, <1>4, MinOf, MaxOf
  <2>2. Min(ink) \in 1..Len(s) /\ Max(ink) \in 1..Len(s)
    BY <1>1, <2>1
  <2>3. SubSeq(s, Min(ink), Max(ink)) \in Seq(C)
    BY <1>1, <2>2, SubSeqProperties
  <2>4. QED
    BY <1>2, <1>4, <2>3
<1>5. QED
  BY <1>3, <1>4

(* How far the segments of a line are made.                                 *)
SegStates(C) == [segs : Seq(Seq(C)), start : Nat \ {0}, ended : BOOLEAN]

(* A separator is a symbol or two.                                          *)
LEMMA SeparatorLengths ==
  ASSUME NEW s, NEW d, NEW i
  PROVE  SeparatorLength(s, d, i) \in {0, 1, 2}
BY DEF SeparatorLength

(* Emit adds what is trimmed of a stretch of the line.                      *)
LEMMA Emits ==
  ASSUME NEW C, NEW s \in Seq(C), NEW acc \in SegStates(C), NEW i \in 1..(Len(s) + 1)
  PROVE  Emit(s, acc, i) = [segs |-> Append(acc.segs, TrimSpace(SubSeq(s, acc.start, i - 1))),
                            start |-> acc.start, ended |-> acc.ended]
         /\ Emit(s, acc, i) \in SegStates(C)
<1> DEFINE x == SubSeq(s, acc.start, i - 1)
           y == TrimSpace(x)
<1>1. /\ acc.segs \in Seq(Seq(C)) /\ acc.start \in Nat \ {0} /\ acc.ended \in BOOLEAN
      /\ acc = [segs |-> acc.segs, start |-> acc.start, ended |-> acc.ended]
  BY DEF SegStates
<1>2. x \in Seq(C)
  <2>1. Len(s) \in Nat /\ \A j \in 1..Len(s) : s[j] \in C
    BY LenProperties, ElementOfSeq
  <2>2. \A j \in acc.start..(i - 1) : j \in 1..Len(s)
    BY <1>1, <2>1
  <2>3. acc.start \in Int /\ i - 1 \in Int
    BY <1>1, <2>1
  <2>4. QED
    BY <2>1, <2>2, <2>3, SubSeqProperties
<1> HIDE DEF x
<1>3. y \in Seq(C)
  BY <1>2, TrimSpaceText
<1>4. Emit(s, acc, i) = [acc EXCEPT !.segs = Append(@, y)]
  BY DEF Emit, x
<1> HIDE DEF y
<1>5. Append(acc.segs, y) \in Seq(Seq(C))
  BY <1>1, <1>3, AppendProperties
<1>6. Emit(s, acc, i) = [segs |-> Append(acc.segs, y), start |-> acc.start, ended |-> acc.ended]
  BY <1>1, <1>4
<1>7. QED
  BY <1>1, <1>5, <1>6 DEF SegStates, x, y

(* Every symbol leaves such a state.                                        *)
LEMMA SegSteps ==
  ASSUME NEW C, NEW s \in Seq(C), NEW mark, NEW d, NEW acc \in SegStates(C), NEW i \in 1..Len(s)
  PROVE  SegmentStep(s, mark, d, acc, i) \in SegStates(C)
<1> DEFINE n == SeparatorLength(s, d, i)
           e == Emit(s, acc, i)
<1>1. Len(s) \in Nat /\ i \in 1..(Len(s) + 1)
  BY LenProperties
<1>2. n \in {0, 1, 2}
  BY SeparatorLengths
<1>3. e \in SegStates(C)
  BY <1>1, Emits
<1> HIDE DEF n, e
<1>4. [e EXCEPT !.ended = TRUE] \in SegStates(C)
  BY <1>3 DEF SegStates
<1>5. [e EXCEPT !.start = i + n] \in SegStates(C)
  <2>1. i + n \in Nat \ {0}
    BY <1>1, <1>2
  <2>2. QED
    BY <1>3, <2>1 DEF SegStates
<1>6. QED
  BY <1>4, <1>5 DEF SegmentStep, n, e

(* What the segments of a line are made through.                            *)
SegmentsAlong(g, mark, s, d, C) ==
  /\ g \in [0..Len(s) -> SegStates(C)] /\ g[0] = NoSegments /\ Segmented(s, mark, d) = g[Len(s)]
  /\ \A i \in 1..Len(s) : g[i] = SegmentStep(s, mark, d, g[i - 1], i)

(* The segments are made one symbol at a time.                              *)
LEMMA SegmentTrace ==
  ASSUME NEW mark, NEW d, NEW C, NEW s \in Seq(C)
  PROVE  \E g : SegmentsAlong(g, mark, s, d, C)
<1> DEFINE n == Len(s)
           q == [i \in DOMAIN s |-> i]
           A == SegStates(C)
           base == NoSegments
           step == [a \in A |-> [i \in 1..n |-> SegmentStep(s, mark, d, a, i)]]
           Eq(j) == j = [x \in SUBSET DOMAIN q |->
                           IF x = {} THEN base
                           ELSE SegmentStep(s, mark, d, j[x \ {Max(x)}], q[Max(x)])]
           ch == CHOOSE j : Eq(j)
<1>1. n \in Nat /\ DOMAIN s = 1..n
  BY LenProperties
<1>2. base \in A
  <2>1. <<>> \in Seq(Seq(C))
    BY EmptySeq
  <2>2. QED
    BY <2>1 DEF SegStates, NoSegments
<1>3. step \in [A -> [1..n -> A]]
  <2>1. \A a \in A, i \in 1..n : SegmentStep(s, mark, d, a, i) \in A
    BY SegSteps
  <2> HIDE DEF A, n
  <2>2. QED
    BY <2>1
<1>4. Segmented(s, mark, d) = ch[DOMAIN q]
  BY DEF Segmented, FoldLeftDomain, FoldLeft, MapThenFoldSet
<1>0. DOMAIN q = 1..n /\ \A i \in 1..n : q[i] = i
  BY <1>1
<1> HIDE DEF A, base, n, q
<1>5. ASSUME NEW a \in A, NEW i \in 1..n PROVE step[a][i] = SegmentStep(s, mark, d, a, i)
  BY <1>5
<1> HIDE DEF step
<1>6. PICK it \in [SUBSET (1..n) -> A] : FoldsTo(it, base, step, n)
  BY <1>1, <1>2, <1>3, LeftFold
<1>7. ASSUME NEW x \in SUBSET (1..n), x # {}
      PROVE  Max(x) \in 1..n /\ x \ {Max(x)} \in SUBSET (1..n) /\ q[Max(x)] = Max(x)
  BY <1>0, <1>1, <1>7, MaxOf
<1>8. Eq(it)
  <2>1. \A x \in SUBSET (1..n) : x # {} =>
          it[x] = SegmentStep(s, mark, d, it[x \ {Max(x)}], q[Max(x)])
    BY <1>5, <1>6, <1>7 DEF FoldsTo
  <2>2. it[{}] = base
    BY <1>6 DEF FoldsTo
  <2>3. QED
    BY <1>0, <1>6, <2>1, <2>2
<1>9. Eq(ch)
  BY <1>8
<1> HIDE DEF ch
<1>10. Follows(ch, A, base, step, n)
  <2>1. ch[{}] = base
    BY <1>9
  <2>2. \A x \in SUBSET (1..n) : x # {} =>
          ch[x] = SegmentStep(s, mark, d, ch[x \ {Max(x)}], q[Max(x)])
    BY <1>0, <1>9
  <2>3. ASSUME NEW x \in SUBSET (1..n), x # {}, ch[x \ {Max(x)}] \in A
        PROVE  ch[x] = step[ch[x \ {Max(x)}]][Max(x)]
    <3>1. Max(x) \in 1..n /\ q[Max(x)] = Max(x)
      BY <1>7, <2>3
    <3>2. step[ch[x \ {Max(x)}]][Max(x)] = SegmentStep(s, mark, d, ch[x \ {Max(x)}], Max(x))
      BY <1>5, <2>3, <3>1, Zenon
    <3>3. ch[x] = SegmentStep(s, mark, d, ch[x \ {Max(x)}], q[Max(x)])
      BY <2>2, <2>3, Zenon
    <3>4. QED
      BY <3>1, <3>2, <3>3
  <2>4. QED
    BY <2>1, <2>3 DEF Follows
<1>11. Yields(A, base, step, n, ch[1..n])
  BY <1>1, <1>2, <1>3, <1>10, ChosenFold
<1>12. PICK g : GoesThrough(g, A, base, step, n) /\ g[n] = ch[1..n]
  BY <1>11 DEF Yields
<1>13. \A i \in 1..n : g[i - 1] \in A /\ g[i] = step[g[i - 1]][i]
  BY <1>1, <1>12 DEF GoesThrough
<1>14. \A i \in 1..n : g[i] = SegmentStep(s, mark, d, g[i - 1], i)
  BY <1>5, <1>13
<1>15. QED
  BY <1>0, <1>1, <1>4, <1>12, <1>14 DEF GoesThrough, SegmentsAlong, n, A, base

(* A stretch of p is where p goes on, too.                                  *)
LEMMA SameStretch ==
  ASSUME NEW C, NEW p \in Seq(C), NEW q \in Seq(C), NEW m \in Nat \ {0}, NEW n \in Nat, n <= Len(p)
  PROVE  SubSeq(p \o q, m, n) = SubSeq(p, m, n)
<1>1. CASE n < m
  BY <1>1, SubSeqEmpty
<1>2. CASE m <= n
  <2>1. m \in 1..Len(p) /\ n \in 1..Len(p)
    BY <1>2, LenProperties
  <2>2. QED
    BY <2>1, SubSeqOfConcat1
<1>3. QED
  BY <1>1, <1>2

(* A symbol of p does to the segments what it does where p goes on.         *)
LEMMA SegStepsAlike ==
  ASSUME NEW C, NEW d, NEW p, Closed(p, d, C), NEW q \in Seq(C), Apart(p, q),
         NEW acc \in SegStates(C), NEW i \in 1..Len(p)
  PROVE  SegmentStep(p \o q, Marks(p \o q, d), d, acc, i) = SegmentStep(p, Marks(p, d), d, acc, i)
<1> DEFINE s == p \o q
           mark == Marks(s, d)
           k == Marks(p, d)
<1>1. p \in Seq(C) /\ Len(p) \in Nat /\ Len(q) \in Nat
  BY LenProperties DEF Closed
<1>2. Beside(p, q, d) /\ AtEither(p, q) /\ (At(p, Len(p)) \in Operators => At(q, 1) \notin Operators)
  BY <1>1, AreBeside, AtsOf, ApartEnds
<1>3. s[i] = p[i] /\ mark[i] = k[i] /\ (i > 1 => s[i - 1] = p[i - 1])
  <2>1. i \in 1..(Len(p) + Len(q)) /\ i <= Len(p) /\ (i > 1 => i - 1 \in 1..(Len(p) + Len(q)) /\ i - 1 <= Len(p))
    BY <1>1
  <2>2. QED
    BY <1>2, <2>1 DEF Beside
<1>4. /\ i < Len(p) => At(s, i + 1) = At(p, i + 1)
      /\ i = Len(p) => At(p, i + 1) = "end" /\ At(s, i + 1) = At(q, 1) /\ At(p, i) = p[i]
  <2>1. i \in Int /\ i + 1 \in Int /\ (i < Len(p) => i + 1 <= Len(p))
        /\ (i = Len(p) => ~(i + 1 <= Len(p)) /\ (i + 1) - Len(p) = 1)
    BY <1>1
  <2>2. QED
    BY <1>2, <2>1 DEF AtEither
<1>5. SubSeq(s, acc.start, i - 1) = SubSeq(p, acc.start, i - 1)
  <2>1. acc.start \in Nat \ {0} /\ i - 1 \in Nat /\ i - 1 <= Len(p)
    BY <1>1 DEF SegStates
  <2>2. QED
    BY <1>1, <2>1, SameStretch
<1> HIDE DEF s, mark, k
<1>6. SeparatorLength(s, d, i) = SeparatorLength(p, d, i)
  <2>1. CASE i < Len(p)
    BY <1>3, <1>4, <2>1 DEF SeparatorLength
  <2>2. CASE i = Len(p)
    BY <1>2, <1>3, <1>4, <2>2 DEF SeparatorLength, Operators
  <2>3. QED
    BY <1>1, <2>1, <2>2
<1>7. StartsComment(s, d, i) = StartsComment(p, d, i)
  BY <1>3 DEF StartsComment
<1>8. Emit(s, acc, i) = Emit(p, acc, i)
  BY <1>5 DEF Emit
<1>9. SegmentStep(s, mark, d, acc, i) = SegmentStep(p, k, d, acc, i)
  BY <1>3, <1>6, <1>7, <1>8, Zenon DEF SegmentStep
<1>10. QED
  BY <1>9 DEF s, mark, k

(* Where p goes on with q, h takes the segments through q.                  *)
GoesOn(h, p, q, d, C) ==
  LET s == p \o q
  IN /\ h \in [0..Len(q) -> SegStates(C)]
     /\ h[0] = Segmented(p, Marks(p, d), d) /\ h[Len(q)] = Segmented(s, Marks(s, d), d)
     /\ \A j \in 1..Len(q) : h[j] = SegmentStep(s, Marks(s, d), d, h[j - 1], Len(p) + j)

(* The segments behind p go on from those of p.                             *)
LEMMA SegmentsGoOn ==
  ASSUME NEW C, NEW d, NEW p, Closed(p, d, C), NEW q \in Seq(C), Apart(p, q)
  PROVE  \E h : GoesOn(h, p, q, d, C)
<1> DEFINE s == p \o q
           mark == Marks(s, d)
           k == Marks(p, d)
           n == Len(p)
<1>1. p \in Seq(C) /\ n \in Nat /\ Len(q) \in Nat /\ s \in Seq(C) /\ Len(s) = n + Len(q)
  BY LenProperties, ConcatProperties DEF Closed
<1>2. PICK f : SegmentsAlong(f, k, p, d, C)
  BY <1>1, SegmentTrace
<1>3. PICK g : SegmentsAlong(g, mark, s, d, C)
  <2> HIDE DEF s, mark
  <2>1. QED
    BY <1>1, SegmentTrace
<1>4. \A acc \in SegStates(C), i \in 1..n :
        SegmentStep(s, mark, d, acc, i) = SegmentStep(p, k, d, acc, i)
  BY SegStepsAlike
<1> HIDE DEF s, mark, k
<1>5. /\ g \in [0..(n + Len(q)) -> SegStates(C)] /\ g[0] = NoSegments
      /\ Segmented(s, mark, d) = g[n + Len(q)]
      /\ \A i \in 1..(n + Len(q)) : g[i] = SegmentStep(s, mark, d, g[i - 1], i)
  BY <1>1, <1>3 DEF SegmentsAlong
<1>6. /\ f[0] = NoSegments /\ Segmented(p, k, d) = f[n]
      /\ \A i \in 1..n : f[i] = SegmentStep(p, k, d, f[i - 1], i)
  BY <1>2 DEF SegmentsAlong
<1>7. g[n] = f[n]
  <2>1. ASSUME NEW i \in 1..n, g[i - 1] = f[i - 1] PROVE g[i] = f[i]
    <3>1. i \in 1..(n + Len(q)) /\ i - 1 \in 0..(n + Len(q))
      BY <1>1
    <3>2. g[i - 1] \in SegStates(C) /\ g[i] = SegmentStep(s, mark, d, g[i - 1], i)
      BY <1>5, <3>1
    <3>3. QED
      BY <1>4, <1>6, <2>1, <3>2
  <2>2. Alike(g, f, n)
    BY <1>5, <1>6, <2>1 DEF Alike
  <2>3. QED
    BY <1>1, <2>2, SameTrace
<1> DEFINE h == [j \in 0..Len(q) |-> g[n + j]]
<1>8. h \in [0..Len(q) -> SegStates(C)] /\ h[0] = Segmented(p, k, d) /\ h[Len(q)] = Segmented(s, mark, d)
  <2>1. \A j \in 0..Len(q) : n + j \in 0..(n + Len(q))
    BY <1>1
  <2>2. 0 \in 0..Len(q) /\ Len(q) \in 0..Len(q) /\ n + 0 = n
    BY <1>1
  <2>3. QED
    BY <1>5, <1>6, <1>7, <2>1, <2>2
<1>9. ASSUME NEW j \in 1..Len(q) PROVE h[j] = SegmentStep(s, mark, d, h[j - 1], n + j)
  <2>1. n + j \in 1..(n + Len(q)) /\ j \in 0..Len(q) /\ j - 1 \in 0..Len(q) /\ n + (j - 1) = (n + j) - 1
    BY <1>1
  <2>2. QED
    BY <1>5, <2>1
<1> HIDE DEF h
<1>10. GoesOn(h, p, q, d, C)
  BY <1>8, <1>9 DEF GoesOn, s, mark, k
<1>11. QED
  BY <1>10

(* A symbol that neither quotes nor escapes is plain where a line begins.   *)
LEMMA PlainOne ==
  ASSUME NEW d \in Dialects, NEW c \in LineSymbols, c \notin {Escape(d), "DQ", "'"}
  PROVE  Closed(<<c>>, d, LineSymbols) /\ Marks(<<c>>, d)[1] = "plain"
<1> DEFINE t == <<c>>
           none == << >>
<1>1. "plain" \in MarkNames
  BY DEF MarkNames
<1>2. Taken(none, d, "none", FALSE, NoFields, LineSymbols)
  BY TakenNothing
<1>3. TurnsTo(d, "none", FALSE, c, "plain", "none", FALSE)
  BY SymbolMarks
<1>4. Append(none, c) = t
  BY Single
<1> HIDE DEF none
<1>5. TakesMore(none, d, "none", FALSE, NoFields, "plain", c, LineSymbols)
  BY <1>1, <1>2, <1>3, TakeMore
<1>6. Marks(t, d) = Append(Marks(none, d), "plain") /\ Closed(t, d, LineSymbols)
  BY <1>4, <1>5 DEF TakesMore, Taken, Closed
<1>7. Marks(none, d) = << >>
  <2>1. Marks(none, d) \in Seq(MarkNames) /\ Len(Marks(none, d)) = 0
    BY <1>2 DEF Taken, none
  <2>2. QED
    BY <2>1, EmptySeq
<1>8. Marks(t, d)[1] = "plain"
  BY <1>1, <1>6, <1>7, Single
<1>9. QED
  BY <1>6, <1>8

(* So it is before whatever comes behind it.                                *)
LEMMA PlainFirst ==
  ASSUME NEW d \in Dialects, NEW e \in Seq(LineSymbols), e # <<>>,
         e[1] \notin {Escape(d), "DQ", "'"}
  PROVE  Marks(e, d)[1] = "plain"
<1> DEFINE t == <<e[1]>>
           q == Tail(e)
<1>1. q \in Seq(LineSymbols) /\ Len(q) = Len(e) - 1 /\ \A i \in 1..Len(q) : q[i] = e[i + 1]
  BY HeadTailProperties
<1>2. Len(e) \in Nat \ {0} /\ e[1] \in LineSymbols
  <2>1. Len(e) \in Nat \ {0}
    BY EmptySeq, LenProperties
  <2>2. QED
    BY <2>1, ElementOfSeq
<1>3. Closed(t, d, LineSymbols) /\ Marks(t, d)[1] = "plain"
  BY <1>2, PlainOne
<1>4. t \in Seq(LineSymbols) /\ Len(t) = 1 /\ t[1] = e[1]
  BY <1>2, Single
<1> HIDE DEF t, q
<1>5. t \o q = e
  <2> DEFINE s == t \o q
  <2>0. t \in Seq(LineSymbols) /\ q \in Seq(LineSymbols)
    BY <1>1, <1>4
  <2>1. /\ s \in Seq(LineSymbols) /\ Len(s) = Len(t) + Len(q)
        /\ \A i \in 1..(Len(t) + Len(q)) : s[i] = IF i <= Len(t) THEN t[i] ELSE q[i - Len(t)]
    BY <2>0, ConcatProperties
  <2> HIDE DEF s
  <2>2. Len(s) = Len(e)
    BY <1>1, <1>2, <1>4, <2>1
  <2>3. ASSUME NEW i \in 1..Len(e) PROVE s[i] = e[i]
    <3>1. CASE i = 1
      BY <1>1, <1>2, <1>4, <2>1, <3>1
    <3>2. CASE i > 1
      <4>1. i - 1 \in 1..Len(q) /\ (i - 1) + 1 = i /\ ~(i <= Len(t)) /\ i \in 1..(Len(t) + Len(q))
        BY <1>1, <1>2, <1>4, <3>2
      <4>2. s[i] = q[i - 1]
        BY <1>4, <2>1, <4>1
      <4>3. QED
        BY <1>1, <4>1, <4>2
    <3>3. QED
      BY <3>1, <3>2
  <2>4. s = e
    BY <2>1, <2>2, <2>3, SeqEqual
  <2>5. QED
    BY <2>4 DEF s
<1>6. Beside(t, q, d)
  BY <1>1, <1>3, AreBeside
<1>7. 1 \in 1..(Len(t) + Len(q)) /\ 1 <= Len(t)
  BY <1>1, <1>2, <1>4
<1>8. Marks(t \o q, d)[1] = Marks(t, d)[1]
  BY <1>6, <1>7 DEF Beside
<1>9. QED
  BY <1>3, <1>5, <1>8

(* A symbol and a symbol.                                                   *)
LEMMA OneAndOne ==
  ASSUME NEW a, NEW b
  PROVE  <<a, b>> = <<a>> \o <<b>>
<1> DEFINE C == {a, b}
           p == <<a>>
           u == Append(p, b)
           v == <<a, b>>
<1>1. p \in Seq(C) /\ b \in C /\ Len(p) = 1 /\ p[1] = a
  BY Single
<1>2. v \in Seq(C) /\ Len(v) = 2 /\ v[1] = a /\ v[2] = b
  <2>1. Len(v) = 2 /\ v[1] = a /\ v[2] = b
    OBVIOUS
  <2>2. a \in C /\ b \in C
    OBVIOUS
  <2> HIDE DEF C
  <2>3. v \in Seq(C)
    BY <2>2
  <2>4. QED
    BY <2>1, <2>3
<1> HIDE DEF p, v, C
<1>3. u \in Seq(C) /\ Len(u) = Len(p) + 1 /\ u[Len(p) + 1] = b /\ \A i \in 1..Len(p) : u[i] = p[i]
  <2>1. p \in Seq(C) /\ b \in C
    BY <1>1
  <2>2. QED
    BY <2>1, AppendProperties
<1>4. u = p \o <<b>>
  BY <1>1, AppendIsConcat
<1> HIDE DEF u
<1>5. Len(u) = 2 /\ u[1] = a /\ u[2] = b
  BY <1>1, <1>3
<1>6. \A i \in 1..2 : u[i] = v[i]
  BY <1>2, <1>5
<1>7. u = v
  BY <1>2, <1>3, <1>5, <1>6, SeqEqual
<1>8. QED
  BY <1>4, <1>7 DEF p, v

(* What separates commands, at place i of a line that may end behind it.    *)
Separates(d, e, s, i) ==
  s[i] = e[1] /\ At(s, i + 1) = At(e, 2) =>
    SeparatorLength(s, d, i) = Len(e) /\ ~StartsComment(s, d, i)

(* A separator is of one plain symbol or two; one of sh is a lone &.        *)
IsLone(d, e) == d = "sh" /\ e = <<"&">>
SeparatorReads(d, e) ==
  /\ Closed(e, d, LineSymbols) /\ Len(e) \in {1, 2} /\ Marks(e, d)[1] = "plain"
  /\ ~IsLone(d, e) => \A s, i : Separates(d, e, s, i)
  /\ d = "sh" => (HasBackgroundAmpersand(e) <=> e = <<"&">>)
(* Every separator is read so (forEachSegment).                            *)
LEMMA SeparatorsRead ==
  ASSUME NEW d \in Dialects, NEW e \in Separators(d)
  PROVE  SeparatorReads(d, e)
<1> DEFINE C == LineSymbols
           Ones == {"LF", "(", ")", "|"} \cup {IF d = "cmd" THEN "&" ELSE ";"}
<1>1. ASSUME NEW c \in {"LF", "(", ")", "|", "&", ";"}
      PROVE  Closed(<<c>>, d, C) /\ Marks(<<c>>, d)[1] = "plain"
  <2>1. c \in C /\ c \notin {Escape(d), "DQ", "'"}
    BY DEF LineSymbols, Escape
  <2>2. QED
    BY <2>1, PlainOne
<1> HIDE DEF C, Ones
<1>2. ASSUME NEW c \in Ones, e = <<c>> PROVE SeparatorReads(d, e)
  <2>0. c \in {"LF", "(", ")", "|", "&", ";"}
    BY Zenon DEF Ones
  <2>1. Len(e) = 1 /\ e[1] = c /\ DOMAIN e = {1}
    BY <1>2
  <2>2. Closed(e, d, C) /\ Marks(e, d)[1] = "plain"
    BY <1>1, <1>2, <2>0, Zenon
  <2>3. At(e, 2) = "end"
    BY <2>1 DEF At
  <2>4. ASSUME NEW s, NEW i PROVE Separates(d, e, s, i)
    <3>1. SUFFICES ASSUME s[i] = c, At(s, i + 1) = "end"
                   PROVE  SeparatorLength(s, d, i) = 1 /\ ~StartsComment(s, d, i)
      BY <2>1, <2>3 DEF Separates
    <3>2. SeparatorLength(s, d, i) = 1
      BY <3>1, Zenon DEF SeparatorLength, Ones
    <3>3. QED
      BY <2>0, <3>1, <3>2, Zenon DEF StartsComment
  <2>5. ASSUME d = "sh" PROVE ~HasBackgroundAmpersand(e) /\ e # <<"&">>
    <3>1. c # "&"
      BY <2>5, Zenon DEF Ones
    <3>2. \A i \in DOMAIN e : ~BackAt(e, i)
      BY <2>1, <3>1 DEF BackAt, AmpAt
    <3>3. e # <<"&">>
      BY <2>1, <3>1
    <3>4. QED
      BY <3>2, <3>3, BackIs
  <2>6. QED
    BY <2>1, <2>2, <2>4, <2>5 DEF SeparatorReads, C
<1>3. ASSUME NEW a \in {"|", "&"}, NEW b \in {"|", "&"}, e = <<a, b>>, a = "&" => b = "&"
      PROVE  SeparatorReads(d, e)
  <2> DEFINE p == <<a>>
             q == <<b>>
  <2>1. Len(e) = 2 /\ e[1] = a /\ e[2] = b /\ DOMAIN e = {1, 2}
    BY <1>3
  <2>2. Closed(p, d, C) /\ Closed(q, d, C) /\ Marks(p, d)[1] = "plain" /\ Len(p) = 1
    BY <1>1
  <2>3. e = p \o q
    BY <1>3, OneAndOne
  <2> HIDE DEF p, q
  <2>4. Closed(e, d, C)
    BY <2>2, <2>3, ClosedConcat
  <2>5. Beside(p, q, d)
    BY <2>2, AreBeside DEF Closed
  <2>6. Marks(e, d)[1] = "plain"
    <3>1. 1 \in 1..(Len(p) + Len(q)) /\ 1 <= Len(p)
      BY <2>1, <2>2, <2>3, <2>5 DEF Beside
    <3>2. QED
      BY <2>2, <2>3, <2>5, <3>1 DEF Beside
  <2>7. At(e, 2) = b /\ At(e, 1) = a
    BY <2>1 DEF At
  <2>8. ASSUME NEW s, NEW i PROVE Separates(d, e, s, i)
    <3>1. SUFFICES ASSUME s[i] = a, At(s, i + 1) = b
                   PROVE  SeparatorLength(s, d, i) = 2 /\ ~StartsComment(s, d, i)
      BY <2>1, <2>7 DEF Separates
    <3>2. SeparatorLength(s, d, i) = 2
      BY <1>3, <3>1 DEF SeparatorLength
    <3>3. QED
      BY <3>1, <3>2 DEF StartsComment
  <2>9. ASSUME d = "sh" PROVE ~HasBackgroundAmpersand(e)
    <3>1. ~BackAt(e, 1)
      <4>1. CASE a = "|"
        BY <2>1, <4>1 DEF BackAt, AmpAt
      <4>2. CASE a = "&"
        <5>1. At(e, 1 + 1) = "&"
          BY <1>3, <2>7, <4>2
        <5>2. QED
          BY <5>1 DEF BackAt
      <4>3. QED
        BY <4>1, <4>2
    <3>2. ~BackAt(e, 2)
      <4>1. CASE a = "|"
        <5>1. At(e, 2 - 1) = "|"
          BY <2>7, <4>1
        <5>2. QED
          BY <5>1 DEF BackAt
      <4>2. CASE a = "&"
        <5>1. \A j \in 1..(2 - 1) : AmpAt(e, j)
          BY <2>1, <2>6, <2>9, <4>2 DEF AmpAt
        <5>2. RunBegins(e, 2, 1)
          BY <5>1 DEF RunBegins
        <5>3. RunFrom(e, 2) = 1
          BY <5>2, RunsFrom
        <5>4. QED
          BY <5>3 DEF BackAt
      <4>3. QED
        BY <4>1, <4>2
    <3>3. \A i \in DOMAIN e : ~BackAt(e, i)
      BY <2>1, <3>1, <3>2
    <3>4. QED
      BY <3>3, BackIs
  <2>10. e # <<"&">>
    <3>1. Len(<<"&">>) = 1
      OBVIOUS
    <3>2. QED
      BY <2>1, <3>1
  <2>11. QED
    BY <2>1, <2>4, <2>6, <2>8, <2>9, <2>10 DEF SeparatorReads, C
<1>4. ASSUME d = "sh", e = <<"&">> PROVE SeparatorReads(d, e)
  <2>1. Len(e) = 1
    BY <1>4
  <2>2. Closed(e, d, C) /\ Marks(e, d)[1] = "plain"
    BY <1>1, <1>4, Zenon
  <2>3. HasBackgroundAmpersand(e)
    BY <1>4, LoneAmpersand
  <2>4. QED
    BY <1>4, <2>1, <2>2, <2>3 DEF SeparatorReads, IsLone, C
<1>5. \/ \E c \in Ones : e = <<c>>
      \/ \E a, b \in {"|", "&"} : e = <<a, b>> /\ (a = "&" => b = "&")
      \/ d = "sh" /\ e = <<"&">>
  BY Zenon DEF Separators, Splits, Ones
<1>6. QED
  BY <1>2, <1>3, <1>4, <1>5

----------------------------------------------------------------------------
(* What is between two texts.                                               *)
LEMMA MiddleOf ==
  ASSUME NEW C, NEW a \in Seq(C), NEW c \in Seq(C), NEW b \in Seq(C)
  PROVE  SubSeq(a \o (c \o b), Len(a) + 1, Len(a) + Len(c)) = c
<1> DEFINE u == c \o b
           s == a \o u
           lo == Len(a) + 1
           hi == Len(a) + Len(c)
           z == SubSeq(s, lo, hi)
<1>1. Len(a) \in Nat /\ Len(b) \in Nat /\ Len(c) \in Nat
  BY LenProperties
<1>2. /\ u \in Seq(C) /\ Len(u) = Len(c) + Len(b)
      /\ \A i \in 1..(Len(c) + Len(b)) : u[i] = IF i <= Len(c) THEN c[i] ELSE b[i - Len(c)]
  BY ConcatProperties
<1> HIDE DEF u
<1>3. u \in Seq(C)
  BY <1>2
<1>4. /\ s \in Seq(C) /\ Len(s) = Len(a) + Len(u)
      /\ \A i \in 1..(Len(a) + Len(u)) : s[i] = IF i <= Len(a) THEN a[i] ELSE u[i - Len(a)]
  BY <1>3, ConcatProperties
<1> HIDE DEF s
<1>5. \A i \in lo..hi : i \in 1..Len(s) /\ s[i] = c[i - Len(a)]
  <2>1. ASSUME NEW i \in lo..hi PROVE i \in 1..Len(s) /\ s[i] = c[i - Len(a)]
    <3>1. i \in 1..(Len(a) + Len(u)) /\ ~(i <= Len(a)) /\ i - Len(a) \in 1..(Len(c) + Len(b)) /\ i - Len(a) <= Len(c)
      BY <1>1, <1>2
    <3>2. QED
      BY <1>2, <1>4, <3>1
  <2>2. QED
    BY <2>1
<1>6. lo \in Int /\ hi \in Int /\ \A i \in lo..hi : s[i] \in C
  BY <1>1, <1>4, <1>5, ElementOfSeq
<1>7. /\ z \in Seq(C) /\ Len(z) = IF lo <= hi THEN (hi - lo) + 1 ELSE 0
      /\ \A i \in 1..((hi - lo) + 1) : z[i] = s[(lo + i) - 1]
  <2> HIDE DEF lo, hi
  <2>1. QED
    BY <1>6, SubSeqProperties
<1> HIDE DEF z
<1>8. Len(z) = Len(c) /\ (hi - lo) + 1 = Len(c)
  BY <1>1, <1>7
<1>9. ASSUME NEW i \in 1..Len(c) PROVE z[i] = c[i]
  <2>1. (lo + i) - 1 \in lo..hi /\ ((lo + i) - 1) - Len(a) = i
    BY <1>1
  <2>2. QED
    BY <1>5, <1>7, <1>8, <2>1
<1>10. z = c
  BY <1>7, <1>8, <1>9, SeqEqual
<1>11. QED
  BY <1>10 DEF z, s, u

(* What a line has behind p: t, then e.                                     *)
HasBehind(p, t, e, d) ==
  LET s == p \o (t \o e)
      m == Marks(s, d)
      i == Len(p) + Len(t) + 1
  IN /\ \A j \in 1..Len(t) : /\ s[Len(p) + j] = t[j] /\ m[Len(p) + j] = Marks(t, d)[j]
                             /\ At(s, (Len(p) + j) + 1) = IF j < Len(t) THEN At(t, j + 1) ELSE At(e, 1)
     /\ \A j \in 1..Len(e) : s[(i + j) - 1] = e[j] /\ m[(i + j) - 1] = Marks(e, d)[j]
     /\ e # <<>> => At(s, i + 1) = At(e, 2)
     /\ t # <<>> => s[i - 1] = Last(t)
     /\ SubSeq(s, Len(p) + 1, i - 1) = t
     /\ Len(s) = Len(p) + Len(t) + Len(e)
(* A line of three texts has them so.                                      *)
LEMMA AreBehind ==
  ASSUME NEW C, NEW d, NEW p, Closed(p, d, C), NEW t, Closed(t, d, C), NEW e \in Seq(C)
  PROVE  HasBehind(p, t, e, d)
<1> DEFINE q == t \o e
           s == p \o q
           m == Marks(s, d)
           n == Len(p)
           l == Len(t)
           k == Marks(q, d)
<1>1. /\ p \in Seq(C) /\ t \in Seq(C) /\ n \in Nat /\ l \in Nat /\ Len(e) \in Nat
      /\ (t # <<>> => l # 0) /\ (e # <<>> => Len(e) # 0)
  BY LenProperties, EmptySeq DEF Closed
<1>2. q \in Seq(C) /\ Beside(t, e, d) /\ AtEither(t, e)
  BY <1>1, ConcatProperties, AreBeside, AtsOf
<1>3. Beside(p, q, d) /\ AtEither(p, q)
  <2> HIDE DEF q
  <2>1. QED
    BY <1>1, <1>2, AreBeside, AtsOf
<1>4. /\ Len(q) = l + Len(e)
      /\ \A j \in 1..(l + Len(e)) : /\ j <= l => q[j] = t[j] /\ k[j] = Marks(t, d)[j]
                                    /\ j > l => q[j] = e[j - l] /\ k[j] = Marks(e, d)[j - l]
  BY <1>2 DEF Beside
<1>5. \A j \in Int : At(q, j) = IF j <= l THEN At(t, j) ELSE At(e, j - l)
  BY <1>2 DEF AtEither
<1> HIDE DEF q
<1>6. /\ Len(s) = n + Len(q)
      /\ \A i \in 1..(n + Len(q)) : i > n => s[i] = q[i - n] /\ m[i] = k[i - n]
  BY <1>3 DEF Beside
<1>7. \A i \in Int : i > n => At(s, i) = At(q, i - n)
  <2>1. \A i \in Int : At(s, i) = IF i <= n THEN At(p, i) ELSE At(q, i - n)
    BY <1>3 DEF AtEither
  <2> HIDE DEF s
  <2>2. QED
    BY <1>1, <2>1
<1> HIDE DEF s, m, n, l, k
<1>8. ASSUME NEW j \in 1..(l + Len(e)) PROVE s[n + j] = q[j] /\ m[n + j] = k[j] /\ At(s, (n + j) + 1) = At(q, j + 1)
  <2>1. n + j \in 1..(n + Len(q)) /\ n + j > n /\ (n + j) - n = j
        /\ (n + j) + 1 \in Int /\ (n + j) + 1 > n /\ ((n + j) + 1) - n = j + 1
    BY <1>1, <1>4
  <2>2. QED
    BY <1>6, <1>7, <2>1
<1>9. ASSUME NEW j \in 1..l
      PROVE  s[n + j] = t[j] /\ m[n + j] = Marks(t, d)[j]
             /\ At(s, (n + j) + 1) = IF j < l THEN At(t, j + 1) ELSE At(e, 1)
  <2>1. j \in 1..(l + Len(e)) /\ j <= l /\ j + 1 \in Int /\ (j < l <=> j + 1 <= l) /\ (~(j < l) => (j + 1) - l = 1)
    BY <1>1
  <2>2. QED
    BY <1>4, <1>5, <1>8, <2>1
<1>10. ASSUME NEW j \in 1..Len(e) PROVE s[((n + l + 1) + j) - 1] = e[j] /\ m[((n + l + 1) + j) - 1] = Marks(e, d)[j]
  <2>1. l + j \in 1..(l + Len(e)) /\ l + j > l /\ (l + j) - l = j /\ ((n + l + 1) + j) - 1 = n + (l + j)
    BY <1>1
  <2>2. QED
    BY <1>4, <1>8, <2>1
<1>11. ASSUME e # <<>> PROVE At(s, (n + l + 1) + 1) = At(e, 2)
  <2>1. /\ l + 1 \in 1..(l + Len(e)) /\ (n + l + 1) + 1 = (n + (l + 1)) + 1 /\ (l + 1) + 1 \in Int
        /\ ~((l + 1) + 1 <= l) /\ ((l + 1) + 1) - l = 2
    BY <1>1, <1>11
  <2>2. QED
    BY <1>5, <1>8, <2>1
<1>12. ASSUME t # <<>> PROVE s[(n + l + 1) - 1] = Last(t)
  <2>1. l \in 1..l /\ (n + l + 1) - 1 = n + l
    BY <1>1, <1>12
  <2>2. QED
    BY <1>9, <2>1 DEF Last, l
<1>13. SubSeq(s, n + 1, (n + l + 1) - 1) = t
  <2>1. SubSeq(s, n + 1, n + l) = t
    BY <1>1, MiddleOf DEF s, q, n, l
  <2>2. (n + l + 1) - 1 = n + l
    BY <1>1
  <2>3. QED
    BY <2>1, <2>2
<1>14. Len(s) = n + l + Len(e)
  BY <1>1, <1>4, <1>6
<1>15. QED
  BY <1>9, <1>10, <1>11, <1>12, <1>13, <1>14 DEF HasBehind, s, q, m, n, l

(* Nothing has been read of the segment that begins behind p.               *)
Opened(p, segs) == [segs |-> segs, start |-> Len(p) + 1, ended |-> FALSE]

(* A calm text behind p is all in one segment.                              *)
LEMMA CalmRun ==
  ASSUME NEW C, NEW d, NEW p, Closed(p, d, C), NEW t, Calm(t, d, C), NEW e \in Seq(C), Apart(t, e),
         NEW segs, Segmented(p, Marks(p, d), d) = Opened(p, segs), NEW h, GoesOn(h, p, t \o e, d, C)
  PROVE  h[Len(t)] = Opened(p, segs)
<1> DEFINE s == p \o (t \o e)
           m == Marks(s, d)
           n == Len(p)
           l == Len(t)
           st == Opened(p, segs)
           same == [j \in 0..l |-> st]
<1>1. /\ p \in Seq(C) /\ t \in Seq(C) /\ n \in Nat /\ l \in Nat /\ Len(e) \in Nat /\ Closed(t, d, C)
      /\ Len(t \o e) = l + Len(e)
  BY LenProperties, ConcatProperties DEF Closed, Calm
<1>2. HasBehind(p, t, e, d)
  BY <1>1, AreBehind
<1>3. /\ h[0] = st
      /\ \A j \in 1..(l + Len(e)) : h[j] = SegmentStep(s, m, d, h[j - 1], n + j)
  BY <1>1 DEF GoesOn
<1>4. ASSUME NEW j \in 1..l PROVE SegmentStep(s, m, d, st, n + j) = st
  <2> DEFINE i == n + j
  <2>1. /\ s[i] = t[j] /\ m[i] = Marks(t, d)[j]
        /\ At(s, i + 1) = IF j < l THEN At(t, j + 1) ELSE At(e, 1)
    BY <1>2 DEF HasBehind
  <2>2. CalmAt(t, d, j)
    BY DEF Calm
  <2>3. j = l => At(t, l) = t[j] /\ (t[j] \in Operators => At(e, 1) \notin Operators)
    <3>1. ASSUME j = l PROVE At(t, l) = t[j]
      BY <1>1, <3>1 DEF At
    <3>2. At(t, l) \in Operators => At(e, 1) \notin Operators
      BY <1>1, ApartEnds
    <3>3. QED
      BY <3>1, <3>2
  <2> HIDE DEF s, m, i
  <2> HIDE DEF st
  <2>4. m[i] # "plain" => SegmentStep(s, m, d, st, i) = st
    BY Zenon DEF SegmentStep
  <2>5. ASSUME m[i] = "plain" PROVE SegmentStep(s, m, d, st, i) = st
    <3>1. /\ s[i] \notin {"|", "LF", "(", ")"} /\ (d # "cmd" => s[i] \notin {";", "#"})
          /\ s[i] = "&" => d # "cmd" /\ At(t, j + 1) # "&"
      BY <2>1, <2>2, <2>5, Zenon DEF CalmAt
    <3>2. s[i] = "&" => At(s, i + 1) # "&"
      <4>1. CASE j < l
        BY <2>1, <3>1, <4>1
      <4>2. CASE ~(j < l)
        <5>1. j = l
          BY <1>1, <4>2
        <5>2. QED
          BY <2>1, <2>3, <4>2, <5>1 DEF Operators
      <4>3. QED
        BY <4>1, <4>2
    <3>3. ~StartsComment(s, d, i)
      BY <3>1, Zenon DEF StartsComment
    <3>4. SeparatorLength(s, d, i) = 0
      BY <3>1, <3>2, Zenon DEF SeparatorLength
    <3>5. ~(SeparatorLength(s, d, i) > 0)
      BY <3>4
    <3>6. QED
      BY <3>3, <3>5, Zenon DEF SegmentStep
  <2>6. QED
    BY <2>4, <2>5 DEF i
<1> HIDE DEF s, m, st
<1>5. Alike(h, same, l)
  <2>1. same[0] = st /\ \A j \in 1..l : same[j] = st /\ same[j - 1] = st
    BY <1>1
  <2>2. \A j \in 1..l : h[j] = SegmentStep(s, m, d, h[j - 1], n + j)
    BY <1>1, <1>3
  <2> HIDE DEF same
  <2>3. \A j \in 1..l : h[j - 1] = same[j - 1] => h[j] = same[j]
    BY <1>4, <2>1, <2>2
  <2>4. QED
    BY <1>3, <2>1, <2>3 DEF Alike
<1>6. h[l] = same[l]
  BY <1>1, <1>5, SameTrace
<1>7. QED
  BY <1>1, <1>6 DEF st

(* Where e separates, t is the next segment.                                *)
LEMMA NextSegment ==
  ASSUME NEW C, NEW d, NEW p, Closed(p, d, C), NEW t, Calm(t, d, C), NEW e \in Seq(C), Apart(t, e),
         Apart(p, t \o e), NEW segs, Segmented(p, Marks(p, d), d) = Opened(p, segs),
         Marks(e, d)[1] = "plain", Len(e) \in {1, 2}, \A s, i : Separates(d, e, s, i)
  PROVE  LET s == p \o (t \o e)
         IN Segmented(s, Marks(s, d), d) = Opened(s, Append(segs, TrimSpace(t)))
<1> DEFINE q == t \o e
           s == p \o q
           m == Marks(s, d)
           n == Len(p)
           l == Len(t)
           i == n + l + 1
           st == Opened(p, segs)
           next == [segs |-> Append(segs, TrimSpace(t)), start |-> i + Len(e), ended |-> FALSE]
<1>1. /\ p \in Seq(C) /\ t \in Seq(C) /\ n \in Nat /\ l \in Nat /\ Closed(t, d, C)
      /\ q \in Seq(C) /\ Len(q) = l + Len(e) /\ e # <<>> /\ Apart(p, q)
  <2>1. p \in Seq(C) /\ t \in Seq(C) /\ Closed(t, d, C)
    BY DEF Closed, Calm
  <2>2. e # <<>>
    OBVIOUS
  <2>3. QED
    BY <2>1, <2>2, LenProperties, ConcatProperties
<1>2. PICK h : GoesOn(h, p, q, d, C)
  <2> HIDE DEF q
  <2>1. QED
    BY <1>1, SegmentsGoOn
<1>3. HasBehind(p, t, e, d)
  BY <1>1, AreBehind
<1>4. h[l] = st
  BY <1>2, CalmRun
<1>5. /\ h[l + Len(e)] = Segmented(s, m, d)
      /\ \A j \in 1..(l + Len(e)) : h[j] = SegmentStep(s, m, d, h[j - 1], n + j)
  BY <1>1, <1>2 DEF GoesOn
<1>6. /\ s[i] = e[1] /\ m[i] = "plain" /\ At(s, i + 1) = At(e, 2) /\ SubSeq(s, n + 1, i - 1) = t
      /\ Len(s) = n + l + Len(e)
  <2>1. 1 \in 1..Len(e) /\ (i + 1) - 1 = i
    BY <1>1
  <2>2. QED
    BY <1>1, <1>3, <2>1 DEF HasBehind
<1>7. SeparatorLength(s, d, i) = Len(e) /\ ~StartsComment(s, d, i)
  <2>1. Separates(d, e, s, i)
    OBVIOUS
  <2> HIDE DEF s, i
  <2>2. QED
    BY <1>6, <2>1 DEF Separates
<1> HIDE DEF s, m, q
<1>8. st.start = n + 1 /\ st.ended = FALSE /\ st.segs = segs
  BY DEF Opened
<1>9. h[l + 1] = next
  <2>1. l + 1 \in 1..(l + Len(e)) /\ (l + 1) - 1 = l /\ n + (l + 1) = i
    BY <1>1
  <2>2. h[l + 1] = SegmentStep(s, m, d, st, i)
    BY <1>4, <1>5, <2>1
  <2>3. Emit(s, st, i) = [segs |-> Append(segs, TrimSpace(t)), start |-> n + 1, ended |-> FALSE]
    <3> DEFINE y == TrimSpace(t)
    <3>1. SubSeq(s, st.start, i - 1) = t
      BY <1>6, <1>8
    <3> HIDE DEF st, i
    <3>2. Emit(s, st, i) = [st EXCEPT !.segs = Append(@, y)]
      BY <3>1 DEF Emit
    <3> HIDE DEF y
    <3>3. st = [segs |-> segs, start |-> n + 1, ended |-> FALSE]
      BY DEF st, Opened
    <3>4. Emit(s, st, i) = [segs |-> Append(segs, y), start |-> n + 1, ended |-> FALSE]
      BY <3>2, <3>3
    <3>5. QED
      BY <3>4 DEF y
  <2>4. ~(i < st.start) /\ SeparatorLength(s, d, i) > 0
    BY <1>1, <1>7, <1>8
  <2> HIDE DEF st, i
  <2>5. SegmentStep(s, m, d, st, i) = [Emit(s, st, i) EXCEPT !.start = i + Len(e)]
    BY <1>6, <1>7, <1>8, <2>4, Zenon DEF SegmentStep
  <2> DEFINE x == Append(segs, TrimSpace(t))
             y == Emit(s, st, i)
  <2> HIDE DEF x, y
  <2>6. h[l + 1] = [y EXCEPT !.start = i + Len(e)] /\ y = [segs |-> x, start |-> n + 1, ended |-> FALSE]
    BY <2>2, <2>3, <2>5 DEF x, y
  <2>7. h[l + 1] = [segs |-> x, start |-> i + Len(e), ended |-> FALSE]
    BY <2>6
  <2>8. QED
    BY <2>7 DEF x
<1>10. h[l + Len(e)] = next
  <2>1. CASE Len(e) = 1
    BY <1>9, <2>1
  <2>2. CASE Len(e) = 2
    <3>1. l + 2 \in 1..(l + Len(e)) /\ (l + 2) - 1 = l + 1 /\ n + (l + 2) = i + 1
      BY <1>1, <2>2
    <3>2. h[l + 2] = SegmentStep(s, m, d, next, i + 1)
      BY <1>5, <1>9, <3>1
    <3>3. i + 1 < next.start
      BY <1>1, <2>2
    <3> HIDE DEF next
    <3>4. SegmentStep(s, m, d, next, i + 1) = next
      BY <3>3 DEF SegmentStep
    <3>5. QED
      BY <2>2, <3>2, <3>4
  <2>3. QED
    BY <2>1, <2>2
<1>11. i + Len(e) = Len(s) + 1
  BY <1>1, <1>6
<1>12. next = Opened(s, Append(segs, TrimSpace(t)))
  BY <1>11 DEF Opened
<1>13. QED
  BY <1>5, <1>10, <1>12 DEF s, m, q

(* What is left of the line is the last segment, up to a comment.           *)
LEMMA LastSegment ==
  ASSUME NEW C, NEW d \in Dialects, NEW p, Closed(p, d, C), NEW t, Calm(t, d, C), NEW e \in Seq(C),
         Apart(t, e), Apart(p, t \o e),
         NEW segs, Segmented(p, Marks(p, d), d) = Opened(p, segs),
         e # <<>> => /\ Marks(e, d)[1] = "plain" /\ e[1] = "#" /\ d # "cmd"
                     /\ d = "sh" => t # <<>> /\ Last(t) \in Space
  PROVE  Segments(p \o (t \o e), d) = Without(<<>>, Append(segs, TrimSpace(t)))
<1> DEFINE q == t \o e
           s == p \o q
           m == Marks(s, d)
           n == Len(p)
           l == Len(t)
           i == n + l + 1
           st == Opened(p, segs)
           more == Append(segs, TrimSpace(t))
           end == Segmented(s, m, d)
<1>1. /\ p \in Seq(C) /\ t \in Seq(C) /\ n \in Nat /\ l \in Nat /\ Len(e) \in Nat /\ Closed(t, d, C)
      /\ q \in Seq(C) /\ Len(q) = l + Len(e) /\ (e = <<>> <=> Len(e) = 0) /\ Apart(p, q)
  <2>1. p \in Seq(C) /\ t \in Seq(C) /\ Closed(t, d, C)
    BY DEF Closed, Calm
  <2>2. (e = <<>> <=> Len(e) = 0)
    BY EmptySeq
  <2>3. QED
    BY <2>1, <2>2, LenProperties, ConcatProperties
<1>2. PICK h : GoesOn(h, p, q, d, C)
  <2> HIDE DEF q
  <2>1. QED
    BY <1>1, SegmentsGoOn
<1>3. HasBehind(p, t, e, d)
  BY <1>1, AreBehind
<1>4. h[l] = st
  BY <1>2, CalmRun
<1>5. /\ h[l + Len(e)] = end
      /\ \A j \in 1..(l + Len(e)) : h[j] = SegmentStep(s, m, d, h[j - 1], n + j)
  BY <1>1, <1>2 DEF GoesOn
<1>6. /\ SubSeq(s, n + 1, i - 1) = t /\ Len(s) = n + l + Len(e)
      /\ t # <<>> => s[i - 1] = Last(t)
      /\ e # <<>> => s[i] = e[1] /\ m[i] = Marks(e, d)[1]
  <2>1. e # <<>> => 1 \in 1..Len(e) /\ (i + 1) - 1 = i
    BY <1>1
  <2>2. QED
    BY <1>1, <1>3, <2>1 DEF HasBehind
<1>7. Segments(s, d) = Without(<<>>, IF end.ended THEN end.segs ELSE Emit(s, end, Len(s) + 1).segs)
  BY DEF Segments, Segmented, NoSegments
<1> HIDE DEF s, m, q, end
<1>8. st.start = n + 1 /\ st.ended = FALSE /\ st = [segs |-> segs, start |-> n + 1, ended |-> FALSE]
  BY DEF Opened
<1>9. Emit(s, st, i) = [segs |-> more, start |-> n + 1, ended |-> FALSE]
  <2> HIDE DEF more, st, i
  <2>1. Append(segs, TrimSpace(SubSeq(s, st.start, i - 1))) = more
    BY <1>6, <1>8 DEF more
  <2>2. Emit(s, st, i) = [st EXCEPT !.segs = Append(segs, TrimSpace(SubSeq(s, st.start, i - 1)))]
    BY <1>8 DEF Emit
  <2>3. Emit(s, st, i) = [st EXCEPT !.segs = more]
    BY <2>1, <2>2
  <2>4. QED
    BY <1>8, <2>3
<1> HIDE DEF more
<1>10. CASE e = <<>>
  <2>1. end = st /\ Len(s) + 1 = i
    BY <1>1, <1>4, <1>5, <1>6, <1>10
  <2> HIDE DEF st, i
  <2>2. (IF end.ended THEN end.segs ELSE Emit(s, end, Len(s) + 1).segs) = more
    BY <1>8, <1>9, <2>1
  <2>3. QED
    BY <1>7, <2>2 DEF s, q, more
<1>11. CASE e # <<>>
  <2> DEFINE last == [segs |-> more, start |-> n + 1, ended |-> TRUE]
             same == [j \in 0..(Len(e) - 1) |-> last]
             rest == [j \in 0..(Len(e) - 1) |-> h[(l + 1) + j]]
             r == Len(e) - 1
  <2>1. r \in Nat /\ l + 1 \in 1..(l + Len(e)) /\ (l + 1) - 1 = l /\ n + (l + 1) = i /\ ~(i < n + 1)
    BY <1>1, <1>11
  <2>2. m[i] = "plain" /\ StartsComment(s, d, i)
    <3>1. m[i] = "plain" /\ s[i] = "#" /\ d # "cmd" /\ (d = "sh" => s[i - 1] \in Space)
      BY <1>6, <1>11
    <3>2. d = "sh" \/ d = "powershell"
      BY <3>1 DEF Dialects
    <3> HIDE DEF i
    <3>3. QED
      BY <3>1, <3>2, Zenon DEF StartsComment
  <2>3. h[l + 1] = SegmentStep(s, m, d, st, i)
    BY <1>4, <1>5, <2>1
  <2>4. ~(i < st.start)
    BY <1>8, <2>1
  <2>5. h[l + 1] = last
    <3> HIDE DEF st, i
    <3>1. SegmentStep(s, m, d, st, i) = [Emit(s, st, i) EXCEPT !.ended = TRUE]
      BY <1>8, <2>2, <2>4, Zenon DEF SegmentStep
    <3> DEFINE y == Emit(s, st, i)
    <3> HIDE DEF y
    <3>2. y = [segs |-> more, start |-> n + 1, ended |-> FALSE] /\ h[l + 1] = [y EXCEPT !.ended = TRUE]
      BY <1>9, <2>3, <3>1 DEF y
    <3>3. QED
      BY <3>2
  <2>6. \A j \in 1..r : rest[j] = h[(l + 1) + j] /\ rest[j - 1] = h[((l + 1) + j) - 1] /\ same[j - 1] = last /\ same[j] = last
    BY <2>1
  <2>7. rest[0] = last /\ same[0] = last /\ rest[r] = end /\ same[r] = last
    <3>1. 0 \in 0..r /\ r \in 0..r /\ (l + 1) + 0 = l + 1 /\ (l + 1) + r = l + Len(e)
      BY <1>1, <2>1
    <3>2. QED
      BY <1>5, <2>5, <3>1
  <2>8. last.ended = TRUE /\ last.segs = more
    OBVIOUS
  <2> HIDE DEF last, rest, same
  <2>9. ASSUME NEW j \in 1..r, rest[j - 1] = same[j - 1] PROVE rest[j] = same[j]
    <3>1. (l + 1) + j \in 1..(l + Len(e))
      BY <1>1, <2>1
    <3>2. h[(l + 1) + j] = SegmentStep(s, m, d, h[((l + 1) + j) - 1], n + ((l + 1) + j))
      BY <1>5, <3>1
    <3>3. h[((l + 1) + j) - 1] = last
      BY <2>6, <2>9
    <3>4. SegmentStep(s, m, d, last, n + ((l + 1) + j)) = last
      BY <2>8, Zenon DEF SegmentStep
    <3>5. QED
      BY <2>6, <3>2, <3>3, <3>4
  <2>10. Alike(rest, same, r)
    BY <2>7, <2>9 DEF Alike
  <2>11. end = last
    <3>1. rest[r] = same[r]
      BY <2>1, <2>10, SameTrace
    <3>2. QED
      BY <2>7, <3>1
  <2>12. (IF end.ended THEN end.segs ELSE Emit(s, end, Len(s) + 1).segs) = more
    BY <2>8, <2>11, Zenon
  <2>13. QED
    BY <1>7, <2>12 DEF s, q, more
<1>12. QED
  BY <1>10, <1>11

----------------------------------------------------------------------------
(* The parts among S that a separator ends, their texts and what they are   *)
(* without the gaps at their ends.                                          *)
EndedOf(d, S) == {p \in S : IsPart(d, p) /\ p.end \in Separators(d)}
Ended(d, S) == [p \in EndedOf(d, S) |-> PartText(d, p) \o p.end]
TrimmedPart(d, S) == [p \in EndedOf(d, S) |-> TrimSpace(PartText(d, p))]

(* What is known of such a part.                                            *)
EndedReads(d, S, p) ==
  LET t == PartText(d, p)
      e == p.end
  IN /\ Ended(d, S)[p] = t \o e /\ TrimmedPart(d, S)[p] = TrimSpace(t)
     /\ Calm(t, d, LineSymbols) /\ e \in Seq(LineSymbols) /\ e # <<>> /\ Apart(t, e)
     /\ SeparatorReads(d, e) /\ PartReads(d, p)
     /\ Closed(t \o e, d, LineSymbols) /\ Last(t \o e) = Last(e) /\ t \o e # <<>>
     /\ d = "sh" => (HasBackgroundAmpersand(t \o e) <=> e = <<"&">>)
(* Every part that a separator ends is read so.                            *)
LEMMA EndedRead ==
  ASSUME NEW d \in Dialects, NEW S
  PROVE  /\ \A p \in EndedOf(d, S) : EndedReads(d, S, p)
         /\ Ended(d, S) \in [EndedOf(d, S) -> Seq(LineSymbols)]
         /\ TrimmedPart(d, S) \in [EndedOf(d, S) -> Seq(LineSymbols)]
         /\ \A p \in EndedOf(d, S) : Ended(d, S)[p] # <<>>
<1> DEFINE C == LineSymbols
<1>1. ASSUME NEW p \in EndedOf(d, S)
      PROVE  EndedReads(d, S, p) /\ PartText(d, p) \o p.end \in Seq(C) /\ PartText(d, p) \o p.end # <<>>
             /\ TrimSpace(PartText(d, p)) \in Seq(C)
  <2> DEFINE t == PartText(d, p)
             e == p.end
  <2>1. IsPart(d, p) /\ e \in Separators(d)
    BY DEF EndedOf
  <2>2. PartReads(d, p) /\ SeparatorReads(d, e) /\ Apart(t, e)
    BY <2>1, PartsRead, SeparatorsRead DEF IsPart
  <2>3. Calm(t, d, C) /\ (d = "sh" => ~HasBackgroundAmpersand(t))
    BY <2>2 DEF PartReads
  <2>4. Closed(t, d, C) /\ t \in Seq(C)
    BY <2>3 DEF Calm, Closed
  <2>5. Closed(e, d, C) /\ e \in Seq(C) /\ Len(e) \in {1, 2} /\ (d = "sh" => (HasBackgroundAmpersand(e) <=> e = <<"&">>))
    BY <2>2 DEF SeparatorReads, Closed
  <2>6. Ended(d, S)[p] = t \o e /\ TrimmedPart(d, S)[p] = TrimSpace(t)
    BY DEF Ended, TrimmedPart
  <2> HIDE DEF t, e, C
  <2>7. e # <<>>
    <3>1. Len(e) \in {1, 2}
      BY <2>5
    <3>2. QED
      BY <3>1
  <2>8. Closed(t \o e, d, C)
    BY <2>4, <2>5, ClosedConcat
  <2>9. EndsOf(t, e) /\ TrimSpace(t) \in Seq(C)
    BY <2>4, <2>5, ConcatEnds, TrimSpaceText
  <2>10. t \o e # <<>> /\ Last(t \o e) = Last(e)
    BY <2>7, <2>9 DEF EndsOf
  <2>11. d = "sh" => (HasBackgroundAmpersand(t \o e) <=> e = <<"&">>)
    BY <2>2, <2>3, <2>4, <2>5, BackConcat
  <2>12. t \o e \in Seq(C)
    BY <2>8 DEF Closed
  <2>13. QED
    BY <2>2, <2>3, <2>5, <2>6, <2>7, <2>8, <2>9, <2>10, <2>11, <2>12 DEF EndedReads, t, e, C
<1>2. QED
  BY <1>1 DEF Ended, TrimmedPart

(* What the filter has seen of parts that separators end: every segment if  *)
(* none ends in a lone & of sh, and such a & in any case.                   *)
LoneParts(u) == \E i \in DOMAIN u : u[i].end = <<"&">>
PartsSeen(d, S, u) ==
  LET s == TextOf(Ended(d, S), u)
  IN /\ Closed(s, d, LineSymbols)
     /\ ~(d = "sh" /\ LoneParts(u)) => Segmented(s, Marks(s, d), d) = Opened(s, Mapped(TrimmedPart(d, S), u))
     /\ d = "sh" => (HasBackgroundAmpersand(s) <=> LoneParts(u))
(* Such parts, one behind another, are seen as segments each.              *)
LEMMA PartsAreSeen ==
  ASSUME NEW d \in Dialects, NEW S, NEW u \in Seq(EndedOf(d, S)), AllApart(Ended(d, S), u)
  PROVE  /\ PartsSeen(d, S, u)
         /\ u # <<>> => /\ TextOf(Ended(d, S), u) # <<>>
                        /\ Last(TextOf(Ended(d, S), u)) = Last(Ended(d, S)[Last(u)])
<1> DEFINE X == EndedOf(d, S)
           C == LineSymbols
           f == Ended(d, S)
           g == TrimmedPart(d, S)
           T == {v \in Seq(X) : PartsSeen(d, S, v)}
<1>1. /\ f \in [X -> Seq(C)] /\ g \in [X -> Seq(C)] /\ (\A p \in X : f[p] # <<>>)
      /\ \A p \in X : EndedReads(d, S, p)
  BY EndedRead
<1>2. <<>> \in T
  <2> DEFINE none == << >>
  <2>1. TextOf(f, none) = none /\ Mapped(g, none) = none
    BY FlattenEmpty DEF TextOf, Mapped
  <2>2. Closed(none, d, C) /\ ~HasBackgroundAmpersand(none)
    BY NothingCalm DEF Calm
  <2>3. ~LoneParts(none)
    BY DEF LoneParts
  <2>4. none \in Seq(C) /\ Len(none) = 0 /\ none \in Seq(X)
    BY EmptySeq
  <2>5. Opened(none, none) = NoSegments
    BY DEF Opened, NoSegments
  <2> HIDE DEF none, f, g
  <2>6. Segmented(none, Marks(none, d), d) = NoSegments
    <3>1. \A i \in 1..Len(none) : Marks(none, d)[i] = "plain" => none[i] = "SP"
      BY <2>4
    <3>2. QED
      BY <2>4, <3>1, NoSegmentEnds
  <2>7. PartsSeen(d, S, none)
    BY <2>1, <2>2, <2>3, <2>5, <2>6 DEF PartsSeen, f, g
  <2>8. QED
    BY <2>4, <2>7 DEF none
<1>3. ASSUME NEW v \in Seq(X), NEW p \in X, v \in T, Apart(TextOf(f, v), f[p])
      PROVE  Append(v, p) \in T
  <2> DEFINE w == Append(v, p)
             s == TextOf(f, v)
             t == PartText(d, p)
             e == p.end
             q == t \o e
             segs == Mapped(g, v)
  <2>1. /\ Closed(s, d, C) /\ (~(d = "sh" /\ LoneParts(v)) => Segmented(s, Marks(s, d), d) = Opened(s, segs))
        /\ d = "sh" => (HasBackgroundAmpersand(s) <=> LoneParts(v))
    BY <1>3 DEF PartsSeen
  <2>2. /\ f[p] = q /\ g[p] = TrimSpace(t) /\ Calm(t, d, C) /\ e \in Seq(C) /\ Apart(t, e)
        /\ SeparatorReads(d, e) /\ Closed(q, d, C) /\ (d = "sh" => (HasBackgroundAmpersand(q) <=> e = <<"&">>))
    BY <1>1 DEF EndedReads
  <2>3. /\ Marks(e, d)[1] = "plain" /\ Len(e) \in {1, 2}
        /\ ~(d = "sh" /\ e = <<"&">>) => \A z, i : Separates(d, e, z, i)
    BY <2>2 DEF SeparatorReads, IsLone
  <2>4. Apart(s, q)
    BY <1>3, <2>2
  <2>5. TextOf(f, w) = s \o q
    <3>1. TextGrows(f, v, p)
      <4> HIDE DEF f
      <4>1. QED
        BY <1>1, TextMore
    <3>2. QED
      BY <2>2, <3>1 DEF TextGrows
  <2>6. Mapped(g, w) = Append(segs, TrimSpace(t))
    <3>1. MapsMore(g, v, p)
      <4> DEFINE Y == Seq(C)
      <4>1. g \in [X -> Y]
        BY <1>1
      <4> HIDE DEF g, Y
      <4>2. QED
        BY <4>1, MapAppend
    <3>2. QED
      BY <2>2, <3>1 DEF MapsMore
  <2>7. ASSUME ~(d = "sh" /\ (LoneParts(v) \/ e = <<"&">>))
        PROVE  Segmented(s \o q, Marks(s \o q, d), d) = Opened(s \o q, Append(segs, TrimSpace(t)))
    <3>1. Segmented(s, Marks(s, d), d) = Opened(s, segs) /\ \A z, i : Separates(d, e, z, i)
      BY <2>1, <2>3, <2>7
    <3> HIDE DEF s, t, e, segs, C
    <3>2. QED
      BY <2>1, <2>2, <2>3, <2>4, <3>1, NextSegment
  <2>8. w \in Seq(X)
    BY AppendProperties
  <2>9. LoneParts(w) <=> LoneParts(v) \/ e = <<"&">>
    <3>1. /\ Len(v) \in Nat /\ DOMAIN v = 1..Len(v) /\ DOMAIN w = 1..(Len(v) + 1)
          /\ w[Len(v) + 1] = p /\ \A i \in 1..Len(v) : w[i] = v[i]
      BY AppendProperties, LenProperties
    <3> HIDE DEF w
    <3>2. \A i \in DOMAIN w : i \in DOMAIN v \/ i = Len(v) + 1
      BY <3>1
    <3>3. Len(v) + 1 \in DOMAIN w /\ \A i \in DOMAIN v : i \in DOMAIN w
      BY <3>1
    <3>4. QED
      BY <3>1, <3>2, <3>3 DEF LoneParts
  <2> HIDE DEF s, q, w, C, segs
  <2>10. Closed(s \o q, d, C)
    BY <2>1, <2>2, ClosedConcat
  <2>11. d = "sh" => (HasBackgroundAmpersand(s \o q) <=> LoneParts(w))
    <3>1. ASSUME d = "sh" PROVE HasBackgroundAmpersand(s \o q) <=> HasBackgroundAmpersand(s) \/ HasBackgroundAmpersand(q)
      <4>1. Closed(s, "sh", C) /\ q \in Seq(C)
        BY <2>1, <2>2, <3>1 DEF Closed
      <4>2. QED
        BY <2>4, <4>1, BackConcat
    <3> DEFINE lone == e = <<"&">>
    <3>2. /\ d = "sh" => (HasBackgroundAmpersand(s) <=> LoneParts(v))
          /\ d = "sh" => (HasBackgroundAmpersand(q) <=> lone)
          /\ LoneParts(w) <=> LoneParts(v) \/ lone
      BY <2>1, <2>2, <2>9
    <3> HIDE DEF lone
    <3>3. QED
      BY <3>1, <3>2
  <2>12. ASSUME ~(d = "sh" /\ LoneParts(w))
         PROVE  Segmented(s \o q, Marks(s \o q, d), d) = Opened(s \o q, Append(segs, TrimSpace(t)))
    BY <2>7, <2>9, <2>12, Zenon
  <2> HIDE DEF e, t
  <2>13. PartsSeen(d, S, w)
    BY <2>5, <2>6, <2>10, <2>11, <2>12 DEF PartsSeen, C, f, g
  <2>14. QED
    BY <2>8, <2>13 DEF T, w
<1>4. u \in Seq(X)
  OBVIOUS
<1>5. AllApart(f, u)
  OBVIOUS
<1> HIDE DEF T, X, C, f, g
<1>6. f \in [X -> Seq(C)] /\ \A p \in X : f[p] # <<>>
  BY <1>1
<1>7. u \in T /\ (u # <<>> => TextOf(f, u) # <<>> /\ Last(TextOf(f, u)) = Last(f[Last(u)]))
  BY <1>2, <1>3, <1>4, <1>5, <1>6, ByApart
<1>8. QED
  BY <1>7 DEF T, f

(* A line is parts that separators end, and one that nothing or a comment   *)
(* ends.                                                                    *)
PartsOf(parts) == {parts[i] : i \in DOMAIN parts}
PartTexts(d, parts) == [i \in DOMAIN parts |-> TrimSpace(PartText(d, parts[i]))]
LineIs(d, parts) ==
  LET u == Front(parts)
      z == Last(parts)
      X == EndedOf(d, PartsOf(parts))
      f == Ended(d, PartsOf(parts))
      t == PartText(d, z)
      e == z.end
  IN /\ u \in Seq(X) /\ IsPart(d, z) /\ parts = Append(u, z) /\ AllApart(f, u)
     /\ u # <<>> => Apart(f[Last(u)], t \o e)
     /\ LineText(d, parts) = TextOf(f, u) \o (t \o e)
     /\ PartTexts(d, parts) = Append(Mapped(TrimmedPart(d, PartsOf(parts)), u), TrimSpace(t))
     /\ e \in Seq(LineSymbols) /\ Apart(t, e) /\ (e # <<>> => IsComment(d, z))
(* Every line is made of parts that separators end, and a last one.        *)
LEMMA LinesAre ==
  ASSUME NEW d \in Dialects, NEW parts, IsLine(d, parts)
  PROVE  LineIs(d, parts)
<1> DEFINE S == PartsOf(parts)
           C == LineSymbols
           X == EndedOf(d, S)
           f == Ended(d, S)
           g == TrimmedPart(d, S)
           n == Len(parts)
           u == Front(parts)
           z == Last(parts)
           all == [p \in S |-> PartText(d, p) \o p.end]
           trims == [p \in S |-> TrimSpace(PartText(d, p))]
<1>1. /\ parts \in Seq(S) /\ parts # <<>> /\ \A i \in DOMAIN parts : IsPart(d, parts[i])
      /\ \A i \in 1..(n - 1) : /\ parts[i].end \in Separators(d)
                               /\ Apart(parts[i].end, PartText(d, parts[i + 1]) \o parts[i + 1].end)
      /\ z.end # <<>> => IsComment(d, z)
  BY DEF IsLine, PartsOf
<1>2. n \in Nat \ {0} /\ DOMAIN parts = 1..n
  BY <1>1, LenProperties, EmptySeq
<1>3. u \in Seq(S) /\ z \in S /\ parts = Append(u, z) /\ Len(u) = n - 1
  BY <1>1, FrontAndLast
<1>4. \A p \in S : IsPart(d, p)
  BY <1>1 DEF PartsOf
<1>5. ASSUME NEW p \in S
      PROVE  /\ PartText(d, p) \in Seq(C) /\ p.end \in Seq(C) /\ Apart(PartText(d, p), p.end)
             /\ PartText(d, p) \o p.end \in Seq(C) /\ TrimSpace(PartText(d, p)) \in Seq(C)
  <2>1. IsPart(d, p)
    BY <1>4
  <2>2. PartReads(d, p) /\ p.end \in Seq(STRING) /\ Apart(PartText(d, p), p.end)
    BY <2>1, PartsRead DEF IsPart
  <2>3. PartText(d, p) \in Seq(C) /\ p.end \in Seq(C)
    BY <2>2, SymbolsOf DEF PartReads, Calm, Closed
  <2>4. QED
    BY <2>2, <2>3, TrimSpaceText, ConcatProperties
<1>6. LineText(d, parts) = TextOf(all, parts) /\ PartTexts(d, parts) = Mapped(trims, parts)
  <2>1. \A i \in DOMAIN parts : parts[i] \in S
    BY DEF PartsOf
  <2>2. /\ Mapped(all, parts) = [i \in DOMAIN parts |-> PartText(d, parts[i]) \o parts[i].end]
        /\ Mapped(trims, parts) = PartTexts(d, parts)
    <3> HIDE DEF S
    <3>1. QED
      BY <2>1 DEF Mapped, PartTexts
  <2>3. QED
    BY <2>2 DEF LineText, TextOf
<1>7. all \in [S -> Seq(C)] /\ trims \in [S -> Seq(C)]
  <2> HIDE DEF S, C
  <2>1. QED
    BY <1>5
<1>8. all[z] = PartText(d, z) \o z.end /\ trims[z] = TrimSpace(PartText(d, z))
  <2> HIDE DEF S, z
  <2>1. QED
    BY <1>3
<1>9. \A i \in 1..Len(u) : u[i] = parts[i] /\ i \in 1..(n - 1) /\ i \in DOMAIN parts
  <2> HIDE DEF u, z, n
  <2>1. \A i \in 1..Len(u) : Append(u, z)[i] = u[i]
    BY <1>3, AppendProperties
  <2>2. QED
    BY <1>2, <1>3, <2>1
<1>10. \A i \in DOMAIN u : u[i] \in X
  <2>1. DOMAIN u = 1..Len(u)
    <3> HIDE DEF u
    <3>1. QED
      BY <1>3, LenProperties
  <2>2. QED
    BY <1>1, <1>9, <2>1 DEF EndedOf, PartsOf
<1> HIDE DEF S, u, z
<1>11. u \in Seq(X)
  <2> HIDE DEF X
  <2>1. QED
    BY <1>3, <1>10, SeqWithin
<1>12. \A p \in X : f[p] = all[p] /\ g[p] = trims[p] /\ p \in S
  BY DEF Ended, TrimmedPart, EndedOf
<1>13. /\ f \in [X -> Seq(C)] /\ (\A p \in X : f[p] # <<>>)
       /\ \A p \in X : EndedReads(d, S, p)
  BY EndedRead
<1> HIDE DEF f, g, all, trims, X
<1>14. Mapped(f, u) = Mapped(all, u) /\ Mapped(g, u) = Mapped(trims, u)
  BY <1>10, <1>12 DEF Mapped
<1>15. LineText(d, parts) = TextOf(f, u) \o (PartText(d, z) \o z.end)
  <2>1. TextGrows(all, u, z)
    BY <1>3, <1>7, TextMore
  <2>2. QED
    BY <1>3, <1>6, <1>8, <1>14, <2>1 DEF TextGrows, TextOf
<1>16. PartTexts(d, parts) = Append(Mapped(g, u), TrimSpace(PartText(d, z)))
  <2> DEFINE Y == Seq(C)
  <2>1. trims \in [S -> Y]
    BY <1>7
  <2> HIDE DEF Y
  <2>2. MapsMore(trims, u, z)
    BY <1>3, <2>1, MapAppend
  <2>3. QED
    BY <1>3, <1>6, <1>8, <1>14, <2>2 DEF MapsMore
<1>17. ASSUME NEW i \in 1..(n - 1)
       PROVE  Apart(f[parts[i]], PartText(d, parts[i + 1]) \o parts[i + 1].end)
  <2> DEFINE e == parts[i].end
             t == PartText(d, parts[i])
             q == PartText(d, parts[i + 1]) \o parts[i + 1].end
  <2>1. Apart(e, q)
    BY <1>1
  <2>2. parts[i] \in X
    <3>1. i \in 1..Len(u) /\ i \in DOMAIN u
      BY <1>3, <1>11, LenProperties
    <3>2. QED
      BY <1>9, <1>10, <3>1
  <2>3. f[parts[i]] = t \o e /\ Last(t \o e) = Last(e) /\ e # <<>>
    BY <1>13, <2>2 DEF EndedReads, f
  <2> HIDE DEF e, t, q
  <2>4. Apart(f[parts[i]], q)
    BY <2>1, <2>3 DEF Apart
  <2>5. QED
    BY <2>4 DEF q
<1>18. AllApart(f, u)
  <2>1. ASSUME NEW i \in 1..(Len(u) - 1) PROVE Apart(f[u[i]], f[u[i + 1]])
    <3>1. i \in 1..(n - 1) /\ i \in 1..Len(u) /\ i + 1 \in 1..Len(u) /\ i + 1 \in DOMAIN u
      BY <1>2, <1>3, <1>11, LenProperties
    <3>2. f[u[i + 1]] = PartText(d, parts[i + 1]) \o parts[i + 1].end
      BY <1>9, <1>10, <1>13, <3>1 DEF EndedReads, f
    <3>3. QED
      BY <1>9, <1>17, <3>1, <3>2
  <2>2. QED
    BY <2>1 DEF AllApart
<1>19. u # <<>> => Apart(f[Last(u)], PartText(d, z) \o z.end)
  <2>1. ASSUME u # <<>> PROVE Apart(f[Last(u)], PartText(d, z) \o z.end)
    <3>1. n - 1 \in 1..(n - 1) /\ (n - 1) + 1 = n /\ n - 1 \in 1..Len(u)
      BY <1>2, <1>3, <2>1, EmptySeq
    <3>2. Last(u) = parts[n - 1] /\ z = parts[n]
      BY <1>3, <1>9, <3>1 DEF Last, z
    <3>3. QED
      BY <1>17, <3>1, <3>2
  <2>2. QED
    BY <2>1
<1>20. QED
  BY <1>1, <1>3, <1>4, <1>5, <1>11, <1>15, <1>16, <1>18, <1>19 DEF LineIs, u, z, X, f, g, S, C

(* What the filter sees in a line: its parts, or that a lone & of sh is in  *)
(* it, which forEachSegment does not split at.                              *)
LineReads(d, parts) ==
  LET s == LineText(d, parts)
  IN /\ ~Backgrounds(d, parts) => Segments(s, d) = Without(<<>>, PartTexts(d, parts))
     /\ PartTexts(d, parts) \in Seq(Seq(LineSymbols))
     /\ d = "sh" => (HasBackgroundAmpersand(s) <=> Backgrounds(d, parts))
(* The segments of a line are its parts (forEachSegment), and a lone & is   *)
(* seen (hasBackgroundAmpersand).                                           *)
LEMMA LinesRead ==
  ASSUME NEW d \in Dialects, NEW parts, IsLine(d, parts)
  PROVE  LineReads(d, parts)
<1> DEFINE S == PartsOf(parts)
           C == LineSymbols
           f == Ended(d, S)
           g == TrimmedPart(d, S)
           u == Front(parts)
           z == Last(parts)
           s == TextOf(f, u)
           t == PartText(d, z)
           e == z.end
           q == t \o e
           segs == Mapped(g, u)
<1>1. LineIs(d, parts)
  BY LinesAre
<1>2. /\ u \in Seq(EndedOf(d, S)) /\ IsPart(d, z) /\ parts = Append(u, z) /\ AllApart(f, u)
      /\ u # <<>> => Apart(f[Last(u)], q)
      /\ LineText(d, parts) = s \o q /\ PartTexts(d, parts) = Append(segs, TrimSpace(t))
      /\ e \in Seq(C) /\ Apart(t, e) /\ (e # <<>> => IsComment(d, z))
  BY <1>1 DEF LineIs
<1>3. /\ PartsSeen(d, S, u)
      /\ u # <<>> => s # <<>> /\ Last(s) = Last(f[Last(u)])
  <2> HIDE DEF u, S
  <2>1. QED
    BY <1>2, PartsAreSeen
<1>4. /\ Closed(s, d, C) /\ (~(d = "sh" /\ LoneParts(u)) => Segmented(s, Marks(s, d), d) = Opened(s, segs))
      /\ d = "sh" => (HasBackgroundAmpersand(s) <=> LoneParts(u))
  BY <1>3 DEF PartsSeen
<1>5. Calm(t, d, C) /\ (d = "sh" => ~HasBackgroundAmpersand(t))
  BY <1>2, PartsRead DEF PartReads
<1>6. t \in Seq(C) /\ TrimSpace(t) \in Seq(C) /\ segs \in Seq(Seq(C)) /\ q \in Seq(C)
  <2>1. t \in Seq(C)
    BY <1>5 DEF Calm, Closed
  <2>2. TrimSpace(t) \in Seq(C) /\ q \in Seq(C)
    BY <1>2, <2>1, TrimSpaceText, ConcatProperties
  <2>3. segs \in Seq(Seq(C))
    <3> DEFINE Y == Seq(C)
    <3>1. g \in [EndedOf(d, S) -> Y]
      BY EndedRead
    <3>2. \E p : p \in EndedOf(d, S) \/ u = <<>>
      <4>1. CASE u = <<>>
        BY <4>1
      <4>2. CASE u # <<>>
        <5> HIDE DEF u, S
        <5>1. Last(u) \in EndedOf(d, S)
          BY <1>2, <4>2, FrontAndLast
        <5>2. QED
          BY <5>1
      <4>3. QED
        BY <4>1, <4>2
    <3> HIDE DEF Y, g, S, u
    <3>3. CASE u = <<>>
      BY <3>3, EmptySeq DEF segs, Mapped
    <3>4. CASE u # <<>>
      <4>1. PICK p : p \in EndedOf(d, S)
        BY <3>2, <3>4
      <4>2. Mapped(g, u) \in Seq(Y)
        BY <1>2, <3>1, <4>1, MapAppend
      <4>3. QED
        BY <4>2 DEF Y, segs
    <3>5. QED
      BY <3>3, <3>4 DEF Y
  <2>4. QED
    BY <2>1, <2>2, <2>3
<1>7. Apart(s, q)
  <2>1. CASE u = <<>>
    <3>1. s = <<>>
      BY <2>1, FlattenEmpty DEF TextOf, Mapped
    <3>2. QED
      BY <3>1 DEF Apart
  <2>2. CASE u # <<>>
    <3>1. f[Last(u)] # <<>>
      <4> HIDE DEF u, S
      <4>1. Last(u) \in EndedOf(d, S)
        BY <1>2, <2>2, FrontAndLast
      <4>2. QED
        BY <4>1, EndedRead
    <3>2. Apart(f[Last(u)], q) /\ s # <<>> /\ Last(s) = Last(f[Last(u)])
      BY <1>2, <1>3, <2>2
    <3> DEFINE y == f[Last(u)]
    <3> HIDE DEF y, s, q
    <3>3. QED
      BY <3>1, <3>2 DEF Apart, y
  <2>3. QED
    BY <2>1, <2>2
<1>8. e # <<>> => /\ Marks(e, d)[1] = "plain" /\ e[1] = "#" /\ d # "cmd"
                  /\ (d = "sh" => t # <<>> /\ Last(t) \in Space) /\ "&" \notin ToSet(e)
  <2>1. ASSUME e # <<>>
        PROVE  Head(e) = "#" /\ d # "cmd" /\ (d = "sh" => t # <<>> /\ Last(t) \in Space) /\ "&" \notin ToSet(e)
    BY <1>2, <2>1, Zenon DEF IsComment
  <2> HIDE DEF e, t
  <2>2. ASSUME e # <<>> PROVE e[1] = Head(e)
    BY <1>2, <2>2
  <2>3. Head(e) = "#" => Head(e) \notin {Escape(d), "DQ", "'"}
    BY Zenon DEF Escape
  <2>4. ASSUME e # <<>> PROVE Marks(e, d)[1] = "plain"
    BY <1>2, <2>1, <2>2, <2>3, <2>4, PlainFirst
  <2>5. QED
    BY <2>1, <2>2, <2>4, Zenon
<1>9. LoneParts(parts) <=> LoneParts(u)
  <2>1. e # <<"&">>
    <3>1. ASSUME e = <<"&">> PROVE FALSE
      <4>1. e # <<>> /\ "&" \in ToSet(e)
        BY <3>1 DEF ToSet
      <4>2. QED
        BY <1>8, <4>1
    <3>2. QED
      BY <3>1
  <2>2. \E X : u \in Seq(X) /\ z \in X /\ parts = Append(u, z)
    <3> DEFINE X == EndedOf(d, S) \cup {z}
    <3>1. EndedOf(d, S) \subseteq X
      OBVIOUS
    <3>2. z \in X
      OBVIOUS
    <3> HIDE DEF X, u, S
    <3>3. u \in Seq(X)
      BY <1>2, <3>1, SeqMonotonic
    <3>4. QED
      BY <1>2, <3>2, <3>3
  <2> HIDE DEF e, u, z
  <2>3. PICK X : u \in Seq(X) /\ z \in X /\ parts = Append(u, z)
    BY <2>2
  <2>4. /\ Len(u) \in Nat /\ DOMAIN u = 1..Len(u) /\ DOMAIN parts = 1..(Len(u) + 1)
        /\ parts[Len(u) + 1] = z /\ \A i \in 1..Len(u) : parts[i] = u[i]
    BY <2>3, AppendProperties, LenProperties
  <2>5. \A i \in DOMAIN parts : i \in DOMAIN u \/ i = Len(u) + 1
    BY <2>4
  <2>6. \A i \in DOMAIN u : i \in DOMAIN parts
    BY <2>4
  <2>7. QED
    BY <2>1, <2>4, <2>5, <2>6 DEF LoneParts, e
<1>10. ASSUME ~Backgrounds(d, parts)
       PROVE  Segments(LineText(d, parts), d) = Without(<<>>, PartTexts(d, parts))
  <2>1. Segmented(s, Marks(s, d), d) = Opened(s, segs)
    BY <1>4, <1>9, <1>10 DEF Backgrounds, LoneParts
  <2> HIDE DEF s, t, e, segs, C
  <2>2. Segments(s \o (t \o e), d) = Without(<<>>, Append(segs, TrimSpace(t)))
    BY <1>2, <1>4, <1>5, <1>7, <1>8, <2>1, LastSegment
  <2>3. QED
    BY <1>2, <2>2
<1>11. PartTexts(d, parts) \in Seq(Seq(C))
  <2> HIDE DEF segs, t
  <2>1. QED
    BY <1>2, <1>6, AppendProperties
<1>12. ASSUME d = "sh" PROVE HasBackgroundAmpersand(LineText(d, parts)) <=> Backgrounds(d, parts)
  <2>1. ~HasBackgroundAmpersand(e)
    <3>1. ASSUME NEW i \in DOMAIN e, BackAt(e, i) PROVE FALSE
      <4>1. e # <<>> /\ e[i] = "&"
        BY <3>1 DEF BackAt, AmpAt
      <4>2. "&" \in ToSet(e)
        BY <4>1 DEF ToSet
      <4>3. QED
        BY <1>8, <4>1, <4>2
    <3>2. QED
      BY <3>1, BackIs
  <2>2. Closed(s, "sh", C) /\ Closed(t, "sh", C)
    BY <1>4, <1>5, <1>12 DEF Calm
  <2> HIDE DEF s, t, e, C, u, z
  <2>3. HasBackgroundAmpersand(t \o e) <=> HasBackgroundAmpersand(t) \/ HasBackgroundAmpersand(e)
    BY <1>2, <2>2, BackConcat
  <2>4. HasBackgroundAmpersand(s \o q) <=> HasBackgroundAmpersand(s) \/ HasBackgroundAmpersand(q)
    <3>1. q \in Seq(C)
      BY <1>6
    <3> HIDE DEF q
    <3>2. QED
      BY <1>7, <2>2, <3>1, BackConcat
  <2>5. Backgrounds(d, parts) <=> LoneParts(parts)
    BY <1>12 DEF Backgrounds, LoneParts
  <2>6. QED
    BY <1>2, <1>4, <1>5, <1>9, <1>12, <2>1, <2>3, <2>4, <2>5
<1>13. QED
  BY <1>10, <1>11, <1>12 DEF LineReads

----------------------------------------------------------------------------
(* The first word that is no assignment, if any.                            *)
FirstOf(words) ==
  Min({j \in 1..(Len(words) + 1) : j \in DOMAIN words => ~IsEnvAssignment(words[j])})
NextOf(words, i) == Behind(words, i, CanonicalCmd(words[i]))
Wraps(words, i) == CanonicalCmd(words[i]) \in Wrappers /\ NextOf(words, i) \in DOMAIN words

(* It is where a command starts.                                            *)
LEMMA FirstStarts ==
  ASSUME NEW C, NEW words \in Seq(C), NEW i
  PROVE  Starts(words, i) <=> i = FirstOf(words) /\ i \in DOMAIN words
<1> DEFINE n == Len(words)
           x == {j \in 1..(n + 1) : j \in DOMAIN words => ~IsEnvAssignment(words[j])}
           m == Min(x)
<1>1. n \in Nat /\ DOMAIN words = 1..n /\ n + 1 \in Nat
  BY LenProperties
<1>2. n + 1 \in x /\ x \in SUBSET (1..(n + 1))
  BY <1>1
<1>3. m \in x /\ \A j \in x : m <= j
  <2> HIDE DEF x
  <2>1. m \in x
    BY <1>1, <1>2, MinOf
  <2>2. \E k \in x : \A j \in x : k <= j
    BY <1>1, <1>2, SmallestOf
  <2>3. QED
    BY <2>2 DEF Min
<1>4. ASSUME Starts(words, i) PROVE i = m /\ i \in DOMAIN words
  <2>1. i \in 1..n /\ \A j \in 1..i : IsEnvAssignment(words[j]) <=> j # i
    BY <1>1, <1>4 DEF Starts
  <2>2. i \in x /\ \A j \in 1..(i - 1) : j \notin x
    BY <1>1, <2>1
  <2> HIDE DEF x, m
  <2>3. m <= i /\ m \in 1..(n + 1) /\ ~(m \in 1..(i - 1))
    BY <1>2, <1>3, <2>2
  <2>4. QED
    BY <1>1, <2>1, <2>3
<1>5. ASSUME i = m, i \in DOMAIN words PROVE Starts(words, i)
  <2>1. i \in 1..n /\ ~IsEnvAssignment(words[i])
    BY <1>1, <1>3, <1>5
  <2>2. ASSUME NEW j \in 1..i, j # i PROVE IsEnvAssignment(words[j])
    <3>1. j \in 1..(n + 1) /\ j \in DOMAIN words /\ ~(i <= j)
      BY <1>1, <2>1, <2>2
    <3>2. j \notin x
      <4> HIDE DEF x, m
      <4>1. QED
        BY <1>3, <1>5, <3>1
    <3>3. QED
      BY <3>1, <3>2
  <2>3. QED
    BY <1>5, <2>1, <2>2 DEF Starts
<1>6. QED
  BY <1>4, <1>5 DEF FirstOf

(* What a wrapper runs is the next word that it does not take for itself.   *)
LEMMA NextReached ==
  ASSUME NEW C, NEW words \in Seq(C), NEW i \in DOMAIN words
  PROVE  /\ NextOf(words, i) \in (i + 1)..(Len(words) + 1)
         /\ \A j : Reaches(words, i, j) <=> Wraps(words, i) /\ j = NextOf(words, i)
<1> DEFINE n == Len(words)
           cmd == CanonicalCmd(words[i])
           x == {j \in (i + 1)..(n + 1) : j \in DOMAIN words => ~Skips(cmd, words[j])}
           m == Min(x)
<1> HIDE DEF cmd
<1>1. n \in Nat /\ DOMAIN words = 1..n /\ n + 1 \in Nat /\ i \in 1..n
  BY LenProperties
<1>2. n + 1 \in x /\ x \in SUBSET (1..(n + 1))
  BY <1>1
<1>3. m \in x /\ \A j \in x : m <= j
  <2> HIDE DEF x
  <2>1. m \in x
    BY <1>1, <1>2, MinOf
  <2>2. \E k \in x : \A j \in x : k <= j
    BY <1>1, <1>2, SmallestOf
  <2>3. QED
    BY <2>2 DEF Min
<1>4. NextOf(words, i) = m
  BY DEF NextOf, Behind, cmd
<1>5. m \in (i + 1)..(n + 1)
  BY <1>3
<1>6. ASSUME NEW j, Reaches(words, i, j) PROVE cmd \in Wrappers /\ m \in DOMAIN words /\ j = m
  <2>1. cmd \in Wrappers /\ i < j /\ j \in 1..n /\ \A k \in (i + 1)..j : Skips(cmd, words[k]) <=> k # j
    BY <1>1, <1>6 DEF Reaches, cmd
  <2>2. j \in (i + 1)..(n + 1) /\ j \in (i + 1)..j
    BY <1>1, <2>1
  <2>3. j \in x
    BY <2>1, <2>2
  <2>4. ASSUME NEW k \in (i + 1)..(j - 1) PROVE k \notin x
    <3>1. k \in (i + 1)..j /\ k # j /\ k \in DOMAIN words
      BY <1>1, <2>1
    <3>2. QED
      BY <2>1, <3>1
  <2> HIDE DEF x, m
  <2>5. m <= j /\ ~(m \in (i + 1)..(j - 1))
    BY <1>3, <2>3, <2>4
  <2>6. j = m
    BY <1>1, <1>5, <2>2, <2>5
  <2>7. QED
    BY <1>1, <2>1, <2>6
<1>7. ASSUME cmd \in Wrappers, m \in DOMAIN words PROVE Reaches(words, i, m)
  <2>1. i < m /\ m \in 1..n /\ ~Skips(cmd, words[m])
    BY <1>1, <1>3, <1>5, <1>7
  <2>2. ASSUME NEW k \in (i + 1)..m, k # m PROVE Skips(cmd, words[k])
    <3>1. k \in (i + 1)..(n + 1) /\ k \in DOMAIN words /\ ~(m <= k)
      BY <1>1, <2>1, <2>2
    <3>2. k \notin x
      <4> HIDE DEF x, m
      <4>1. QED
        BY <1>3, <3>1
    <3>3. QED
      BY <3>1, <3>2
  <2>3. QED
    BY <1>7, <2>1, <2>2 DEF Reaches, cmd
<1> HIDE DEF m
<1>8. QED
  BY <1>4, <1>5, <1>6, <1>7 DEF Wraps, cmd

(* The name that is found at each word: its own, or the one it wraps.       *)
NamesFrom(g, words, lo) ==
  g = [i \in lo..Len(words) |->
         IF Wraps(words, i) THEN g[NextOf(words, i)] ELSE CanonicalCmd(words[i])]

(* There is such a name at each word, found from the last word back.        *)
LEMMA NamesBack ==
  ASSUME NEW C, NEW words \in Seq(C)
  PROVE  \E g : NamesFrom(g, words, 1)
<1> DEFINE n == Len(words)
           T == {m \in Nat : m <= n => \E g : NamesFrom(g, words, (n - m) + 1)}
<1>1. n \in Nat /\ DOMAIN words = 1..n
  BY LenProperties
<1>2. 0 \in T
  <2> DEFINE g == [i \in {} |-> 0]
  <2>1. (n - 0) + 1 > n /\ ((n - 0) + 1)..n = {}
    BY <1>1
  <2>2. NamesFrom(g, words, (n - 0) + 1)
    BY <2>1 DEF NamesFrom
  <2>3. QED
    BY <2>2
<1>3. ASSUME NEW m \in Nat, m \in T PROVE m + 1 \in T
  <2>1. SUFFICES ASSUME m + 1 <= n PROVE \E g : NamesFrom(g, words, (n - (m + 1)) + 1)
    OBVIOUS
  <2> DEFINE lo == n - m
             own == CanonicalCmd(words[lo])
  <2>2. /\ m <= n /\ lo \in 1..n /\ (n - (m + 1)) + 1 = lo /\ (n - m) + 1 = lo + 1
        /\ \A i \in lo..n : i \in DOMAIN words /\ (i # lo => i \in (lo + 1)..n)
        /\ \A i \in (lo + 1)..n : i \in lo..n
    <3>1. m <= n /\ lo \in 1..n /\ (n - (m + 1)) + 1 = lo /\ (n - m) + 1 = lo + 1
      BY <1>1, <2>1
    <3> HIDE DEF lo
    <3>2. \A i \in lo..n : i \in DOMAIN words /\ (i # lo => i \in (lo + 1)..n)
      BY <1>1, <3>1
    <3>3. \A i \in (lo + 1)..n : i \in lo..n
      BY <1>1, <3>1
    <3>4. QED
      BY <3>1, <3>2, <3>3
  <2>3. PICK g : NamesFrom(g, words, lo + 1)
    BY <1>3, <2>2
  <2> HIDE DEF lo, own
  <2>4. \A i \in (lo + 1)..n :
          g[i] = IF Wraps(words, i) THEN g[NextOf(words, i)] ELSE CanonicalCmd(words[i])
    BY <2>3 DEF NamesFrom
  <2>5. ASSUME NEW i \in lo..n, Wraps(words, i)
        PROVE  NextOf(words, i) \in (lo + 1)..n /\ NextOf(words, i) \in lo..n /\ NextOf(words, i) # lo
    <3>1. i \in DOMAIN words /\ i \in Int /\ lo \in Int
      BY <2>2
    <3>2. NextOf(words, i) \in (i + 1)..(n + 1)
      BY <3>1, NextReached
    <3>3. NextOf(words, i) \in 1..n
      BY <1>1, <2>5 DEF Wraps
    <3>4. QED
      BY <2>2, <3>1, <3>2, <3>3
  <2> DEFINE h == [i \in lo..n |->
                     IF i = lo THEN IF Wraps(words, lo) THEN g[NextOf(words, lo)] ELSE own ELSE g[i]]
  <2>6. ASSUME NEW i \in lo..n
        PROVE  h[i] = IF Wraps(words, i) THEN h[NextOf(words, i)] ELSE CanonicalCmd(words[i])
    <3>1. Wraps(words, i) => h[NextOf(words, i)] = g[NextOf(words, i)]
      BY <2>5
    <3>2. CASE i = lo
      BY <3>1, <3>2 DEF own
    <3>3. CASE i # lo
      <4>1. h[i] = g[i] /\ i \in (lo + 1)..n
        BY <2>2, <3>3
      <4> HIDE DEF h
      <4>2. QED
        BY <2>4, <3>1, <4>1
    <3>4. QED
      BY <3>2, <3>3
  <2>7. h = [i \in lo..n |-> h[i]]
    OBVIOUS
  <2> HIDE DEF h
  <2>8. NamesFrom(h, words, lo)
    BY <2>6, <2>7 DEF NamesFrom
  <2>9. QED
    BY <2>2, <2>8
<1> HIDE DEF T
<1>4. n \in T
  BY <1>1, <1>2, <1>3, Naturally
<1>5. (n - n) + 1 = 1 /\ n <= n
  BY <1>1
<1>6. QED
  BY <1>4, <1>5 DEF T

(* Unwrap takes the name at the first word that is no assignment.           *)
LEMMA UnwrapIs ==
  ASSUME NEW C, NEW words \in Seq(C)
  PROVE  \E g : /\ \A i \in DOMAIN words :
                     g[i] = IF Wraps(words, i) THEN g[NextOf(words, i)] ELSE CanonicalCmd(words[i])
                /\ Unwrap(words) = IF FirstOf(words) \in DOMAIN words THEN g[FirstOf(words)] ELSE <<>>
<1> DEFINE Eq(g) == g = [i \in DOMAIN words |->
                           IF Wraps(words, i) THEN g[NextOf(words, i)] ELSE CanonicalCmd(words[i])]
           ch == CHOOSE g : Eq(g)
<1>1. DOMAIN words = 1..Len(words)
  BY LenProperties
<1>2. PICK g : NamesFrom(g, words, 1)
  BY NamesBack
<1>3. Eq(g)
  BY <1>1, <1>2 DEF NamesFrom
<1>4. Eq(ch)
  BY <1>3
<1>5. Unwrap(words) = IF FirstOf(words) \in DOMAIN words THEN ch[FirstOf(words)] ELSE <<>>
  BY DEF Unwrap, Wraps, NextOf, FirstOf
<1> HIDE DEF ch
<1>6. QED
  BY <1>4, <1>5

(* The word at k is reached from the start, over words that wrap the next.  *)
Reached(words, k) ==
  \E K \in SUBSET (1..k) :
    k \in K /\ \A j \in K : Starts(words, j) \/ \E i \in K : Reaches(words, i, j)

(* The name of a command is the one that Unwrap takes.                      *)
LEMMA NameTaken ==
  ASSUME NEW C, NEW words \in Seq(C), NEW k \in DOMAIN words, Names(words, k)
  PROVE  FirstOf(words) \in DOMAIN words /\ Unwrap(words) = CanonicalCmd(words[k])
<1> DEFINE n == Len(words)
           first == FirstOf(words)
<1>1. n \in Nat /\ DOMAIN words = 1..n /\ k \in 1..n
  BY LenProperties
<1>2. PICK K \in SUBSET (1..k) :
        k \in K /\ \A j \in K : Starts(words, j) \/ \E i \in K : Reaches(words, i, j)
  BY DEF Names
<1>3. PICK g : /\ \A i \in DOMAIN words :
                    g[i] = IF Wraps(words, i) THEN g[NextOf(words, i)] ELSE CanonicalCmd(words[i])
               /\ Unwrap(words) = IF first \in DOMAIN words THEN g[first] ELSE <<>>
  BY UnwrapIs
<1> DEFINE T == {m \in Nat : \A i \in K : i <= m => first \in DOMAIN words /\ g[i] = g[first]}
<1> HIDE DEF first
<1>4. \A i \in K : i \in DOMAIN words /\ i \in Nat /\ i >= 1
  BY <1>1, <1>2
<1>5. 0 \in T
  BY <1>4
<1>6. ASSUME NEW m \in Nat, m \in T PROVE m + 1 \in T
  <2>1. SUFFICES ASSUME NEW i \in K, i <= m + 1 PROVE first \in DOMAIN words /\ g[i] = g[first]
    OBVIOUS
  <2>2. CASE Starts(words, i)
    BY <2>2, FirstStarts DEF first
  <2>3. CASE \E j \in K : Reaches(words, j, i)
    <3>1. PICK j \in K : Reaches(words, j, i)
      BY <2>3
    <3>2. j < i /\ j \in DOMAIN words
      BY <1>4, <3>1 DEF Reaches
    <3>3. j <= m
      BY <1>4, <2>1, <3>2
    <3>4. Wraps(words, j) /\ i = NextOf(words, j)
      BY <3>1, <3>2, NextReached
    <3>5. g[j] = g[i]
      BY <1>3, <3>2, <3>4
    <3>6. QED
      BY <1>6, <3>3, <3>5
  <2>4. QED
    BY <1>2, <2>2, <2>3
<1> HIDE DEF T
<1>7. k \in T
  BY <1>1, <1>5, <1>6, Naturally
<1>8. first \in DOMAIN words /\ g[k] = g[first]
  BY <1>1, <1>2, <1>7 DEF T
<1>9. ~Wraps(words, k)
  <2>1. ~\E j \in DOMAIN words : Reaches(words, k, j)
    BY DEF Names
  <2>2. QED
    BY <2>1, NextReached DEF Wraps
<1>10. QED
  BY <1>3, <1>8, <1>9 DEF first

(* Where a command starts, one is named.                                    *)
LEMMA NameFound ==
  ASSUME NEW C, NEW words \in Seq(C), FirstOf(words) \in DOMAIN words
  PROVE  \E k \in DOMAIN words : Names(words, k)
<1> DEFINE n == Len(words)
           first == FirstOf(words)
           Q == {k \in 1..n : Reached(words, k)}
           k == Max(Q)
<1> HIDE DEF first
<1>1. n \in Nat /\ DOMAIN words = 1..n /\ first \in 1..n
  BY LenProperties DEF first
<1>2. Reached(words, first)
  <2>1. Starts(words, first)
    BY <1>1, FirstStarts DEF first
  <2>2. {first} \in SUBSET (1..first) /\ first \in {first}
    BY <1>1
  <2>3. QED
    BY <2>1, <2>2 DEF Reached
<1>3. Q \in SUBSET (1..n) /\ Q # {}
  BY <1>1, <1>2
<1>4. k \in Q /\ \A j \in Q : j <= k
  <2> HIDE DEF Q
  <2>1. QED
    BY <1>1, <1>3, MaxOf
<1>5. k \in 1..n /\ Reached(words, k)
  BY <1>4
<1>6. ASSUME NEW j \in DOMAIN words, Reaches(words, k, j) PROVE FALSE
  <2>1. k < j /\ j \in 1..n
    BY <1>1, <1>6 DEF Reaches
  <2>2. j \in Q => j <= k
    BY <1>4
  <2> HIDE DEF k
  <2>3. PICK K \in SUBSET (1..k) :
          k \in K /\ \A i \in K : Starts(words, i) \/ \E h \in K : Reaches(words, h, i)
    BY <1>5 DEF Reached
  <2> DEFINE L == K \cup {j}
  <2>4. L \in SUBSET (1..j) /\ j \in L
    <3>1. \A i \in 1..k : i \in 1..j
      BY <1>1, <1>5, <2>1
    <3>2. j \in 1..j
      BY <1>1, <2>1
    <3>3. QED
      BY <3>1, <3>2
  <2>5. ASSUME NEW i \in L PROVE Starts(words, i) \/ \E h \in L : Reaches(words, h, i)
    BY <1>6, <2>3
  <2> HIDE DEF L
  <2>6. Reached(words, j)
    BY <2>4, <2>5 DEF Reached
  <2>7. j <= k
    BY <2>1, <2>2, <2>6
  <2>8. QED
    BY <1>1, <1>5, <2>1, <2>7
<1> HIDE DEF k
<1>7. QED
  BY <1>1, <1>5, <1>6 DEF Names, Reached

(* A command is blocked if the name of it is; without a command none is.    *)
LEMMA BlockedByName ==
  ASSUME NEW C, NEW words \in Seq(C), NEW blocked, <<>> \notin blocked, NEW windows,
         \A b \in blocked : \E X : b \in Seq(X)
  PROVE  IsBlocked(Unwrap(words), blocked, windows)
         <=> \E k \in DOMAIN words : Names(words, k) /\ IsBlocked(CanonicalCmd(words[k]), blocked, windows)
<1> DEFINE Is(name) == IsBlocked(name, blocked, windows)
<1>1. ~Is(<<>>)
  <2>1. At(<<>>, 1) = "end" /\ "end" # "mkfs"
    BY DEF At
  <2>2. ASSUME NEW b \in blocked, NEW x \in Programs PROVE <<>> # b \o <<".", x>>
    <3>1. PICK Y : b \in Seq(Y)
      OBVIOUS
    <3> DEFINE t == <<".", x>>
               X == Y \cup {".", x}
    <3>2. t \in Seq(X) /\ Len(t) = 2
      OBVIOUS
    <3> HIDE DEF t, X
    <3>3. b \in Seq(X) /\ Len(b) \in Nat
      <4>1. Y \subseteq X
        BY DEF X
      <4>2. QED
        BY <3>1, <4>1, SeqMonotonic, LenProperties
    <3>4. Len(b \o t) = Len(b) + 2
      <4>1. b \in Seq(X) /\ t \in Seq(X)
        BY <3>2, <3>3
      <4>2. Len(b \o t) = Len(b) + Len(t)
        BY <4>1, ConcatProperties, Zenon
      <4>3. QED
        BY <3>2, <4>2, Zenon
    <3>5. Len(<<>>) = 0 /\ Len(b) + 2 # 0
      BY <3>3
    <3> DEFINE r == b \o t
               none == << >>
    <3>6. Len(r) # Len(none)
      BY <3>4, <3>5
    <3> HIDE DEF r, none
    <3>7. r # none
      BY <3>6
    <3>8. QED
      BY <3>7, Zenon DEF t, r, none
  <2>3. QED
    BY <2>1, <2>2 DEF IsBlocked
<1>2. (FirstOf(words) \in DOMAIN words) \/ Unwrap(words) = <<>>
  BY UnwrapIs
<1> HIDE DEF Is
<1>3. ASSUME NEW k \in DOMAIN words, Names(words, k), Is(CanonicalCmd(words[k])) PROVE Is(Unwrap(words))
  BY <1>3, NameTaken
<1>4. ASSUME Is(Unwrap(words)) PROVE \E k \in DOMAIN words : Names(words, k) /\ Is(CanonicalCmd(words[k]))
  <2>1. FirstOf(words) \in DOMAIN words
    BY <1>1, <1>2, <1>4
  <2>2. PICK k \in DOMAIN words : Names(words, k)
    BY <2>1, NameFound
  <2>3. QED
    BY <1>4, <2>2, NameTaken
<1>5. QED
  BY <1>3, <1>4 DEF Is

----------------------------------------------------------------------------
(* Without takes x out of a sequence and leaves what else is in it.         *)
LEMMA WithoutSet ==
  ASSUME NEW C, NEW x, NEW s \in Seq(C)
  PROVE  \A e : e \in ToSet(Without(x, s)) <=> e \in ToSet(s) /\ e # x
<1> DEFINE W(u) == Without(x, u)
           T == {u \in Seq(C) : \A e : e \in ToSet(W(u)) <=> e \in ToSet(u) /\ e # x}
<1>1. <<>> \in T
  <2>1. W(<<>>) = <<>> /\ <<>> \in Seq(C)
    BY WithoutOne, EmptySeq
  <2>2. \A e : e \notin ToSet(<<>>)
    BY DEF ToSet
  <2>3. QED
    BY <2>1, <2>2
<1>2. ASSUME NEW u \in Seq(C), NEW a \in C PROVE /\ Append(u, a) \in Seq(C)
                                                /\ \A e : e \in ToSet(Append(u, a)) <=> e \in ToSet(u) \/ e = a
  <2> DEFINE t == Append(u, a)
  <2>1. /\ t \in Seq(C) /\ Len(t) = Len(u) + 1 /\ Len(u) \in Nat /\ t[Len(u) + 1] = a
        /\ DOMAIN t = 1..(Len(u) + 1) /\ DOMAIN u = 1..Len(u) /\ \A i \in 1..Len(u) : t[i] = u[i]
    BY AppendProperties, LenProperties
  <2> HIDE DEF t
  <2>2. \A i \in DOMAIN t : i \in DOMAIN u \/ i = Len(u) + 1
    BY <2>1
  <2>3. Len(u) + 1 \in DOMAIN t /\ \A i \in DOMAIN u : i \in DOMAIN t
    BY <2>1
  <2>4. \A e : e \in ToSet(t) <=> e \in ToSet(u) \/ e = a
    BY <2>1, <2>2, <2>3 DEF ToSet
  <2>5. QED
    BY <2>1, <2>4 DEF t
<1> HIDE DEF W
<1>3. ASSUME NEW u \in Seq(C), NEW a \in C, u \in T PROVE Append(u, a) \in T
  <2>1. W(u) \in Seq(C) /\ W(Append(u, a)) = IF a = x THEN W(u) ELSE Append(W(u), a)
    BY WithoutMore DEF W, Leaves
  <2>2. \A e : e \in ToSet(Append(W(u), a)) <=> e \in ToSet(W(u)) \/ e = a
    BY <1>2, <2>1
  <2>3. \A e : e \in ToSet(W(Append(u, a))) <=> e \in ToSet(W(u)) \/ (e = a /\ a # x)
    BY <2>1, <2>2, Zenon
  <2>4. QED
    BY <1>2, <1>3, <2>3
<1> HIDE DEF T
<1>4. s \in T
  BY <1>1, <1>3, ByAppend
<1>5. QED
  BY <1>4 DEF T, W

(* The words of a line are made of its symbols; an empty line has none.     *)
LEMMA FieldsOf ==
  ASSUME NEW C, NEW s \in Seq(C), NEW d
  PROVE  ShellFields(s, d) \in Seq(Seq(C)) /\ (s = <<>> => ShellFields(s, d) = <<>>)
<1> DEFINE mark == Marks(s, d)
           end == Fielded(mark, s)
<1>1. ShellFields(s, d) = Flush(end).words
  BY DEF ShellFields, Fielded, NoFields
<1>2. PICK g : FieldsAlong(g, mark, s, C)
  BY FieldTrace
<1> HIDE DEF mark
<1>3. Len(s) \in Nat /\ (s = <<>> => Len(s) = 0) /\ Len(s) \in 0..Len(s)
  BY LenProperties
<1>4. end = g[Len(s)] /\ g[0] = NoFields /\ g \in [0..Len(s) -> FieldStates(C)]
  BY <1>2 DEF FieldsAlong
<1>5. end \in FieldStates(C) /\ (s = <<>> => end = NoFields)
  BY <1>3, <1>4
<1> HIDE DEF end
<1>6. end.words \in Seq(Seq(C)) /\ end.word \in Seq(C)
  BY <1>5 DEF FieldStates
<1>7. Flush(end).words \in Seq(Seq(C))
  <2>1. Append(end.words, end.word) \in Seq(Seq(C))
    BY <1>6, AppendProperties
  <2>2. QED
    BY <1>6, <2>1 DEF Flush
<1>8. s = <<>> => Flush(end).words = <<>>
  BY <1>5 DEF Flush, NoFields
<1>9. QED
  BY <1>1, <1>7, <1>8

(* The words of a part are sequences of symbols; without text there is none.*)
LEMMA PartWords ==
  ASSUME NEW d \in Dialects, NEW p, IsPart(d, p)
  PROVE  /\ ShellFields(TrimSpace(PartText(d, p)), d) = WordsOf(p)
         /\ \E C : WordsOf(p) \in Seq(C)
         /\ TrimSpace(PartText(d, p)) = <<>> => WordsOf(p) = <<>>
<1>1. PartReads(d, p) /\ PartIs(d, p)
  BY PartsRead, PartsAre
<1>2. ShellFields(TrimSpace(PartText(d, p)), d) = WordsOf(p)
  BY <1>1, Zenon DEF PartReads
<1>3. PartText(d, p) \in Seq(LineSymbols)
  BY <1>1 DEF PartReads, Calm, Closed
<1>4. TrimSpace(PartText(d, p)) \in Seq(LineSymbols)
  BY <1>3, TrimSpaceText
<1>5. QED
  BY <1>2, <1>4, FieldsOf

(* A line that is composed of parts is rejected when one of its commands is *)
(* blocked or, where that is looked for, it has a fork bomb in it or leaves *)
(* a command of sh in the background, and only then; unless that is not     *)
(* looked for and a command of sh is left in the background                 *)
(* (RejectDangerousCommand).                                                *)
THEOREM LineJudged ==
  ASSUME NEW d \in Dialects, NEW parts, IsLine(d, parts), NEW line, TrimSpace(line) = LineText(d, parts),
         NEW blocked, blocked \subseteq Seq(STRING), <<>> \notin blocked, NEW windows, NEW heuristics,
         heuristics \/ ~Backgrounds(d, parts)
  PROVE  RejectDangerousCommand(line, d, windows, blocked, heuristics)
         <=> \/ \E name \in CommandsOf(parts) : IsBlocked(name, Blocklist(d, windows, blocked), windows)
             \/ heuristics /\ (Backgrounds(d, parts) \/ LooksLikeForkBomb(TrimSpace(line)))
<1> DEFINE list == Blocklist(d, windows, blocked)
           Is(name) == IsBlocked(name, list, windows)
           s == LineText(d, parts)
           m == PartTexts(d, parts)
           Names1(i) == \E k \in DOMAIN WordsOf(parts[i]) :
                          /\ Names(WordsOf(parts[i]), k)
                          /\ Is(CanonicalCmd(WordsOf(parts[i])[k]))
<1>1. LineReads(d, parts)
  BY LinesRead
<1>2. /\ ~Backgrounds(d, parts) => Segments(s, d) = Without(<<>>, m)
      /\ m \in Seq(Seq(LineSymbols))
      /\ d = "sh" => (HasBackgroundAmpersand(s) <=> Backgrounds(d, parts))
  BY <1>1, Zenon DEF LineReads
<1>3. DOMAIN m = DOMAIN parts /\ \A i \in DOMAIN parts : m[i] = TrimSpace(PartText(d, parts[i]))
  BY DEF PartTexts
<1> HIDE DEF m, s, Is
<1>4. ASSUME ~Backgrounds(d, parts)
      PROVE  \A e : e \in ToSet(Segments(s, d)) <=> e # <<>> /\ \E i \in DOMAIN parts : e = m[i]
  <2>1. \A e : e \in ToSet(Without(<<>>, m)) <=> e \in ToSet(m) /\ e # <<>>
    BY <1>2, WithoutSet
  <2>2. \A e : e \in ToSet(m) <=> \E i \in DOMAIN parts : e = m[i]
    BY <1>3 DEF ToSet
  <2>3. QED
    BY <1>2, <1>4, <2>1, <2>2
<1>5. ASSUME NEW i \in DOMAIN parts
      PROVE  /\ Is(Unwrap(ShellFields(m[i], d))) <=> Names1(i)
             /\ m[i] = <<>> => ~Names1(i)
  <2> DEFINE w == WordsOf(parts[i])
  <2>1. IsPart(d, parts[i])
    BY DEF IsLine
  <2>2. ShellFields(m[i], d) = w /\ (\E C : w \in Seq(C)) /\ (m[i] = <<>> => w = <<>>)
    BY <1>3, <2>1, PartWords
  <2> HIDE DEF w
  <2>3. PICK C : w \in Seq(C)
    BY <2>2
  <2>4. Is(Unwrap(w))
        <=> \E k \in DOMAIN w : Names(w, k) /\ Is(CanonicalCmd(w[k]))
    <3>1. (\A b \in list : \E X : b \in Seq(X)) /\ <<>> \notin list
      <4>1. <<"format">> \in Seq({"format"}) /\ <<"format">> # <<>>
        OBVIOUS
      <4>2. \A b \in list : b \in blocked \/ b = <<"format">>
        BY DEF Blocklist
      <4>3. ASSUME NEW b \in list PROVE (\E X : b \in Seq(X)) /\ b # <<>>
        <5>1. CASE b \in blocked
          BY <5>1
        <5>2. CASE b = <<"format">>
          BY <4>1, <5>2, Zenon
        <5>3. QED
          BY <4>2, <5>1, <5>2
      <4>4. QED
        BY <4>3
    <3> HIDE DEF list
    <3>2. QED
      BY <2>3, <3>1, BlockedByName DEF Is
  <2>5. w = <<>> => DOMAIN w = {}
    OBVIOUS
  <2>6. QED
    BY <2>2, <2>4, <2>5 DEF w
<1> HIDE DEF Names1
<1>6. ASSUME ~Backgrounds(d, parts)
      PROVE  (\E seg \in ToSet(Segments(s, d)) : Is(Unwrap(ShellFields(seg, d))))
      <=> \E i \in DOMAIN parts : Names1(i)
  <2>1. ASSUME NEW seg \in ToSet(Segments(s, d)), Is(Unwrap(ShellFields(seg, d)))
        PROVE  \E i \in DOMAIN parts : Names1(i)
    <3>1. PICK i \in DOMAIN parts : seg = m[i]
      BY <1>4, <1>6
    <3>2. QED
      BY <1>5, <2>1, <3>1
  <2>2. ASSUME NEW i \in DOMAIN parts, Names1(i)
        PROVE  \E seg \in ToSet(Segments(s, d)) : Is(Unwrap(ShellFields(seg, d)))
    <3>1. m[i] \in ToSet(Segments(s, d))
      BY <1>4, <1>5, <1>6, <2>2
    <3>2. Is(Unwrap(ShellFields(m[i], d)))
      BY <1>5, <2>2
    <3>3. QED
      BY <3>1, <3>2
  <2>3. QED
    BY <2>1, <2>2
<1>7. (\E name \in CommandsOf(parts) : Is(name)) <=> \E i \in DOMAIN parts : Names1(i)
  <2>1. \A name : name \in CommandsOf(parts)
          <=> \E i \in DOMAIN parts : \E k \in DOMAIN WordsOf(parts[i]) :
                Names(WordsOf(parts[i]), k) /\ name = CanonicalCmd(WordsOf(parts[i])[k])
    BY DEF CommandsOf
  <2>2. QED
    BY <2>1 DEF Names1
<1>8. RejectDangerousCommand(line, d, windows, blocked, heuristics)
      <=> \/ heuristics /\ LooksLikeForkBomb(TrimSpace(line))
          \/ heuristics /\ d = "sh" /\ HasBackgroundAmpersand(s)
          \/ \E seg \in ToSet(Segments(s, d)) : Is(Unwrap(ShellFields(seg, d)))
  BY DEF RejectDangerousCommand, s, Is
<1>9. CASE Backgrounds(d, parts)
  <2>1. heuristics /\ d = "sh" /\ HasBackgroundAmpersand(s)
    BY <1>2, <1>9 DEF Backgrounds
  <2>2. QED
    BY <1>8, <1>9, <2>1
<1>10. CASE ~Backgrounds(d, parts)
  <2>1. ~(d = "sh" /\ HasBackgroundAmpersand(s))
    BY <1>2, <1>10
  <2>2. (\E seg \in ToSet(Segments(s, d)) : Is(Unwrap(ShellFields(seg, d))))
        <=> \E name \in CommandsOf(parts) : Is(name)
    BY <1>6, <1>7, <1>10
  <2>3. QED
    BY <1>8, <1>10, <2>1, <2>2 DEF Is
<1>11. QED
  BY <1>9, <1>10

=============================================================================
