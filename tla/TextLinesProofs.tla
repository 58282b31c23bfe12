-------------------------- MODULE TextLinesProofs --------------------------
(* Proofs about TextLines, for every text and every block of lines: how a   *)
(* text is cut into lines and put together again, where a block is found    *)
(* and what replacing it makes of the lines.                                *)
(*                                                                          *)
(* The operators are folds. The library's induction theorems take a         *)
(* property as a parameter; here each induction is over a set that the      *)
(* property defines (Naturally, ByAppend).                                  *)
EXTENDS TextLines, TLAPS, SequenceTheorems, FiniteSetTheorems

(* Induction on the natural numbers, for a set.                             *)
LEMMA Naturally ==
  ASSUME NEW T, 0 \in T, \A n \in Nat : n \in T => n + 1 \in T
  PROVE  \A n \in Nat : n \in T
<1> DEFINE Out == {n \in Nat : n \notin T}
<1>1. SUFFICES ASSUME Out # {} PROVE FALSE
  OBVIOUS
<1>2. PICK k \in Out : \A j \in Out : ~(<<j, k>> \in OpToRel(<, Nat))
  <2>1. Out \subseteq Nat
    OBVIOUS
  <2> HIDE DEF Out
  <2>2. QED
    BY <1>1, <2>1, NatLessThanWellFounded, WFMin
<1>3. \A j \in Out : ~(j < k)
  BY <1>2 DEF OpToRel
<1>4. k # 0 /\ k \in Nat
  OBVIOUS
<1>5. k - 1 \in Nat /\ k - 1 < k /\ (k - 1) + 1 = k
  BY <1>4
<1>6. k - 1 \in T
  BY <1>3, <1>5
<1>7. QED
  BY <1>5, <1>6

(* Induction on sequences, for a set.                                       *)
LEMMA ByAppend ==
  ASSUME NEW C, NEW T, <<>> \in T,
         \A s \in Seq(C), e \in C : s \in T => Append(s, e) \in T
  PROVE  Seq(C) \subseteq T
<1> DEFINE N == {n \in Nat : \A s \in Seq(C) : Len(s) = n => s \in T}
<1>1. 0 \in N
  BY EmptySeq
<1>2. ASSUME NEW n \in Nat, n \in N PROVE n + 1 \in N
  <2>1. SUFFICES ASSUME NEW s \in Seq(C), Len(s) = n + 1 PROVE s \in T
    OBVIOUS
  <2>2. s # <<>>
    BY <2>1
  <2>3. PICK t \in Seq(C), e \in C : s = Append(t, e)
    BY <2>2, SequenceEmptyOrAppend
  <2>4. Len(t) = n
    BY <1>2, <2>1, <2>3, AppendProperties, LenProperties
  <2>5. QED
    BY <1>2, <2>3, <2>4
<1> HIDE DEF N
<1>3. \A n \in Nat : n \in N
  BY <1>1, <1>2, Naturally
<1>4. QED
  BY <1>3, LenProperties DEF N

(* The largest element of a set of indices.                                 *)
LEMMA MaxOf ==
  ASSUME NEW n \in Nat, NEW x \in SUBSET (1..n), x # {}
  PROVE  Max(x) \in x /\ \A y \in x : y <= Max(x)
<1> DEFINE T == {k \in Nat : \A z \in SUBSET (1..k) : z # {} => \E m \in z : \A y \in z : m >= y}
<1>1. 0 \in T
  <2>1. 1..0 = {}
    OBVIOUS
  <2>2. QED
    BY <2>1
<1>2. ASSUME NEW k \in Nat, k \in T PROVE k + 1 \in T
  <2>1. SUFFICES ASSUME NEW z \in SUBSET (1..(k + 1)), z # {}
                 PROVE  \E m \in z : \A y \in z : m >= y
    OBVIOUS
  <2>2. CASE k + 1 \in z
    BY <2>2
  <2>3. CASE k + 1 \notin z
    <3>1. z \in SUBSET (1..k)
      BY <2>3
    <3>2. QED
      BY <1>2, <2>1, <3>1
  <2>4. QED
    BY <2>2, <2>3
<1> HIDE DEF T
<1>3. n \in T
  BY <1>1, <1>2, Naturally
<1>4. \E m \in x : \A y \in x : m >= y
  BY <1>3 DEF T
<1>5. QED
  BY <1>4 DEF Max

(* Max of 1..i is i.                                                        *)
LEMMA MaxOfUpto ==
  ASSUME NEW n \in Nat, NEW i \in 1..n
  PROVE  Max(1..i) = i /\ (1..i) \ {i} = 1..(i - 1)
<1>1. 1..i \in SUBSET (1..n) /\ 1..i # {} /\ i \in 1..i
  OBVIOUS
<1>2. Max(1..i) \in 1..i /\ i <= Max(1..i)
  BY <1>1, MaxOf
<1>3. QED
  BY <1>2

(* Sets of indices up to k + 1, with and without k + 1.                     *)
LEMMA OneMore ==
  ASSUME NEW k \in Nat, NEW x \in SUBSET (1..(k + 1))
  PROVE  /\ k + 1 \notin x => x \in SUBSET (1..k)
         /\ x \ {k + 1} \in SUBSET (1..k)
         /\ k + 1 \in x => Max(x) = k + 1
         /\ x # {} => Max(x) \in x
<1>1. k + 1 \in Nat
  OBVIOUS
<1>2. x # {} => Max(x) \in x /\ \A y \in x : y <= Max(x)
  BY <1>1, MaxOf
<1>3. \A y \in x : y \in 1..(k + 1)
  OBVIOUS
<1>4. ASSUME k + 1 \in x PROVE Max(x) = k + 1
  <2>1. Max(x) \in 1..(k + 1) /\ k + 1 <= Max(x)
    BY <1>2, <1>3, <1>4
  <2>2. QED
    BY <2>1
<1>5. x \ {k + 1} \in SUBSET (1..k)
  <2>1. \A y \in 1..(k + 1) : y # k + 1 => y \in 1..k
    OBVIOUS
  <2>2. QED
    BY <2>1
<1>6. QED
  BY <1>2, <1>4, <1>5

(* it is what a fold from the left over k elements computes, on the sets of *)
(* its indices.                                                             *)
FoldsTo(it, base, step, k) ==
  \A x \in SUBSET (1..k) :
    it[x] = IF x = {} THEN base ELSE step[it[x \ {Max(x)}]][Max(x)]

(* The recursion of a fold from the left has a solution.                    *)
LEMMA LeftFold ==
  ASSUME NEW A, NEW base \in A, NEW n \in Nat, NEW step \in [A -> [1..n -> A]]
  PROVE  \E it \in [SUBSET (1..n) -> A] : FoldsTo(it, base, step, n)
<1> DEFINE Some(k) == \E it \in [SUBSET (1..k) -> A] : FoldsTo(it, base, step, k)
           T == {k \in Nat : k <= n => Some(k)}
<1>1. 0 \in T
  <2> DEFINE none == [x \in SUBSET (1..0) |-> base]
  <2>1. 1..0 = {}
    OBVIOUS
  <2>2. none \in [SUBSET (1..0) -> A] /\ \A x \in SUBSET (1..0) : x = {} /\ none[x] = base
    BY <2>1
  <2> HIDE DEF none
  <2>3. FoldsTo(none, base, step, 0)
    BY <2>2 DEF FoldsTo
  <2>4. QED
    BY <2>2, <2>3
<1>2. ASSUME NEW k \in Nat, k \in T PROVE k + 1 \in T
  <2> HIDE DEF Some
  <2>1. SUFFICES ASSUME k + 1 <= n PROVE Some(k + 1)
    OBVIOUS
  <2>2. PICK old \in [SUBSET (1..k) -> A] : FoldsTo(old, base, step, k)
    <3>1. k <= n
      BY <2>1
    <3>2. QED
      BY <1>2, <3>1 DEF Some
  <2> DEFINE new == [x \in SUBSET (1..(k + 1)) |->
                       IF k + 1 \in x THEN step[old[x \ {k + 1}]][k + 1] ELSE old[x]]
  <2>3. new \in [SUBSET (1..(k + 1)) -> A]
    <3>1. ASSUME NEW x \in SUBSET (1..(k + 1)) PROVE new[x] \in A
      <4>1. CASE k + 1 \in x
        <5>1. old[x \ {k + 1}] \in A /\ k + 1 \in 1..n
          BY <2>1, <2>2, OneMore
        <5>2. QED
          BY <4>1, <5>1, SMTT(60)
      <4>2. CASE k + 1 \notin x
        BY <2>2, OneMore, <4>2
      <4>3. QED
        BY <4>1, <4>2
    <3>2. QED
      BY <3>1
  <2>4. ASSUME NEW x \in SUBSET (1..(k + 1))
        PROVE  new[x] = IF x = {} THEN base ELSE step[new[x \ {Max(x)}]][Max(x)]
    <3>1. CASE k + 1 \in x
      <4>1. x \ {k + 1} \in SUBSET (1..(k + 1)) /\ k + 1 \notin x \ {k + 1}
        OBVIOUS
      <4>2. new[x \ {k + 1}] = old[x \ {k + 1}]
        BY <4>1
      <4>3. Max(x) = k + 1 /\ x # {} /\ new[x] = step[old[x \ {k + 1}]][k + 1]
        BY <3>1, OneMore
      <4>4. QED
        BY <4>2, <4>3
    <3>2. CASE k + 1 \notin x
      <4>1. new[x] = old[x] /\ x \in SUBSET (1..k)
        BY OneMore, <3>2
      <4>2. x \ {Max(x)} \in SUBSET (1..(k + 1)) /\ k + 1 \notin x \ {Max(x)}
        BY <3>2
      <4>3. new[x \ {Max(x)}] = old[x \ {Max(x)}]
        BY <4>2
      <4>4. old[x] = IF x = {} THEN base ELSE step[old[x \ {Max(x)}]][Max(x)]
        BY <2>2, <4>1 DEF FoldsTo
      <4>5. QED
        BY <4>1, <4>3, <4>4
    <3>3. QED
      BY <3>1, <3>2
  <2> HIDE DEF new
  <2>5. FoldsTo(new, base, step, k + 1)
    BY <2>4 DEF FoldsTo
  <2>6. QED
    BY <2>3, <2>5 DEF Some
<1> HIDE DEF T
<1>3. n \in T
  BY <1>1, <1>2, Naturally
<1>4. n <= n
  OBVIOUS
<1>5. QED
  BY <1>3, <1>4 DEF T

(* g and h begin alike and go on alike.                                     *)
Alike(g, h, n) == g[0] = h[0] /\ \A i \in 1..n : g[i - 1] = h[i - 1] => g[i] = h[i]

(* What begins and goes on alike ends alike.                                *)
LEMMA SameTrace ==
  ASSUME NEW n \in Nat, NEW g, NEW h, Alike(g, h, n)
  PROVE  g[n] = h[n]
<1> DEFINE T == {i \in Nat : i <= n => g[i] = h[i]}
<1>1. 0 \in T
  BY DEF Alike
<1>2. ASSUME NEW i \in Nat, i \in T PROVE i + 1 \in T
  <2>1. i + 1 <= n => i <= n /\ i + 1 \in 1..n /\ (i + 1) - 1 = i
    OBVIOUS
  <2>2. QED
    BY <1>2, <2>1 DEF Alike
<1> HIDE DEF T
<1>3. \A i \in Nat : i \in T
  BY <1>1, <1>2, Naturally
<1>4. QED
  BY <1>3 DEF T

(* ch is on the sets of its indices what step makes of base, as long as     *)
(* that stays in A.                                                         *)
Follows(ch, A, base, step, n) ==
  /\ ch[{}] = base
  /\ \A x \in SUBSET (1..n) : x # {} /\ ch[x \ {Max(x)}] \in A =>
       ch[x] = step[ch[x \ {Max(x)}]][Max(x)]

(* g is a fold from the left, one element after the other.                  *)
GoesThrough(g, A, base, step, n) ==
  g \in [0..n -> A] /\ g[0] = base /\ \A i \in 1..n : g[i] = step[g[i - 1]][i]

(* The fold ends with r.                                                    *)
Yields(A, base, step, n, r) == \E g : GoesThrough(g, A, base, step, n) /\ g[n] = r

(* A solution of the recursion goes through the elements one by one.        *)
LEMMA ChosenFold ==
  ASSUME NEW A, NEW base \in A, NEW n \in Nat, NEW step \in [A -> [1..n -> A]], NEW ch,
         Follows(ch, A, base, step, n)
  PROVE  Yields(A, base, step, n, ch[1..n])
<1> DEFINE g == [i \in 0..n |-> ch[1..i]]
<1>1. ASSUME NEW i \in 1..n, g[i - 1] \in A PROVE g[i] = step[g[i - 1]][i] /\ g[i] \in A
  <2>1. i \in 0..n /\ i - 1 \in 0..n /\ i \in 1..i /\ 1..i \in SUBSET (1..n)
    OBVIOUS
  <2>2. g[i] = ch[1..i] /\ g[i - 1] = ch[1..(i - 1)]
    BY <2>1
  <2>3. Max(1..i) = i /\ (1..i) \ {i} = 1..(i - 1)
    BY MaxOfUpto
  <2>4. ch[1..i] = step[ch[1..(i - 1)]][i]
    BY <1>1, <2>1, <2>2, <2>3 DEF Follows
  <2>5. QED
    BY <1>1, <2>2, <2>4
<1>2. g[0] = base
  <2>1. 1..0 = {} /\ 0 \in 0..n
    OBVIOUS
  <2>2. QED
    BY <2>1 DEF Follows
<1>3. g = [i \in 0..n |-> g[i]] /\ g[n] = ch[1..n]
  OBVIOUS
<1> HIDE DEF g
<1> DEFINE T == {k \in Nat : k <= n => g[k] \in A}
<1>4. 0 \in T
  BY <1>2
<1>5. ASSUME NEW k \in Nat, k \in T PROVE k + 1 \in T
  <2>1. k + 1 <= n => k <= n /\ k + 1 \in 1..n /\ (k + 1) - 1 = k
    OBVIOUS
  <2>2. QED
    BY <1>1, <1>5, <2>1
<1> HIDE DEF T
<1>6. \A k \in Nat : k \in T
  BY <1>4, <1>5, Naturally
<1>7. \A k \in 0..n : g[k] \in A
  BY <1>6 DEF T
<1>8. g \in [0..n -> A]
  BY <1>3, <1>7
<1>9. \A i \in 1..n : g[i] = step[g[i - 1]][i]
  BY <1>1, <1>7
<1>10. QED
  BY <1>2, <1>3, <1>8, <1>9 DEF GoesThrough, Yields
----------------------------------------------------------------------------
(* Split, one character after the other.                                    *)
SplitStep(lines, c) ==
  IF c = "LF" THEN Append(lines, <<>>) ELSE Append(Front(lines), Append(Last(lines), c))

(* Lines of characters of C, at least one.                                  *)
SomeLines(C) == Seq(Seq(C)) \ {<<>>}

(* A character makes lines of lines.                                        *)
LEMMA SplitSteps ==
  ASSUME NEW C, NEW lines \in SomeLines(C), NEW c \in C
  PROVE  SplitStep(lines, c) \in SomeLines(C)
<1>1. lines \in Seq(Seq(C)) /\ Len(lines) \in Nat \ {0}
  BY EmptySeq DEF SomeLines
<1>2. Last(lines) \in Seq(C) /\ Front(lines) \in Seq(Seq(C))
  <2>1. Len(lines) \in 1..Len(lines) /\ \A i \in 1..(Len(lines) - 1) : lines[i] \in Seq(C)
    BY <1>1, ElementOfSeq
  <2>2. lines[Len(lines)] \in Seq(C) /\ SubSeq(lines, 1, Len(lines) - 1) \in Seq(Seq(C))
    BY <1>1, <2>1, ElementOfSeq, SubSeqProperties
  <2>3. QED
    BY <2>2 DEF Last, Front
<1>3. Append(Last(lines), c) \in Seq(C) /\ <<>> \in Seq(C)
  BY <1>2, AppendProperties, EmptySeq
<1>4. ASSUME NEW f \in Seq(Seq(C)), NEW l \in Seq(C) PROVE Append(f, l) \in SomeLines(C)
  BY AppendProperties, SMTT(60) DEF SomeLines
<1>5. QED
  BY <1>1, <1>2, <1>3, <1>4 DEF SplitStep

(* Split goes through the text one character at a time.                     *)
LEMMA SplitTrace ==
  ASSUME NEW C, NEW s \in Seq(C)
  PROVE  \E g \in [0..Len(s) -> SomeLines(C)] :
           /\ g[0] = << <<>> >> /\ Split(s) = g[Len(s)]
           /\ \A i \in 1..Len(s) : g[i] = SplitStep(g[i - 1], s[i])
<1> DEFINE n == Len(s)
           A == SomeLines(C)
           base == << <<>> >>
           step == [a \in A |-> [i \in 1..n |-> SplitStep(a, s[i])]]
           Eq(j) == j = [x \in SUBSET DOMAIN s |->
                           IF x = {} THEN base ELSE SplitStep(j[x \ {Max(x)}], s[Max(x)])]
           ch == CHOOSE j : Eq(j)
<1>1. n \in Nat /\ DOMAIN s = 1..n /\ \A i \in 1..n : s[i] \in C
  BY LenProperties, ElementOfSeq
<1>2. base \in A
  BY EmptySeq DEF SomeLines
<1>3. step \in [A -> [1..n -> A]]
  BY <1>1, SplitSteps
<1>4. Split(s) = ch[DOMAIN s]
  BY DEF Split, FoldLeft, MapThenFoldSet, SplitStep
<1> HIDE DEF A, base, n
<1>5. ASSUME NEW a \in A, NEW i \in 1..n PROVE step[a][i] = SplitStep(a, s[i])
  BY <1>5
<1> HIDE DEF step
<1>6. PICK it \in [SUBSET (1..n) -> A] : FoldsTo(it, base, step, n)
  BY <1>1, <1>2, <1>3, LeftFold
<1>7. ASSUME NEW x \in SUBSET (1..n), x # {}
      PROVE  Max(x) \in 1..n /\ x \ {Max(x)} \in SUBSET (1..n)
  BY <1>1, <1>7, MaxOf
<1>8. Eq(it)
  <2>1. \A x \in SUBSET (1..n) : x # {} => it[x] = SplitStep(it[x \ {Max(x)}], s[Max(x)])
    BY <1>5, <1>6, <1>7 DEF FoldsTo
  <2>2. it[{}] = base
    BY <1>6 DEF FoldsTo
  <2>3. QED
    BY <1>1, <1>6, <2>1, <2>2
<1>9. Eq(ch)
  BY <1>8
<1> HIDE DEF ch
<1>10. Follows(ch, A, base, step, n)
  <2>1. ch[{}] = base
    BY <1>9
  <2>2. \A x \in SUBSET (1..n) : x # {} => ch[x] = SplitStep(ch[x \ {Max(x)}], s[Max(x)])
    BY <1>1, <1>9
  <2>3. ASSUME NEW x \in SUBSET (1..n), x # {}, ch[x \ {Max(x)}] \in A
        PROVE  ch[x] = step[ch[x \ {Max(x)}]][Max(x)]
    BY <1>5, <1>7, <2>2, <2>3
  <2>4. QED
    BY <2>1, <2>3 DEF Follows
<1>11. Yields(A, base, step, n, ch[1..n])
  BY <1>1, <1>2, <1>3, <1>10, ChosenFold
<1>12. PICK g : GoesThrough(g, A, base, step, n) /\ g[n] = ch[1..n]
  BY <1>11 DEF Yields
<1>13. \A i \in 1..n : g[i - 1] \in A /\ g[i] = step[g[i - 1]][i]
  BY <1>1, <1>12 DEF GoesThrough
<1>14. \A i \in 1..n : g[i] = SplitStep(g[i - 1], s[i])
  BY <1>5, <1>13
<1>15. QED
  BY <1>1, <1>4, <1>12, <1>14 DEF GoesThrough, n, A, base

(* A character more is a step more.                                         *)
LEMMA SplitAppend ==
  ASSUME NEW C, NEW s \in Seq(C), NEW c \in C
  PROVE  Split(Append(s, c)) = SplitStep(Split(s), c)
<1> DEFINE n == Len(s)
           t == Append(s, c)
<1>0. t \in Seq(C)
  BY AppendProperties
<1>1. n \in Nat /\ Len(t) = n + 1 /\ t[n + 1] = c /\ \A i \in 1..n : t[i] = s[i]
  BY AppendProperties, LenProperties
<1> HIDE DEF t
<1>2. PICK g \in [0..Len(s) -> SomeLines(C)] :
        /\ g[0] = << <<>> >> /\ Split(s) = g[Len(s)]
        /\ \A i \in 1..Len(s) : g[i] = SplitStep(g[i - 1], s[i])
  BY SplitTrace
<1>3. PICK h \in [0..Len(t) -> SomeLines(C)] :
        /\ h[0] = << <<>> >> /\ Split(t) = h[Len(t)]
        /\ \A i \in 1..Len(t) : h[i] = SplitStep(h[i - 1], t[i])
  BY <1>0, SplitTrace
<1>4. \A i \in 1..n : g[i - 1] = h[i - 1] => g[i] = h[i]
  BY <1>1, <1>2, <1>3
<1>5. Alike(g, h, n)
  BY <1>2, <1>3, <1>4 DEF Alike
<1>6. g[n] = h[n]
  BY <1>1, <1>5, SameTrace
<1>7. n + 1 \in 1..(n + 1) /\ (n + 1) - 1 = n
  BY <1>1
<1>8. h[n + 1] = SplitStep(h[n], c)
  BY <1>1, <1>3, <1>7
<1>9. QED
  BY <1>1, <1>2, <1>3, <1>6, <1>8 DEF t, n

(* CRLFtoLF, one character after the other.                                 *)
CRLFStep(t, c) ==
  IF c = "LF" /\ Last1(t) = "CR" THEN Append(Front(t), c) ELSE Append(t, c)

(* A character makes a text of a text.                                      *)
LEMMA CRLFSteps ==
  ASSUME NEW C, NEW t \in Seq(C), NEW c \in C
  PROVE  CRLFStep(t, c) \in Seq(C)
<1>1. Front(t) \in Seq(C)
  <2>1. Len(t) \in Nat /\ \A i \in 1..(Len(t) - 1) : t[i] \in C
    BY LenProperties, ElementOfSeq
  <2>2. QED
    BY <2>1, SubSeqProperties DEF Front
<1>2. Append(Front(t), c) \in Seq(C) /\ Append(t, c) \in Seq(C)
  BY <1>1, AppendProperties
<1>3. QED
  BY <1>2 DEF CRLFStep

(* CRLFtoLF goes through the text one character at a time.                  *)
LEMMA CRLFTrace ==
  ASSUME NEW C, NEW s \in Seq(C)
  PROVE  \E g \in [0..Len(s) -> Seq(C)] :
           /\ g[0] = <<>> /\ CRLFtoLF(s) = g[Len(s)]
           /\ \A i \in 1..Len(s) : g[i] = CRLFStep(g[i - 1], s[i])
<1> DEFINE n == Len(s)
           A == Seq(C)
           base == <<>>
           step == [a \in A |-> [i \in 1..n |-> CRLFStep(a, s[i])]]
           Eq(j) == j = [x \in SUBSET DOMAIN s |->
                           IF x = {} THEN base ELSE CRLFStep(j[x \ {Max(x)}], s[Max(x)])]
           ch == CHOOSE j : Eq(j)
<1>1. n \in Nat /\ DOMAIN s = 1..n /\ \A i \in 1..n : s[i] \in C
  BY LenProperties, ElementOfSeq
<1>2. base \in A
  BY EmptySeq
<1>3. step \in [A -> [1..n -> A]]
  BY <1>1, CRLFSteps
<1>4. CRLFtoLF(s) = ch[DOMAIN s]
  BY DEF CRLFtoLF, FoldLeft, MapThenFoldSet, CRLFStep
<1> HIDE DEF A, base, n
<1>5. ASSUME NEW a \in A, NEW i \in 1..n PROVE step[a][i] = CRLFStep(a, s[i])
  BY <1>5
<1> HIDE DEF step
<1>6. PICK it \in [SUBSET (1..n) -> A] : FoldsTo(it, base, step, n)
  BY <1>1, <1>2, <1>3, LeftFold
<1>7. ASSUME NEW x \in SUBSET (1..n), x # {}
      PROVE  Max(x) \in 1..n /\ x \ {Max(x)} \in SUBSET (1..n)
  BY <1>1, <1>7, MaxOf
<1>8. Eq(it)
  <2>1. \A x \in SUBSET (1..n) : x # {} => it[x] = CRLFStep(it[x \ {Max(x)}], s[Max(x)])
    BY <1>5, <1>6, <1>7 DEF FoldsTo
  <2>2. it[{}] = base
    BY <1>6 DEF FoldsTo
  <2>3. QED
    BY <1>1, <1>6, <2>1, <2>2
<1>9. Eq(ch)
  BY <1>8
<1> HIDE DEF ch
<1>10. Follows(ch, A, base, step, n)
  <2>1. ch[{}] = base
    BY <1>9
  <2>2. \A x \in SUBSET (1..n) : x # {} => ch[x] = CRLFStep(ch[x \ {Max(x)}], s[Max(x)])
    BY <1>1, <1>9
  <2>3. ASSUME NEW x \in SUBSET (1..n), x # {}, ch[x \ {Max(x)}] \in A
        PROVE  ch[x] = step[ch[x \ {Max(x)}]][Max(x)]
    BY <1>5, <1>7, <2>2, <2>3
  <2>4. QED
    BY <2>1, <2>3 DEF Follows
<1>11. Yields(A, base, step, n, ch[1..n])
  BY <1>1, <1>2, <1>3, <1>10, ChosenFold
<1>12. PICK g : GoesThrough(g, A, base, step, n) /\ g[n] = ch[1..n]
  BY <1>11 DEF Yields
<1>13. \A i \in 1..n : g[i - 1] \in A /\ g[i] = step[g[i - 1]][i]
  BY <1>1, <1>12 DEF GoesThrough
<1>14. \A i \in 1..n : g[i] = CRLFStep(g[i - 1], s[i])
  BY <1>5, <1>13
<1>15. QED
  BY <1>1, <1>4, <1>12, <1>14 DEF GoesThrough, n, A, base

(* A character more is a step more.                                         *)
LEMMA CRLFAppend ==
  ASSUME NEW C, NEW s \in Seq(C), NEW c \in C
  PROVE  CRLFtoLF(Append(s, c)) = CRLFStep(CRLFtoLF(s), c)
<1> DEFINE n == Len(s)
           t == Append(s, c)
<1>0. t \in Seq(C)
  BY AppendProperties
<1>1. n \in Nat /\ Len(t) = n + 1 /\ t[n + 1] = c /\ \A i \in 1..n : t[i] = s[i]
  BY AppendProperties, LenProperties
<1> HIDE DEF t
<1>2. PICK g \in [0..Len(s) -> Seq(C)] :
        /\ g[0] = <<>> /\ CRLFtoLF(s) = g[Len(s)]
        /\ \A i \in 1..Len(s) : g[i] = CRLFStep(g[i - 1], s[i])
  BY CRLFTrace
<1>3. PICK h \in [0..Len(t) -> Seq(C)] :
        /\ h[0] = <<>> /\ CRLFtoLF(t) = h[Len(t)]
        /\ \A i \in 1..Len(t) : h[i] = CRLFStep(h[i - 1], t[i])
  BY <1>0, CRLFTrace
<1>4. \A i \in 1..n : g[i - 1] = h[i - 1] => g[i] = h[i]
  BY <1>1, <1>2, <1>3
<1>5. Alike(g, h, n)
  BY <1>2, <1>3, <1>4 DEF Alike
<1>6. g[n] = h[n]
  BY <1>1, <1>5, SameTrace
<1>7. n + 1 \in 1..(n + 1) /\ (n + 1) - 1 = n
  BY <1>1
<1>8. h[n + 1] = CRLFStep(h[n], c)
  BY <1>1, <1>3, <1>7
<1>9. QED
  BY <1>1, <1>2, <1>3, <1>6, <1>8 DEF t, n

(* What Join goes through.                                                  *)
Joins(g, lines, sep, C) ==
  LET rest == Tail(lines)
      n == Len(rest)
  IN /\ n \in Nat /\ g \in [0..n -> Seq(C)] /\ g[0] = Head(lines)
     /\ Join(lines, sep) = g[n]
     /\ \A i \in 1..n : g[i] = g[i - 1] \o sep \o rest[i]

(* Join puts one line after the other behind the first.                     *)
LEMMA JoinTrace ==
  ASSUME NEW C, NEW lines \in Seq(Seq(C)), lines # <<>>, NEW sep \in Seq(C)
  PROVE  \E g : Joins(g, lines, sep, C)
<1> DEFINE n == Len(Tail(lines))
           A == Seq(C)
           base == Head(lines)
           step == [a \in A |-> [i \in 1..n |-> a \o sep \o Tail(lines)[i]]]
           Eq(j) == j = [x \in SUBSET DOMAIN Tail(lines) |->
                           IF x = {} THEN base ELSE j[x \ {Max(x)}] \o sep \o Tail(lines)[Max(x)]]
           ch == CHOOSE j : Eq(j)
<1>1. n \in Nat /\ DOMAIN Tail(lines) = 1..n /\ \A i \in 1..n : Tail(lines)[i] \in Seq(C)
  BY HeadTailProperties, LenProperties, ElementOfSeq
<1>2. base \in A
  BY HeadTailProperties
<1>3. step \in [A -> [1..n -> A]]
  BY <1>1, ConcatProperties
<1>4. Join(lines, sep) = ch[DOMAIN Tail(lines)]
  BY DEF Join, FoldLeft, MapThenFoldSet
<1> HIDE DEF A, base, n
<1>5. ASSUME NEW a \in A, NEW i \in 1..n PROVE step[a][i] = a \o sep \o Tail(lines)[i]
  BY <1>5
<1> HIDE DEF step
<1>6. PICK it \in [SUBSET (1..n) -> A] : FoldsTo(it, base, step, n)
  BY <1>1, <1>2, <1>3, LeftFold
<1>7. ASSUME NEW x \in SUBSET (1..n), x # {}
      PROVE  Max(x) \in 1..n /\ x \ {Max(x)} \in SUBSET (1..n)
  BY <1>1, <1>7, MaxOf
<1>8. Eq(it)
  <2>1. \A x \in SUBSET (1..n) : x # {} => it[x] = it[x \ {Max(x)}] \o sep \o Tail(lines)[Max(x)]
    BY <1>5, <1>6, <1>7 DEF FoldsTo
  <2>2. it[{}] = base
    BY <1>6 DEF FoldsTo
  <2>3. QED
    BY <1>1, <1>6, <2>1, <2>2
<1>9. Eq(ch)
  BY <1>8
<1> HIDE DEF ch
<1>10. Follows(ch, A, base, step, n)
  <2>1. ch[{}] = base
    BY <1>9
  <2>2. \A x \in SUBSET (1..n) : x # {} => ch[x] = ch[x \ {Max(x)}] \o sep \o Tail(lines)[Max(x)]
    BY <1>1, <1>9
  <2>3. ASSUME NEW x \in SUBSET (1..n), x # {}, ch[x \ {Max(x)}] \in A
        PROVE  ch[x] = step[ch[x \ {Max(x)}]][Max(x)]
    BY <1>5, <1>7, <2>2, <2>3
  <2>4. QED
    BY <2>1, <2>3 DEF Follows
<1>11. Yields(A, base, step, n, ch[1..n])
  BY <1>1, <1>2, <1>3, <1>10, ChosenFold
<1>12. PICK g : GoesThrough(g, A, base, step, n) /\ g[n] = ch[1..n]
  BY <1>11 DEF Yields
<1>13. \A i \in 1..n : g[i - 1] \in A /\ g[i] = step[g[i - 1]][i]
  BY <1>1, <1>12 DEF GoesThrough
<1>14. \A i \in 1..n : g[i] = g[i - 1] \o sep \o Tail(lines)[i]
  BY <1>5, <1>13
<1>15. QED
  BY <1>1, <1>4, <1>12, <1>14, ZenonT(60) DEF GoesThrough, Joins, n, A, base

----------------------------------------------------------------------------
(* The last element of a sequence and what is before it.                    *)
LEMMA FrontAndLast ==
  ASSUME NEW C, NEW s \in Seq(C)
  PROVE  /\ \A e \in C : Front(Append(s, e)) = s /\ Last(Append(s, e)) = e
         /\ s # <<>> => /\ Front(s) \in Seq(C) /\ Last(s) \in C
                        /\ s = Append(Front(s), Last(s)) /\ Len(Front(s)) = Len(s) - 1
<1>1. ASSUME NEW t \in Seq(C), NEW e \in C
      PROVE  Front(Append(t, e)) = t /\ Last(Append(t, e)) = e
  <2> DEFINE u == Append(t, e)
  <2>1. /\ Len(t) \in Nat /\ Len(u) = Len(t) + 1 /\ u[Len(t) + 1] = e
        /\ \A i \in 1..Len(t) : u[i] = t[i] /\ t[i] \in C
    BY AppendProperties, LenProperties, ElementOfSeq
  <2> HIDE DEF u
  <2>2. Last(u) = e /\ Front(u) = SubSeq(u, 1, Len(t))
    BY <2>1 DEF Last, Front
  <2>3. /\ SubSeq(u, 1, Len(t)) \in Seq(C) /\ Len(SubSeq(u, 1, Len(t))) = Len(t)
        /\ \A i \in 1..Len(t) : SubSeq(u, 1, Len(t))[i] = t[i]
    <3>1. \A i \in 1..Len(t) : u[i] \in C
      BY <2>1
    <3>2. 1 \in Int /\ Len(t) \in Int
      BY <2>1
    <3>3. /\ SubSeq(u, 1, Len(t)) \in Seq(C)
          /\ Len(SubSeq(u, 1, Len(t))) = IF 1 <= Len(t) THEN (Len(t) - 1) + 1 ELSE 0
          /\ \A i \in 1..((Len(t) - 1) + 1) : SubSeq(u, 1, Len(t))[i] = u[(1 + i) - 1]
      BY <3>1, <3>2, SubSeqProperties
    <3>4. QED
      BY <2>1, <3>3
  <2>4. SubSeq(u, 1, Len(t)) = t
    BY <2>3, SeqEqual
  <2>5. QED
    BY <2>2, <2>4 DEF u
<1>2. ASSUME s # <<>>
      PROVE  /\ Front(s) \in Seq(C) /\ Last(s) \in C
             /\ s = Append(Front(s), Last(s)) /\ Len(Front(s)) = Len(s) - 1
  <2>1. PICK t \in Seq(C), e \in C : s = Append(t, e)
    BY <1>2, SequenceEmptyOrAppend
  <2>2. Len(s) = Len(t) + 1 /\ Len(t) \in Nat
    BY <2>1, AppendProperties, LenProperties
  <2>3. Front(s) = t /\ Last(s) = e
    BY <1>1, <2>1
  <2>4. QED
    BY <2>1, <2>2, <2>3
<1>3. QED
  BY <1>1, <1>2

(* A sequence followed by one that ends with e ends with e.                 *)
LEMMA ConcatAppend ==
  ASSUME NEW C, NEW s \in Seq(C), NEW l \in Seq(C), NEW e \in C
  PROVE  s \o Append(l, e) = Append(s \o l, e)
<1>1. <<e>> \in Seq(C) /\ s \o l \in Seq(C)
  BY EmptySeq, AppendProperties, ConcatProperties
<1>2. Append(l, e) = l \o <<e>> /\ Append(s \o l, e) = (s \o l) \o <<e>>
  BY <1>1, AppendIsConcat
<1>3. QED
  BY <1>1, <1>2, ConcatAssociative

(* The end of a sequence that was appended to.                              *)
LEMMA AppendEnds ==
  ASSUME NEW C, NEW s \in Seq(C), NEW e \in C
  PROVE  Front(Append(s, e)) = s /\ Last(Append(s, e)) = e
BY FrontAndLast

(* A sequence of one element.                                               *)
LEMMA Single ==
  ASSUME NEW C, NEW e \in C
  PROVE  /\ <<e>> \in Seq(C) /\ Len(<<e>>) = 1 /\ <<e>>[1] = e /\ <<e>> # <<>>
         /\ Append(<<>>, e) = <<e>> /\ Front(<<e>>) = <<>> /\ Last(<<e>>) = e
<1>1. <<>> \in Seq(C) /\ Append(<<>>, e) = <<e>>
  BY EmptySeq
<1>2. Append(<<>>, e) \in Seq(C) /\ Append(<<>>, e) # <<>>
  BY <1>1, AppendProperties, ZenonT(60)
<1>3. Front(Append(<<>>, e)) = <<>> /\ Last(Append(<<>>, e)) = e
  BY <1>1, AppendEnds, Zenon
<1>4. Len(<<e>>) = 1 /\ <<e>>[1] = e
  OBVIOUS
<1>5. QED
  BY <1>1, <1>2, <1>3, <1>4

(* A text without a character is one empty line.                            *)
LEMMA SplitNothing ==
  ASSUME NEW C, NEW s \in Seq(C)
  PROVE  Len(s) = 0 => Split(s) = << <<>> >>
<1>1. PICK g \in [0..Len(s) -> SomeLines(C)] :
        /\ g[0] = << <<>> >> /\ Split(s) = g[Len(s)]
        /\ \A i \in 1..Len(s) : g[i] = SplitStep(g[i - 1], s[i])
  BY SplitTrace
<1> DEFINE one == << <<>> >>
<1>2. g[0] = one /\ Split(s) = g[Len(s)]
  BY <1>1
<1> HIDE DEF one
<1>3. Len(s) = 0 => Split(s) = one
  BY <1>2
<1>4. QED
  BY <1>3 DEF one

(* The empty text is one empty line.                                        *)
LEMMA SplitEmpty ==
  Split(<<>>) = << <<>> >>
<1> DEFINE none == << >>
           D == {}
<1>1. none \in Seq(D)
  BY EmptySeq
<1>2. Len(none) = 0
  BY EmptySeq
<1> HIDE DEF none, D
<1>3. Split(none) = << <<>> >>
  BY <1>1, <1>2, SplitNothing, Zenon
<1>4. QED
  BY <1>3 DEF none

(* One line more.                                                           *)
LEMMA OneLineMore ==
  ASSUME NEW C, NEW lines \in Seq(Seq(C)), NEW l \in Seq(C)
  PROVE  Append(lines, l) \in SomeLines(C)
BY AppendProperties DEF SomeLines

(* The lines of a text are at least one, and there is no LF in them.        *)
LEMMA SplitLines ==
  ASSUME NEW C, NEW s \in Seq(C)
  PROVE  Split(s) \in SomeLines(C \ {"LF"})
<1> DEFINE T == {x \in Seq(C) : Split(x) \in SomeLines(C \ {"LF"})}
<1>1. <<>> \in T
  <2>1. ASSUME NEW e \in Seq(C \ {"LF"}) PROVE <<e>> \in SomeLines(C \ {"LF"})
    BY Single DEF SomeLines
  <2>2. << <<>> >> \in SomeLines(C \ {"LF"})
    BY <2>1, EmptySeq
  <2>3. QED
    BY <2>2, SplitEmpty, EmptySeq
<1>2. ASSUME NEW x \in Seq(C), NEW e \in C, x \in T PROVE Append(x, e) \in T
  <2>1. Append(x, e) \in Seq(C) /\ Split(Append(x, e)) = SplitStep(Split(x), e)
    BY AppendProperties, SplitAppend
  <2>2. CASE e = "LF"
    <3>1. Split(x) \in Seq(Seq(C \ {"LF"})) /\ <<>> \in Seq(C \ {"LF"})
      BY <1>2, EmptySeq DEF SomeLines
    <3>2. Append(Split(x), <<>>) \in SomeLines(C \ {"LF"})
      BY <3>1, OneLineMore
    <3>3. QED
      BY <2>1, <2>2, <3>2 DEF SplitStep
  <2>3. CASE e # "LF"
    <3>1. Split(x) \in SomeLines(C \ {"LF"}) /\ e \in C \ {"LF"}
      BY <1>2, <2>3
    <3>2. SplitStep(Split(x), e) \in SomeLines(C \ {"LF"})
      BY <3>1, SplitSteps
    <3>3. QED
      BY <2>1, <3>2
  <2>4. QED
    BY <2>2, <2>3
<1> HIDE DEF T
<1>3. Seq(C) \subseteq T
  BY <1>1, <1>2, ByAppend
<1>4. QED
  BY <1>3 DEF T

(* What has no LF goes to the end of the last line.                         *)
LEMMA SplitPlain ==
  ASSUME NEW C, NEW s \in Seq(C), NEW l \in Seq(C \ {"LF"})
  PROVE  Split(s \o l) = Append(Front(Split(s)), Last(Split(s)) \o l)
<1> DEFINE D == C \ {"LF"}
           F == Front(Split(s))
           L == Last(Split(s))
           T == {x \in Seq(D) : Split(s \o x) = Append(F, L \o x)}
<1>1. Split(s) \in Seq(Seq(D)) /\ Split(s) # <<>>
  BY SplitLines DEF SomeLines
<1>2. F \in Seq(Seq(D)) /\ L \in Seq(D) /\ Split(s) = Append(F, L)
  BY <1>1, FrontAndLast, ZenonT(60)
<1> HIDE DEF F, L
<1>3. <<>> \in T
  <2>1. s \o <<>> = s /\ L \o <<>> = L /\ <<>> \in Seq(D)
    BY <1>2, ConcatEmptySeq, EmptySeq
  <2>2. QED
    BY <1>2, <2>1
<1>4. ASSUME NEW x \in Seq(D), NEW e \in D, x \in T PROVE Append(x, e) \in T
  <2>1. x \in Seq(C) /\ e \in C /\ e # "LF"
    BY SeqMonotonic
  <2>2. s \o Append(x, e) = Append(s \o x, e) /\ s \o x \in Seq(C)
    BY <2>1, ConcatAppend, ConcatProperties
  <2>3. Split(s \o Append(x, e)) = SplitStep(Split(s \o x), e)
    BY <2>1, <2>2, SplitAppend
  <2>4. L \o x \in Seq(D) /\ L \o Append(x, e) = Append(L \o x, e) /\ Append(x, e) \in Seq(D)
    BY <1>2, ConcatAppend, ConcatProperties, AppendProperties
  <2>5. Front(Append(F, L \o x)) = F /\ Last(Append(F, L \o x)) = L \o x
    <3> DEFINE M == L \o x
               X == Seq(D)
    <3>1. M \in X /\ F \in Seq(X)
      BY <1>2, <2>4
    <3> HIDE DEF M, X
    <3>2. Front(Append(F, M)) = F /\ Last(Append(F, M)) = M
      BY <3>1, FrontAndLast
    <3>3. QED
      BY <3>2 DEF M
  <2>6. SplitStep(Append(F, L \o x), e) = Append(F, Append(L \o x, e))
    BY <2>1, <2>5 DEF SplitStep
  <2>7. QED
    BY <1>4, <2>3, <2>4, <2>6
<1> HIDE DEF T, D
<1>5. Seq(D) \subseteq T
  BY <1>3, <1>4, ByAppend
<1>6. QED
  BY <1>5 DEF T, D, F, L

(* What Join makes of lines and one line more.                              *)
JoinedTo(lines, l, sep, C) ==
  /\ Join(Append(lines, l), sep) \in Seq(C)
  /\ lines = <<>> => Join(Append(lines, l), sep) = l
  /\ lines # <<>> => /\ Join(Append(lines, l), sep) = Join(lines, sep) \o sep \o l
                     /\ Join(lines, sep) \in Seq(C)

(* A line more is the separator and the line more.                          *)
LEMMA JoinAppend ==
  ASSUME NEW C, NEW lines \in Seq(Seq(C)), NEW l \in Seq(C), NEW sep \in Seq(C)
  PROVE  JoinedTo(lines, l, sep, C)
<1> DEFINE t == Append(lines, l)
           v == Tail(t)
           X == Seq(C)
<1>1. lines \in Seq(X) /\ l \in X
  OBVIOUS
<1> HIDE DEF X
<1>2. t \in Seq(X) /\ t # <<>>
  BY <1>1, AppendProperties
<1>3. /\ Head(t) = IF lines = <<>> THEN l ELSE Head(lines)
      /\ v = IF lines = <<>> THEN <<>> ELSE Append(Tail(lines), l)
  BY <1>1, HeadTailAppend, Zenon
<1> HIDE DEF t
<1>4. PICK h : Joins(h, t, sep, C)
  BY <1>2, JoinTrace DEF X
<1>5. /\ Len(v) \in Nat /\ h \in [0..Len(v) -> X] /\ h[0] = Head(t)
      /\ Join(t, sep) = h[Len(v)]
      /\ \A i \in 1..Len(v) : h[i] = h[i - 1] \o sep \o v[i]
  BY <1>4, Zenon DEF Joins, X
<1> HIDE DEF v
<1>6. Join(t, sep) \in X
  <2>1. Len(v) \in 0..Len(v)
    BY <1>5
  <2>2. h[Len(v)] \in X
    BY <1>5, <2>1, Zenon
  <2>3. QED
    BY <1>5, <2>2, Zenon
<1>7. CASE lines = <<>>
  <2>1. Len(v) = 0 /\ Head(t) = l
    BY <1>3, <1>7
  <2>2. QED
    BY <1>5, <1>6, <1>7, <2>1 DEF t, X, JoinedTo
<1>8. CASE lines # <<>>
  <2> DEFINE u == Tail(lines)
             n == Len(u)
  <2>1. PICK g : Joins(g, lines, sep, C)
    BY <1>8, JoinTrace
  <2>2. /\ n \in Nat /\ g \in [0..n -> X] /\ g[0] = Head(lines)
        /\ Join(lines, sep) = g[n]
        /\ \A i \in 1..n : g[i] = g[i - 1] \o sep \o u[i]
    BY <2>1, Zenon DEF Joins, X
  <2>3. u \in Seq(X) /\ v = Append(u, l) /\ Head(t) = Head(lines)
    BY <1>1, <1>3, <1>8, HeadTailProperties
  <2> HIDE DEF u
  <2>4. Len(v) = n + 1 /\ v[n + 1] = l /\ \A i \in 1..n : v[i] = u[i]
    BY <1>1, <2>3, AppendProperties DEF n
  <2> HIDE DEF n
  <2>5. ASSUME NEW i \in 1..n, g[i - 1] = h[i - 1] PROVE g[i] = h[i]
    <3>1. g[i] = g[i - 1] \o sep \o u[i]
      BY <2>2
    <3>2. i \in 1..Len(v) /\ v[i] = u[i]
      BY <2>2, <2>4
    <3>3. h[i] = h[i - 1] \o sep \o v[i]
      BY <1>5, <3>2
    <3>4. QED
      BY <2>5, <3>1, <3>2, <3>3, Zenon
  <2>6. Alike(g, h, n)
    BY <1>5, <2>2, <2>3, <2>5 DEF Alike
  <2>7. g[n] = h[n]
    BY <2>2, <2>6, SameTrace
  <2>8. n + 1 \in 1..(n + 1) /\ (n + 1) - 1 = n
    BY <2>2
  <2>9. h[n + 1] = h[n] \o sep \o l
    BY <1>5, <2>4, <2>8
  <2>10. Join(lines, sep) \in X
    BY <2>2
  <2>11. Join(t, sep) = Join(lines, sep) \o sep \o l
    BY <1>5, <2>2, <2>4, <2>7, <2>9
  <2>12. QED
    BY <1>6, <1>8, <2>10, <2>11 DEF t, X, JoinedTo
<1>9. QED
  BY <1>7, <1>8

(* One line is the text itself.                                             *)
LEMMA JoinOne ==
  ASSUME NEW C, NEW l \in Seq(C), NEW sep \in Seq(C)
  PROVE  Join(<<l>>, sep) = l
<1> DEFINE none == << >>
<1>1. none \in Seq(Seq(C))
  BY EmptySeq
<1>2. none = <<>> /\ Append(none, l) = <<l>>
  OBVIOUS
<1> HIDE DEF none
<1>3. JoinedTo(none, l, sep, C)
  BY <1>1, JoinAppend
<1>4. QED
  BY <1>2, <1>3, Zenon DEF JoinedTo

(* One line more than some.                                                 *)
LEMMA JoinMore ==
  ASSUME NEW C, NEW lines \in Seq(Seq(C)), NEW l \in Seq(C), NEW sep \in Seq(C), lines # <<>>
  PROVE  Join(Append(lines, l), sep) = Join(lines, sep) \o sep \o l
<1>1. JoinedTo(lines, l, sep, C)
  BY JoinAppend
<1>2. QED
  BY <1>1, Zenon DEF JoinedTo

(* The text of lines is a text.                                             *)
LEMMA JoinText ==
  ASSUME NEW C, NEW lines \in Seq(Seq(C)), NEW sep \in Seq(C)
  PROVE  Join(lines, sep) \in Seq(C)
<1>1. CASE lines = <<>>
  BY <1>1, EmptySeq DEF Join
<1>2. CASE lines # <<>>
  <2> DEFINE none == << >>
  <2>1. none \in Seq(C)
    BY EmptySeq
  <2> HIDE DEF none
  <2>2. JoinedTo(lines, none, sep, C)
    BY <2>1, JoinAppend
  <2>3. QED
    BY <1>2, <2>2, Zenon DEF JoinedTo
<1>3. QED
  BY <1>1, <1>2

(* Join of nothing, of one line, and the end of any join.                   *)
LEMMA JoinEnds ==
  ASSUME NEW C, NEW lines \in Seq(Seq(C)), NEW sep \in Seq(C)
  PROVE  lines # <<>> /\ Last(lines) # <<>> =>
           Join(lines, sep) # <<>> /\ Last(Join(lines, sep)) = Last(Last(lines))
<1>2. CASE lines # <<>>
  <2> DEFINE F == Front(lines)
             l == Last(lines)
  <2>1. F \in Seq(Seq(C)) /\ l \in Seq(C) /\ lines = Append(F, l)
    BY <1>2, FrontAndLast
  <2> HIDE DEF F, l
  <2>3. PICK X \in Seq(C) : Join(lines, sep) = X \o l
    <3>1. CASE F = <<>>
      <4>1. Append(<<>>, l) = <<l>> /\ <<>> \in Seq(C) /\ <<>> \o l = l
        BY <2>1, EmptySeq, ConcatEmptySeq
      <4>2. Join(lines, sep) = <<>> \o l
        <5>1. Join(<<l>>, sep) = l
          BY <2>1, JoinOne
        <5>2. QED
          BY <2>1, <3>1, <4>1, <5>1, Zenon
      <4>3. QED
        BY <4>1, <4>2
    <3>2. CASE F # <<>>
      <4>0. F \in Seq(Seq(C)) /\ l \in Seq(C)
        BY <2>1
      <4>1. Join(F, sep) \in Seq(C)
        BY <4>0, JoinText
      <4>2. Join(lines, sep) = Join(F, sep) \o sep \o l
        BY <2>1, <3>2, <4>0, JoinMore
      <4>3. Join(F, sep) \o sep \in Seq(C)
        BY <4>1, ConcatProperties
      <4>4. QED
        BY <4>2, <4>3
    <3>3. QED
      BY <3>1, <3>2
  <2>4. ASSUME l # <<>> PROVE Join(lines, sep) # <<>> /\ Last(Join(lines, sep)) = Last(l)
    <3> DEFINE k == Front(l)
               e == Last(l)
    <3>1. k \in Seq(C) /\ e \in C /\ l = Append(k, e)
      BY <2>1, <2>4, FrontAndLast
    <3> HIDE DEF k, e
    <3>2. Join(lines, sep) = Append(X \o k, e) /\ X \o k \in Seq(C)
      BY <2>3, <3>1, ConcatAppend, ConcatProperties
    <3>3. Append(X \o k, e) # <<>> /\ Last(Append(X \o k, e)) = e
      <4> DEFINE y == X \o k
      <4>1. y \in Seq(C) /\ e \in C
        BY <3>1, <3>2
      <4> HIDE DEF y
      <4>2. Append(y, e) # <<>>
        BY <4>1, AppendProperties, ZenonT(60)
      <4>3. Last(Append(y, e)) = e
        BY <4>1, AppendEnds
      <4>4. QED
        BY <4>2, <4>3 DEF y
    <3>4. QED
      BY <3>2, <3>3 DEF e
  <2>5. QED
    BY <2>4 DEF l
<1>3. QED
  BY <1>2

(* Lines without LF that are joined by LF are split into themselves.        *)
LEMMA SplitJoin ==
  ASSUME NEW C, "LF" \in C, NEW lines \in Seq(Seq(C \ {"LF"})), lines # <<>>
  PROVE  Split(Join(lines, <<"LF">>)) = lines
<1> DEFINE D == C \ {"LF"}
           sep == <<"LF">>
           T == {x \in Seq(Seq(D)) : x # <<>> => Split(Join(x, sep)) = x}
<1>1. sep \in Seq(C) /\ \A x \in Seq(D) : x \in Seq(C)
  BY Single, SeqMonotonic
<1>2. <<>> \in T
  BY EmptySeq
<1>3. ASSUME NEW x \in Seq(Seq(D)), NEW l \in Seq(D), x \in T PROVE Append(x, l) \in T
  <2>1. Append(x, l) \in Seq(Seq(D))
    BY AppendProperties
  <2>2. x \in Seq(Seq(C)) /\ l \in Seq(C)
    <3>1. Seq(D) \subseteq Seq(C)
      BY <1>1
    <3>2. QED
      BY <1>1, <3>1, SeqMonotonic
  <2>3. CASE x = <<>>
    <3> DEFINE e == << >>
    <3>1. Join(Append(x, l), sep) = l
      <4>1. Append(<<>>, l) = <<l>>
        OBVIOUS
      <4>2. QED
        BY <1>1, <2>2, <2>3, <4>1, JoinOne, Zenon
    <3>2. e \in Seq(C) /\ e \o l = l
      BY <2>2, EmptySeq, ConcatEmptySeq
    <3>3. Split(e \o l) = Append(Front(Split(e)), Last(Split(e)) \o l)
      <4> HIDE DEF e
      <4>1. QED
        BY <3>2, SplitPlain
    <3>4. Front(Split(e)) = <<>> /\ Last(Split(e)) = e
      <4>1. Split(e) = <<e>> /\ e \in Seq(C)
        BY <3>2, SplitEmpty
      <4> HIDE DEF e
      <4>2. QED
        BY <4>1, Single
    <3>5. Split(l) = Append(x, l)
      BY <2>3, <3>2, <3>3, <3>4
    <3>6. QED
      BY <2>1, <3>1, <3>5
  <2>4. CASE x # <<>>
    <3> DEFINE s == Join(x, sep)
               u == Append(s, "LF")
    <3>1. s \in Seq(C) /\ Join(Append(x, l), sep) = s \o sep \o l
      <4>1. s \in Seq(C)
        BY <1>1, <2>2, JoinText
      <4>2. Join(Append(x, l), sep) = Join(x, sep) \o sep \o l
        <5> HIDE DEF sep
        <5>1. QED
          BY <1>1, <2>2, <2>4, JoinMore
      <4>3. QED
        BY <4>1, <4>2
    <3>2. Split(s) = x
      BY <1>3, <2>4
    <3> HIDE DEF s
    <3>3. u = s \o sep /\ u \in Seq(C)
      BY <3>1, AppendIsConcat, AppendProperties
    <3>4. Split(u) = Append(x, <<>>)
      BY <3>1, <3>2, SplitAppend DEF SplitStep
    <3> HIDE DEF u
    <3>5. Split(u \o l) = Append(Front(Split(u)), Last(Split(u)) \o l)
      BY <3>3, SplitPlain
    <3>6. Front(Split(u)) = x /\ Last(Split(u)) = <<>>
      <4> DEFINE e == << >>
      <4>1. e \in Seq(D) /\ Split(u) = Append(x, e)
        BY <3>4, EmptySeq
      <4> HIDE DEF e
      <4>2. Front(Split(u)) = x /\ Last(Split(u)) = e
        BY <4>1, AppendEnds
      <4>3. QED
        BY <4>2 DEF e
    <3>7. <<>> \o l = l
      BY ConcatEmptySeq
    <3>8. Split(u \o l) = Append(x, l)
      BY <3>5, <3>6, <3>7
    <3>9. QED
      BY <2>1, <3>1, <3>3, <3>8
  <2>5. QED
    BY <2>3, <2>4
<1> HIDE DEF T, D
<1>4. Seq(Seq(D)) \subseteq T
  BY <1>2, <1>3, ByAppend
<1>5. QED
  BY <1>4 DEF T, D

(* A text without CRLF is a text.                                           *)
LEMMA CRLFText ==
  ASSUME NEW C, NEW s \in Seq(C)
  PROVE  CRLFtoLF(s) \in Seq(C)
<1>1. PICK g \in [0..Len(s) -> Seq(C)] :
        /\ g[0] = <<>> /\ CRLFtoLF(s) = g[Len(s)]
        /\ \A i \in 1..Len(s) : g[i] = CRLFStep(g[i - 1], s[i])
  BY CRLFTrace
<1>2. Len(s) \in 0..Len(s)
  BY LenProperties
<1>3. QED
  BY <1>1, <1>2

(* The empty text stays.                                                    *)
LEMMA CRLFNothing ==
  ASSUME NEW C, NEW s \in Seq(C)
  PROVE  Len(s) = 0 => CRLFtoLF(s) = <<>>
<1>1. PICK g \in [0..Len(s) -> Seq(C)] :
        /\ g[0] = <<>> /\ CRLFtoLF(s) = g[Len(s)]
        /\ \A i \in 1..Len(s) : g[i] = CRLFStep(g[i - 1], s[i])
  BY CRLFTrace
<1>2. g[0] = <<>> /\ CRLFtoLF(s) = g[Len(s)]
  BY <1>1
<1>3. QED
  BY <1>2

(* What has no LF is added as it is.                                        *)
LEMMA CRLFPlain ==
  ASSUME NEW C, NEW s \in Seq(C), NEW l \in Seq(C \ {"LF"})
  PROVE  CRLFtoLF(s \o l) = CRLFtoLF(s) \o l
<1> DEFINE D == C \ {"LF"}
           r == CRLFtoLF(s)
           T == {x \in Seq(D) : CRLFtoLF(s \o x) = r \o x}
<1>1. r \in Seq(C)
  BY CRLFText
<1>2. \A x \in Seq(D) : x \in Seq(C)
  BY SeqMonotonic
<1>3. <<>> \in T
  <2>1. s \o <<>> = s /\ r \o <<>> = r /\ <<>> \in Seq(D)
    BY <1>1, ConcatEmptySeq, EmptySeq
  <2>2. QED
    BY <2>1
<1> HIDE DEF r
<1>4. ASSUME NEW x \in Seq(D), NEW e \in D, x \in T PROVE Append(x, e) \in T
  <2>1. x \in Seq(C) /\ e \in C /\ e # "LF" /\ Append(x, e) \in Seq(D)
    BY <1>2, AppendProperties
  <2>2. s \o Append(x, e) = Append(s \o x, e)
    BY <2>1, ConcatAppend
  <2>3. r \o Append(x, e) = Append(r \o x, e)
    BY <1>1, <2>1, ConcatAppend
  <2>4. s \o x \in Seq(C)
    BY <2>1, ConcatProperties
  <2>5. CRLFtoLF(Append(s \o x, e)) = CRLFStep(CRLFtoLF(s \o x), e)
    BY <2>1, <2>4, CRLFAppend
  <2>6. CRLFStep(CRLFtoLF(s \o x), e) = Append(CRLFtoLF(s \o x), e)
    BY <2>1 DEF CRLFStep
  <2>7. CRLFtoLF(s \o Append(x, e)) = r \o Append(x, e)
    BY <1>4, <2>2, <2>3, <2>5, <2>6
  <2>8. QED
    BY <2>1, <2>7
<1> HIDE DEF T, D
<1>5. Seq(D) \subseteq T
  BY <1>3, <1>4, ByAppend
<1>6. QED
  BY <1>5 DEF T, D, r

(* CRLF becomes LF.                                                         *)
LEMMA CRLFBreak ==
  ASSUME NEW C, "LF" \in C, "CR" \in C, NEW s \in Seq(C)
  PROVE  CRLFtoLF(s \o <<"CR", "LF">>) = Append(CRLFtoLF(s), "LF")
<1> DEFINE r == CRLFtoLF(s)
           u == Append(s, "CR")
<1>1. r \in Seq(C) /\ u \in Seq(C)
  BY CRLFText, AppendProperties
<1>2. s \o <<"CR", "LF">> = Append(u, "LF")
  OBVIOUS
<1>3. CRLFtoLF(u) = Append(r, "CR")
  <2>1. CRLFtoLF(u) = CRLFStep(r, "CR")
    BY CRLFAppend
  <2>2. QED
    BY <2>1 DEF CRLFStep
<1> HIDE DEF u, r
<1>4. CRLFtoLF(Append(u, "LF")) = CRLFStep(Append(r, "CR"), "LF")
  BY <1>1, <1>3, CRLFAppend
<1>5. Front(Append(r, "CR")) = r /\ Last(Append(r, "CR")) = "CR"
  BY <1>1, AppendEnds
<1>6. Append(r, "CR") # <<>>
  BY <1>1, AppendProperties
<1>7. Last1(Append(r, "CR")) = "CR"
  BY <1>5, <1>6 DEF Last1
<1>8. CRLFStep(Append(r, "CR"), "LF") = Append(r, "LF")
  BY <1>5, <1>7 DEF CRLFStep
<1>9. QED
  BY <1>2, <1>4, <1>8 DEF r

(* Lines without LF that are joined by CRLF become the lines joined by LF.  *)
LEMMA CRLFJoin ==
  ASSUME NEW C, "LF" \in C, "CR" \in C, NEW lines \in Seq(Seq(C \ {"LF"}))
  PROVE  CRLFtoLF(Join(lines, <<"CR", "LF">>)) = Join(lines, <<"LF">>)
<1> DEFINE D == C \ {"LF"}
           crlf == <<"CR", "LF">>
           lf == <<"LF">>
           T == {x \in Seq(Seq(D)) : CRLFtoLF(Join(x, crlf)) = Join(x, lf)}
<1>1. lf \in Seq(C) /\ crlf \in Seq(C) /\ \A x \in Seq(D) : x \in Seq(C)
  <2>1. lf \in Seq(C)
    BY Single
  <2>2. crlf \in Seq(C)
    OBVIOUS
  <2>3. \A x \in Seq(D) : x \in Seq(C)
    BY SeqMonotonic
  <2>4. QED
    BY <2>1, <2>2, <2>3
<1>2. <<>> \in T
  <2> DEFINE none == << >>
  <2>1. none \in Seq(C) /\ Len(none) = 0 /\ none \in Seq(Seq(D))
    BY EmptySeq
  <2>2. Join(none, crlf) = none /\ Join(none, lf) = none
    BY DEF Join
  <2>3. CRLFtoLF(none) = <<>>
    <3> HIDE DEF none
    <3>1. QED
      BY <2>1, CRLFNothing
  <2>4. QED
    BY <2>1, <2>2, <2>3
<1>3. ASSUME NEW x \in Seq(Seq(D)), NEW l \in Seq(D), x \in T PROVE Append(x, l) \in T
  <2>1. Append(x, l) \in Seq(Seq(D))
    BY AppendProperties
  <2>2. x \in Seq(Seq(C)) /\ l \in Seq(C)
    <3>1. Seq(D) \subseteq Seq(C)
      BY <1>1
    <3>2. QED
      BY <1>1, <3>1, SeqMonotonic
  <2>3. CASE x = <<>>
    <3> DEFINE none == << >>
    <3>1. Append(x, l) = <<l>>
      BY <2>3
    <3>2. Join(<<l>>, crlf) = l
      BY <1>1, <2>2, JoinOne
    <3>3. Join(<<l>>, lf) = l
      BY <1>1, <2>2, JoinOne
    <3>4. none \in Seq(C) /\ Len(none) = 0 /\ none \o l = l
      BY <2>2, EmptySeq, ConcatEmptySeq
    <3>5. CRLFtoLF(none \o l) = CRLFtoLF(none) \o l /\ CRLFtoLF(none) = none
      <4>1. none = <<>>
        OBVIOUS
      <4> HIDE DEF none
      <4>2. CRLFtoLF(none \o l) = CRLFtoLF(none) \o l
        BY <3>4, CRLFPlain
      <4>3. CRLFtoLF(none) = <<>>
        BY <3>4, CRLFNothing
      <4>4. QED
        BY <4>1, <4>2, <4>3
    <3>6. CRLFtoLF(l) = l
      BY <3>4, <3>5
    <3>7. QED
      BY <2>1, <3>1, <3>2, <3>3, <3>6
  <2>4. CASE x # <<>>
    <3> DEFINE s == Join(x, crlf)
               r == Join(x, lf)
    <3>1. s \in Seq(C) /\ r \in Seq(C)
      BY <1>1, <2>2, JoinText
    <3>2. Join(Append(x, l), crlf) = s \o crlf \o l
      <4> HIDE DEF crlf
      <4>1. QED
        BY <1>1, <2>2, <2>4, JoinMore
    <3>3. Join(Append(x, l), lf) = r \o lf \o l
      <4> HIDE DEF lf
      <4>1. QED
        BY <1>1, <2>2, <2>4, JoinMore
    <3>4. CRLFtoLF(s) = r
      BY <1>3
    <3> HIDE DEF s, r
    <3>5. CRLFtoLF(s \o crlf) = Append(r, "LF")
      BY <3>1, <3>4, CRLFBreak
    <3>6. s \o crlf \in Seq(C)
      BY <1>1, <3>1, ConcatProperties
    <3>7. CRLFtoLF((s \o crlf) \o l) = CRLFtoLF(s \o crlf) \o l
      <4> DEFINE y == s \o crlf
      <4>1. y \in Seq(C)
        BY <3>6
      <4> HIDE DEF y
      <4>2. CRLFtoLF(y \o l) = CRLFtoLF(y) \o l
        BY <4>1, CRLFPlain
      <4>3. QED
        BY <4>2 DEF y
    <3>8. Append(r, "LF") = r \o lf
      BY <3>1, AppendIsConcat
    <3>9. QED
      BY <2>1, <3>2, <3>3, <3>5, <3>7, <3>8
  <2>5. QED
    BY <2>3, <2>4
<1> HIDE DEF T, D
<1>4. Seq(Seq(D)) \subseteq T
  BY <1>2, <1>3, ByAppend
<1>5. QED
  BY <1>4 DEF T, D

----------------------------------------------------------------------------
(* What Parse makes of a text whose newlines are LF.                        *)
Parsed(crlf, norm) ==
  LET final == Last1(norm) = "LF"
      body == IF final THEN Front(norm) ELSE norm
  IN [ crlf |-> crlf, final |-> final,
       lines |-> IF body = <<>> /\ ~final THEN <<>> ELSE Split(body) ]

(* Parse looks for CRLF, makes every newline LF, and cuts into lines.       *)
LEMMA ParseIsParsed ==
  ASSUME NEW s
  PROVE  Parse(s) = Parsed(HasCRLF(s), IF HasCRLF(s) THEN CRLFtoLF(s) ELSE CRtoLF(s))
BY DEF Parse, Parsed

(* The characters of a line: LF is not one, and without CRLF neither is CR. *)
InLine(C, crlf) == IF crlf THEN C \ {"LF"} ELSE C \ {"LF", "CR"}

(* The texts as the tools see them.                                         *)
Texts(C) == {t \in [crlf : BOOLEAN, final : BOOLEAN, lines : Seq(Seq(C))] :
               t.lines \in Seq(Seq(InLine(C, t.crlf)))}

(* Lines that end with LF are read back.                                    *)
LEMMA ParsedFinal ==
  ASSUME NEW C, "LF" \in C, NEW crlf, NEW lines \in Seq(Seq(C \ {"LF"})), lines # <<>>
  PROVE  Parsed(crlf, Append(Join(lines, <<"LF">>), "LF")) =
           [crlf |-> crlf, final |-> TRUE, lines |-> lines]
<1> DEFINE K == Join(lines, <<"LF">>)
<1>1. K \in Seq(C)
  <2>1. <<"LF">> \in Seq(C)
    BY Single
  <2>2. lines \in Seq(Seq(C))
    <3>1. \A x \in Seq(C \ {"LF"}) : x \in Seq(C)
      BY SeqMonotonic
    <3>2. Seq(C \ {"LF"}) \subseteq Seq(C)
      BY <3>1
    <3>3. QED
      BY <3>2, SeqMonotonic
  <2>3. QED
    BY <2>1, <2>2, JoinText
<1>2. Split(K) = lines
  BY SplitJoin
<1> HIDE DEF K
<1>3. Front(Append(K, "LF")) = K /\ Last(Append(K, "LF")) = "LF"
  BY <1>1, AppendEnds
<1>4. Append(K, "LF") # <<>>
  BY <1>1, AppendProperties
<1>5. Last1(Append(K, "LF")) = "LF"
  BY <1>3, <1>4 DEF Last1
<1>6. Parsed(crlf, Append(K, "LF")) = [crlf |-> crlf, final |-> TRUE, lines |-> lines]
  BY <1>2, <1>3, <1>5 DEF Parsed
<1>7. QED
  BY <1>6 DEF K

(* So are lines of which the last is not empty.                             *)
LEMMA ParsedOpen ==
  ASSUME NEW C, "LF" \in C, NEW crlf, NEW lines \in Seq(Seq(C \ {"LF"})), lines # <<>>,
         Last(lines) # <<>>
  PROVE  Parsed(crlf, Join(lines, <<"LF">>)) = [crlf |-> crlf, final |-> FALSE, lines |-> lines]
<1> DEFINE K == Join(lines, <<"LF">>)
           D == C \ {"LF"}
<1>1. Split(K) = lines
  BY SplitJoin
<1>2. K # <<>> /\ Last(K) = Last(Last(lines))
  <2>1. <<"LF">> \in Seq(C)
    BY Single
  <2>2. lines \in Seq(Seq(C))
    <3>1. \A x \in Seq(C \ {"LF"}) : x \in Seq(C)
      BY SeqMonotonic
    <3>2. Seq(C \ {"LF"}) \subseteq Seq(C)
      BY <3>1
    <3>3. QED
      BY <3>2, SeqMonotonic
  <2>3. QED
    BY <2>1, <2>2, JoinEnds
<1> HIDE DEF K
<1>3. Last(lines) \in Seq(D)
  <2> DEFINE X == Seq(D)
  <2>1. lines \in Seq(X)
    OBVIOUS
  <2> HIDE DEF X
  <2>2. Last(lines) \in X
    BY <2>1, FrontAndLast
  <2>3. QED
    BY <2>2 DEF X
<1>4. Last(Last(lines)) \in D
  <2> DEFINE l == Last(lines)
  <2>1. l \in Seq(D) /\ l # <<>>
    BY <1>3
  <2> HIDE DEF l, D
  <2>2. Last(l) \in D
    BY <2>1, FrontAndLast
  <2>3. QED
    BY <2>2 DEF l
<1>5. Last1(K) # "LF"
  BY <1>2, <1>4 DEF Last1
<1>6. QED
  BY <1>1, <1>2, <1>5 DEF Parsed, K

(* A text without CR has no CRLF, and CRtoLF leaves it.                     *)
LEMMA WithoutCR ==
  ASSUME NEW C, NEW s \in Seq(C \ {"CR"})
  PROVE  ~HasCRLF(s) /\ CRtoLF(s) = s
<1>1. Len(s) \in Nat /\ DOMAIN s = 1..Len(s) /\ \A i \in 1..Len(s) : s[i] # "CR"
  BY LenProperties, ElementOfSeq
<1>2. ~HasCRLF(s)
  <2>1. \A i \in 1..(Len(s) - 1) : i \in 1..Len(s)
    BY <1>1
  <2>2. QED
    BY <1>1, <2>1 DEF HasCRLF
<1>3. CRtoLF(s) = [i \in 1..Len(s) |-> s[i]]
  BY <1>1 DEF CRtoLF
<1>4. s = [i \in 1..Len(s) |-> s[i]]
  BY LenProperties
<1>5. QED
  BY <1>2, <1>3, <1>4

(* There is CRLF in what has it in the middle.                              *)
LEMMA CRLFInside ==
  ASSUME NEW C, "CR" \in C, "LF" \in C, NEW x \in Seq(C), NEW y \in Seq(C)
  PROVE  HasCRLF((x \o <<"CR", "LF">>) \o y)
<1> DEFINE sep == <<"CR", "LF">>
           s == x \o sep
           z == s \o y
<1>1. sep \in Seq(C) /\ Len(sep) = 2 /\ sep[1] = "CR" /\ sep[2] = "LF"
  OBVIOUS
<1> HIDE DEF sep
<1>2. Len(x) \in Nat /\ Len(y) \in Nat
  BY LenProperties
<1>3. /\ s \in Seq(C) /\ Len(s) = Len(x) + 2
      /\ s[Len(x) + 1] = "CR" /\ s[Len(x) + 2] = "LF"
  <2>1. s \in Seq(C)
    BY <1>1, ConcatProperties
  <2>2. Len(s) = Len(x) + Len(sep)
    BY <1>1, ConcatProperties
  <2>3. \A i \in 1..(Len(x) + Len(sep)) : s[i] = IF i <= Len(x) THEN x[i] ELSE sep[i - Len(x)]
    BY <1>1, ConcatProperties
  <2>4. /\ Len(x) + 1 \in 1..(Len(x) + 2) /\ ~(Len(x) + 1 <= Len(x)) /\ (Len(x) + 1) - Len(x) = 1
        /\ Len(x) + 2 \in 1..(Len(x) + 2) /\ ~(Len(x) + 2 <= Len(x)) /\ (Len(x) + 2) - Len(x) = 2
    BY <1>2
  <2>5. QED
    BY <1>1, <2>1, <2>2, <2>3, <2>4
<1> HIDE DEF s
<1>4. Len(z) = Len(s) + Len(y) /\ \A i \in 1..(Len(s) + Len(y)) : z[i] = IF i <= Len(s) THEN s[i] ELSE y[i - Len(s)]
  BY <1>3, ConcatProperties
<1> DEFINE k == Len(x) + 1
<1>5. /\ k \in 1..(Len(z) - 1) /\ k \in 1..(Len(s) + Len(y)) /\ k + 1 \in 1..(Len(s) + Len(y))
      /\ k <= Len(s) /\ k + 1 <= Len(s) /\ k + 1 = Len(x) + 2
  BY <1>2, <1>3, <1>4
<1>6. z[k] = "CR" /\ z[k + 1] = "LF"
  BY <1>3, <1>4, <1>5
<1> HIDE DEF z, k
<1>7. HasCRLF(z)
  BY <1>5, <1>6 DEF HasCRLF
<1>8. QED
  BY <1>7 DEF z, s, sep

(* What is written with LF reads back.                                      *)
LEMMA RoundTripLF ==
  ASSUME NEW C, "LF" \in C, NEW lines \in Seq(Seq(C \ {"LF", "CR"})), lines # <<>>,
         NEW final \in BOOLEAN, final \/ Last(lines) # <<>>
  PROVE  Parse(Render([crlf |-> FALSE, final |-> final, lines |-> lines])) =
           [crlf |-> FALSE, final |-> final, lines |-> lines]
<1> DEFINE E == C \ {"CR"}
           lf == <<"LF">>
           K == Join(lines, lf)
           s == Render([crlf |-> FALSE, final |-> final, lines |-> lines])
<1>1. "LF" \in E /\ lines \in Seq(Seq(E \ {"LF"}))
  <2>1. E \ {"LF"} = C \ {"LF", "CR"}
    OBVIOUS
  <2>2. QED
    BY <2>1
<1>2. K \in Seq(E)
  <2> HIDE DEF E
  <2>1. lf \in Seq(E)
    BY <1>1, Single
  <2>2. lines \in Seq(Seq(E))
    <3>1. \A x \in Seq(E \ {"LF"}) : x \in Seq(E)
      BY SeqMonotonic
    <3>2. Seq(E \ {"LF"}) \subseteq Seq(E)
      BY <3>1
    <3>3. QED
      BY <1>1, <3>2, SeqMonotonic
  <2>3. QED
    BY <2>1, <2>2, JoinText
<1>3. s = IF final THEN K \o lf ELSE K \o <<>>
  BY DEF Render, Sep
<1>4. s = IF final THEN Append(K, "LF") ELSE K
  <2> HIDE DEF K
  <2>1. K \o lf = Append(K, "LF") /\ K \o <<>> = K
    BY <1>1, <1>2, AppendIsConcat, ConcatEmptySeq
  <2>2. QED
    BY <1>3, <2>1
<1> HIDE DEF s
<1>5. s \in Seq(E)
  <2> HIDE DEF K, E
  <2>1. Append(K, "LF") \in Seq(E)
    BY <1>1, <1>2, AppendProperties
  <2>2. QED
    BY <1>2, <1>4, <2>1
<1>6. ~HasCRLF(s) /\ CRtoLF(s) = s
  BY <1>5, WithoutCR
<1>7. Parse(s) = Parsed(FALSE, s)
  <2>1. HasCRLF(s) = FALSE
    BY <1>6 DEF HasCRLF
  <2>2. Parse(s) = Parsed(HasCRLF(s), IF HasCRLF(s) THEN CRLFtoLF(s) ELSE CRtoLF(s))
    BY ParseIsParsed
  <2>3. QED
    BY <1>6, <2>1, <2>2
<1> HIDE DEF E
<1>8. CASE final
  <2>1. Parsed(FALSE, Append(Join(lines, <<"LF">>), "LF")) = [crlf |-> FALSE, final |-> TRUE, lines |-> lines]
    BY <1>1, ParsedFinal
  <2>2. QED
    BY <1>4, <1>7, <1>8, <2>1 DEF s
<1>9. CASE ~final
  <2>1. Parsed(FALSE, Join(lines, <<"LF">>)) = [crlf |-> FALSE, final |-> FALSE, lines |-> lines]
    BY <1>1, <1>9, ParsedOpen
  <2>2. QED
    BY <1>4, <1>7, <1>9, <2>1 DEF s
<1>10. QED
  BY <1>8, <1>9

(* Two lines that are joined by CRLF have CRLF between them.                *)
LEMMA JoinHasCRLF ==
  ASSUME NEW C, "LF" \in C, "CR" \in C, NEW lines \in Seq(Seq(C)), Len(lines) > 1
  PROVE  HasCRLF(Join(lines, <<"CR", "LF">>))
<1> DEFINE X == Seq(C)
           F == Front(lines)
           l == Last(lines)
           sep == <<"CR", "LF">>
<1>1. lines \in Seq(X) /\ lines # <<>>
  BY EmptySeq
<1> HIDE DEF X
<1>2. F \in Seq(X) /\ l \in X /\ lines = Append(F, l) /\ Len(F) = Len(lines) - 1
  BY <1>1, FrontAndLast
<1> HIDE DEF F, l
<1>3. F # <<>>
  BY <1>1, <1>2, LenProperties
<1>4. sep \in Seq(C)
  OBVIOUS
<1>5. Join(Append(F, l), sep) = Join(F, sep) \o sep \o l
  <2> HIDE DEF sep
  <2>1. QED
    BY <1>2, <1>3, <1>4, JoinMore DEF X
<1>6. Join(F, sep) \in Seq(C)
  <2> HIDE DEF sep
  <2>1. QED
    BY <1>2, <1>4, JoinText DEF X
<1> DEFINE x == Join(F, sep)
<1>7. x \in Seq(C)
  BY <1>6
<1>8. l \in Seq(C)
  BY <1>2 DEF X
<1> HIDE DEF x
<1>9. HasCRLF((x \o <<"CR", "LF">>) \o l)
  BY <1>7, <1>8, CRLFInside
<1>10. QED
  BY <1>2, <1>5, <1>9 DEF x

(* What is written with CRLF reads back.                                    *)
LEMMA RoundTripCRLF ==
  ASSUME NEW C, "LF" \in C, "CR" \in C, NEW lines \in Seq(Seq(C \ {"LF"})), lines # <<>>,
         NEW final \in BOOLEAN, final \/ (Len(lines) > 1 /\ Last(lines) # <<>>)
  PROVE  Parse(Render([crlf |-> TRUE, final |-> final, lines |-> lines])) =
           [crlf |-> TRUE, final |-> final, lines |-> lines]
<1> DEFINE crlf == <<"CR", "LF">>
           J == Join(lines, crlf)
           K == Join(lines, <<"LF">>)
           s == Render([crlf |-> TRUE, final |-> final, lines |-> lines])
<1>1. lines \in Seq(Seq(C))
  <2>1. \A x \in Seq(C \ {"LF"}) : x \in Seq(C)
    BY SeqMonotonic
  <2>2. Seq(C \ {"LF"}) \subseteq Seq(C)
    BY <2>1
  <2>3. QED
    BY <2>2, SeqMonotonic
<1>2. crlf \in Seq(C)
  OBVIOUS
<1>3. J \in Seq(C)
  <2> HIDE DEF crlf
  <2>1. QED
    BY <1>1, <1>2, JoinText
<1>4. s = IF final THEN J \o crlf ELSE J \o <<>>
  BY DEF Render, Sep
<1>5. CRLFtoLF(J) = K
  BY CRLFJoin
<1> HIDE DEF s
<1>6. CASE final
  <2> DEFINE e == << >>
  <2>0. e \in Seq(C)
    BY EmptySeq
  <2>1. s = J \o crlf
    BY <1>4, <1>6
  <2> HIDE DEF J, e
  <2>2. CRLFtoLF(J \o <<"CR", "LF">>) = Append(CRLFtoLF(J), "LF")
    BY <1>3, CRLFBreak
  <2>3. HasCRLF((J \o <<"CR", "LF">>) \o e)
    BY <1>3, <2>0, CRLFInside
  <2>4. s \in Seq(C)
    BY <1>2, <1>3, <2>1, ConcatProperties
  <2>5. s \o e = s
    BY <2>4, ConcatEmptySeq DEF e
  <2>6. HasCRLF(s)
    BY <2>1, <2>3, <2>5
  <2>7. Parse(s) = Parsed(TRUE, Append(K, "LF"))
    BY <1>5, <2>1, <2>2, <2>6, ParseIsParsed
  <2>8. Parsed(TRUE, Append(K, "LF")) = [crlf |-> TRUE, final |-> TRUE, lines |-> lines]
    BY ParsedFinal
  <2>9. QED
    BY <1>6, <2>7, <2>8 DEF s
<1>7. CASE ~final
  <2>1. s = J
    <3>1. J \o <<>> = J
      <4> HIDE DEF J
      <4>1. QED
        BY <1>3, ConcatEmptySeq
    <3>2. QED
      BY <1>4, <1>7, <3>1
  <2>2. HasCRLF(J)
    BY <1>1, <1>7, JoinHasCRLF
  <2>3. Parse(s) = Parsed(TRUE, K)
    BY <1>5, <2>1, <2>2, ParseIsParsed
  <2>4. Parsed(TRUE, K) = [crlf |-> TRUE, final |-> FALSE, lines |-> lines]
    BY <1>7, ParsedOpen
  <2>5. QED
    BY <1>7, <2>3, <2>4 DEF s
<1>8. QED
  BY <1>6, <1>7

(* What the tools write of lines with the newline and the end of a text, is *)
(* read back as exactly that, unless no text with that newline and that end *)
(* has those lines (Render and ReadTextFileUTF8).                           *)
THEOREM RoundTrip ==
  ASSUME NEW C, "LF" \in C, "CR" \in C, NEW t \in Texts(C)
  PROVE  Parse(Render(t)) = t \/ Unwritable(t, t.lines)
<1> DEFINE lines == t.lines
           final == t.final
<1>1. t = [crlf |-> t.crlf, final |-> final, lines |-> lines]
  BY DEF Texts
<1>2. t.crlf \in BOOLEAN /\ final \in BOOLEAN /\ lines \in Seq(Seq(InLine(C, t.crlf)))
  BY DEF Texts
<1>3. Len(lines) \in Nat
  BY DEF Texts
<1> HIDE DEF lines, final
<1>4. SUFFICES ASSUME ~Unwritable(t, lines) PROVE Parse(Render(t)) = t
  BY DEF lines
<1>5. CASE lines = <<>>
  <2> DEFINE e == << >>
  <2>1. ~final /\ ~t.crlf
    BY <1>4, <1>5 DEF Unwritable, final
  <2>2. t.lines = <<>> /\ ~t.crlf /\ ~t.final
    BY <1>5, <2>1 DEF lines, final
  <2>3. Join(t.lines, Sep(t.crlf)) = e
    BY <2>2 DEF Join
  <2>4. Render(t) = e \o <<>>
    BY <2>2, <2>3 DEF Render
  <2>5. e \o <<>> = e /\ e \in Seq(C \ {"CR"})
    BY EmptySeq, ConcatEmptySeq
  <2>6. Render(t) = e
    BY <2>4, <2>5
  <2> HIDE DEF e
  <2>7. ~HasCRLF(e) /\ CRtoLF(e) = e
    BY <2>5, WithoutCR
  <2>8. Parse(e) = Parsed(FALSE, e)
    <3>1. HasCRLF(e) = FALSE
      BY <2>7 DEF HasCRLF
    <3>2. Parse(e) = Parsed(HasCRLF(e), IF HasCRLF(e) THEN CRLFtoLF(e) ELSE CRtoLF(e))
      BY ParseIsParsed
    <3>3. QED
      BY <2>7, <3>1, <3>2
  <2>9. Last1(e) = "none" /\ e = <<>>
    BY DEF Last1, e
  <2>10. Parsed(FALSE, e) = [crlf |-> FALSE, final |-> FALSE, lines |-> <<>>]
    BY <2>9 DEF Parsed
  <2>11. QED
    BY <1>1, <1>2, <1>5, <2>1, <2>6, <2>8, <2>10
<1>6. CASE lines # <<>> /\ ~t.crlf
  <2>1. lines \in Seq(Seq(C \ {"LF", "CR"}))
    BY <1>2, <1>6 DEF InLine
  <2>2. final \/ Last(lines) # <<>>
    BY <1>4, <1>6 DEF Unwritable, final
  <2>3. Parse(Render([crlf |-> FALSE, final |-> final, lines |-> lines])) =
          [crlf |-> FALSE, final |-> final, lines |-> lines]
    BY <1>2, <1>6, <2>1, <2>2, RoundTripLF
  <2>4. t = [crlf |-> FALSE, final |-> final, lines |-> lines]
    BY <1>1, <1>2, <1>6
  <2>5. QED
    BY <2>3, <2>4
<1>7. CASE lines # <<>> /\ t.crlf
  <2>1. lines \in Seq(Seq(C \ {"LF"}))
    BY <1>2, <1>7 DEF InLine
  <2>2. final \/ (Len(lines) > 1 /\ Last(lines) # <<>>)
    BY <1>3, <1>4, <1>7 DEF Unwritable, final
  <2>3. Parse(Render([crlf |-> TRUE, final |-> final, lines |-> lines])) =
          [crlf |-> TRUE, final |-> final, lines |-> lines]
    BY <1>2, <1>7, <2>1, <2>2, RoundTripCRLF
  <2>4. t = [crlf |-> TRUE, final |-> final, lines |-> lines]
    BY <1>1, <1>2, <1>7
  <2>5. QED
    BY <2>3, <2>4
<1>8. QED
  BY <1>5, <1>6, <1>7

----------------------------------------------------------------------------
(* Sequences one after the other are sequences joined by nothing.           *)
LEMMA FlattenIsJoin ==
  ASSUME NEW C, NEW seqs \in Seq(Seq(C)), seqs # <<>>
  PROVE  FlattenSeq(seqs) = Join(seqs, <<>>)
<1> DEFINE X == Seq(C)
           n == Len(seqs)
           none == << >>
           Eq(f) == f = [i \in 1..n |-> IF i = 1 THEN seqs[i] ELSE f[i - 1] \o seqs[i]]
           ch == CHOOSE f : Eq(f)
           rest == Tail(seqs)
<1>0. none \in X
  BY EmptySeq
<1>1. FlattenSeq(seqs) = IF n = 0 THEN seqs ELSE ch[n]
  BY DEF FlattenSeq
<1>2. PICK g : Joins(g, seqs, none, C)
  <2> HIDE DEF none
  <2>1. QED
    BY <1>0, JoinTrace
<1>3. /\ Len(rest) \in Nat /\ g \in [0..Len(rest) -> X] /\ g[0] = Head(seqs)
      /\ Join(seqs, none) = g[Len(rest)]
      /\ \A i \in 1..Len(rest) : g[i] = g[i - 1] \o none \o rest[i]
  BY <1>2, Zenon DEF Joins
<1>4. seqs \in Seq(X)
  OBVIOUS
<1> HIDE DEF X
<1>5. /\ n \in Nat /\ n # 0 /\ Head(seqs) = seqs[1] /\ Len(rest) = n - 1
      /\ \A i \in 1..Len(rest) : rest[i] = seqs[i + 1]
      /\ \A i \in 1..n : seqs[i] \in X
  BY <1>4, HeadTailProperties, LenProperties, ElementOfSeq, EmptySeq
<1> HIDE DEF rest, n, ch
<1> DEFINE f == [i \in 1..n |-> g[i - 1]]
<1>6. ASSUME NEW i \in 1..n, i # 1 PROVE g[i - 1] = g[(i - 1) - 1] \o seqs[i]
  <2>1. i - 1 \in 1..Len(rest) /\ (i - 1) - 1 \in 0..Len(rest) /\ (i - 1) + 1 = i
    BY <1>5, <1>6
  <2>2. g[i - 1] = g[(i - 1) - 1] \o none \o rest[i - 1]
    BY <1>3, <2>1
  <2>3. g[(i - 1) - 1] \o none = g[(i - 1) - 1]
    <3>1. g[(i - 1) - 1] \in X
      BY <1>3, <2>1
    <3>2. QED
      BY <3>1, ConcatEmptySeq DEF X
  <2>4. rest[i - 1] = seqs[i]
    BY <1>5, <2>1
  <2>5. QED
    BY <2>2, <2>3, <2>4
<1>7. Eq(f)
  <2>1. ASSUME NEW i \in 1..n PROVE f[i] = IF i = 1 THEN seqs[i] ELSE f[i - 1] \o seqs[i]
    <3>1. CASE i = 1
      BY <1>3, <1>5, <3>1
    <3>2. CASE i # 1
      <4>1. i - 1 \in 1..n /\ f[i] = g[i - 1] /\ f[i - 1] = g[(i - 1) - 1]
        BY <1>5, <3>2
      <4>2. QED
        BY <1>6, <3>2, <4>1
    <3>3. QED
      BY <3>1, <3>2
  <2>2. f = [i \in 1..n |-> f[i]]
    OBVIOUS
  <2> HIDE DEF f
  <2>3. QED
    BY <2>1, <2>2
<1> HIDE DEF f
<1>8. Eq(ch)
  BY <1>7 DEF ch
<1> DEFINE h == [i \in 0..(n - 1) |-> ch[i + 1]]
<1>9. Alike(g, h, n - 1)
  <2>1. h[0] = seqs[1]
    <3>1. 0 \in 0..(n - 1) /\ 1 \in 1..n /\ 0 + 1 = 1
      BY <1>5
    <3>2. QED
      BY <1>8, <3>1
  <2>2. ASSUME NEW i \in 1..(n - 1), g[i - 1] = h[i - 1] PROVE g[i] = h[i]
    <3>1. i + 1 \in 1..n /\ i + 1 # 1 /\ (i + 1) - 1 = i /\ i \in 0..(n - 1) /\ i - 1 \in 0..(n - 1) /\ (i - 1) + 1 = i
      BY <1>5
    <3>2. h[i] = ch[i + 1] /\ h[i - 1] = ch[i]
      BY <3>1
    <3>3. ch[i + 1] = ch[i] \o seqs[i + 1]
      BY <1>8, <3>1
    <3>4. g[i] = g[i - 1] \o seqs[i + 1]
      BY <1>6, <3>1
    <3>5. QED
      BY <2>2, <3>2, <3>3, <3>4
  <2> HIDE DEF h
  <2>3. QED
    BY <1>3, <1>5, <2>1, <2>2 DEF Alike
<1>10. g[n - 1] = h[n - 1]
  <2> HIDE DEF h
  <2>1. n - 1 \in Nat
    BY <1>5
  <2>2. QED
    BY <1>9, <2>1, SameTrace
<1>11. h[n - 1] = ch[n]
  <2>1. n - 1 \in 0..(n - 1) /\ (n - 1) + 1 = n
    BY <1>5
  <2>2. QED
    BY <2>1
<1>12. QED
  BY <1>1, <1>3, <1>5, <1>10, <1>11

(* What comes last comes last.                                              *)
LEMMA FlattenAppend ==
  ASSUME NEW C, NEW seqs \in Seq(Seq(C)), NEW l \in Seq(C)
  PROVE  FlattenSeq(Append(seqs, l)) = FlattenSeq(seqs) \o l
<1> DEFINE X == Seq(C)
           t == Append(seqs, l)
           none == << >>
<1>1. none \in X
  BY EmptySeq
<1>2. t \in Seq(X) /\ t # <<>>
  <2>1. seqs \in Seq(X) /\ l \in X
    OBVIOUS
  <2> HIDE DEF X
  <2>2. QED
    BY <2>1, AppendProperties
<1>3. FlattenSeq(t) = Join(t, none)
  <2> HIDE DEF t
  <2>1. QED
    BY <1>2, FlattenIsJoin
<1>4. CASE seqs = <<>>
  <2>1. t = <<l>> /\ FlattenSeq(seqs) = none
    BY <1>4 DEF FlattenSeq
  <2>2. Join(<<l>>, none) = l
    <3> HIDE DEF none
    <3>1. QED
      BY <1>1, JoinOne
  <2>3. none \o l = l
    BY ConcatEmptySeq
  <2>4. QED
    BY <1>3, <2>1, <2>2, <2>3
<1>5. CASE seqs # <<>>
  <2>1. Join(t, none) = Join(seqs, none) \o none \o l
    <3> HIDE DEF none
    <3>1. QED
      BY <1>1, <1>5, JoinMore
  <2>2. FlattenSeq(seqs) = Join(seqs, none)
    BY <1>5, FlattenIsJoin
  <2>3. Join(seqs, none) \in Seq(C)
    <3> HIDE DEF none
    <3>1. QED
      BY <1>1, JoinText
  <2>4. Join(seqs, none) \o none = Join(seqs, none)
    BY <2>3, ConcatEmptySeq
  <2>5. QED
    BY <1>3, <2>1, <2>2, <2>4
<1>6. QED
  BY <1>4, <1>5

(* Nothing of nothing.                                                      *)
LEMMA FlattenEmpty ==
  FlattenSeq(<<>>) = <<>>
BY DEF FlattenSeq

(* Sequences of elements of C make one.                                     *)
LEMMA FlattenSeqs ==
  ASSUME NEW C, NEW seqs \in Seq(Seq(C))
  PROVE  FlattenSeq(seqs) \in Seq(C)
<1>1. CASE seqs = <<>>
  BY <1>1, FlattenEmpty, EmptySeq
<1>2. CASE seqs # <<>>
  <2> DEFINE none == << >>
  <2>1. none \in Seq(C) /\ FlattenSeq(seqs) = Join(seqs, none)
    BY <1>2, EmptySeq, FlattenIsJoin
  <2> HIDE DEF none
  <2>2. Join(seqs, none) \in Seq(C)
    BY <2>1, JoinText
  <2>3. QED
    BY <2>1, <2>2
<1>3. QED
  BY <1>1, <1>2

----------------------------------------------------------------------------
(* Once every CR is LF there is no CR.                                      *)
LEMMA CRtoLFText ==
  ASSUME NEW C, "LF" \in C, NEW s \in Seq(C)
  PROVE  CRtoLF(s) \in Seq(C \ {"CR"})
<1>1. Len(s) \in Nat /\ DOMAIN s = 1..Len(s) /\ \A i \in 1..Len(s) : s[i] \in C
  BY LenProperties, ElementOfSeq
<1>2. CRtoLF(s) = [i \in 1..Len(s) |-> IF s[i] = "CR" THEN "LF" ELSE s[i]]
  BY <1>1 DEF CRtoLF
<1>3. \A i \in 1..Len(s) : (IF s[i] = "CR" THEN "LF" ELSE s[i]) \in C \ {"CR"}
  BY <1>1
<1>4. QED
  BY <1>1, <1>2, <1>3

(* The lines of a text are nonempty in number.                              *)
LEMMA SplitSome ==
  ASSUME NEW C, NEW s \in Seq(C)
  PROVE  Split(s) \in Seq(Seq(C \ {"LF"}))
BY SplitLines DEF SomeLines

(* What Parse makes of a text with LF for its newlines.                     *)
LEMMA ParsedLines ==
  ASSUME NEW C, NEW crlf, NEW norm \in Seq(C)
  PROVE  Parsed(crlf, norm).lines \in Seq(Seq(C \ {"LF"}))
<1> DEFINE final == Last1(norm) = "LF"
           body == IF final THEN Front(norm) ELSE norm
<1>1. body \in Seq(C)
  <2>1. CASE final
    <3>1. norm # <<>>
      BY <2>1 DEF Last1
    <3>2. Front(norm) \in Seq(C)
      BY <3>1, FrontAndLast
    <3>3. QED
      BY <2>1, <3>2
  <2>2. CASE ~final
    BY <2>2
  <2>3. QED
    BY <2>1, <2>2
<1>2. Parsed(crlf, norm).lines = IF body = <<>> /\ ~final THEN <<>> ELSE Split(body)
  BY DEF Parsed
<1> HIDE DEF body, final
<1>3. Split(body) \in Seq(Seq(C \ {"LF"}))
  BY <1>1, SplitSome
<1>4. <<>> \in Seq(Seq(C \ {"LF"}))
  BY EmptySeq
<1>5. QED
  BY <1>2, <1>3, <1>4

(* What is read is a text.                                                  *)
LEMMA ParseText ==
  ASSUME NEW C, "LF" \in C, "CR" \in C, NEW s \in Seq(C)
  PROVE  Parse(s) \in Texts(C)
<1> DEFINE crlf == HasCRLF(s)
           norm == IF crlf THEN CRLFtoLF(s) ELSE CRtoLF(s)
           t == Parsed(crlf, norm)
           D == C \ {"CR"}
<1>1. Parse(s) = t
  BY ParseIsParsed
<1>2. crlf \in BOOLEAN
  BY DEF HasCRLF
<1>3. t.crlf = crlf /\ t = [crlf |-> t.crlf, final |-> t.final, lines |-> t.lines] /\ t.final \in BOOLEAN
  BY DEF Parsed
<1>4. t.lines \in Seq(Seq(InLine(C, crlf)))
  <2>1. CASE crlf
    <3>1. norm \in Seq(C)
      BY <2>1, CRLFText
    <3> HIDE DEF norm
    <3>2. Parsed(crlf, norm).lines \in Seq(Seq(C \ {"LF"}))
      BY <3>1, ParsedLines
    <3>3. QED
      BY <2>1, <3>2 DEF InLine
  <2>2. CASE ~crlf
    <3>1. norm \in Seq(D)
      BY <2>2, CRtoLFText
    <3> HIDE DEF norm
    <3>2. Parsed(crlf, norm).lines \in Seq(Seq(D \ {"LF"}))
      <4> HIDE DEF D
      <4>1. QED
        BY <3>1, ParsedLines
    <3>3. D \ {"LF"} = C \ {"LF", "CR"}
      OBVIOUS
    <3>4. QED
      BY <2>2, <3>2, <3>3 DEF InLine
  <2>3. QED
    BY <2>1, <2>2
<1> HIDE DEF t
<1>5. t.lines \in Seq(Seq(C))
  <2>1. InLine(C, crlf) \subseteq C
    BY DEF InLine
  <2> DEFINE I == InLine(C, crlf)
  <2> HIDE DEF I
  <2>2. \A x \in Seq(I) : x \in Seq(C)
    BY <2>1, SeqMonotonic DEF I
  <2>3. Seq(I) \subseteq Seq(C)
    BY <2>2
  <2>4. QED
    BY <1>4, <2>3, SeqMonotonic DEF I
<1>6. t \in [crlf : BOOLEAN, final : BOOLEAN, lines : Seq(Seq(C))]
  BY <1>2, <1>3, <1>5
<1>7. QED
  BY <1>1, <1>3, <1>4, <1>6 DEF Texts

(* The largest of some indices and 0.                                       *)
LEMMA MaxOrZero ==
  ASSUME NEW n \in Nat, NEW x \in SUBSET (1..n)
  PROVE  Max({0} \cup x) \in 0..n
<1>1. CASE x = {}
  <2>1. {0} \cup x = {0}
    BY <1>1
  <2>2. Max({0}) = 0
    BY DEF Max
  <2>3. QED
    BY <2>1, <2>2
<1>2. CASE x # {}
  <2>1. Max(x) \in x /\ \A y \in x : y <= Max(x)
    BY <1>2, MaxOf
  <2> DEFINE m == Max(x)
             z == {0} \cup x
  <2>2. m \in z /\ m \in 1..n /\ \A y \in z : m >= y
    <3>1. m \in x /\ \A y \in x : y <= m
      BY <2>1
    <3> HIDE DEF m
    <3>2. m \in 1..n /\ \A y \in x : y \in 1..n
      BY <3>1
    <3>3. ASSUME NEW y \in z PROVE m >= y
      <4>1. CASE y = 0
        BY <3>2, <4>1
      <4>2. CASE y \in x
        BY <3>1, <3>2, <4>2
      <4>3. QED
        BY <4>1, <4>2
    <3>4. QED
      BY <3>1, <3>2, <3>3
  <2> HIDE DEF m
  <2>3. \E k \in z : \A y \in z : k >= y
    BY <2>2
  <2>4. Max(z) \in z
    BY <2>3 DEF Max
  <2>5. z \subseteq 0..n
    OBVIOUS
  <2> HIDE DEF z
  <2>6. Max(z) \in 0..n
    BY <2>4, <2>5
  <2>7. QED
    BY <2>6 DEF z
<1>3. QED
  BY <1>1, <1>2

(* The beginning of a text is a text.                                       *)
LEMMA TrimmedText ==
  ASSUME NEW C, NEW s \in Seq(C)
  PROVE  TrimRightLF(s) \in Seq(C)
<1> DEFINE ink == {i \in DOMAIN s : s[i] # "LF"}
           k == Max({0} \cup ink)
<1>1. Len(s) \in Nat /\ ink \in SUBSET (1..Len(s))
  BY LenProperties
<1> HIDE DEF ink
<1>2. k \in 0..Len(s)
  BY <1>1, MaxOrZero
<1>3. TrimRightLF(s) = SubSeq(s, 1, k)
  BY DEF TrimRightLF, Upto, ink
<1> HIDE DEF k
<1>4. k \in Int /\ \A i \in 1..k : s[i] \in C
  BY <1>1, <1>2, ElementOfSeq
<1>5. SubSeq(s, 1, k) \in Seq(C)
  BY <1>4, SubSeqProperties
<1>6. QED
  BY <1>3, <1>5

(* The lines of a block that a caller gives: no newlines in them, and none  *)
(* only if there was none.                                                  *)
LEMMA NormLines ==
  ASSUME NEW C, "LF" \in C, NEW in \in Seq(Seq(C))
  PROVE  /\ NormalizeLineBlockInput(in) \in Seq(Seq(C \ {"LF", "CR"}))
         /\ NormalizeLineBlockInput(in) = <<>> <=> in = <<>>
<1> DEFINE D == C \ {"CR"}
           E == C \ {"LF", "CR"}
           Of(i) == Split(TrimRightLF(CRtoLF(CRLFtoLF(in[i]))))
           parts == [i \in DOMAIN in |-> Of(i)]
           n == Len(in)
           L == Seq(E)
<1>1. n \in Nat /\ DOMAIN in = 1..n /\ \A i \in 1..n : in[i] \in Seq(C)
  <2> DEFINE X == Seq(C)
  <2>1. in \in Seq(X)
    OBVIOUS
  <2> HIDE DEF X
  <2>2. n \in Nat /\ DOMAIN in = 1..n /\ \A i \in 1..n : in[i] \in X
    BY <2>1, LenProperties, ElementOfSeq
  <2>3. QED
    BY <2>2 DEF X
<1> HIDE DEF n
<1>2. ASSUME NEW i \in 1..n PROVE Of(i) \in SomeLines(E)
  <2> DEFINE u == CRLFtoLF(in[i])
             v == CRtoLF(u)
             w == TrimRightLF(v)
  <2>0. in[i] \in Seq(C)
    BY <1>1
  <2>1. u \in Seq(C)
    BY <2>0, CRLFText
  <2> HIDE DEF u
  <2>2. v \in Seq(D)
    BY <2>1, CRtoLFText
  <2> HIDE DEF v, D
  <2>3. w \in Seq(D)
    BY <2>2, TrimmedText
  <2> HIDE DEF w
  <2>4. Split(w) \in SomeLines(D \ {"LF"})
    BY <2>3, SplitLines
  <2>5. D \ {"LF"} = E
    BY DEF D
  <2>6. QED
    BY <2>4, <2>5 DEF u, v, w
<1> HIDE DEF Of, E
<1>3. \A i \in 1..n : Of(i) \in Seq(L) /\ Of(i) # <<>>
  BY <1>2 DEF SomeLines
<1>4. parts = [i \in 1..n |-> Of(i)]
  BY <1>1
<1> HIDE DEF parts, L
<1>5. parts \in Seq(Seq(L)) /\ Len(parts) = n /\ \A i \in 1..n : parts[i] # <<>>
  BY <1>1, <1>3, <1>4
<1>6. FlattenSeq(parts) \in Seq(L)
  BY <1>5, FlattenSeqs
<1>7. NormalizeLineBlockInput(in) = FlattenSeq(parts)
  BY DEF NormalizeLineBlockInput, parts, Of
<1>8. CASE n = 0
  <2>1. in = <<>> /\ parts = <<>>
    BY <1>1, <1>5, <1>8 DEF n
  <2>2. QED
    BY <1>6, <1>7, <2>1, FlattenEmpty DEF L, E
<1>9. CASE n # 0
  <2>1. in # <<>>
    BY <1>9 DEF n
  <2> DEFINE X == Seq(L)
             f == Front(parts)
             l == Last(parts)
  <2>2. parts \in Seq(X) /\ parts # <<>>
    BY <1>5, <1>9
  <2>3. l # <<>>
    BY <1>1, <1>5, <1>9 DEF Last
  <2> HIDE DEF X
  <2>4. f \in Seq(X) /\ l \in X /\ parts = Append(f, l)
    BY <2>2, FrontAndLast
  <2> HIDE DEF f, l
  <2>5. FlattenSeq(parts) = FlattenSeq(f) \o l
    BY <2>4, FlattenAppend DEF X
  <2>6. FlattenSeq(f) \in Seq(L)
    BY <2>4, FlattenSeqs DEF X
  <2>7. FlattenSeq(f) \o l # <<>>
    <3> DEFINE y == FlattenSeq(f)
    <3>1. y \in Seq(L) /\ l \in Seq(L)
      BY <2>4, <2>6 DEF X
    <3> HIDE DEF y
    <3>2. y \o l = <<>> <=> y = <<>> /\ l = <<>>
      BY <3>1, ConcatEqualIffEmpty
    <3>3. QED
      BY <2>3, <3>2 DEF y
  <2>8. QED
    BY <1>6, <1>7, <2>1, <2>5, <2>7 DEF L, E
<1>10. QED
  BY <1>1, <1>8, <1>9

----------------------------------------------------------------------------
(* Those of d that are in S, one after the other.                           *)
Kept(S, d) ==
  FoldLeft(LAMBDA found, i : IF i \in S THEN Append(found, i) ELSE found, <<>>, d)

(* What Kept goes through.                                                  *)
Keeps(g, S, d) ==
  /\ g \in [0..Len(d) -> Seq(Nat)] /\ g[0] = <<>> /\ Kept(S, d) = g[Len(d)]
  /\ \A i \in 1..Len(d) : g[i] = (IF d[i] \in S THEN Append(g[i - 1], d[i]) ELSE g[i - 1])

(* q are the elements of S up to k, each once, in increasing order.         *)
InTurn(q, S, k) ==
  /\ q \in Seq(Nat)
  /\ \A j \in 1..Len(q) : q[j] \in S /\ q[j] \in 1..k
  /\ \A i \in S : i \in 1..k => \E j \in 1..Len(q) : q[j] = i
  /\ \A i, j \in 1..Len(q) : i < j => q[i] < q[j]

(* Kept goes through the numbers one by one.                                *)
LEMMA KeptTrace ==
  ASSUME NEW S, NEW d \in Seq(Nat)
  PROVE  \E g : Keeps(g, S, d)
<1> DEFINE n == Len(d)
           A == Seq(Nat)
           base == <<>>
           step == [a \in A |-> [i \in 1..n |-> (IF d[i] \in S THEN Append(a, d[i]) ELSE a)]]
           Eq(j) == j = [x \in SUBSET DOMAIN d |->
                           IF x = {} THEN base ELSE (IF d[Max(x)] \in S THEN Append(j[x \ {Max(x)}], d[Max(x)]) ELSE j[x \ {Max(x)}])]
           ch == CHOOSE j : Eq(j)
<1>1. n \in Nat /\ DOMAIN d = 1..n /\ \A i \in 1..n : d[i] \in Nat
  BY LenProperties, ElementOfSeq
<1>2. base \in A
  BY EmptySeq
<1>3. step \in [A -> [1..n -> A]]
  BY <1>1, AppendProperties
<1>4. Kept(S, d) = ch[DOMAIN d]
  BY DEF Kept, FoldLeft, MapThenFoldSet
<1> HIDE DEF A, base, n
<1>5. ASSUME NEW a \in A, NEW i \in 1..n PROVE step[a][i] = (IF d[i] \in S THEN Append(a, d[i]) ELSE a)
  BY <1>5
<1> HIDE DEF step
<1>6. PICK it \in [SUBSET (1..n) -> A] : FoldsTo(it, base, step, n)
  BY <1>1, <1>2, <1>3, LeftFold
<1>7. ASSUME NEW x \in SUBSET (1..n), x # {}
      PROVE  Max(x) \in 1..n /\ x \ {Max(x)} \in SUBSET (1..n)
  BY <1>1, <1>7, MaxOf
<1>8. Eq(it)
  <2>1. \A x \in SUBSET (1..n) : x # {} => it[x] = (IF d[Max(x)] \in S THEN Append(it[x \ {Max(x)}], d[Max(x)]) ELSE it[x \ {Max(x)}])
    BY <1>5, <1>6, <1>7 DEF FoldsTo
  <2>2. it[{}] = base
    BY <1>6 DEF FoldsTo
  <2>3. QED
    BY <1>1, <1>6, <2>1, <2>2
<1>9. Eq(ch)
  BY <1>8
<1> HIDE DEF ch
<1>10. Follows(ch, A, base, step, n)
  <2>1. ch[{}] = base
    BY <1>9
  <2>2. \A x \in SUBSET (1..n) : x # {} => ch[x] = (IF d[Max(x)] \in S THEN Append(ch[x \ {Max(x)}], d[Max(x)]) ELSE ch[x \ {Max(x)}])
    BY <1>1, <1>9
  <2>3. ASSUME NEW x \in SUBSET (1..n), x # {}, ch[x \ {Max(x)}] \in A
        PROVE  ch[x] = step[ch[x \ {Max(x)}]][Max(x)]
    BY <1>5, <1>7, <2>2, <2>3
  <2>4. QED
    BY <2>1, <2>3 DEF Follows
<1>11. Yields(A, base, step, n, ch[1..n])
  BY <1>1, <1>2, <1>3, <1>10, ChosenFold
<1>12. PICK g : GoesThrough(g, A, base, step, n) /\ g[n] = ch[1..n]
  BY <1>11 DEF Yields
<1>13. \A i \in 1..n : g[i - 1] \in A /\ g[i] = step[g[i - 1]][i]
  BY <1>1, <1>12 DEF GoesThrough
<1>14. \A i \in 1..n : g[i] = (IF d[i] \in S THEN Append(g[i - 1], d[i]) ELSE g[i - 1])
  BY <1>5, <1>13
<1>15. QED
  BY <1>1, <1>4, <1>12, <1>14, SMTT(60) DEF GoesThrough, Keeps, n, A, base

(* The next number, if it is one of S, goes to the end.                     *)
LEMMA NextInTurn ==
  ASSUME NEW S, NEW k \in Nat, NEW q, InTurn(q, S, k)
  PROVE  InTurn(IF k + 1 \in S THEN Append(q, k + 1) ELSE q, S, k + 1)
<1>1. /\ q \in Seq(Nat) /\ Len(q) \in Nat
      /\ \A j \in 1..Len(q) : q[j] \in S /\ q[j] \in 1..k
      /\ \A i \in S : i \in 1..k => \E j \in 1..Len(q) : q[j] = i
      /\ \A i, j \in 1..Len(q) : i < j => q[i] < q[j]
  BY LenProperties DEF InTurn
<1>2. CASE k + 1 \notin S
  <2>1. \A j \in 1..Len(q) : q[j] \in 1..(k + 1)
    BY <1>1
  <2>2. \A i \in S : i \in 1..(k + 1) => i \in 1..k
    BY <1>2
  <2>3. InTurn(q, S, k + 1)
    BY <1>1, <2>1, <2>2 DEF InTurn
  <2>4. QED
    BY <1>2, <2>3
<1>3. CASE k + 1 \in S
  <2> DEFINE t == Append(q, k + 1)
  <2>1. /\ t \in Seq(Nat) /\ Len(t) = Len(q) + 1
        /\ t[Len(q) + 1] = k + 1 /\ \A j \in 1..Len(q) : t[j] = q[j]
    BY <1>1, AppendProperties
  <2> HIDE DEF t
  <2>2. \A j \in 1..Len(t) : j \in 1..Len(q) \/ j = Len(q) + 1
    BY <1>1, <2>1
  <2>3. \A j \in 1..Len(t) : t[j] \in S /\ t[j] \in 1..(k + 1)
    BY <1>1, <1>3, <2>1, <2>2
  <2>4. ASSUME NEW i \in S, i \in 1..(k + 1) PROVE \E j \in 1..Len(t) : t[j] = i
    <3>1. CASE i = k + 1
      <4>1. Len(q) + 1 \in 1..Len(t)
        BY <1>1, <2>1
      <4>2. QED
        BY <2>1, <3>1, <4>1
    <3>2. CASE i # k + 1
      <4>1. i \in 1..k
        BY <2>4, <3>2
      <4>2. PICK j \in 1..Len(q) : q[j] = i
        BY <1>1, <4>1
      <4>3. j \in 1..Len(t) /\ t[j] = i
        BY <1>1, <2>1, <4>2
      <4>4. QED
        BY <4>3
    <3>3. QED
      BY <3>1, <3>2
  <2>5. ASSUME NEW i \in 1..Len(t), NEW j \in 1..Len(t), i < j PROVE t[i] < t[j]
    <3>1. i \in 1..Len(q)
      BY <1>1, <2>1, <2>2, <2>5
    <3>2. q[i] \in 1..k /\ t[i] = q[i]
      BY <1>1, <2>1, <3>1
    <3>3. CASE j \in 1..Len(q)
      <4>1. q[i] < q[j] /\ t[j] = q[j]
        BY <1>1, <2>1, <2>5, <3>1, <3>3
      <4>2. QED
        BY <3>2, <4>1
    <3>4. CASE j = Len(q) + 1
      <4>1. t[j] = k + 1
        BY <2>1, <3>4
      <4>2. QED
        BY <3>2, <4>1
    <3>5. QED
      BY <2>2, <3>3, <3>4
  <2>6. InTurn(t, S, k + 1)
    BY <2>1, <2>3, <2>4, <2>5 DEF InTurn
  <2>7. QED
    BY <1>3, <2>6 DEF t
<1>4. QED
  BY <1>2, <1>3

(* A search notes what it is for, each once, in the order of the lines.     *)
LEMMA InOrderInTurn ==
  ASSUME NEW S, NEW C, NEW lines \in Seq(C)
  PROVE  InTurn(InOrder(S, lines), S, Len(lines))
<1> DEFINE n == Len(lines)
           d == [i \in DOMAIN lines |-> i]
<1>1. n \in Nat /\ DOMAIN lines = 1..n
  BY LenProperties
<1>2. InOrder(S, lines) = Kept(S, d)
  BY DEF InOrder, FoldLeftDomain, Kept
<1> HIDE DEF n
<1>3. d \in Seq(Nat) /\ Len(d) = n /\ \A i \in 1..n : d[i] = i
  <2>1. d = [i \in 1..n |-> i]
    BY <1>1
  <2>2. \A i \in 1..n : i \in Nat
    BY <1>1
  <2> HIDE DEF d
  <2>3. QED
    BY <1>1, <2>1, <2>2
<1> HIDE DEF d
<1>3a. PICK g : Keeps(g, S, d)
  BY <1>3, KeptTrace
<1>4. /\ g[0] = <<>> /\ Kept(S, d) = g[Len(d)]
      /\ \A i \in 1..Len(d) : g[i] = (IF d[i] \in S THEN Append(g[i - 1], d[i]) ELSE g[i - 1])
  BY <1>3a, Zenon DEF Keeps
<1> DEFINE T == {k \in Nat : k <= n => InTurn(g[k], S, k)}
<1>5. 0 \in T
  <2> DEFINE none == << >>
  <2>1. none \in Seq(Nat) /\ Len(none) = 0 /\ g[0] = none
    BY <1>4, EmptySeq
  <2> HIDE DEF none
  <2>2. InTurn(none, S, 0)
    BY <2>1 DEF InTurn
  <2>3. QED
    BY <2>1, <2>2
<1>6. ASSUME NEW k \in Nat, k \in T PROVE k + 1 \in T
  <2>1. SUFFICES ASSUME k + 1 <= n PROVE InTurn(g[k + 1], S, k + 1)
    OBVIOUS
  <2>2. k <= n /\ k + 1 \in 1..n /\ (k + 1) - 1 = k
    BY <1>1, <2>1
  <2>3. g[k + 1] = IF k + 1 \in S THEN Append(g[k], k + 1) ELSE g[k]
    BY <1>3, <1>4, <2>2
  <2>4. InTurn(g[k], S, k)
    BY <1>6, <2>2
  <2>5. InTurn(IF k + 1 \in S THEN Append(g[k], k + 1) ELSE g[k], S, k + 1)
    BY <2>4, NextInTurn
  <2>6. QED
    BY <2>3, <2>5
<1> HIDE DEF T
<1>7. n \in T
  BY <1>1, <1>5, <1>6, Naturally
<1>8. InTurn(g[n], S, n)
  BY <1>1, <1>7 DEF T
<1>9. QED
  BY <1>2, <1>3, <1>4, <1>8 DEF n

(* A sequence of the elements of a set, each once, is as long as the set.   *)
LEMMA InTurnCount ==
  ASSUME NEW n \in Nat, NEW S \in SUBSET (1..n), NEW q, InTurn(q, S, n)
  PROVE  /\ ToSet(q) = S
         /\ Cardinality(S) = Len(q)
         /\ IsFiniteSet(S)
<1> DEFINE D == 1..Len(q)
<1>1. /\ Len(q) \in Nat /\ DOMAIN q = D /\ q \in [D -> Nat]
      /\ \A j \in D : q[j] \in S
      /\ \A i \in S : \E j \in D : q[j] = i
      /\ \A i, j \in D : i < j => q[i] < q[j]
  BY LenProperties DEF InTurn
<1>2. ToSet(q) = S
  BY <1>1 DEF ToSet
<1>3. ASSUME NEW i \in D, NEW j \in D, i # j PROVE q[i] # q[j]
  <2>1. i < j \/ j < i
    BY <1>1, <1>3
  <2>2. q[i] \in Nat /\ q[j] \in Nat
    BY <1>1
  <2>3. q[i] < q[j] \/ q[j] < q[i]
    BY <1>1, <2>1
  <2>4. QED
    BY <2>2, <2>3
<1>4. q \in Bijection(D, S)
  <2>1. q \in [D -> S]
    BY <1>1
  <2>2. q \in Injection(D, S)
    BY <1>3, <2>1, Zenon DEF Injection, IsInjective
  <2>3. q \in Surjection(D, S)
    BY <1>1, <2>1, Zenon DEF Surjection
  <2>4. QED
    BY <2>2, <2>3 DEF Bijection
<1>5. IsFiniteSet(D) /\ Cardinality(D) = Len(q)
  <2> DEFINE k == Len(q)
  <2>1. k \in Int /\ 1 \in Int /\ k >= 0
    BY <1>1
  <2> HIDE DEF k
  <2>2. IsFiniteSet(1..k) /\ Cardinality(1..k) = IF 1 > k THEN 0 ELSE (k - 1) + 1
    BY <2>1, FS_Interval
  <2>3. Cardinality(1..k) = k
    BY <2>1, <2>2
  <2>4. QED
    BY <2>2, <2>3 DEF k
<1> HIDE DEF D
<1>6. ExistsBijection(D, S)
  BY <1>4 DEF ExistsBijection
<1>7. IsFiniteSet(S) /\ Cardinality(S) = Cardinality(D)
  BY <1>5, <1>6, FS_Bijection
<1>8. QED
  BY <1>2, <1>5, <1>7

(* Trimming is done line by line.                                           *)
Trims(X) == {TrimSpace(x) : x \in X}

(* The lines, trimmed.                                                      *)
LEMMA Trimmed ==
  ASSUME NEW X, NEW lines \in Seq(X)
  PROVE  /\ GetTrimmedLines(lines) \in Seq(Trims(X))
         /\ Len(GetTrimmedLines(lines)) = Len(lines)
         /\ \A i \in 1..Len(lines) : GetTrimmedLines(lines)[i] = TrimSpace(lines[i])
<1> DEFINE Y == Trims(X)
           n == Len(lines)
<1>1. n \in Nat /\ DOMAIN lines = 1..n /\ \A i \in 1..n : lines[i] \in X
  BY LenProperties, ElementOfSeq
<1> HIDE DEF n
<1>2. GetTrimmedLines(lines) = [i \in 1..n |-> TrimSpace(lines[i])]
  BY <1>1 DEF GetTrimmedLines
<1>3. \A i \in 1..n : TrimSpace(lines[i]) \in Y
  BY <1>1 DEF Trims
<1> HIDE DEF Y
<1>4. GetTrimmedLines(lines) \in Seq(Y) /\ Len(GetTrimmedLines(lines)) = n
  BY <1>1, <1>2, <1>3
<1>5. QED
  BY <1>2, <1>4 DEF Y, n

(* The block with what is before and after it is at p: said elementwise.    *)
BlockAt(T, b, m, a, p) ==
  /\ p > Len(b) /\ ((p + Len(m)) + Len(a)) - 1 <= Len(T)
  /\ \A j \in 1..Len(b) : T[((p - Len(b)) + j) - 1] = b[j]
  /\ \A j \in 1..Len(m) : T[(p + j) - 1] = m[j]
  /\ \A j \in 1..Len(a) : T[((p + Len(m)) + j) - 1] = a[j]

(* The search looks for just that.                                          *)
LEMMA AdjacentIsBlockAt ==
  ASSUME NEW Y, NEW T \in Seq(Y), NEW b \in Seq(Y), NEW m \in Seq(Y), NEW a \in Seq(Y),
         NEW p \in 1..Len(T)
  PROVE  AdjacentAt(T, b, m, a, p) <=> BlockAt(T, b, m, a, p)
<1>1. /\ Len(T) \in Nat /\ Len(b) \in Nat /\ Len(m) \in Nat /\ Len(a) \in Nat
      /\ DOMAIN b = 1..Len(b) /\ DOMAIN m = 1..Len(m) /\ DOMAIN a = 1..Len(a)
      /\ b = <<>> <=> Len(b) = 0
      /\ a = <<>> <=> Len(a) = 0
  <2>1. /\ Len(T) \in Nat /\ Len(b) \in Nat /\ Len(m) \in Nat /\ Len(a) \in Nat
        /\ DOMAIN b = 1..Len(b) /\ DOMAIN m = 1..Len(m) /\ DOMAIN a = 1..Len(a)
    BY LenProperties
  <2>2. ASSUME NEW s \in Seq(Y) PROVE s = <<>> <=> Len(s) = 0
    BY EmptySeq
  <2>3. QED
    BY <2>1, <2>2
<1>2. IsBlockEqualsAt(T, m, p) <=>
        (p + Len(m)) - 1 <= Len(T) /\ \A j \in 1..Len(m) : T[(p + j) - 1] = m[j]
  <2>1. p >= 1
    BY <1>1
  <2>2. DOMAIN m = 1..Len(m)
    BY <1>1
  <2>3. QED
    BY <2>1, <2>2 DEF IsBlockEqualsAt
<1>3. (b # <<>> => p > Len(b) /\ IsBlockEqualsAt(T, b, p - Len(b))) <=>
        (p > Len(b) /\ \A j \in 1..Len(b) : T[((p - Len(b)) + j) - 1] = b[j])
  <2>1. CASE b = <<>>
    BY <1>1, <2>1
  <2>2. CASE b # <<>>
    <3>1. p > Len(b) => p - Len(b) >= 1 /\ ((p - Len(b)) + Len(b)) - 1 <= Len(T)
      BY <1>1
    <3>2. p > Len(b) => (IsBlockEqualsAt(T, b, p - Len(b)) <=>
                           \A j \in 1..Len(b) : T[((p - Len(b)) + j) - 1] = b[j])
      BY <1>1, <3>1 DEF IsBlockEqualsAt
    <3>3. QED
      BY <2>2, <3>2
  <2>3. QED
    BY <2>1, <2>2
<1>4. (p + Len(m)) - 1 <= Len(T) =>
        ((a # <<>> => IsBlockEqualsAt(T, a, p + Len(m))) <=>
         (((p + Len(m)) + Len(a)) - 1 <= Len(T)
          /\ \A j \in 1..Len(a) : T[((p + Len(m)) + j) - 1] = a[j]))
  <2>1. CASE a = <<>>
    BY <1>1, <2>1
  <2>2. CASE a # <<>>
    <3>1. p + Len(m) >= 1
      BY <1>1
    <3>2. IsBlockEqualsAt(T, a, p + Len(m)) <=>
           (((p + Len(m)) + Len(a)) - 1 <= Len(T)
            /\ \A j \in 1..Len(a) : T[((p + Len(m)) + j) - 1] = a[j])
      BY <1>1, <3>1 DEF IsBlockEqualsAt
    <3>3. QED
      BY <2>2, <3>2
  <2>3. QED
    BY <2>1, <2>2
<1>5. ((p + Len(m)) + Len(a)) - 1 <= Len(T) => (p + Len(m)) - 1 <= Len(T)
  BY <1>1
<1>6. QED
  BY <1>2, <1>3, <1>4, <1>5 DEF AdjacentAt, BlockAt

(* u is three sequences in a row, elementwise.                              *)
InARow(u, b, m, a, Y) ==
  /\ u \in Seq(Y)
  /\ Len(u) = (Len(b) + Len(m)) + Len(a)
  /\ \A j \in 1..Len(b) : u[j] = b[j]
  /\ \A j \in 1..Len(m) : u[Len(b) + j] = m[j]
  /\ \A j \in 1..Len(a) : u[(Len(b) + Len(m)) + j] = a[j]

(* So is the first two and the third put together.                          *)
LEMMA ThreeInARow ==
  ASSUME NEW Y, NEW b \in Seq(Y), NEW m \in Seq(Y), NEW a \in Seq(Y)
  PROVE  InARow((b \o m) \o a, b, m, a, Y)
<1> DEFINE x == b \o m
           y == x \o a
<1>1. Len(b) \in Nat /\ Len(m) \in Nat /\ Len(a) \in Nat
  BY LenProperties
<1>2. /\ x \in Seq(Y) /\ Len(x) = Len(b) + Len(m)
      /\ \A i \in 1..(Len(b) + Len(m)) : x[i] = IF i <= Len(b) THEN b[i] ELSE m[i - Len(b)]
  BY ConcatProperties
<1> HIDE DEF x
<1>3. /\ y \in Seq(Y) /\ Len(y) = Len(x) + Len(a)
      /\ \A i \in 1..(Len(x) + Len(a)) : y[i] = IF i <= Len(x) THEN x[i] ELSE a[i - Len(x)]
  <2>0. x \in Seq(Y)
    BY <1>2
  <2>1. y \in Seq(Y)
    BY <2>0, ConcatProperties
  <2>2. Len(y) = Len(x) + Len(a)
    BY <2>0, ConcatProperties
  <2>3. \A i \in 1..(Len(x) + Len(a)) : y[i] = IF i <= Len(x) THEN x[i] ELSE a[i - Len(x)]
    BY <2>0, ConcatProperties
  <2>4. QED
    BY <2>1, <2>2, <2>3
<1> HIDE DEF y
<1>4. ASSUME NEW j \in 1..Len(b) PROVE y[j] = b[j]
  <2>1. /\ j \in 1..(Len(x) + Len(a)) /\ j <= Len(x)
        /\ j \in 1..(Len(b) + Len(m)) /\ j <= Len(b)
    BY <1>1, <1>2
  <2>2. QED
    BY <1>2, <1>3, <2>1
<1>5. ASSUME NEW j \in 1..Len(m) PROVE y[Len(b) + j] = m[j]
  <2>1. /\ Len(b) + j \in 1..(Len(x) + Len(a)) /\ Len(b) + j <= Len(x)
        /\ Len(b) + j \in 1..(Len(b) + Len(m)) /\ ~(Len(b) + j <= Len(b))
        /\ (Len(b) + j) - Len(b) = j
    BY <1>1, <1>2
  <2>2. QED
    BY <1>2, <1>3, <2>1
<1>6. ASSUME NEW j \in 1..Len(a) PROVE y[(Len(b) + Len(m)) + j] = a[j]
  <2>1. /\ (Len(b) + Len(m)) + j \in 1..(Len(x) + Len(a))
        /\ ~((Len(b) + Len(m)) + j <= Len(x))
        /\ ((Len(b) + Len(m)) + j) - Len(x) = j
    BY <1>1, <1>2
  <2>2. QED
    BY <1>3, <2>1
<1>7. Len(y) = (Len(b) + Len(m)) + Len(a)
  BY <1>2, <1>3
<1>8. QED
  BY <1>3, <1>4, <1>5, <1>6, <1>7 DEF y, x, InARow

TrimsApart(x, y, z) == GetTrimmedLines((x \o y) \o z) =
  (GetTrimmedLines(x) \o GetTrimmedLines(y)) \o GetTrimmedLines(z)

(* Three blocks are trimmed one after the other.                            *)
LEMMA TrimmedThree ==
  ASSUME NEW X, NEW x \in Seq(X), NEW y \in Seq(X), NEW z \in Seq(X)
  PROVE  TrimsApart(x, y, z)
<1> DEFINE Y == Trims(X)
           s == (x \o y) \o z
           b == GetTrimmedLines(x)
           m == GetTrimmedLines(y)
           a == GetTrimmedLines(z)
           t == GetTrimmedLines(s)
           u == (b \o m) \o a
<1>1. x \in Seq(X) /\ y \in Seq(X) /\ z \in Seq(X)
  OBVIOUS
<1>2. /\ b \in Seq(Y) /\ Len(b) = Len(x) /\ \A i \in 1..Len(x) : b[i] = TrimSpace(x[i])
      /\ m \in Seq(Y) /\ Len(m) = Len(y) /\ \A i \in 1..Len(y) : m[i] = TrimSpace(y[i])
      /\ a \in Seq(Y) /\ Len(a) = Len(z) /\ \A i \in 1..Len(z) : a[i] = TrimSpace(z[i])
  BY Trimmed
<1>3. Len(x) \in Nat /\ Len(y) \in Nat /\ Len(z) \in Nat
  <2>1. QED
    BY <1>1, LenProperties
<1>4. /\ s \in Seq(X)
      /\ Len(s) = (Len(x) + Len(y)) + Len(z)
      /\ \A j \in 1..Len(x) : s[j] = x[j]
      /\ \A j \in 1..Len(y) : s[Len(x) + j] = y[j]
      /\ \A j \in 1..Len(z) : s[(Len(x) + Len(y)) + j] = z[j]
  <2>1. InARow(s, x, y, z, X)
    BY <1>1, ThreeInARow
  <2>2. QED
    BY <2>1, Zenon DEF InARow
<1> HIDE DEF s, b, m, a, Y
<1>5. /\ u \in Seq(Y)
      /\ Len(u) = (Len(b) + Len(m)) + Len(a)
      /\ \A j \in 1..Len(b) : u[j] = b[j]
      /\ \A j \in 1..Len(m) : u[Len(b) + j] = m[j]
      /\ \A j \in 1..Len(a) : u[(Len(b) + Len(m)) + j] = a[j]
  <2>1. InARow(u, b, m, a, Y)
    BY <1>2, ThreeInARow
  <2>2. QED
    BY <2>1, Zenon DEF InARow
<1>6. t \in Seq(Y) /\ Len(t) = Len(s) /\ \A i \in 1..Len(s) : t[i] = TrimSpace(s[i])
  BY <1>4, Trimmed DEF Y
<1> HIDE DEF s
<1>7. ASSUME NEW i \in 1..Len(t) PROVE t[i] = u[i]
  <2>0. i \in 1..((Len(x) + Len(y)) + Len(z)) /\ t[i] = TrimSpace(s[i])
    BY <1>4, <1>6
  <2>1. CASE i <= Len(x)
    <3>1. i \in 1..Len(x)
      BY <1>3, <2>0, <2>1
    <3>2. QED
      BY <1>2, <1>4, <1>5, <2>0, <3>1
  <2>2. CASE i > Len(x) /\ i <= Len(x) + Len(y)
    <3> DEFINE j == i - Len(x)
    <3>1. j \in 1..Len(y) /\ i = Len(x) + j
      BY <1>3, <2>0, <2>2
    <3> HIDE DEF j
    <3>2. s[i] = y[j] /\ u[i] = m[j] /\ m[j] = TrimSpace(y[j])
      BY <1>2, <1>4, <1>5, <3>1
    <3>3. QED
      BY <2>0, <3>2
  <2>3. CASE i > Len(x) + Len(y)
    <3> DEFINE j == i - (Len(x) + Len(y))
    <3>1. j \in 1..Len(z) /\ i = (Len(x) + Len(y)) + j
      BY <1>3, <2>0, <2>3
    <3> HIDE DEF j
    <3>2. s[i] = z[j] /\ u[i] = a[j] /\ a[j] = TrimSpace(z[j])
      BY <1>2, <1>4, <1>5, <3>1
    <3>3. QED
      BY <2>0, <3>2
  <2>4. i <= Len(x) \/ (i > Len(x) /\ i <= Len(x) + Len(y)) \/ i > Len(x) + Len(y)
    BY <1>3, <2>0
  <2>5. QED
    BY <2>1, <2>2, <2>3, <2>4, Zenon
<1>8. Len(t) = Len(u)
  BY <1>2, <1>4, <1>5, <1>6
<1>9. t = u
  BY <1>5, <1>6, <1>7, <1>8, SeqEqual
<1>10. QED
  BY <1>9, Zenon DEF TrimsApart, t, u, s, b, m, a

PartAt(T, b, m, a, p) ==
  LET all == (b \o m) \o a
      q == p - Len(b)
  IN /\ p > Len(b) /\ (q + Len(all)) - 1 <= Len(T)
     /\ SubSeq(T, q, (q + Len(all)) - 1) = all

(* A part of a sequence is three sequences in a row, elementwise.           *)
LEMMA PartIsBlockAt ==
  ASSUME NEW Y, NEW T \in Seq(Y), NEW b \in Seq(Y), NEW m \in Seq(Y), NEW a \in Seq(Y),
         NEW p \in 1..Len(T)
  PROVE  BlockAt(T, b, m, a, p) <=> PartAt(T, b, m, a, p)
<1> DEFINE all == (b \o m) \o a
           q == p - Len(b)
           L == Len(all)
           r == (q + L) - 1
           sub == SubSeq(T, q, r)
<1>1. /\ Len(T) \in Nat /\ Len(b) \in Nat /\ Len(m) \in Nat /\ Len(a) \in Nat
      /\ p \in Nat /\ p >= 1
  <2>1. Len(T) \in Nat /\ Len(b) \in Nat /\ Len(m) \in Nat /\ Len(a) \in Nat
    BY LenProperties
  <2>2. QED
    BY <2>1
<1>2. /\ all \in Seq(Y)
      /\ L = (Len(b) + Len(m)) + Len(a)
      /\ \A j \in 1..Len(b) : all[j] = b[j]
      /\ \A j \in 1..Len(m) : all[Len(b) + j] = m[j]
      /\ \A j \in 1..Len(a) : all[(Len(b) + Len(m)) + j] = a[j]
  <2>1. InARow(all, b, m, a, Y)
    BY ThreeInARow
  <2>2. QED
    BY <2>1, Zenon DEF InARow
<1> HIDE DEF all, L
<1>3. (p > Len(b) /\ r <= Len(T)) <=> (p > Len(b) /\ ((p + Len(m)) + Len(a)) - 1 <= Len(T))
  BY <1>1, <1>2
<1>4. CASE ~(p > Len(b) /\ r <= Len(T))
  BY <1>3, <1>4 DEF BlockAt, PartAt, all, L
<1>5. CASE p > Len(b) /\ r <= Len(T)
  <2>0. L \in Nat /\ q \in Nat /\ q >= 1 /\ r \in Int /\ (r - q) + 1 = L
    <3>1. L \in Nat
      BY <1>1, <1>2
    <3>2. QED
      BY <1>1, <1>5, <3>1
  <2>1. \A i \in q..r : T[i] \in Y
    <3>1. \A i \in q..r : i \in 1..Len(T)
      BY <1>1, <1>5, <2>0
    <3>2. QED
      BY <3>1, ElementOfSeq
  <2>2. /\ sub \in Seq(Y) /\ Len(sub) = L
        /\ \A k \in 1..L : sub[k] = T[(q + k) - 1]
    <3> HIDE DEF q, r
    <3>1. /\ sub \in Seq(Y) /\ Len(sub) = IF q <= r THEN (r - q) + 1 ELSE 0
          /\ \A k \in 1..((r - q) + 1) : sub[k] = T[(q + k) - 1]
      BY <2>0, <2>1, SubSeqProperties
    <3>2. QED
      BY <2>0, <3>1
  <2> HIDE DEF sub
  <2>3. sub = all <=> \A k \in 1..L : T[(q + k) - 1] = all[k]
    <3>1. ASSUME \A k \in 1..L : T[(q + k) - 1] = all[k] PROVE sub = all
      <4>1. \A k \in 1..Len(sub) : sub[k] = all[k]
        BY <2>2, <3>1
      <4>2. Len(sub) = Len(all)
        BY <2>2 DEF L
      <4>3. QED
        BY <1>2, <2>2, <4>1, <4>2, SeqEqual
    <3>2. QED
      BY <2>2, <3>1
  <2>4. ASSUME \A k \in 1..L : T[(q + k) - 1] = all[k] PROVE BlockAt(T, b, m, a, p)
    <3>1. ASSUME NEW j \in 1..Len(b) PROVE T[((p - Len(b)) + j) - 1] = b[j]
      <4>1. j \in 1..L
        BY <1>1, <1>2
      <4>2. QED
        BY <1>2, <2>4, <4>1
    <3>2. ASSUME NEW j \in 1..Len(m) PROVE T[(p + j) - 1] = m[j]
      <4>1. Len(b) + j \in 1..L /\ (q + (Len(b) + j)) - 1 = (p + j) - 1
        BY <1>1, <1>2
      <4>2. QED
        BY <1>2, <2>4, <4>1
    <3>3. ASSUME NEW j \in 1..Len(a) PROVE T[((p + Len(m)) + j) - 1] = a[j]
      <4>1. /\ (Len(b) + Len(m)) + j \in 1..L
            /\ (q + ((Len(b) + Len(m)) + j)) - 1 = ((p + Len(m)) + j) - 1
        BY <1>1, <1>2
      <4>2. QED
        BY <1>2, <2>4, <4>1
    <3>4. QED
      BY <1>3, <1>5, <3>1, <3>2, <3>3 DEF BlockAt
  <2>5. ASSUME BlockAt(T, b, m, a, p), NEW k \in 1..L PROVE T[(q + k) - 1] = all[k]
    <3>1. CASE k <= Len(b)
      <4>1. k \in 1..Len(b)
        BY <1>1, <2>0, <3>1
      <4>2. QED
        BY <1>2, <2>5, <4>1 DEF BlockAt
    <3>2. CASE k > Len(b) /\ k <= Len(b) + Len(m)
      <4> DEFINE j == k - Len(b)
      <4>1. j \in 1..Len(m) /\ k = Len(b) + j /\ (q + k) - 1 = (p + j) - 1
        BY <1>1, <2>0, <3>2
      <4> HIDE DEF j
      <4>2. T[(p + j) - 1] = m[j] /\ all[k] = m[j]
        BY <1>2, <2>5, <4>1 DEF BlockAt
      <4>3. QED
        BY <4>1, <4>2
    <3>3. CASE k > Len(b) + Len(m)
      <4> DEFINE j == k - (Len(b) + Len(m))
      <4>1. /\ j \in 1..Len(a) /\ k = (Len(b) + Len(m)) + j
            /\ (q + k) - 1 = ((p + Len(m)) + j) - 1
        BY <1>1, <1>2, <2>0, <3>3
      <4> HIDE DEF j
      <4>2. T[((p + Len(m)) + j) - 1] = a[j] /\ all[k] = a[j]
        BY <1>2, <2>5, <4>1 DEF BlockAt
      <4>3. QED
        BY <4>1, <4>2
    <3>4. QED
      BY <1>1, <2>0, <3>1, <3>2, <3>3
  <2>6. BlockAt(T, b, m, a, p) <=> sub = all
    BY <2>3, <2>4, <2>5
  <2>7. QED
    BY <1>5, <2>6 DEF PartAt, sub, all, L
<1>6. QED
  BY <1>4, <1>5

(* Where a block is, elementwise.                                           *)
LEMMA PlacesAreBlocks ==
  ASSUME NEW X, NEW lines \in Seq(X), NEW before \in Seq(X),
         NEW block \in Seq(X), NEW after \in Seq(X)
  PROVE  Places(lines, before, block, after) =
           {p \in 1..Len(lines) : BlockAt(GetTrimmedLines(lines), GetTrimmedLines(before),
                                          GetTrimmedLines(block), GetTrimmedLines(after), p)}
<1> DEFINE Y == Trims(X)
           T == GetTrimmedLines(lines)
           b == GetTrimmedLines(before)
           m == GetTrimmedLines(block)
           a == GetTrimmedLines(after)
           all == GetTrimmedLines((before \o block) \o after)
<1>1. all = (b \o m) \o a
  <2>1. TrimsApart(before, block, after)
    BY TrimmedThree
  <2>2. QED
    BY <2>1, Zenon DEF TrimsApart
<1>2. T \in Seq(Y) /\ Len(T) = Len(lines)
  BY Trimmed
<1>3. b \in Seq(Y) /\ Len(b) = Len(before)
  BY Trimmed
<1>4. m \in Seq(Y) /\ a \in Seq(Y)
  BY Trimmed
<1>5. DOMAIN lines = 1..Len(lines)
  BY LenProperties
<1>6. Places(lines, before, block, after) =
        {p \in 1..Len(lines) : /\ p > Len(before)
                               /\ ((p - Len(before)) + Len(all)) - 1 <= Len(lines)
                               /\ SubSeq(T, p - Len(before), ((p - Len(before)) + Len(all)) - 1) = all}
  BY <1>5 DEF Places
<1> HIDE DEF Y, T, b, m, a, all
<1>7. ASSUME NEW p \in 1..Len(lines)
      PROVE  BlockAt(T, b, m, a, p) <=>
               /\ p > Len(before)
               /\ ((p - Len(before)) + Len(all)) - 1 <= Len(lines)
               /\ SubSeq(T, p - Len(before), ((p - Len(before)) + Len(all)) - 1) = all
  <2>1. p \in 1..Len(T)
    BY <1>2
  <2>2. BlockAt(T, b, m, a, p) <=> PartAt(T, b, m, a, p)
    BY <1>2, <1>3, <1>4, <2>1, PartIsBlockAt
  <2>3. QED
    BY <1>1, <1>2, <1>3, <2>2 DEF PartAt
<1>8. QED
  BY <1>6, <1>7 DEF T, b, m, a

(* A block that was found fits into the lines.                              *)
LEMMA PlacesFit ==
  ASSUME NEW X, NEW lines \in Seq(X), NEW before \in Seq(X),
         NEW block \in Seq(X), NEW after \in Seq(X),
         NEW p \in Places(lines, before, block, after)
  PROVE  p \in 1..Len(lines) /\ (p + Len(block)) - 1 <= Len(lines)
<1> DEFINE T == GetTrimmedLines(lines)
           b == GetTrimmedLines(before)
           m == GetTrimmedLines(block)
           a == GetTrimmedLines(after)
<1>1. p \in 1..Len(lines) /\ BlockAt(T, b, m, a, p)
  BY PlacesAreBlocks
<1>2. Len(T) = Len(lines) /\ Len(m) = Len(block)
  BY Trimmed
<1>3. Len(a) \in Nat
  <2>1. a \in Seq(Trims(X))
    BY Trimmed
  <2> HIDE DEF a
  <2>2. QED
    BY <2>1, LenProperties
<1>4. Len(block) \in Nat /\ Len(lines) \in Nat
  BY LenProperties
<1> HIDE DEF T, b, m, a
<1>5. ((p + Len(m)) + Len(a)) - 1 <= Len(T)
  BY <1>1 DEF BlockAt
<1>6. QED
  BY <1>1, <1>2, <1>3, <1>4, <1>5

(* The search for a block finds the places where it is, in their order      *)
(* (FindTrimmedAdjacentBlockMatches).                                       *)
THEOREM FindIsPlaces ==
  ASSUME NEW X, NEW lines \in Seq(X), NEW before \in Seq(X),
         NEW match \in Seq(X), NEW after \in Seq(X), match # <<>>
  PROVE  FindTrimmedAdjacentBlockMatches(lines, before, match, after) =
           InOrder(Places(lines, before, match, after), lines)
<1> DEFINE Y == Trims(X)
           T == GetTrimmedLines(lines)
           b == GetTrimmedLines(before)
           m == GetTrimmedLines(match)
           a == GetTrimmedLines(after)
           S == {i \in DOMAIN lines : AdjacentAt(T, b, m, a, i)}
           P == Places(lines, before, match, after)
<1>1. FindTrimmedAdjacentBlockMatches(lines, before, match, after) = InOrder(S, lines)
  BY DEF FindTrimmedAdjacentBlockMatches
<1>2. DOMAIN lines = 1..Len(lines)
  BY LenProperties
<1>3. P = {p \in 1..Len(lines) : BlockAt(T, b, m, a, p)}
  BY PlacesAreBlocks
<1>4. T \in Seq(Y) /\ Len(T) = Len(lines)
  BY Trimmed
<1>5. b \in Seq(Y) /\ m \in Seq(Y) /\ a \in Seq(Y)
  BY Trimmed
<1> HIDE DEF Y, T, b, m, a
<1>6. ASSUME NEW i \in 1..Len(lines) PROVE AdjacentAt(T, b, m, a, i) <=> BlockAt(T, b, m, a, i)
  <2>1. i \in 1..Len(T)
    BY <1>4
  <2>2. QED
    BY <1>4, <1>5, <2>1, AdjacentIsBlockAt
<1>7. S = P
  BY <1>2, <1>3, <1>6
<1>8. QED
  BY <1>1, <1>7

Associates(a, b, c) == (a \o b) \o c = a \o (b \o c)

(* Three sequences one after the other.                                     *)
LEMMA AllAssociate ==
  ASSUME NEW X, NEW a \in Seq(X), NEW b \in Seq(X), NEW c \in Seq(X)
  PROVE  Associates(a, b, c)
BY ConcatAssociative DEF Associates

(* Sequences flattened together are flattened one after the other.          *)
LEMMA FlattenConcat ==
  ASSUME NEW X, NEW s \in Seq(Seq(X)), NEW t \in Seq(Seq(X))
  PROVE  FlattenSeq(s \o t) = FlattenSeq(s) \o FlattenSeq(t)
<1> DEFINE Y == Seq(X)
           T == {u \in Seq(Y) : FlattenSeq(s \o u) = FlattenSeq(s) \o FlattenSeq(u)}
           none == << >>
<1>0. s \in Seq(Y) /\ t \in Seq(Y)
  OBVIOUS
<1>1. FlattenSeq(s) \in Seq(X)
  BY FlattenSeqs
<1>2. none \in T
  <2>1. FlattenSeq(none) = none
    BY FlattenEmpty
  <2>2. FlattenSeq(s) \o none = FlattenSeq(s)
    BY <1>1, ConcatEmptySeq
  <2>3. s \o none = s /\ none \in Seq(Y)
    <3> HIDE DEF Y
    <3>1. QED
      BY <1>0, ConcatEmptySeq, EmptySeq
  <2> HIDE DEF none
  <2>4. QED
    BY <2>1, <2>2, <2>3
<1>3. ASSUME NEW u \in Seq(Y), NEW e \in Y, u \in T PROVE Append(u, e) \in T
  <2>1. /\ s \o Append(u, e) = Append(s \o u, e) /\ s \o u \in Seq(Y)
        /\ Append(u, e) \in Seq(Y)
    <3> HIDE DEF Y, T
    <3>1. s \o Append(u, e) = Append(s \o u, e)
      BY <1>0, ConcatAppend
    <3>2. s \o u \in Seq(Y)
      BY <1>0, ConcatProperties
    <3>3. Append(u, e) \in Seq(Y)
      BY AppendProperties
    <3>4. QED
      BY <3>1, <3>2, <3>3
  <2>2. FlattenSeq(Append(s \o u, e)) = FlattenSeq(s \o u) \o e
    BY <2>1, FlattenAppend
  <2>3. FlattenSeq(Append(u, e)) = FlattenSeq(u) \o e
    BY FlattenAppend
  <2>4. FlattenSeq(u) \in Seq(X)
    BY FlattenSeqs
  <2>5. FlattenSeq(s \o u) = FlattenSeq(s) \o FlattenSeq(u)
    BY <1>3
  <2>6. (FlattenSeq(s) \o FlattenSeq(u)) \o e = FlattenSeq(s) \o (FlattenSeq(u) \o e)
    <3>1. e \in Seq(X)
      OBVIOUS
    <3>2. Associates(FlattenSeq(s), FlattenSeq(u), e)
      BY <1>1, <2>4, <3>1, AllAssociate, Zenon
    <3>3. QED
      BY <3>2, Zenon DEF Associates
  <2>7. QED
    BY <2>1, <2>2, <2>3, <2>5, <2>6
<1> HIDE DEF none
<1>4. Seq(Y) \subseteq T
  <2> HIDE DEF Y, T
  <2>1. <<>> \in T
    BY <1>2 DEF none
  <2>2. QED
    BY <1>3, <2>1, ByAppend
<1>5. QED
  BY <1>0, <1>4

(* One sequence.                                                            *)
LEMMA FlattenOne ==
  ASSUME NEW X, NEW l \in Seq(X)
  PROVE  FlattenSeq(<<l>>) = l
<1> DEFINE Y == Seq(X)
           none == << >>
<1>1. none \in Seq(Y) /\ Append(none, l) = <<l>>
  <2>1. l \in Y
    OBVIOUS
  <2> HIDE DEF Y
  <2>2. none \in Seq(Y)
    BY EmptySeq
  <2>3. Append(none, l) = <<l>>
    BY <2>1, Single
  <2>4. QED
    BY <2>2, <2>3
<1>2. FlattenSeq(none) = none /\ none \o l = l
  BY FlattenEmpty, ConcatEmptySeq
<1> HIDE DEF none
<1>3. FlattenSeq(Append(none, l)) = FlattenSeq(none) \o l
  BY <1>1, FlattenAppend
<1>4. QED
  BY <1>1, <1>2, <1>3

(* The elements of a sequence, each as a sequence of its own.               *)
Singles(s) == [i \in 1..Len(s) |-> <<s[i]>>]

(* They make the sequence.                                                  *)
LEMMA FlattenSingles ==
  ASSUME NEW X, NEW s \in Seq(X)
  PROVE  FlattenSeq(Singles(s)) = s
<1> DEFINE Y == Seq(X)
           T == {u \in Seq(X) : FlattenSeq(Singles(u)) = u}
           none == << >>
<1>1. none \in T
  <2>1. Len(none) = 0 /\ none \in Seq(X)
    BY EmptySeq
  <2>2. Singles(none) = none
    <3>1. Singles(none) = [i \in 1..0 |-> <<none[i]>>]
      BY <2>1 DEF Singles
    <3>2. 1..0 = {}
      OBVIOUS
    <3>3. QED
      BY <3>1, <3>2
  <2>3. QED
    BY <2>1, <2>2, FlattenEmpty
<1>2. ASSUME NEW u \in Seq(X), NEW e \in X, u \in T PROVE Append(u, e) \in T
  <2> DEFINE v == Append(u, e)
  <2>1. /\ v \in Seq(X) /\ Len(v) = Len(u) + 1 /\ v[Len(u) + 1] = e
        /\ Len(u) \in Nat /\ \A i \in 1..Len(u) : v[i] = u[i]
    BY AppendProperties, LenProperties
  <2>2. <<e>> \in Y /\ \A i \in 1..Len(u) : <<u[i]>> \in Y
    BY ElementOfSeq
  <2>3. v = u \o <<e>>
    BY AppendIsConcat
  <2> HIDE DEF v
  <2>4. Singles(u) \in Seq(Y) /\ Len(Singles(u)) = Len(u)
    <3>1. Singles(u) = [i \in 1..Len(u) |-> <<u[i]>>]
      BY DEF Singles
    <3> HIDE DEF Y
    <3>2. QED
      BY <2>1, <2>2, <3>1
  <2>5. Singles(v) = Append(Singles(u), <<e>>)
    <3>1. Singles(v) = [i \in 1..(Len(u) + 1) |-> <<v[i]>>]
      BY <2>1 DEF Singles
    <3>2. \A i \in 1..(Len(u) + 1) : <<v[i]>> \in Y
      BY <2>1, <2>2
    <3> HIDE DEF Y
    <3> DEFINE a == Append(Singles(u), <<e>>)
    <3>3. Singles(v) \in Seq(Y) /\ Len(Singles(v)) = Len(u) + 1
      BY <2>1, <3>1, <3>2
    <3>4. /\ a \in Seq(Y) /\ Len(a) = Len(u) + 1 /\ a[Len(u) + 1] = <<e>>
          /\ \A i \in 1..Len(u) : a[i] = Singles(u)[i]
      BY <2>2, <2>4, AppendProperties
    <3>5. \A i \in 1..Len(u) : a[i] = <<u[i]>>
      BY <3>4 DEF Singles
    <3>6. \A i \in 1..Len(Singles(v)) : Singles(v)[i] = a[i]
      BY <2>1, <3>1, <3>3, <3>4, <3>5
    <3> HIDE DEF a
    <3>7. Singles(v) = a
      BY <3>3, <3>4, <3>6, SeqEqual
    <3>8. QED
      BY <3>7 DEF a
  <2>6. FlattenSeq(Append(Singles(u), <<e>>)) = FlattenSeq(Singles(u)) \o <<e>>
    BY <2>2, <2>4, FlattenAppend
  <2>7. QED
    BY <1>2, <2>1, <2>3, <2>5, <2>6 DEF v
<1> HIDE DEF none, T
<1>3. Seq(X) \subseteq T
  <2>1. <<>> \in T
    BY <1>1 DEF none
  <2>2. QED
    BY <1>2, <2>1, ByAppend
<1>4. QED
  BY <1>3 DEF T

(* Nothing, however often.                                                  *)
LEMMA FlattenNothings ==
  ASSUME NEW X, NEW f \in Seq(Seq(X)), \A i \in 1..Len(f) : f[i] = <<>>
  PROVE  FlattenSeq(f) = <<>>
<1> DEFINE Y == Seq(X)
           none == << >>
           C == {none}
           T == {u \in Seq(C) : FlattenSeq(u) = none}
<1>1. none \in T
  BY FlattenEmpty, EmptySeq
<1>2. ASSUME NEW u \in Seq(C), NEW e \in C, u \in T PROVE Append(u, e) \in T
  <2>1. none \in Y
    BY EmptySeq
  <2>2. u \in Seq(Y) /\ Append(u, e) \in Seq(C)
    <3>1. C \subseteq Y
      BY <2>1
    <3> HIDE DEF C, Y
    <3>2. QED
      BY <3>1, SeqMonotonic, AppendProperties
  <2>3. FlattenSeq(Append(u, none)) = FlattenSeq(u) \o none
    BY <2>1, <2>2, FlattenAppend
  <2>4. none \o none = none
    BY EmptySeq, ConcatEmptySeq
  <2>5. QED
    BY <1>2, <2>2, <2>3, <2>4
<1>3. f \in Seq(C)
  <2>1. f \in Seq(Y)
    OBVIOUS
  <2> HIDE DEF Y
  <2>2. Len(f) \in Nat /\ f \in [1..Len(f) -> Y]
    BY <2>1, LenProperties
  <2>3. \A i \in 1..Len(f) : f[i] \in C
    OBVIOUS
  <2> HIDE DEF C
  <2>4. f \in [1..Len(f) -> C]
    BY <2>2, <2>3
  <2>5. QED
    BY <2>2, <2>4
<1> HIDE DEF T
<1>4. Seq(C) \subseteq T
  <2>1. <<>> \in T
    BY <1>1
  <2> HIDE DEF C
  <2>2. QED
    BY <1>2, <2>1, ByAppend
<1>5. QED
  BY <1>3, <1>4 DEF T

(* What becomes of each line when blocks of width w at P become repl.       *)
Pieces(lines, P, w, repl) ==
  [i \in 1..Len(lines) |->
     IF i \in P THEN repl
     ELSE IF \E p \in P : p < i /\ i < p + w THEN <<>> ELSE << lines[i] >>]

(* The pieces are sequences.                                                *)
LEMMA PiecesMake ==
  ASSUME NEW X, NEW lines \in Seq(X), NEW repl \in Seq(X), NEW P, NEW w
  PROVE  /\ Pieces(lines, P, w, repl) \in Seq(Seq(X))
         /\ Len(Pieces(lines, P, w, repl)) = Len(lines)
         /\ Replaced(lines, P, w, repl) = FlattenSeq(Pieces(lines, P, w, repl))
<1> DEFINE Y == Seq(X)
           f == Pieces(lines, P, w, repl)
           none == << >>
<1>1. Len(lines) \in Nat /\ DOMAIN lines = 1..Len(lines)
  BY LenProperties
<1>2. \A i \in 1..Len(lines) : <<lines[i]>> \in Y
  BY ElementOfSeq
<1>3. none \in Y
  BY EmptySeq
<1>4. \A i \in 1..Len(lines) : f[i] \in Y
  <2> HIDE DEF Y
  <2>1. repl \in Y
    BY DEF Y
  <2>2. ASSUME NEW i \in 1..Len(lines)
        PROVE f[i] = IF i \in P THEN repl
                     ELSE IF \E p \in P : p < i /\ i < p + w THEN none ELSE << lines[i] >>
    BY DEF Pieces
  <2> HIDE DEF f, none
  <2>3. QED
    BY <1>2, <1>3, <2>1, <2>2
<1>5. f = [i \in 1..Len(lines) |-> f[i]]
  BY DEF Pieces
<1>6. f \in Seq(Y) /\ Len(f) = Len(lines)
  <2> HIDE DEF Y, f
  <2>1. QED
    BY <1>1, <1>4, <1>5
<1>7. Replaced(lines, P, w, repl) = FlattenSeq(f)
  BY <1>1 DEF Replaced, Pieces
<1>8. QED
  BY <1>6, <1>7

(* The blocks of width w at P, one more at q before them, what each of the  *)
(* lines becomes without it, f, and with it, h.                             *)
OneMoreBlock(lines, P, q, w, repl, f, h) ==
  /\ \A i \in 1..((q + w) - 1) : f[i] = <<lines[i]>>
  /\ \A i \in 1..(q - 1) : h[i] = <<lines[i]>>
  /\ h[q] = repl
  /\ \A i \in (q + 1)..((q + w) - 1) : h[i] = <<>>
  /\ \A i \in (q + w)..Len(lines) : h[i] = f[i]

(* With a block more, the lines before it stay, and those after it become   *)
(* what they became without it.                                             *)
LEMMA PiecesMore ==
  ASSUME NEW X, NEW lines \in Seq(X), NEW repl \in Seq(X),
         NEW w \in Nat \ {0}, NEW P \in SUBSET (1..Len(lines)), NEW q \in 1..Len(lines),
         (q + w) - 1 <= Len(lines), \A p \in P : q + w <= p
  PROVE  OneMoreBlock(lines, P, q, w, repl, Pieces(lines, P, w, repl),
                      Pieces(lines, P \cup {q}, w, repl))
<1> DEFINE N == Len(lines)
           f == Pieces(lines, P, w, repl)
           h == Pieces(lines, P \cup {q}, w, repl)
<1>1. N \in Nat /\ q \in Nat /\ w \in Nat /\ w >= 1 /\ q >= 1 /\ \A p \in P : p \in Nat
  <2>1. N \in Nat
    BY LenProperties
  <2>2. QED
    BY <2>1
<1>2. ASSUME NEW i \in 1..N
      PROVE  f[i] = IF i \in P THEN repl
                    ELSE IF \E p \in P : p < i /\ i < p + w THEN <<>> ELSE <<lines[i]>>
  BY DEF Pieces
<1>3. ASSUME NEW i \in 1..N
      PROVE  h[i] = IF i \in P \cup {q} THEN repl
                    ELSE IF \E p \in P \cup {q} : p < i /\ i < p + w THEN <<>> ELSE <<lines[i]>>
  BY DEF Pieces
<1> HIDE DEF f, h, N
<1>4. q <= N /\ (q + w) - 1 <= N
  BY DEF N
<1>5. ASSUME NEW i \in 1..((q + w) - 1) PROVE f[i] = <<lines[i]>>
  <2>1. i \in 1..N /\ i < q + w
    BY <1>1, <1>4
  <2>2. i \notin P /\ ~\E p \in P : p < i /\ i < p + w
    BY <1>1, <2>1
  <2>3. QED
    BY <1>2, <2>1, <2>2
<1>6. ASSUME NEW i \in 1..(q - 1) PROVE h[i] = <<lines[i]>>
  <2>1. i \in 1..N /\ i < q
    BY <1>1, <1>4
  <2>2. i \notin P \cup {q} /\ ~\E p \in P \cup {q} : p < i /\ i < p + w
    BY <1>1, <2>1
  <2>3. QED
    BY <1>3, <2>1, <2>2
<1>7. h[q] = repl
  <2>1. q \in 1..N /\ q \in P \cup {q}
    BY <1>1, <1>4
  <2>2. h[q] = IF q \in P \cup {q} THEN repl
               ELSE IF \E p \in P \cup {q} : p < q /\ q < p + w THEN <<>> ELSE <<lines[q]>>
    BY <1>3, <2>1, Zenon
  <2>3. QED
    BY <2>1, <2>2, Zenon
<1>8. ASSUME NEW i \in (q + 1)..((q + w) - 1) PROVE h[i] = <<>>
  <2>1. i \in 1..N /\ q < i /\ i < q + w
    BY <1>1, <1>4
  <2>2. i \notin P \cup {q}
    BY <1>1, <2>1
  <2>3. \E p \in P \cup {q} : p < i /\ i < p + w
    BY <2>1
  <2>4. QED
    BY <1>3, <2>1, <2>2, <2>3
<1>9. ASSUME NEW i \in (q + w)..N PROVE h[i] = f[i]
  <2>1. i \in 1..N /\ i >= q + w
    BY <1>1, <1>4
  <2>2. i \in P \cup {q} <=> i \in P
    BY <1>1, <2>1
  <2>3. (\E p \in P \cup {q} : p < i /\ i < p + w) <=> (\E p \in P : p < i /\ i < p + w)
    BY <1>1, <2>1
  <2>4. QED
    BY <1>2, <1>3, <2>1, <2>2, <2>3
<1>10. OneMoreBlock(lines, P, q, w, repl, f, h)
  BY <1>5, <1>6, <1>7, <1>8, <1>9 DEF OneMoreBlock, N
<1>11. QED
  BY <1>10 DEF f, h

InTwo(s, k, m, Y) ==
  /\ Upto(s, k) \in Seq(Y) /\ From(s, m) \in Seq(Y)
  /\ s = Upto(s, k) \o From(s, m)
  /\ Len(Upto(s, k)) = k /\ Len(From(s, m)) = Len(s) - k
  /\ \A i \in 1..k : Upto(s, k)[i] = s[i]
  /\ \A i \in 1..(Len(s) - k) : From(s, m)[i] = s[k + i]

(* A sequence in two parts.                                                 *)
LEMMA TwoParts ==
  ASSUME NEW Y, NEW s \in Seq(Y), NEW k \in 0..Len(s), NEW m, m = k + 1
  PROVE  InTwo(s, k, m, Y)
<1> DEFINE n == Len(s)
           u == SubSeq(s, 1, k)
           v == SubSeq(s, k + 1, n)
<1>1. n \in Nat /\ k \in Nat /\ k <= n /\ \A i \in 1..n : s[i] \in Y
  <2>1. n \in Nat /\ \A i \in 1..n : s[i] \in Y
    BY LenProperties, ElementOfSeq
  <2>2. QED
    BY <2>1
<1>2. u \in Seq(Y) /\ Len(u) = k /\ \A i \in 1..k : u[i] = s[i]
  <2>1. \A i \in 1..k : s[i] \in Y
    BY <1>1
  <2>2. /\ u \in Seq(Y) /\ Len(u) = IF 1 <= k THEN (k - 1) + 1 ELSE 0
        /\ \A i \in 1..((k - 1) + 1) : u[i] = s[(1 + i) - 1]
    BY <1>1, <2>1, SubSeqProperties
  <2> HIDE DEF u
  <2>3. QED
    BY <1>1, <2>2
<1>3. v \in Seq(Y) /\ Len(v) = n - k /\ \A i \in 1..(n - k) : v[i] = s[k + i]
  <2>1. \A i \in (k + 1)..n : s[i] \in Y
    BY <1>1
  <2>2. /\ v \in Seq(Y) /\ Len(v) = IF k + 1 <= n THEN (n - (k + 1)) + 1 ELSE 0
        /\ \A i \in 1..((n - (k + 1)) + 1) : v[i] = s[((k + 1) + i) - 1]
    BY <1>1, <2>1, SubSeqProperties
  <2> HIDE DEF v
  <2>3. QED
    BY <1>1, <2>2
<1>4. s = u \o v
  <2> HIDE DEF u, v
  <2> DEFINE t == u \o v
  <2>1. /\ t \in Seq(Y) /\ Len(t) = n
        /\ \A i \in 1..n : t[i] = IF i <= k THEN u[i] ELSE v[i - k]
    BY <1>1, <1>2, <1>3, ConcatProperties
  <2> HIDE DEF t
  <2>2. ASSUME NEW i \in 1..n PROVE s[i] = t[i]
    <3>1. CASE i <= k
      <4>1. i \in 1..k
        BY <1>1, <3>1
      <4>2. QED
        BY <1>2, <2>1, <3>1, <4>1
    <3>2. CASE i > k
      <4>1. i - k \in 1..(n - k) /\ k + (i - k) = i /\ ~(i <= k)
        BY <1>1, <3>2
      <4>2. v[i - k] = s[i]
        BY <1>3, <4>1
      <4>3. QED
        BY <2>1, <4>1, <4>2
    <3>3. QED
      BY <1>1, <3>1, <3>2
  <2>3. s = t
    BY <2>1, <2>2, SeqEqual
  <2>4. QED
    BY <2>3 DEF t
<1>5. QED
  BY <1>2, <1>3, <1>4 DEF Upto, From, InTwo

SliceBecomes(lines, rest, q, w, repl) ==
  ReplaceLinesSlice(Upto(lines, (q + w) - 1) \o rest, q, w, repl)
    = (Upto(lines, q - 1) \o repl) \o rest

(* A slice of a sequence is replaced.                                       *)
LEMMA SliceReplaced ==
  ASSUME NEW X, NEW lines \in Seq(X), NEW repl \in Seq(X), NEW rest \in Seq(X),
         NEW w \in Nat \ {0}, NEW q \in 1..Len(lines), (q + w) - 1 <= Len(lines)
  PROVE  SliceBecomes(lines, rest, q, w, repl)
<1> DEFINE k == (q + w) - 1
           a == Upto(lines, k)
           s == a \o rest
<1>1. /\ q \in Nat /\ w \in Nat /\ q >= 1 /\ w >= 1 /\ Len(lines) \in Nat
      /\ k \in 0..Len(lines) /\ q - 1 \in 0..Len(lines) /\ q - 1 \in 0..k /\ k + 1 = q + w
  <2>1. Len(lines) \in Nat
    BY LenProperties
  <2>2. QED
    BY <2>1
<1> HIDE DEF k
<1>2. a \in Seq(X) /\ Len(a) = k /\ \A i \in 1..k : a[i] = lines[i]
  <2>1. InTwo(lines, k, k + 1, X)
    BY <1>1, TwoParts
  <2>2. QED
    BY <2>1, Zenon DEF InTwo
<1> HIDE DEF a
<1>3. /\ s \in Seq(X) /\ Len(s) = k + Len(rest) /\ Len(rest) \in Nat
      /\ \A i \in 1..(k + Len(rest)) : s[i] = IF i <= k THEN a[i] ELSE rest[i - k]
  BY <1>2, ConcatProperties, LenProperties, ZenonT(60)
<1> HIDE DEF s
<1>4. k \in 0..Len(s) /\ q - 1 \in 0..Len(s)
  BY <1>1, <1>3
<1>5. Upto(s, q - 1) = Upto(lines, q - 1)
  <2> DEFINE j == q - 1
             u == Upto(s, j)
             v == Upto(lines, j)
  <2>0. j \in 0..Len(s) /\ j \in 0..Len(lines) /\ q = j + 1 /\ j \in Nat /\ j <= k
    BY <1>1, <1>3, <1>4
  <2> HIDE DEF j
  <2>1. u \in Seq(X) /\ Len(u) = j /\ \A i \in 1..j : u[i] = s[i]
    <3>1. InTwo(s, j, q, X)
      BY <1>3, <2>0, TwoParts
    <3>2. QED
      BY <3>1, Zenon DEF InTwo
  <2>2. v \in Seq(X) /\ Len(v) = j /\ \A i \in 1..j : v[i] = lines[i]
    <3>1. InTwo(lines, j, q, X)
      BY <2>0, TwoParts
    <3>2. QED
      BY <3>1, Zenon DEF InTwo
  <2> HIDE DEF u, v
  <2>3. ASSUME NEW i \in 1..j PROVE u[i] = v[i]
    <3>1. i \in 1..k /\ i \in 1..(k + Len(rest)) /\ i <= k
      BY <1>1, <1>3, <2>0
    <3>2. QED
      BY <1>2, <1>3, <2>1, <2>2, <3>1
  <2>4. \A i \in 1..Len(u) : u[i] = v[i]
    BY <2>1, <2>3
  <2>5. u = v
    BY <2>1, <2>2, <2>4, SeqEqual
  <2>6. QED
    BY <2>5 DEF u, v, j
<1>6. From(s, k + 1) = rest
  <2> DEFINE u == From(s, k + 1)
  <2>1. u \in Seq(X) /\ Len(u) = Len(s) - k /\ \A i \in 1..(Len(s) - k) : u[i] = s[k + i]
    <3>1. InTwo(s, k, k + 1, X)
      BY <1>3, <1>4, TwoParts
    <3>2. QED
      BY <3>1, Zenon DEF InTwo
  <2> HIDE DEF u
  <2>2. ASSUME NEW i \in 1..Len(rest) PROVE u[i] = rest[i]
    <3>1. /\ k + i \in 1..(k + Len(rest)) /\ ~(k + i <= k) /\ (k + i) - k = i
          /\ i \in 1..(Len(s) - k)
      BY <1>1, <1>3
    <3>2. s[k + i] = rest[i]
      BY <1>3, <3>1
    <3>3. QED
      BY <2>1, <3>1, <3>2
  <2>3. Len(u) = Len(rest)
    BY <1>1, <1>3, <2>1
  <2>4. u = rest
    BY <2>1, <2>2, <2>3, SeqEqual
  <2>5. QED
    BY <2>4 DEF u
<1>7. ReplaceLinesSlice(s, q, w, repl) = (Upto(s, q - 1) \o repl) \o From(s, q + w)
  BY DEF ReplaceLinesSlice
<1>8. QED
  BY <1>1, <1>5, <1>6, <1>7 DEF SliceBecomes, s, a, k

(* A block more, before the others, is one slice replaced after the others. *)
LEMMA OneBlockMore ==
  ASSUME NEW X, NEW lines \in Seq(X), NEW repl \in Seq(X),
         NEW w \in Nat \ {0}, NEW P \in SUBSET (1..Len(lines)), NEW q \in 1..Len(lines),
         (q + w) - 1 <= Len(lines), \A p \in P : q + w <= p
  PROVE  Replaced(lines, P \cup {q}, w, repl)
           = ReplaceLinesSlice(Replaced(lines, P, w, repl), q, w, repl)
<1> DEFINE N == Len(lines)
           Y == Seq(X)
           k == (q + w) - 1
           before == q - 1
           f == Pieces(lines, P, w, repl)
           h == Pieces(lines, P \cup {q}, w, repl)
           rest == FlattenSeq(From(f, k + 1))
<1>1. /\ N \in Nat /\ q \in Nat /\ w \in Nat /\ q >= 1 /\ w >= 1 /\ k <= N
      /\ k \in 0..N /\ before \in 0..N /\ before \in Nat /\ k + 1 = q + w /\ q = before + 1
      /\ k = before + w
  <2>1. N \in Nat
    BY LenProperties
  <2>2. QED
    BY <2>1
<1>2. f \in Seq(Y) /\ Len(f) = N /\ Replaced(lines, P, w, repl) = FlattenSeq(f)
  BY PiecesMake
<1>3. h \in Seq(Y) /\ Len(h) = N /\ Replaced(lines, P \cup {q}, w, repl) = FlattenSeq(h)
  BY PiecesMake
<1>4. OneMoreBlock(lines, P, q, w, repl, f, h)
  BY PiecesMore
<1>5. /\ \A i \in 1..k : f[i] = <<lines[i]>>
      /\ \A i \in 1..before : h[i] = <<lines[i]>>
      /\ h[q] = repl
      /\ \A i \in (q + 1)..k : h[i] = <<>>
      /\ \A i \in (q + w)..N : h[i] = f[i]
  BY <1>4, Zenon DEF OneMoreBlock, before, k, N
<1> HIDE DEF f, h, k, N, before
(* Lines that stay make themselves. *)
<1>6. ASSUME NEW s \in Seq(Y), NEW j \in 0..N, Len(s) = N, \A i \in 1..j : s[i] = <<lines[i]>>
      PROVE  FlattenSeq(Upto(s, j)) = Upto(lines, j)
  <2> DEFINE u == Upto(lines, j)
             v == Upto(s, j)
  <2>1. u \in Seq(X) /\ Len(u) = j /\ \A i \in 1..j : u[i] = lines[i]
    <3>1. InTwo(lines, j, j + 1, X)
      BY TwoParts DEF N
    <3>2. QED
      BY <3>1, Zenon DEF InTwo
  <2>2. v \in Seq(Y) /\ Len(v) = j /\ \A i \in 1..j : v[i] = s[i]
    <3> HIDE DEF Y
    <3>1. j \in 0..Len(s)
      BY <1>6
    <3>2. InTwo(s, j, j + 1, Y)
      BY <3>1, TwoParts
    <3>3. QED
      BY <3>2, Zenon DEF InTwo
  <2> HIDE DEF u, v, Y
  <2>3. v = [i \in 1..j |-> v[i]]
    BY <2>2
  <2>4. \A i \in 1..j : v[i] = <<u[i]>>
    BY <1>6, <2>1, <2>2
  <2>5. v = Singles(u)
    BY <2>1, <2>3, <2>4 DEF Singles
  <2>6. QED
    BY <2>1, <2>5, FlattenSingles DEF u, v
<1>7. From(f, k + 1) \in Seq(Y) /\ rest \in Seq(X)
  <2>1. From(f, k + 1) \in Seq(Y)
    <3> HIDE DEF Y
    <3>1. k \in 0..Len(f)
      BY <1>1, <1>2
    <3>2. InTwo(f, k, k + 1, Y)
      BY <1>2, <3>1, TwoParts
    <3>3. QED
      BY <1>2, <3>2, Zenon DEF InTwo
  <2>2. QED
    BY <2>1, FlattenSeqs
(* Without the block. *)
<1>8. FlattenSeq(f) = Upto(lines, k) \o rest
  <2>1. Upto(f, k) \in Seq(Y) /\ f = Upto(f, k) \o From(f, k + 1)
    <3> HIDE DEF Y
    <3>1. k \in 0..Len(f)
      BY <1>1, <1>2
    <3>2. InTwo(f, k, k + 1, Y)
      BY <1>2, <3>1, TwoParts
    <3>3. QED
      BY <1>2, <3>2, Zenon DEF InTwo
  <2>2. FlattenSeq(Upto(f, k) \o From(f, k + 1)) = FlattenSeq(Upto(f, k)) \o rest
    BY <1>7, <2>1, FlattenConcat
  <2>3. FlattenSeq(Upto(f, k)) = Upto(lines, k)
    BY <1>1, <1>2, <1>5, <1>6
  <2>4. QED
    BY <2>1, <2>2, <2>3
(* With it: the lines before it, the new ones, nothing, the lines after it. *)
<1> DEFINE b == From(h, q)
           mid == Upto(b, w)
<1>9. /\ Upto(h, before) \in Seq(Y) /\ b \in Seq(Y) /\ h = Upto(h, before) \o b
      /\ Len(b) = N - before /\ \A i \in 1..(N - before) : b[i] = h[before + i]
  <2> HIDE DEF Y
  <2>1. before \in 0..Len(h)
    BY <1>1, <1>3
  <2>2. InTwo(h, before, q, Y)
    BY <1>1, <1>3, <2>1, TwoParts
  <2>3. QED
    BY <1>3, <2>2, Zenon DEF InTwo
<1> HIDE DEF b
<1>10. /\ mid \in Seq(Y) /\ From(b, w + 1) \in Seq(Y) /\ b = mid \o From(b, w + 1)
       /\ Len(mid) = w /\ Len(From(b, w + 1)) = Len(b) - w
       /\ \A i \in 1..w : mid[i] = b[i]
       /\ \A i \in 1..(Len(b) - w) : From(b, w + 1)[i] = b[w + i]
  <2> HIDE DEF Y
  <2>1. w \in 0..Len(b)
    BY <1>1, <1>9
  <2>2. InTwo(b, w, w + 1, Y)
    BY <1>9, <2>1, TwoParts
  <2>3. QED
    BY <2>2, Zenon DEF InTwo
<1> HIDE DEF mid
<1>11. From(b, w + 1) = From(f, k + 1)
  <2> DEFINE u == From(b, w + 1)
             v == From(f, k + 1)
  <2>1. Len(v) = N - k /\ \A i \in 1..(N - k) : v[i] = f[k + i]
    <3> HIDE DEF Y
    <3>1. k \in 0..Len(f)
      BY <1>1, <1>2
    <3>2. InTwo(f, k, k + 1, Y)
      BY <1>2, <3>1, TwoParts
    <3>3. QED
      BY <1>2, <3>2, Zenon DEF InTwo
  <2>2. Len(u) = N - k /\ Len(b) - w = N - k
    BY <1>1, <1>9, <1>10
  <2>3. ASSUME NEW i \in 1..(N - k) PROVE u[i] = v[i]
    <3>1. i \in 1..(Len(b) - w) /\ w + i \in 1..(N - before) /\ before + (w + i) = k + i
          /\ k + i \in (q + w)..N
      BY <1>1, <1>9, <2>2
    <3>2. u[i] = b[w + i]
      BY <1>10, <3>1
    <3>3. b[w + i] = h[before + (w + i)]
      BY <1>9, <3>1
    <3>4. h[k + i] = f[k + i]
      BY <1>5, <3>1
    <3>5. QED
      BY <2>1, <3>1, <3>2, <3>3, <3>4
  <2>4. u \in Seq(Y) /\ v \in Seq(Y)
    BY <1>7, <1>10
  <2> HIDE DEF u, v, Y
  <2>5. u = v
    BY <2>1, <2>2, <2>3, <2>4, SeqEqual
  <2>6. QED
    BY <2>5 DEF u, v
<1>12. FlattenSeq(mid) = repl
  <2> DEFINE none == << >>
             no == From(mid, 2)
             one == Upto(mid, 1)
  <2>1. /\ no \in Seq(Y) /\ mid = one \o no /\ one \in Seq(Y)
        /\ Len(no) = w - 1 /\ \A i \in 1..(w - 1) : no[i] = mid[1 + i]
        /\ Len(one) = 1 /\ \A i \in 1..1 : one[i] = mid[i]
    <3> HIDE DEF Y
    <3>1. 1 \in 0..Len(mid) /\ 2 = 1 + 1
      BY <1>1, <1>10
    <3>2. InTwo(mid, 1, 2, Y)
      BY <1>10, <3>1, TwoParts
    <3>3. QED
      BY <1>10, <3>2, Zenon DEF InTwo
  <2> HIDE DEF no, one
  <2>2. one = <<repl>>
    <3>1. 1 \in 1..w /\ 1 \in 1..(N - before) /\ before + 1 = q
      BY <1>1
    <3>2. one[1] = repl
      <4>1. one[1] = mid[1]
        <5>1. \A i \in 1..1 : one[i] = mid[i]
          BY <2>1, Zenon
        <5>2. 1 \in 1..1
          OBVIOUS
        <5>3. QED
          BY <5>1, <5>2
      <4>2. mid[1] = b[1]
        <5>1. \A i \in 1..w : mid[i] = b[i]
          BY <1>10, Zenon
        <5>2. QED
          BY <3>1, <5>1
      <4>3. b[1] = h[q]
        BY <1>9, <3>1
      <4>4. QED
        BY <1>5, <4>1, <4>2, <4>3
    <3>3. one = [i \in 1..1 |-> one[i]]
      BY <2>1
    <3>4. QED
      BY <3>2, <3>3
  <2>3. ASSUME NEW i \in 1..Len(no) PROVE no[i] = none
    <3>1. 1 + i \in 1..w /\ 1 + i \in 1..(N - before) /\ before + (1 + i) = q + i
          /\ q + i \in (q + 1)..k /\ i \in 1..(w - 1)
      BY <1>1, <2>1
    <3>2. h[q + i] = none
      BY <1>5, <3>1
    <3>3. no[i] = mid[1 + i] /\ mid[1 + i] = b[1 + i] /\ b[1 + i] = h[q + i]
      BY <1>9, <1>10, <2>1, <3>1, ZenonT(60)
    <3>4. QED
      BY <3>2, <3>3
  <2>4. FlattenSeq(no) = none
    BY <2>1, <2>3, FlattenNothings
  <2>5. FlattenSeq(one) = repl
    BY <2>2, FlattenOne
  <2>6. FlattenSeq(one \o no) = repl \o none
    BY <2>1, <2>4, <2>5, FlattenConcat
  <2>7. QED
    BY <2>1, <2>6, ConcatEmptySeq
<1>13. FlattenSeq(Upto(h, before)) = Upto(lines, before)
  BY <1>1, <1>3, <1>5, <1>6
<1>14. FlattenSeq(b) = repl \o rest
  <2>1. FlattenSeq(mid \o From(b, w + 1)) = FlattenSeq(mid) \o FlattenSeq(From(b, w + 1))
    BY <1>10, FlattenConcat
  <2>2. QED
    BY <1>10, <1>11, <1>12, <2>1
<1>15. FlattenSeq(h) = Upto(lines, before) \o (repl \o rest)
  <2>1. FlattenSeq(Upto(h, before) \o b) = FlattenSeq(Upto(h, before)) \o FlattenSeq(b)
    BY <1>9, FlattenConcat
  <2>2. QED
    BY <1>9, <1>13, <1>14, <2>1
<1> HIDE DEF rest
<1>16. Upto(lines, before) \o (repl \o rest) = (Upto(lines, before) \o repl) \o rest
  <2>0. InTwo(lines, before, q, X)
    BY <1>1, TwoParts DEF N
  <2> DEFINE u == Upto(lines, before)
  <2>1. u \in Seq(X)
    BY <2>0, Zenon DEF InTwo
  <2> HIDE DEF u
  <2>2. rest \in Seq(X)
    BY <1>7
  <2>3. Associates(u, repl, rest)
    BY <2>1, <2>2, AllAssociate
  <2>4. QED
    BY <2>3 DEF Associates, u
<1>17. ReplaceLinesSlice(Upto(lines, k) \o rest, q, w, repl) = (Upto(lines, before) \o repl) \o rest
  <2>0. rest \in Seq(X)
    BY <1>7
  <2>1. SliceBecomes(lines, rest, q, w, repl)
    BY <2>0, SliceReplaced, Zenon
  <2>2. QED
    BY <2>1, Zenon DEF SliceBecomes, k, before
<1>18. QED
  BY <1>2, <1>3, <1>8, <1>15, <1>16, <1>17

(* it is what replacing slice after slice makes of the lines, on the sets   *)
(* of the slices' indices.                                                  *)
Slices(it, d, lines, w, repl, k) ==
  /\ it = [x \in SUBSET (1..k) |-> it[x]]
  /\ \A x \in SUBSET (1..k) :
       it[x] = IF x = {} THEN lines ELSE ReplaceLinesSlice(it[x \ {Max(x)}], d[Max(x)], w, repl)
SlicesMake(d, lines, w, repl, k) == \E it : Slices(it, d, lines, w, repl, k)

(* The recursion has a solution.                                            *)
LEMMA SlicesExist ==
  ASSUME NEW n \in Nat, NEW d, NEW lines, NEW w, NEW repl
  PROVE  SlicesMake(d, lines, w, repl, n)
<1> DEFINE T == {k \in Nat : SlicesMake(d, lines, w, repl, k)}
<1>1. 0 \in T
  <2> DEFINE none == [x \in SUBSET (1..0) |-> lines]
  <2>1. 1..0 = {}
    OBVIOUS
  <2>2. \A x \in SUBSET (1..0) : x = {} /\ none[x] = lines
    BY <2>1
  <2>3. none = [x \in SUBSET (1..0) |-> none[x]]
    OBVIOUS
  <2> HIDE DEF none
  <2>4. Slices(none, d, lines, w, repl, 0)
    BY <2>2, <2>3 DEF Slices
  <2>5. QED
    BY <2>4 DEF SlicesMake
<1>2. ASSUME NEW k \in Nat, k \in T PROVE k + 1 \in T
  <2>1. PICK old : Slices(old, d, lines, w, repl, k)
    BY <1>2 DEF SlicesMake
  <2> DEFINE new == [x \in SUBSET (1..(k + 1)) |->
                       IF k + 1 \in x THEN ReplaceLinesSlice(old[x \ {k + 1}], d[k + 1], w, repl)
                       ELSE old[x]]
  <2>2. ASSUME NEW x \in SUBSET (1..(k + 1))
        PROVE  new[x] = IF x = {} THEN lines
                        ELSE ReplaceLinesSlice(new[x \ {Max(x)}], d[Max(x)], w, repl)
    <3>1. CASE k + 1 \in x
      <4>1. x \ {k + 1} \in SUBSET (1..(k + 1)) /\ k + 1 \notin x \ {k + 1}
        OBVIOUS
      <4>2. new[x \ {k + 1}] = old[x \ {k + 1}]
        BY <4>1
      <4>3. /\ Max(x) = k + 1 /\ x # {}
            /\ new[x] = ReplaceLinesSlice(old[x \ {k + 1}], d[k + 1], w, repl)
        BY <3>1, OneMore
      <4>4. QED
        BY <4>2, <4>3
    <3>2. CASE k + 1 \notin x
      <4>1. new[x] = old[x] /\ x \in SUBSET (1..k)
        BY OneMore, <3>2
      <4>2. x \ {Max(x)} \in SUBSET (1..(k + 1)) /\ k + 1 \notin x \ {Max(x)}
        BY <3>2
      <4>3. new[x \ {Max(x)}] = old[x \ {Max(x)}]
        BY <4>2
      <4>4. old[x] = IF x = {} THEN lines
                     ELSE ReplaceLinesSlice(old[x \ {Max(x)}], d[Max(x)], w, repl)
        BY <2>1, <4>1 DEF Slices
      <4>5. QED
        BY <4>1, <4>3, <4>4
    <3>3. QED
      BY <3>1, <3>2
  <2>3. new = [x \in SUBSET (1..(k + 1)) |-> new[x]]
    OBVIOUS
  <2> HIDE DEF new
  <2>4. Slices(new, d, lines, w, repl, k + 1)
    BY <2>2, <2>3 DEF Slices
  <2>5. QED
    BY <2>4 DEF SlicesMake
<1> HIDE DEF T
<1>3. n \in T
  BY <1>1, <1>2, Naturally
<1>4. QED
  BY <1>3 DEF T

(* g is what ReplaceMatches goes through, from the last place to the first. *)
Replaces(g, lines, idxs, w, repl) ==
  LET n == Len(idxs)
  IN /\ g[0] = lines /\ ReplaceMatches(lines, idxs, w, repl) = g[n]
     /\ \A i \in 1..n : g[i] = ReplaceLinesSlice(g[i - 1], idxs[(n - i) + 1], w, repl)
ReplacesThrough(lines, idxs, w, repl) == \E g : Replaces(g, lines, idxs, w, repl)

(* ReplaceMatches goes through the places one by one.                       *)
LEMMA ReplaceTrace ==
  ASSUME NEW lines, NEW idxs \in Seq(Nat), NEW w, NEW repl
  PROVE  ReplacesThrough(lines, idxs, w, repl)
<1> DEFINE n == Len(idxs)
           d == Reverse(idxs)
           Eq(j) == j = [x \in SUBSET DOMAIN d |->
                           IF x = {} THEN lines
                           ELSE ReplaceLinesSlice(j[x \ {Max(x)}], d[Max(x)], w, repl)]
           ch == CHOOSE j : Eq(j)
<1>1. n \in Nat /\ DOMAIN d = 1..n /\ \A i \in 1..n : d[i] = idxs[(n - i) + 1]
  BY LenProperties DEF Reverse
<1>2. ReplaceMatches(lines, idxs, w, repl) = ch[DOMAIN d]
  BY DEF ReplaceMatches, FoldLeft, MapThenFoldSet
<1> HIDE DEF d, n
<1>3. SlicesMake(d, lines, w, repl, n)
  BY <1>1, SlicesExist
<1>4. PICK it : Slices(it, d, lines, w, repl, n)
  BY <1>3 DEF SlicesMake
<1>5. Eq(it)
  <2>1. it = [x \in SUBSET (1..n) |-> it[x]]
    BY <1>4 DEF Slices
  <2>2. ASSUME NEW x \in SUBSET (1..n)
        PROVE  it[x] = IF x = {} THEN lines
                       ELSE ReplaceLinesSlice(it[x \ {Max(x)}], d[Max(x)], w, repl)
    BY <1>4 DEF Slices
  <2>3. QED
    BY <1>1, <2>1, <2>2
<1>6. Eq(ch)
  BY <1>5
<1> HIDE DEF ch
<1>7. ASSUME NEW x \in SUBSET (1..n)
      PROVE  ch[x] = IF x = {} THEN lines
                     ELSE ReplaceLinesSlice(ch[x \ {Max(x)}], d[Max(x)], w, repl)
  BY <1>1, <1>6
<1> DEFINE g == [i \in 0..n |-> ch[1..i]]
<1>8. ASSUME NEW i \in 1..n
      PROVE  g[i] = ReplaceLinesSlice(g[i - 1], idxs[(n - i) + 1], w, repl)
  <2>1. i \in 0..n /\ i - 1 \in 0..n /\ i \in 1..i /\ 1..i \in SUBSET (1..n) /\ 1..i # {}
    <3>1. n \in Nat
      BY <1>1
    <3>2. i \in 0..n /\ i - 1 \in 0..n /\ i \in 1..i
      BY <3>1
    <3>3. 1..i \in SUBSET (1..n)
      BY <3>1
    <3>4. QED
      BY <3>2, <3>3
  <2>2. g[i] = ch[1..i] /\ g[i - 1] = ch[1..(i - 1)]
    BY <2>1
  <2>3. Max(1..i) = i /\ (1..i) \ {i} = 1..(i - 1)
    BY <1>1, MaxOfUpto
  <2>4. ch[1..i] = ReplaceLinesSlice(ch[(1..i) \ {Max(1..i)}], d[Max(1..i)], w, repl)
    BY <1>7, <2>1
  <2>5. QED
    BY <1>1, <2>2, <2>3, <2>4
<1>9. g[0] = lines
  <2>1. 0 \in 0..n /\ 1..0 = {}
    BY <1>1
  <2>2. ch[{}] = lines
    BY <1>7
  <2>3. QED
    BY <2>1, <2>2
<1>10. ReplaceMatches(lines, idxs, w, repl) = g[n]
  BY <1>1, <1>2
<1> HIDE DEF g
<1>11. Replaces(g, lines, idxs, w, repl)
  BY <1>8, <1>9, <1>10 DEF Replaces, n
<1>12. QED
  BY <1>11 DEF ReplacesThrough

(* Nothing to replace.                                                      *)
LEMMA NoBlocks ==
  ASSUME NEW X, NEW lines \in Seq(X), NEW w, NEW repl
  PROVE  Replaced(lines, {}, w, repl) = lines
<1>1. DOMAIN lines = 1..Len(lines)
  BY LenProperties
<1>2. Replaced(lines, {}, w, repl) = FlattenSeq(Singles(lines))
  BY <1>1 DEF Replaced, Singles
<1>3. QED
  BY <1>2, FlattenSingles

(* Replacing the blocks found, from the last to the first, replaces those   *)
(* and no other line (replaceLinesSlice in its loops).                      *)
THEOREM ReplaceIsReplaced ==
  ASSUME NEW X, NEW lines \in Seq(X), NEW repl \in Seq(X), NEW w \in Nat \ {0},
         NEW P \in SUBSET (1..Len(lines)), \A p \in P : (p + w) - 1 <= Len(lines),
         NEW idxs, InTurn(idxs, P, Len(lines)), EnsureNonOverlapping(idxs, w)
  PROVE  ReplaceMatches(lines, idxs, w, repl) = Replaced(lines, P, w, repl)
<1> DEFINE n == Len(idxs)
           N == Len(lines)
           Later(k) == {idxs[j] : j \in ((n - k) + 1)..n}
<1>1. /\ idxs \in Seq(Nat) /\ n \in Nat /\ N \in Nat
      /\ \A j \in 1..n : idxs[j] \in P /\ idxs[j] \in 1..N
      /\ \A i \in P : \E j \in 1..n : idxs[j] = i
      /\ \A i, j \in 1..n : i < j => idxs[i] < idxs[j]
  BY LenProperties DEF InTurn
<1>2. \A j \in 1..(n - 1) : idxs[j] + w <= idxs[j + 1]
  BY DEF EnsureNonOverlapping
<1>3. ReplacesThrough(lines, idxs, w, repl)
  BY <1>1, ReplaceTrace
<1>4. PICK g : Replaces(g, lines, idxs, w, repl)
  BY <1>3 DEF ReplacesThrough
<1>5. /\ g[0] = lines /\ ReplaceMatches(lines, idxs, w, repl) = g[n]
      /\ \A i \in 1..n : g[i] = ReplaceLinesSlice(g[i - 1], idxs[(n - i) + 1], w, repl)
  BY <1>4 DEF Replaces
<1> DEFINE T == {k \in Nat : k <= n => g[k] = Replaced(lines, Later(k), w, repl)}
<1> HIDE DEF n, N
<1>6. 0 \in T
  <2>1. Later(0) = {}
    BY <1>1
  <2> HIDE DEF Later
  <2>2. QED
    BY <1>5, <2>1, NoBlocks
<1>7. ASSUME NEW k \in Nat, k \in T PROVE k + 1 \in T
  <2>1. SUFFICES ASSUME k + 1 <= n PROVE g[k + 1] = Replaced(lines, Later(k + 1), w, repl)
    OBVIOUS
  <2> DEFINE m == n - k
             q == idxs[m]
  <2>2. /\ m \in 1..n /\ k + 1 \in 1..n /\ (k + 1) - 1 = k /\ (n - (k + 1)) + 1 = m
        /\ (n - k) + 1 = m + 1 /\ m + 1 \in Nat
    BY <1>1, <2>1
  <2> HIDE DEF m
  <2>3. g[k] = Replaced(lines, Later(k), w, repl)
    <3>1. k <= n
      BY <1>1, <2>1
    <3> HIDE DEF Later
    <3>2. QED
      BY <1>7, <3>1
  <2>4. g[k + 1] = ReplaceLinesSlice(g[k], q, w, repl)
    BY <1>5, <2>2
  <2>5. Later(k) = {idxs[j] : j \in (m + 1)..n} /\ Later(k + 1) = {idxs[j] : j \in m..n}
    BY <2>2
  <2>6. Later(k + 1) = Later(k) \cup {q}
    <3>1. m..n = ((m + 1)..n) \cup {m}
      BY <1>1, <2>2
    <3>2. QED
      BY <2>5, <3>1
  <2>7. Later(k) \in SUBSET (1..N)
    <3>1. \A j \in (m + 1)..n : j \in 1..n
      BY <1>1, <2>2
    <3>2. QED
      BY <1>1, <2>5, <3>1
  <2>8. \A p \in Later(k) : q + w <= p
    <3>1. SUFFICES ASSUME NEW j \in (m + 1)..n PROVE q + w <= idxs[j]
      BY <2>5
    <3>2. j \in 1..n /\ m + 1 \in 1..n /\ m \in 1..(n - 1)
      BY <1>1, <2>2
    <3>3. q + w <= idxs[m + 1]
      BY <1>2, <3>2 DEF n
    <3>4. idxs[m + 1] <= idxs[j]
      <4>1. CASE j = m + 1
        BY <1>1, <3>2, <4>1
      <4>2. CASE j > m + 1
        BY <1>1, <3>2, <4>2, SMTT(60)
      <4>3. QED
        BY <2>2, <4>1, <4>2
    <3>5. q \in Nat /\ idxs[m + 1] \in Nat /\ idxs[j] \in Nat
      <4>1. \A i \in 1..n : idxs[i] \in Nat
        BY <1>1
      <4>2. m \in 1..n
        BY <2>2
      <4>3. QED
        BY <3>2, <4>1, <4>2
    <3>6. QED
      BY <3>3, <3>4, <3>5
  <2>9. q \in 1..N /\ (q + w) - 1 <= N
    <3>1. q \in P /\ q \in 1..N
      BY <1>1, <2>2
    <3>2. QED
      BY <3>1 DEF N
  <2> HIDE DEF Later, q
  <2>10. Replaced(lines, Later(k) \cup {q}, w, repl)
           = ReplaceLinesSlice(Replaced(lines, Later(k), w, repl), q, w, repl)
    BY <2>7, <2>8, <2>9, OneBlockMore DEF N
  <2>11. QED
    BY <2>3, <2>4, <2>6, <2>10
<1>8. Later(n) = P
  <2>1. (n - n) + 1 = 1
    BY <1>1
  <2>2. Later(n) = {idxs[j] : j \in 1..n}
    BY <2>1
  <2>3. QED
    BY <1>1, <2>2
<1> HIDE DEF T, Later
<1>9. n \in T
  BY <1>1, <1>6, <1>7, Naturally
<1>10. QED
  BY <1>1, <1>5, <1>8, <1>9 DEF T
===========================================================================
