----------------------------- MODULE TextTools -----------------------------
(* The text tools of the registry on one file: each reads the whole file,   *)
(* works on its lines, and an editor writes the whole file back, without a  *)
(* lock. A read sees one version and a write replaces it whole (AtomicWrite *)
(* and TargetWhole of Files).                                               *)
EXTENDS Registry, TextLines

CONSTANTS DefaultMaxMatches, MaxMaxMatches, MaxContextLines, MaxReturnedLines, MaxRangeLines

ASSUME MatchesAssumption == DefaultMaxMatches \in Nat \ {0}

VARIABLES
  file,   \* the text of the file
  held    \* of each call: what it has read and not yet used up

textVars == <<file, held>>

Editors == {"replacetextlines", "deletetextlines", "inserttextlines"}
Readers == {"findtext", "readtextrange"}

TextInit ==
  /\ file = scene.file
  /\ held = [c \in Callers |-> <<>>]

Norm(in) == NormalizeLineBlockInput(in)
The(S, default) == IF S = {} THEN default ELSE CHOOSE x \in S : TRUE

----------------------------------------------------------------------------
(* Each tool's result on a text: the set of its results, empty for an error *)

(* An expected count that is left out is 1; in deletetextlines so is one    *)
(* that is not positive.                                                    *)
Expected(tool, a) ==
  IF tool = "deletetextlines" /\ The(a.expected, 1) <= 0 THEN 1 ELSE The(a.expected, 1)

Replacements(tool, a, t) ==
  LET match == Norm(a.match)
      with == IF tool = "replacetextlines" THEN Norm(a.with) ELSE <<>>
      idxs == FindTrimmedAdjacentBlockMatches(t.lines, Norm(a.before), match, Norm(a.after))
  IN IF EnsureNonOverlapping(idxs, Len(match)) /\ Len(idxs) = Expected(tool, a)
     THEN {[at |-> idxs, lines |-> ReplaceMatches(t.lines, idxs, Len(match), with)]}
     ELSE {}

Position(a) == IF a.position = "" THEN "end" ELSE a.position

(* computeInsertIndex. *)
InsertPlaces(a, t) ==
  LET anchor == Norm(a.anchor)
      idxs == FindTrimmedBlockMatches(t.lines, anchor)
  IN IF Position(a) = "start" THEN {1}
     ELSE IF Position(a) = "end" THEN {Len(t.lines) + 1}
     ELSE IF Position(a) \notin {"beforeAnchor", "afterAnchor"} \/ Len(idxs) # 1 THEN {}
     ELSE {IF Position(a) = "beforeAnchor" THEN idxs[1] ELSE idxs[1] + Len(anchor)}

Edits(tool, a, t) ==
  IF tool = "inserttextlines"
  THEN {[at |-> <<n>>, lines |-> InsertLines(t.lines, n, Norm(a.lines))] : n \in InsertPlaces(a, t)}
  ELSE Replacements(tool, a, t)

ContainsText(s, q) == \E i \in DOMAIN s : IsBlockEqualsAt(s, q, i)

(* Where findText finds something. A regular expression is one that matches *)
(* its own text; it is not trimmed.                                         *)
Hits(a, t) ==
  IF a.queryType = "lineblock" THEN FindTrimmedBlockMatches(t.lines, Norm(a.match))
  ELSE LET q == IF a.queryType = "regex" THEN a.query ELSE TrimSpace(a.query)
       IN InOrder({i \in DOMAIN t.lines : ContainsText(TrimSpace(t.lines[i]), q)}, t.lines)
HitWidth(a) == IF a.queryType = "lineblock" THEN Len(Norm(a.match)) ELSE 1

QueryOK(a) ==
  IF a.queryType = "lineblock" THEN a.match # <<>> /\ TrimSpace(a.query) = <<>>
  ELSE a.match = <<>> /\ TrimSpace(a.query) # <<>>

(* args.ContextLines: one that is omitted is decoded to 0, and one below 0  *)
(* counts as 0.                                                             *)
ContextLines(a) == Max({0, The(a.contextLines, 0)})
MaxMatches(a) == IF a.maxMatches <= 0 THEN DefaultMaxMatches ELSE a.maxMatches

(* Faulty variant: the window around a match ends with the match. *)
WindowBehind(a, t, i) ==
  LET last == (i + HitWidth(a)) - 1
  IN [ from |-> i, to |-> last, first |-> Max({1, i - ContextLines(a)}), last |-> last ]

(* A match and the lines around it. *)
Window(a, t, i) ==
  LET last == (i + HitWidth(a)) - 1
      around == ContextLines(a)
  IN [ from |-> i, to |-> last, first |-> Max({1, i - around}),
       last |-> Min({Len(t.lines), last + around}) ]

(* The search is made: the file has lines, and the query is one. *)
Searches(a, t) ==
  t.lines # <<>> /\ QueryOK(a) /\ EnsureNonOverlapping(Hits(a, t), HitWidth(a))

(* addMatch and the limits after it: the search ends with too many lines or *)
(* with the last match that is asked for.                                   *)
AddMatch(a, t, acc, i) ==
  IF acc.reached \/ acc.total > MaxReturnedLines THEN acc
  ELSE LET w == Window(a, t, i)
       IN [ found |-> Append(acc.found, w),
            reached |-> Len(acc.found) + 1 >= MaxMatches(a),
            total |-> acc.total + (w.last - w.first) + 1 ]

Finds(a, t) ==
  LET end == FoldLeft(LAMBDA acc, i : AddMatch(a, t, acc, i),
                      [found |-> <<>>, reached |-> FALSE, total |-> 0], Hits(a, t))
  IN IF t.lines = <<>> THEN {[found |-> <<>>, reached |-> FALSE]}
     ELSE IF ~Searches(a, t) \/ end.total > MaxReturnedLines THEN {}
     ELSE {[found |-> end.found, reached |-> end.reached]}

(* readTextRange: the lines from the start marker to the end marker. *)
Ranges(a, t) ==
  LET start == Norm(a.start)
      end == Norm(a.end)
      starts == FindTrimmedBlockMatches(t.lines, start)
      ends == FindTrimmedBlockMatches(t.lines, end)
      from == IF start = <<>> THEN 1 ELSE starts[1]
      to == IF end = <<>> THEN Len(t.lines) ELSE (ends[1] + Len(end)) - 1
  IN IF t.lines = <<>> THEN {[from |-> 0, to |-> 0]}
     ELSE IF \/ start # <<>> /\ Len(starts) # 1
             \/ end # <<>> /\ Len(ends) # 1 THEN {}
     ELSE IF \/ start # <<>> /\ end # <<>> /\ ends[1] < from + Len(start)
             \/ from > to \/ (to - from) + 1 > MaxRangeLines THEN {}
     ELSE {[from |-> from, to |-> to]}

Results(tool, a, t) ==
  IF tool \in Editors THEN Edits(tool, a, t)
  ELSE IF tool = "findtext" THEN Finds(a, t) ELSE Ranges(a, t)

(* What is looked at before the file is read. *)
ArgumentsOK(tool, a) ==
  IF tool = "replacetextlines"
  THEN a.match # <<>> /\ a.with # <<>> /\ Expected(tool, a) >= 1
  ELSE IF tool = "deletetextlines" THEN a.match # <<>>
  ELSE IF tool = "inserttextlines"
  THEN a.lines # <<>> /\ (Position(a) \in {"start", "end"} => a.anchor = <<>>)
  ELSE tool = "findtext" => /\ a.queryType \in {"substring", "regex", "lineblock"}
                            /\ ContextLines(a) <= MaxContextLines
                            /\ a.maxMatches <= MaxMaxMatches

(* A search looks at its context for each line or match it goes through,    *)
(* the others once there is a result, for each line or match of it.         *)
LooksAtContext(tool, a, t) ==
  IF tool = "findtext"
  THEN Searches(a, t) /\ (a.queryType = "lineblock" => Hits(a, t) # <<>>)
  ELSE Results(tool, a, t) # {} /\ (tool = "readtextrange" => t.lines # <<>>)

----------------------------------------------------------------------------
Tool(c) == Request(c).id
Args(c) == Request(c).args
StartText(c) ==
  /\ call[c].step = "tool" /\ Tool(c) \in Editors \cup Readers
  /\ \/ TimesOut(c)
     \/ ~CtxDone(c) /\ ~ArgumentsOK(Tool(c), Args(c)) /\ Fails(c)
     \/ ~CtxDone(c) /\ ArgumentsOK(Tool(c), Args(c)) /\ Goes(c, "read") /\ UNCHANGED answer
  /\ UNCHANGED <<scene, tools, reg, now, cancelled, textVars>>

(* ReadTextFileUTF8. It fails for its own reasons: path, size, encoding. *)
ReadText(c) ==
  /\ call[c].step = "read"
  /\ \/ held' = [held EXCEPT ![c] = file] /\ Goes(c, "compute") /\ UNCHANGED answer
     \/ Fails(c) /\ UNCHANGED held
  /\ UNCHANGED <<scene, tools, reg, now, cancelled, file>>

Compute(c) ==
  /\ call[c].step = "compute"
  /\ LET t == Parse(held[c])
         results == Results(Tool(c), Args(c), t)
         stops == LooksAtContext(Tool(c), Args(c), t)
     IN \/ stops /\ TimesOut(c)
        \/ (stops => ~CtxDone(c)) /\ results = {} /\ Fails(c)
        \/ /\ stops => ~CtxDone(c)
           /\ \E r \in results : IF Tool(c) \in Editors THEN Goes(c, "write") /\ UNCHANGED answer
                                 ELSE Answer(c, "ok", r)
  /\ UNCHANGED <<scene, tools, reg, now, cancelled, textVars>>

Written(c, r) == Render([Parse(held[c]) EXCEPT !.lines = r.lines])

(* Faulty variant: the context is looked at when the file is written. *)
WriteThenLook(c) ==
  /\ call[c].step = "write"
  /\ \E r \in Results(Tool(c), Args(c), Parse(held[c])) :
       /\ file' = Written(c, r)
       /\ TimesOut(c) \/ (~CtxDone(c) /\ Answer(c, "ok", r.at))
  /\ UNCHANGED <<scene, tools, reg, now, cancelled, held>>

(* WriteFileAtomicBytesResolved with overwrite, which fails whole. *)
WriteText(c) ==
  /\ call[c].step = "write"
  /\ \/ \E r \in Results(Tool(c), Args(c), Parse(held[c])) :
          file' = Written(c, r) /\ Answer(c, "ok", r.at)
     \/ Fails(c) /\ UNCHANGED file
  /\ UNCHANGED <<scene, tools, reg, now, cancelled, held>>

TextStep(c) == StartText(c) \/ ReadText(c) \/ Compute(c) \/ WriteText(c)
===========================================================================
