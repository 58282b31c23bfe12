---------------------------- MODULE CommandLines ----------------------------
(* What a command line may be composed of, and which commands it then runs: *)
(* said from the parts that make up the line, where the filter goes through *)
(* the line from left to right. A line is parts with a separator behind     *)
(* each, a part is words with gaps, a word is pieces that are quoted each   *)
(* in a way of its own.                                                     *)
EXTENDS ShellWords

Gaps == Seq({"SP", "CR"})
Operators == {"&", "|", "<", ">"}
Meta(d) ==
  Operators \cup {"LF", "(", ")", "SP", "CR", "DQ", Escape(d)}
  \cup (IF d = "cmd" THEN {} ELSE {"'", ";", "#"})

(* What the shell puts something else in the place of, a command's output   *)
(* included: no line here has any outside single quotes.                    *)
Expanded == {"$", "BT", "%", "*", "?", "["}

(* A piece: a plain symbol, an escaped one, quoted ones, the & that calls a *)
(* command in PowerShell, or a redirection.                                 *)
Forms == {"bare", "escaped", "single", "double", "ampersand", "redirection"}
Redirections(d) ==
  {<<">">>, <<"<">>, <<">", ">">>}
  \cup (IF d = "cmd" THEN {} ELSE {<<">", "&">>, <<"<", "&">>, <<"&", ">">>})
IsPiece(d, p) ==
  /\ p \in [form : Forms, run : Seq(STRING)]
  /\ p.form \in {"bare", "escaped"} => Len(p.run) = 1
  /\ p.form = "bare" => p.run[1] \notin Meta(d) \cup Expanded
  /\ p.form = "escaped" => p.run[1] # "LF"
  /\ p.form = "single" => d # "cmd" /\ "'" \notin ToSet(p.run)
  /\ p.form = "double" => /\ "DQ" \notin ToSet(p.run) /\ Escape(d) \notin ToSet(p.run)
                          /\ ToSet(p.run) \cap Expanded = {}
  /\ p.form = "ampersand" => d = "powershell" /\ p.run = <<"&">>
  /\ p.form = "redirection" => p.run \in Redirections(d)
Spelled(d, p) ==
  CASE p.form = "escaped" -> <<Escape(d)>> \o p.run
    [] p.form = "single" -> <<"'">> \o p.run \o <<"'">>
    [] p.form = "double" -> <<"DQ">> \o p.run \o <<"DQ">>
    [] OTHER -> p.run

(* Neighbours that do not make an operator of both. *)
Apart(s, t) ==
  s # <<>> /\ t # <<>> => ~(Last(s) \in Operators /\ Head(t) \in Operators)

WordText(d, w) == FlattenSeq([i \in DOMAIN w.pieces |-> Spelled(d, w.pieces[i])])
WordMeant(w) == FlattenSeq([i \in DOMAIN w.pieces |-> w.pieces[i].run])
IsWord(d, w) ==
  /\ w \in [pieces : Seq([form : Forms, run : Seq(STRING)]), gap : Gaps] /\ w.pieces # <<>>
  /\ \A i \in DOMAIN w.pieces : IsPiece(d, w.pieces[i])
  /\ \A i \in 1..(Len(w.pieces) - 1) :
       Apart(Spelled(d, w.pieces[i]), Spelled(d, w.pieces[i + 1]))

(* The word that names the command: the first that is not an assignment, or *)
(* the one that a wrapper runs, and no wrapper of another.                  *)
Starts(words, i) ==
  i \in DOMAIN words /\ \A j \in 1..i : IsEnvAssignment(words[j]) <=> j # i
Reaches(words, i, j) ==
  LET cmd == CanonicalCmd(words[i])
  IN /\ cmd \in Wrappers /\ i < j /\ j \in DOMAIN words
     /\ \A k \in (i + 1)..j : Skips(cmd, words[k]) <=> k # j
Names(words, k) ==
  /\ \E K \in SUBSET (1..k) :
       k \in K /\ \A j \in K : Starts(words, j) \/ \E i \in K : Reaches(words, i, j)
  /\ ~\E j \in DOMAIN words : Reaches(words, k, j)

(* What the words in front of a command's name may be: plain assignments in *)
(* sh, wrappers with options that take no argument, and PowerShell's &; a   *)
(* word that is empty or redirects is behind the name. The name itself is   *)
(* no keyword: behind those the shell reads another command.                *)
Keywords == {<<"{">>, <<"!">>, <<"if">>, <<"then">>, <<"elif">>, <<"else">>, <<"while">>, <<"until">>,
             <<"do">>, <<"for">>, <<"time">>}
BehindName(words, i) ==
  \E k \in 1..(i - 1) : Names(words, k) /\ CanonicalCmd(words[k]) \notin Wrappers
FormsOf(w) == {w.pieces[i].form : i \in DOMAIN w.pieces}
AssignsPlainly(w) ==
  \E k \in DOMAIN w.pieces : w.pieces[k].run = <<"=">> /\ \A j \in 1..k : w.pieces[j].form = "bare"
InPlace(d, p) ==
  LET words == [i \in DOMAIN p.words |-> WordMeant(p.words[i])]
  IN \A i \in DOMAIN words :
       /\ words[i] = <<>> \/ "redirection" \in FormsOf(p.words[i]) => BehindName(words, i)
       /\ "ampersand" \in FormsOf(p.words[i]) => i = 1 /\ Len(p.words[i].pieces) = 1
       /\ CanonicalCmd(words[i]) = <<"&">> => "ampersand" \in FormsOf(p.words[i]) \/ BehindName(words, i)
       /\ (\A j \in 1..i : IsEnvAssignment(words[j])) => d = "sh" /\ AssignsPlainly(p.words[i])
       /\ Names(words, i) => CanonicalCmd(words[i]) \notin Keywords

(* The gap behind each word sets it off from the next. A part that ended in *)
(* an escaped space would lose it with the space around it.                 *)
PartText(d, p) ==
  p.lead \o FlattenSeq([i \in DOMAIN p.words |-> WordText(d, p.words[i]) \o p.words[i].gap])
WordsOf(p) == Without(<<>>, [i \in DOMAIN p.words |-> WordMeant(p.words[i])])
EndsWhole(w) == LET p == Last(w.pieces) IN p.form = "escaped" => p.run[1] \notin Space
IsPart(d, p) ==
  /\ p.lead \in Gaps /\ p.end \in Seq(STRING) /\ p.words \in Seq({p.words[i] : i \in DOMAIN p.words})
  /\ (\A i \in DOMAIN p.words : IsWord(d, p.words[i])) /\ InPlace(d, p)
  /\ \A i \in 1..(Len(p.words) - 1) : p.words[i].gap # <<>>
  /\ p.words # <<>> => EndsWhole(Last(p.words))
  /\ Apart(PartText(d, p), p.end)

(* What ends a command; in sh a lone & does, and leaves it running in the   *)
(* background.                                                              *)
Splits(d) ==
  {<<"LF">>, <<"(">>, <<")">>, <<"|">>, <<"|", "|">>, <<"|", "&">>, <<"&", "&">>}
  \cup {IF d = "cmd" THEN <<"&">> ELSE <<";">>}
Separators(d) == Splits(d) \cup (IF d = "sh" THEN {<<"&">>} ELSE {})
IsComment(d, p) ==
  /\ d # "cmd" /\ Head(p.end) = "#"
  /\ "&" \notin ToSet(p.end)   \* hasBackgroundAmpersand looks there too
  /\ d = "sh" => PartText(d, p) # <<>> /\ Last(PartText(d, p)) \in Space
LineText(d, parts) == FlattenSeq([i \in DOMAIN parts |-> PartText(d, parts[i]) \o parts[i].end])
IsLine(d, parts) ==
  /\ parts \in Seq({parts[i] : i \in DOMAIN parts}) /\ parts # <<>>
  /\ \A i \in DOMAIN parts : IsPart(d, parts[i])
  /\ \A i \in 1..(Len(parts) - 1) :
       /\ parts[i].end \in Separators(d)
       /\ Apart(parts[i].end, PartText(d, parts[i + 1]) \o parts[i + 1].end)
  /\ Last(parts).end # <<>> => IsComment(d, Last(parts))

CommandsOf(parts) ==
  UNION {{CanonicalCmd(w[k]) : k \in {j \in DOMAIN w : Names(w, j)}} :
           w \in {WordsOf(parts[i]) : i \in DOMAIN parts}}
Backgrounds(d, parts) == d = "sh" /\ \E i \in DOMAIN parts : parts[i].end = <<"&">>
===========================================================================
