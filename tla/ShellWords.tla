----------------------------- MODULE ShellWords -----------------------------
(* How command lines are quoted, split and judged. A line is a sequence of  *)
(* symbols; a run of ordinary characters (a name, a number) is one symbol,  *)
(* "DQ" is a double quote, "BS" a backslash, "BT" a backtick.               *)
EXTENDS TextLines

Dialects == {"sh", "powershell", "cmd"}
Escape(d) == IF d = "sh" THEN "BS" ELSE IF d = "powershell" THEN "BT" ELSE "^"

Without(x, s) == FlattenSeq([i \in DOMAIN s |-> IF s[i] = x THEN <<>> ELSE <<s[i]>>])

(* What each symbol of a line is to the shell: a quote, an escape, escaped, *)
(* within quotes, or plain. cmd escapes everywhere and has no single quote. *)
MarkStep(d, acc, c) ==
  LET escapes == c = Escape(d) /\ (acc.in # "'" \/ d = "cmd")
      quotes == \/ c = "'" /\ d # "cmd" /\ acc.in \in {"none", "'"}
                \/ c = "DQ" /\ acc.in \in {"none", "DQ"}
  IN IF acc.esc THEN [acc EXCEPT !.esc = FALSE, !.marks = Append(@, "escaped")]
     ELSE IF escapes THEN [acc EXCEPT !.esc = TRUE, !.marks = Append(@, "escape")]
     ELSE IF quotes
     THEN [acc EXCEPT !.in = IF @ = "none" THEN c ELSE "none", !.marks = Append(@, "quote")]
     ELSE [acc EXCEPT !.marks = Append(@, IF acc.in = "none" THEN "plain" ELSE "quoted")]
Marked(s, d) ==
  FoldLeft(LAMBDA acc, c : MarkStep(d, acc, c), [in |-> "none", esc |-> FALSE, marks |-> <<>>], s)
Marks(s, d) == Marked(s, d).marks

At(s, i) == IF i \in DOMAIN s THEN s[i] ELSE "end"

(* The length of the separator that starts at a plain symbol, or 0. *)
SeparatorLength(s, d, i) ==
  IF s[i] = "|" THEN (IF At(s, i + 1) \in {"|", "&"} THEN 2 ELSE 1)
  ELSE IF s[i] = "&" THEN (IF At(s, i + 1) = "&" THEN 2 ELSE IF d = "cmd" THEN 1 ELSE 0)
  ELSE IF s[i] \in {"LF", "(", ")"} \/ (s[i] = ";" /\ d # "cmd") THEN 1
  ELSE 0

StartsComment(s, d, i) ==
  s[i] = "#" /\ d # "cmd" /\ (d = "powershell" \/ i = 1 \/ s[i - 1] \in Space)

(* forEachSegment: what lies between the separators, up to a comment. *)
Emit(s, acc, i) == [acc EXCEPT !.segs = Append(@, TrimSpace(SubSeq(s, acc.start, i - 1)))]
SegmentStep(s, mark, d, acc, i) ==
  IF acc.ended \/ i < acc.start \/ mark[i] # "plain" THEN acc
  ELSE IF StartsComment(s, d, i) THEN [Emit(s, acc, i) EXCEPT !.ended = TRUE]
  ELSE IF SeparatorLength(s, d, i) > 0
  THEN [Emit(s, acc, i) EXCEPT !.start = i + SeparatorLength(s, d, i)]
  ELSE acc
Segments(s, d) ==
  LET mark == Marks(s, d)
      end == FoldLeftDomain(LAMBDA acc, i : SegmentStep(s, mark, d, acc, i),
                            [segs |-> <<>>, start |-> 1, ended |-> FALSE], s)
  IN Without(<<>>, IF end.ended THEN end.segs ELSE Emit(s, end, Len(s) + 1).segs)

(* shellFields: the words of a segment; empty ones are dropped. *)
Flush(acc) == IF acc.word = <<>> THEN acc
              ELSE [words |-> Append(acc.words, acc.word), word |-> <<>>]
FieldStep(acc, mark, c) ==
  IF mark \in {"quote", "escape"} THEN acc
  ELSE IF mark = "plain" /\ c \in Space THEN Flush(acc)
  ELSE [words |-> acc.words, word |-> Append(acc.word, c)]
ShellFields(s, d) ==
  LET mark == Marks(s, d)
  IN Flush(FoldLeftDomain(LAMBDA acc, i : FieldStep(acc, mark[i], s[i]),
                          [words |-> <<>>, word |-> <<>>], s)).words

Slashes == {"/", "BS"}
Lower(c) == IF c = "RM" THEN "rm" ELSE c

(* canonicalCmd: the base name in lower case. *)
CanonicalCmd(word) ==
  LET w == TrimSpace(word)
      body == Upto(w, Max({0} \cup {i \in DOMAIN w : w[i] \notin Slashes}))
      base == From(body, Max({0} \cup {i \in DOMAIN body : body[i] \in Slashes}) + 1)
  IN [i \in DOMAIN base |-> Lower(base[i])]

NameSymbols == {"a", "b", "env", "ls", "rm", "RM", "mkfs", "command"}
IsEnvAssignment(w) ==
  \E eq \in DOMAIN w : eq > 1 /\ w[eq] = "=" /\ \A i \in 1..(eq - 1) : w[i] \in NameSymbols
IsOption(w) == At(w, 1) = "-"
IsEnvArgument(w) == IsOption(w) \/ IsEnvAssignment(w)

(* What a wrapper runs is behind it, past what it takes for itself. *)
Wrappers == {<<"&">>, <<"env">>, <<"command">>}
Skips(cmd, w) == \/ cmd = <<"env">> /\ IsEnvArgument(w)
                 \/ cmd = <<"command">> /\ IsOption(w)
Behind(toks, i, cmd) ==
  Min({j \in (i + 1)..(Len(toks) + 1) : j \in DOMAIN toks => ~Skips(cmd, toks[j])})

(* unwrapCommand: the command behind assignments and wrappers, or a wrapper *)
(* with nothing behind it.                                                  *)
Unwrap(toks) ==
  LET name[i \in DOMAIN toks] ==
        LET cmd == CanonicalCmd(toks[i])
            next == Behind(toks, i, cmd)
        IN IF cmd \in Wrappers /\ next \in DOMAIN toks THEN name[next] ELSE cmd
      first == Min({j \in 1..(Len(toks) + 1) : j \in DOMAIN toks => ~IsEnvAssignment(toks[j])})
  IN IF first \in DOMAIN toks THEN name[first] ELSE <<>>

(* A name is blocked in every variant of mkfs and, on Windows, with the     *)
(* extension of a program; cmd has format, too, blocked there.              *)
Programs == {"exe", "com", "bat", "cmd"}
IsBlocked(name, blocked, windows) ==
  \/ name \in blocked
  \/ At(name, 1) = "mkfs" /\ At(name, 2) = "." /\ <<"mkfs">> \in blocked
  \/ windows /\ \E b \in blocked, x \in Programs : name = b \o <<".", x>>
Blocklist(d, windows, blocked) ==
  blocked \cup (IF windows /\ d = "cmd" THEN {<<"format">>} ELSE {})

(* A plain & that is neither one of && nor part of a redirection or |&. *)
HasBackgroundAmpersand(s) ==
  LET mark == Marks(s, "sh")
      Amp(i) == s[i] = "&" /\ mark[i] = "plain"
      RunStart(i) == Max({0} \cup {j \in 1..(i - 1) : ~Amp(j)}) + 1
  IN \E i \in DOMAIN s :
       /\ Amp(i) /\ At(s, i + 1) \notin {"&", ">"} /\ (i - RunStart(i)) % 2 = 0
       /\ At(s, i - 1) \notin {">", "<", "|"}

(* The fork bomb, wherever it stands and however it is spaced. *)
ForkBomb == <<":", "(", ")", "{", ":", "|", ":", "&", "}", ";", ":">>
LooksLikeForkBomb(s) ==
  LET b == SelectSeq(s, LAMBDA c : c \notin Space)
  IN \E i \in DOMAIN b : IsBlockEqualsAt(b, ForkBomb, i)

(* Faulty variant: the line is taken for one command. *)
RejectsFirst(cmd, d, windows, blocked, heuristics) ==
  LET c == TrimSpace(cmd)
  IN IsBlocked(Unwrap(ShellFields(c, d)), Blocklist(d, windows, blocked), windows)

RejectDangerousCommand(cmd, d, windows, blocked, heuristics) ==
  LET c == TrimSpace(cmd)
  IN \/ heuristics /\ LooksLikeForkBomb(c)
     \/ heuristics /\ d = "sh" /\ HasBackgroundAmpersand(c)
     \/ \E seg \in ToSet(Segments(c, d)) :
          IsBlocked(Unwrap(ShellFields(seg, d)), Blocklist(d, windows, blocked), windows)

(* Faulty variant: quotes within a word are left as they are. *)
QuoteBare(d, w) == <<"'">> \o w \o <<"'">>

(* quotePOSIX and quotePowerShell. *)
Quote(d, w) ==
  LET inner == IF d = "sh" THEN <<"'", "DQ", "'", "DQ", "'">> ELSE <<"'", "'">>
  IN <<"'">> \o FlattenSeq([i \in DOMAIN w |-> IF w[i] = "'" THEN inner ELSE <<w[i]>>])
     \o <<"'">>

(* CommandFromArgv, for sh and PowerShell; cmd is refused by the caller. *)
CommandFromArgv(d, argv) ==
  LET quoted == [i \in DOMAIN argv |-> Quote(d, argv[i])]
  IN Join(IF d = "powershell" THEN << <<"&">> >> \o quoted ELSE quoted, <<"SP">>)
===========================================================================
