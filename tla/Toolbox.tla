------------------------------ MODULE Toolbox ------------------------------
(* The registry with the text tools, runscript, and shellcommand as far as  *)
(* its environment and its filter go (its sessions and commands are         *)
(* ShellCommand's): calls that run side by side on one file and one session.*)
EXTENDS TextTools, ScriptPolicy, CommandLines, Environment

CONSTANTS
  MaxEnvVars,
  Symbols       \* the characters of the file and of what the text tools are given

VARIABLES
  box,      \* the exec tool: scene.box with the policy it was made with
  session   \* the environment of the one session

vars == <<regVars, textVars, box, session>>

ASSUME ToolboxAssumption ==
  \A S \in Families : \A s \in S : \A c \in DOMAIN s.calls :
    s.calls[c].id = "shellcommand" => IsMap(s.calls[c].args.env)

ASSUME TextAssumption ==
  /\ {"LF", "CR"} \subseteq Symbols
  /\ \A S \in Families : \A s \in S :
       /\ s.file \in Seq(Symbols)
       /\ \A c \in DOMAIN s.calls : LET a == s.calls[c].args IN
            /\ s.calls[c].id \in {"replacetextlines", "deletetextlines"} =>
                 {a.match, a.before, a.after} \subseteq Seq(Seq(Symbols))
            /\ s.calls[c].id = "replacetextlines" => a.with \in Seq(Seq(Symbols))
            /\ s.calls[c].id = "inserttextlines" => {a.lines, a.anchor} \subseteq Seq(Seq(Symbols))
            /\ s.calls[c].id = "readtextrange" => {a.start, a.end} \subseteq Seq(Seq(Symbols))
            /\ s.calls[c].id = "findtext" =>
                 /\ a.match \in Seq(Seq(Symbols)) /\ a.query \in Seq(Symbols)
                 /\ a.contextLines \subseteq Int /\ \A m, n \in a.contextLines : m = n
                 /\ a.maxMatches \in Int

(* What an exec tool is made with, and what a script is called with. *)
ExecTools ==
  [ policy : RunScriptPolicies, execution : Executions, blocked : SUBSET (Seq(STRING) \ {<<>>}),
    shells : SUBSET STRING, windows : BOOLEAN,
    process : SUBSET [key : STRING, spelling : Spellings, value : Nat] ]
ASSUME ScriptAssumption ==
  \A S \in Families : \A s \in S :
    /\ s.box \in ExecTools
    /\ \A c \in DOMAIN s.calls : s.calls[c].id = "runscript" =>
         s.calls[c].args.script \in Seq(STRING) /\ s.calls[c].args.args \in Seq(Seq(STRING))

(* A command line, once its ends are trimmed, is composed of its parts.     *)
ASSUME LineAssumption ==
  \A S \in Families : \A s \in S : \A c \in DOMAIN s.calls :
    s.calls[c].id = "shellcommand" =>
      LET a == s.calls[c].args
      IN /\ a.line \in Seq(STRING) /\ a.dialect \in Dialects
         /\ IsLine(a.dialect, a.parts) /\ TrimSpace(a.line) = LineText(a.dialect, a.parts)

(* NewExecTool normalises the policy it is given; an error makes no tool. *)
Init ==
  /\ RegistryInit /\ TextInit
  /\ \E p \in NormalizeRunScriptPolicy(scene.box.policy) : box = [scene.box EXCEPT !.policy = p]
  /\ session = {}

(* What a script or command line is given. *)
Environments(c, vars_) == EffectiveEnvs(box.windows, box.process, vars_, Args(c).env)

(* runScript. Paths, the working directory and the shell may be found bad.  *)
(* What happens to the command is RunCommand's.                             *)
RunScript(c) ==
  /\ call[c].step = "tool" /\ Tool(c) = "runscript"
  /\ \/ TimesOut(c)
     \/ ~CtxDone(c) /\ Fails(c)
     \/ /\ ~CtxDone(c) /\ ValidEnvMap(Args(c).env, MaxEnvVars)
        /\ \E cmd \in ScriptCommands(box, Args(c)), e \in Environments(c, {}) :
             Answer(c, "ok", [command |-> cmd, env |-> e])
  /\ UNCHANGED <<scene, tools, reg, now, cancelled, textVars, box, session>>

(* shellCommand up to GetEffectiveEnv. *)
TakeEnv(c) ==
  /\ call[c].step = "tool" /\ Tool(c) = "shellcommand"
  /\ \/ TimesOut(c) /\ UNCHANGED held
     \/ ~CtxDone(c) /\ ~ValidEnvMap(Args(c).env, MaxEnvVars) /\ Fails(c) /\ UNCHANGED held
     \/ /\ ~CtxDone(c) /\ ValidEnvMap(Args(c).env, MaxEnvVars)
        /\ \E e \in Environments(c, session) :
             held' = [held EXCEPT ![c] = [env |-> e, session |-> session]]
        /\ Goes(c, "run") /\ UNCHANGED answer
  /\ UNCHANGED <<scene, tools, reg, now, cancelled, file, box, session>>

Rejected(c) ==
  RejectDangerousCommand(Args(c).line, Args(c).dialect, box.windows, box.blocked,
                         ~box.execution.allowDangerous)

(* AddToEnv, then the filter: a call that is refused has set its variables. *)
RunLine(c) ==
  /\ call[c].step = "run"
  /\ session' \in (IF Args(c).env = {} THEN {session}
                   ELSE AddToEnv(box.windows, session, Args(c).env))
  /\ \/ TimesOut(c)
     \/ ~CtxDone(c) /\ Rejected(c) /\ Answer(c, "refused", <<>>)
     \/ ~CtxDone(c) /\ ~Rejected(c) /\ Answer(c, "ok", <<>>)
  /\ UNCHANGED <<scene, tools, reg, now, cancelled, textVars, box>>

Next ==
  \/ RegistryStep /\ UNCHANGED <<textVars, box, session>>
  \/ \E c \in Callers : TextStep(c) /\ UNCHANGED <<box, session>>
  \/ \E c \in Callers : RunScript(c) \/ TakeEnv(c) \/ RunLine(c)

Spec == Init /\ [][Next]_vars
----------------------------------------------------------------------------
Succeeded(c) == answer[c].kind = "ok" /\ call[c].runs \in Builtins
Judged(c) == /\ answer[c].kind \in {"ok", "refused"} /\ call[c].runs \in Builtins
             /\ Tool(c) = "shellcommand"

(* Types, and that a call has an answer exactly when it is done. *)
ToolboxTypeOK ==
  /\ RegistryTypeOK
  /\ \A c \in Callers : call[c].step = "run" => held[c].env \in Environments(c, held[c].session)
  /\ IsMap(session)

Inserted(a, t, at) ==
  LET where == Places(t.lines, <<>>, Norm(a.anchor), <<>>)
  IN /\ Position(a) = "start" => at = 1
     /\ Position(a) = "end" => at = Len(t.lines) + 1
     /\ Position(a) = "beforeAnchor" => where = {at}
     /\ Position(a) = "afterAnchor" => where = {at - Len(Norm(a.anchor))}

(* An edit changes the version that the call read, all of the places its    *)
(* block was at and no other, as many as expected; what it wrote reads back *)
(* as those lines with the same newlines and the same end, unless no file   *)
(* of that kind has those lines (replace-, delete- and insertTextLines with *)
(* Render and ReadTextFileUTF8).                                            *)
EditIsExact ==
  [][\A c \in Callers : call[c].step = "write" /\ answer'[c].kind = "ok" =>
       LET a == Args(c)
           t == Parse(held[c])
           at == answer'[c].out
           P == Places(t.lines, Norm(a.before), Norm(a.match), Norm(a.after))
           lines == IF Tool(c) = "inserttextlines"
                    THEN Upto(t.lines, at[1] - 1) \o Norm(a.lines) \o From(t.lines, at[1])
                    ELSE Replaced(t.lines, P, Len(Norm(a.match)),
                                  IF Tool(c) = "deletetextlines" THEN <<>> ELSE Norm(a.with))
       IN /\ IF Tool(c) = "inserttextlines" THEN Inserted(a, t, at[1])
             ELSE ToSet(at) = P /\ Cardinality(P) = Len(at) /\ Len(at) = Expected(Tool(c), a)
          /\ Parse(file') = [t EXCEPT !.lines = lines] \/ Unwritable(t, lines)]_vars

(* Every version of the file, those that calls still hold included, is the  *)
(* first one or what a call that succeeded made of the version it had read: *)
(* a call that fails, at any point, leaves no trace in the file.            *)
Made(c) == {Written(c, r) : r \in Edits(Tool(c), Args(c), Parse(held[c]))}
Versions == {scene.file} \cup UNION {Made(c) : c \in {d \in Callers : Succeeded(d) /\ Tool(d) \in Editors}}
VersionsExplained ==
  /\ file \in Versions
  /\ \A c \in Callers : call[c].step \in {"compute", "write"} => held[c] \in Versions

(* A match is shown with n lines on each side, or as many as there are. *)
Shows(m, t, n) ==
  /\ m.first = 1 \/ m.from - m.first = n
  /\ m.last = Len(t.lines) \/ m.last - m.to = n

(* findtext returns the first matches in the order of the file, with as     *)
(* many lines around each as were asked for, and says that it reached its   *)
(* limit exactly when there are at least that many; readtextrange returns   *)
(* the one range that starts with the start marker and ends with the end    *)
(* marker, each of which is there once. Of a call that omits the number of  *)
(* lines nothing is said: the schema has a default of 5 (findtext.go:54 and *)
(* 116), the code shows none (line 159).                                    *)
FoundRight(a, t, out) ==
  LET n == Len(out.found)
      hits == IF a.queryType = "lineblock" THEN Places(t.lines, <<>>, Norm(a.match), <<>>)
              ELSE {i \in DOMAIN t.lines : ContainsText(TrimSpace(t.lines[i]),
                      IF a.queryType = "regex" THEN a.query ELSE TrimSpace(a.query))}
  IN /\ n = Min({MaxMatches(a), Cardinality(hits)})
     /\ out.reached <=> t.lines # <<>> /\ Cardinality(hits) >= MaxMatches(a)
     /\ \A k \in 1..n : LET m == out.found[k] IN
          /\ m.from \in hits /\ Cardinality({h \in hits : h < m.from}) = k - 1
          /\ \A c \in a.contextLines : Shows(m, t, Max({0, c}))
          /\ 1 <= m.first /\ m.first <= m.from /\ m.to <= m.last /\ m.last <= Len(t.lines)

RangeRight(a, t, out) ==
  LET start == Norm(a.start)
      end == Norm(a.end)
  IN t.lines # <<>> =>
     /\ 1 <= out.from /\ out.from <= out.to /\ out.to <= Len(t.lines)
     /\ start # <<>> => Places(t.lines, <<>>, start, <<>>) = {out.from}
     /\ end # <<>> => Places(t.lines, <<>>, end, <<>>) = {(out.to - Len(end)) + 1}
     /\ start = <<>> => out.from = 1
     /\ end = <<>> => out.to = Len(t.lines)
     /\ start # <<>> /\ end # <<>> => (out.to - out.from) + 1 >= Len(start) + Len(end)

ReadersAgree ==
  \A c \in Callers : Succeeded(c) =>
    /\ Tool(c) = "findtext" => FoundRight(Args(c), Parse(held[c]), answer[c].out)
    /\ Tool(c) = "readtextrange" => RangeRight(Args(c), Parse(held[c]), answer[c].out)

(* The words of a command as the filter sees them: no empty ones, and in    *)
(* PowerShell no quotes within words.                                       *)
SeenWords(cmd) ==
  LET Seen(w) == IF DialectForShell(cmd.shell) = "sh" THEN w ELSE Without("'", w)
  IN Without(<<>>, [i \in DOMAIN cmd.argv |-> Seen(cmd.argv[i])])

(* The command line that runscript makes of its words is one command of     *)
(* these words and nothing else to the filter that judges it, and what runs *)
(* is that line (CommandFromArgv against forEachSegment and shellFields).   *)
QuotedIsOneCommand ==
  \A c \in Callers : Succeeded(c) /\ Tool(c) = "runscript" =>
    LET cmd == answer[c].out.command
        d == DialectForShell(cmd.shell)
    IN /\ Segments(cmd.checked, d) = <<cmd.checked>>
       /\ ShellFields(cmd.checked, d) = SeenWords(cmd)
       /\ cmd.exec \in {cmd.checked, <<"&", "SP">> \o cmd.checked}

(* What runscript runs is what the policy, as the host wrote it, allows:    *)
(* some spelling of the extension, or no list; an interpreter given for     *)
(* some spelling of it, or the one for "" when there is none; a command     *)
(* that is not blocked; a timeout and a length within the script policy's   *)
(* own limits, or the exec tool's when it has none, and the hard ones.      *)
ScriptJustified ==
  \A c \in Callers : Succeeded(c) /\ Tool(c) = "runscript" =>
    LET cmd == answer[c].out.command
        p == scene.box.policy
        own == p.execution.timeout # 0 \/ p.execution.maxCommandLength # 0 \/ p.execution.allowDangerous
        limits == IF own THEN p.execution ELSE scene.box.execution
        For(n) == {m.runs : m \in {k \in p.interpreters : k.ext.name = n}}
    IN /\ p.allowed # {} => \E e \in p.allowed : e.name = Args(c).ext
       /\ cmd.runs \in IF For(Args(c).ext) # {} THEN For(Args(c).ext) ELSE For(NoExtension)
       /\ Unwrap(SeenWords(cmd)) \notin scene.box.blocked
       /\ cmd.timeout \in 1..HardMaxTimeout /\ Len(cmd.exec) <= HardMaxCommandLength
       /\ limits.timeout > 0 => cmd.timeout <= limits.timeout
       /\ limits.maxCommandLength > 0 => Len(cmd.exec) <= limits.maxCommandLength

(* A line that is composed of commands, however they are quoted, wrapped    *)
(* and joined, is refused exactly when one of the commands is blocked, or,  *)
(* with the heuristics on, a lone & of sh leaves one in the background or   *)
(* the text has a fork bomb in it (RejectDangerousCommand against the parts *)
(* that make up the line). With the heuristics off and a lone & it is not   *)
(* so: HardBlockedAlways.                                                   *)
RunsBlocked(c) ==
  LET b == scene.box
  IN \E name \in CommandsOf(Args(c).parts) :
       \/ IsBlocked(name, b.blocked, b.windows)
       \/ b.windows /\ Args(c).dialect = "cmd" /\ IsBlocked(name, {<<"format">>}, b.windows)
LeavesRunning(c) == Backgrounds(Args(c).dialect, Args(c).parts)
FilterAgrees ==
  \A c \in Callers : Judged(c) =>
    LET heuristics == ~scene.box.execution.allowDangerous
    IN heuristics \/ ~LeavesRunning(c) =>
         (answer[c].kind = "refused" <=>
            \/ RunsBlocked(c)
            \/ heuristics /\ (LeavesRunning(c) \/ LooksLikeForkBomb(TrimSpace(Args(c).line))))

(* "hard-blocked commands are ALWAYS blocked" (config.go:14), whatever      *)
(* AllowDangerous is, in each of the segments between ";, &&, ||, |, &,     *)
(* newline, (, )" (dangerous_commands.go:39).                               *)
HardBlockedAlways ==
  \A c \in Callers : Judged(c) /\ RunsBlocked(c) => answer[c].kind = "refused"

(* A variable of a command's environment comes from the last layer that has *)
(* its name in any spelling: the call, else the session, else the process;  *)
(* no other is lost. The variables of every call that got past the filter's *)
(* place stay in the session, by name; on Windows each once (AddToEnv and   *)
(* GetEffectiveEnv).                                                        *)
EnvLayers ==
  /\ \A c \in Callers : call[c].step = "run" =>
       LET key(v) == EnvKey(box.windows, v)
           own == Args(c).env
           layer(k) == IF \E v \in own : key(v) = k THEN own
                       ELSE IF \E v \in held[c].session : key(v) = k THEN held[c].session
                       ELSE box.process
           all == own \cup held[c].session \cup box.process
       IN /\ \A v \in held[c].env : \E u \in layer(key(v)) : key(u) = key(v) /\ u.value = v.value
          /\ {key(v) : v \in held[c].env} = {key(v) : v \in all}
          /\ \A u, v \in held[c].env : key(u) = key(v) => u = v
  /\ \A c \in Callers : Judged(c) =>
       Keys(box.windows, Args(c).env) \subseteq Keys(box.windows, session)
  /\ box.windows => \A u, v \in session : u.key = v.key => u = v
===========================================================================
