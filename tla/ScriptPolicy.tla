---------------------------- MODULE ScriptPolicy ----------------------------
(* runscript: the policy as it is given and as it is kept, and the command  *)
(* that a call makes of a script and its arguments. An extension as it is   *)
(* written has a name, maybe a dot, and maybe capitals or spaces (not       *)
(* plain).                                                                  *)
EXTENDS ShellWords, Integers

CONSTANTS DefaultTimeout, HardMaxTimeout, DefaultMaxCommandLength, HardMaxCommandLength,
          DefaultMaxArgBytes

ASSUME LimitsAssumption ==
  /\ {DefaultTimeout, HardMaxTimeout} \subseteq Nat \ {0}
  /\ {DefaultMaxCommandLength, HardMaxCommandLength} \subseteq Nat \ {0}

(* A host's policy. *)
Exts == [name : STRING, dot : BOOLEAN, plain : BOOLEAN]
Interpreters == [mode : STRING, shell : STRING, command : Seq(STRING), args : Seq(Seq(STRING))]
Executions == [timeout : Int, maxCommandLength : Int, allowDangerous : BOOLEAN]
RunScriptPolicies ==
  [ allowed : SUBSET Exts, interpreters : SUBSET [ext : Exts, runs : Interpreters],
    maxArgs : Int, maxArgBytes : Int, execution : Executions ]

NoExtension == ""   \* the name of none
Ext(n) == [name |-> n, dot |-> n # NoExtension, plain |-> TRUE]
NormalizeExt(e) == [name |-> e.name, dot |-> e.dot \/ e.name # NoExtension, plain |-> TRUE]

Modes == {"direct", "shell", "interpreter"}
GoodMapping(i) == i.mode \in Modes /\ (i.mode = "interpreter" => TrimSpace(i.command) # <<>>)

(* Faulty variant: the keys of the interpreters are taken as they are. *)
NormalizeLists(p) ==
  IF p.maxArgs < 0 \/ p.maxArgBytes < 0 \/ \E m \in p.interpreters : ~GoodMapping(m.runs)
  THEN {}
  ELSE {[p EXCEPT !.allowed = {NormalizeExt(e) : e \in @}]}

(* The policies that p may become, none for an error. Of mappings whose     *)
(* keys become one, any may be the last one stored.                         *)
NormalizeMapping(m) == [ext |-> NormalizeExt(m.ext), runs |-> m.runs]
Stored(S) == {NormalizeMapping(m) : m \in S}
KeysOf(S) == {NormalizeExt(m.ext) : m \in S}
OnePerKey(S) == \A m, n \in S : NormalizeExt(m.ext) = NormalizeExt(n.ext) => m = n
NormalizeRunScriptPolicy(p) ==
  IF p.maxArgs < 0 \/ p.maxArgBytes < 0 \/ \E m \in p.interpreters : ~GoodMapping(m.runs)
  THEN {}
  ELSE {[p EXCEPT !.allowed = {NormalizeExt(e) : e \in @}, !.interpreters = Stored(S)] :
          S \in {T \in SUBSET p.interpreters : OnePerKey(T) /\ KeysOf(T) = KeysOf(p.interpreters)}}

ExtAllowed(ext, allowed) == \E a \in allowed : NormalizeExt(a).name = ext

(* lookupInterpreter: the mapping of the extension, else that of none.      *)
RunsFor(p, n) == {m.runs : m \in {k \in p.interpreters : k.ext = Ext(n)}}
LookupInterpreter(p, ext) ==
  IF RunsFor(p, ext) # {} THEN RunsFor(p, ext) ELSE RunsFor(p, NoExtension)

(* selectShell, where these shells are installed; "sh" is any of its kind.  *)
SelectShell(asked, installed, windows) ==
  LET First(names) == LET there == SelectSeq(names, LAMBDA n : n \in installed)
                      IN IF there = <<>> THEN {} ELSE {Head(there)}
  IN IF asked = "auto"
     THEN First(IF windows THEN <<"pwsh", "powershell", "cmd">> ELSE <<"sh">>)
     ELSE IF asked = "powershell" THEN First(<<"pwsh", "powershell">>)
     ELSE {asked} \cap installed

DialectForShell(shell) ==
  IF shell \in {"pwsh", "powershell"} THEN "powershell" ELSE IF shell = "cmd" THEN "cmd" ELSE "sh"

Argv(runs, shell, script, args) ==
  IF runs.mode = "direct" THEN <<script>> \o args
  ELSE IF runs.mode = "shell" THEN << <<"/", shell>>, script >> \o args
  ELSE <<TrimSpace(runs.command)>> \o runs.args \o <<script>> \o args

(* A PowerShell command is checked without its call operator. *)
Checked(d, cmd) == IF d = "powershell" THEN TrimSpace(Tail(cmd)) ELSE cmd

NoLimits == [timeout |-> 0, maxCommandLength |-> 0, allowDangerous |-> FALSE]

Clamp(v, default, hard) ==
  LET d == IF v <= 0 THEN default ELSE v IN IF d > hard THEN hard ELSE d
EffectiveTimeout(e) == Clamp(e.timeout, DefaultTimeout, HardMaxTimeout)
EffectiveMaxCommandLength(e) ==
  Clamp(e.maxCommandLength, DefaultMaxCommandLength, HardMaxCommandLength)

(* The script policy's own limits, unless it sets none at all. *)
EffectiveExecution(p, default) ==
  IF p.execution = NoLimits THEN default ELSE p.execution

(* What runScript makes of a script and its arguments, for a shell. tool is *)
(* the state of the exec tool.                                              *)
Execution(tool) == EffectiveExecution(tool.policy, tool.execution)
ScriptCommand(tool, a, runs, shell) ==
  LET d == DialectForShell(shell)
      argv == Argv(runs, shell, a.script, a.args)
      cmd == CommandFromArgv(d, argv)
  IN [ argv |-> argv, runs |-> runs, shell |-> shell, exec |-> cmd,
       checked |-> Checked(d, cmd), timeout |-> EffectiveTimeout(Execution(tool)) ]

ArgumentsRefused(p, a) ==
  \/ p.allowed # {} /\ ~ExtAllowed(a.ext, p.allowed)
  \/ p.maxArgs > 0 /\ Len(a.args) > p.maxArgs
  \/ \E i \in DOMAIN a.args :
       Len(a.args[i]) > IF p.maxArgBytes <= 0 THEN DefaultMaxArgBytes ELSE p.maxArgBytes

Passes(tool, c) ==
  /\ Len(c.exec) <= EffectiveMaxCommandLength(Execution(tool))
  /\ ~RejectDangerousCommand(c.checked, DialectForShell(c.shell), tool.windows, tool.blocked,
                             ~Execution(tool).allowDangerous)

(* runScript, once its paths have been found good: the commands it may run, *)
(* none if the call is refused.                                             *)
ScriptCommands(tool, a) ==
  IF ArgumentsRefused(tool.policy, a) THEN {}
  ELSE {c \in UNION {{ScriptCommand(tool, a, runs, shell) :
                        shell \in SelectShell(runs.shell, tool.shells, tool.windows) \ {"cmd"}} :
                       runs \in LookupInterpreter(tool.policy, a.ext)} : Passes(tool, c)}
===========================================================================
