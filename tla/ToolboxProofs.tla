--------------------------- MODULE ToolboxProofs ---------------------------
(* Proofs about Toolbox: registration, deadlines, versions of the file and  *)
(* environments, for any tools, calls, texts and variables; then what the   *)
(* text tools and runscript make of what they are given, and how command    *)
(* lines are judged, which rests on the lemmas about lines and about        *)
(* command lines.                                                           *)
EXTENDS Toolbox, ShellWordsProofs

(* Calls between their lookup and their answer. *)
OfTool == {"tool", "read", "compute", "write", "run"}

CallOK(c) ==
  /\ call[c].step # "idle" => c \in DOMAIN scene.calls
  /\ call[c].step = "idle" => call[c].runs = Nobody
  /\ call[c].step \in OfTool => call[c].runs \in Builtins
  /\ call[c].step \in {"read", "compute", "write"} => Tool(c) \in Editors \cup Readers
  /\ call[c].step = "write" => Tool(c) \in Editors
  /\ call[c].step = "run" => Tool(c) = "shellcommand"

(* When a call's context ends. *)
DeadlineOK(c) ==
  call[c].step \notin {"idle", "done"} /\ call[c].until # Request(c).parent =>
    /\ Request(c).opts = <<>> => scene.timeout > 0 /\ call[c].until = call[c].began + scene.timeout
    /\ Request(c).opts # <<>> =>
         LET last == Request(c).opts[Len(Request(c).opts)]
         IN last > 0 /\ call[c].until = call[c].began + last

EnvOK(c) ==
  /\ call[c].step = "run" => /\ held[c].env \in Environments(c, held[c].session)
                             /\ \A v \in Args(c).env : Named(v)
  /\ Judged(c) => Keys(box.windows, Args(c).env) \subseteq Keys(box.windows, session)

SessionOK == /\ IsMap(session)
             /\ box.windows => \A u, v \in session : u.key = v.key => u = v

TypesOK ==
  /\ RegistryTypeOK
  /\ answer = [c \in Callers |-> answer[c]] /\ held = [c \in Callers |-> held[c]]
  /\ \A r \in Registrars : reg[r].next <= Len(scene.lists[r]) + 1

TInv ==
  /\ TypesOK /\ RegistrationHolds /\ TimeoutJustified /\ VersionsExplained /\ SessionOK
  /\ \A c \in Callers : CallOK(c) /\ DeadlineOK(c) /\ EnvOK(c)
----------------------------------------------------------------------------
(* A scene, as the registry assumes it. *)
LEMMA Scenes ==
  ASSUME TypesOK
  PROVE  /\ scene.timeout \in Int /\ scene.clock \in 0..MaxClock
         /\ scene.lists \in [Registrars -> Seq(FuncIDs)]
         /\ DOMAIN scene.calls \subseteq Callers
         /\ \A c \in DOMAIN scene.calls :
              /\ Request(c).id \in FuncIDs /\ Request(c).opts \in Seq(Int)
              /\ Request(c).parent \in 0..Never
              /\ Tool(c) = "shellcommand" => IsMap(Args(c).env)
BY RegistryAssumption, ToolboxAssumption DEF TypesOK, RegistryTypeOK, Request, Tool, Args

(* What a move to the next step does to the call's record.                  *)
LEMMA GoesTo ==
  ASSUME TypesOK, NEW c \in Callers, NEW s \in Steps, Goes(c, s)
  PROVE  /\ call' \in [Callers -> [ step: Steps, began: 0..MaxClock, until: 0..Never,
                                    runs: Registrars \cup {Nobody} ]]
         /\ call'[c] = [call[c] EXCEPT !.step = s]
         /\ \A d \in Callers : d # c => call'[d] = call[d]
BY DEF TypesOK, RegistryTypeOK, Goes

(* What an answer does to the call's record, and to no other call's.        *)
LEMMA Answers ==
  ASSUME TypesOK, NEW c \in Callers, NEW k \in Kinds, NEW out, Answer(c, k, out)
  PROVE  /\ answer' = [d \in Callers |-> answer'[d]]
         /\ answer'[c].kind = k /\ answer'[c].out = out
         /\ \A d \in Callers : d # c => answer'[d] = answer[d]
         /\ call' \in [Callers -> [ step: Steps, began: 0..MaxClock, until: 0..Never,
                                    runs: Registrars \cup {Nobody} ]]
         /\ call'[c] = [call[c] EXCEPT !.step = "done"]
         /\ \A d \in Callers : d # c => call'[d] = call[d]
<1>1. "done" \in Steps /\ Goes(c, "done")
  BY DEF Steps, Answer
<1>2. answer' = [answer EXCEPT ![c] = [kind |-> k, out |-> out]]
  BY DEF Answer
<1>3. answer = [d \in Callers |-> answer[d]]
  BY DEF TypesOK
<1>4. answer' = [d \in Callers |-> IF d = c THEN [kind |-> k, out |-> out] ELSE answer[d]]
  BY <1>2, <1>3
<1>5. QED
  BY <1>1, <1>4, GoesTo
----------------------------------------------------------------------------
(* A step of one call. *)
CallStep(c) ==
  \/ /\ BeginCall(c) \/ Lookup(c) \/ Decode(c) \/ HostTool(c)
     /\ UNCHANGED <<textVars, box, session>>
  \/ TextStep(c) /\ UNCHANGED <<box, session>>
  \/ RunScript(c) \/ TakeEnv(c) \/ RunLine(c)

Answered(c) == \E k \in Kinds \ {"none"} : \E out : Answer(c, k, out)

Others(c) == \A d \in Callers : d # c =>
  call'[d] = call[d] /\ answer'[d] = answer[d] /\ held'[d] = held[d]

(* What a step of a call does to the rest. *)
Frame(c) ==
  /\ UNCHANGED <<scene, tools, reg, now, cancelled, box>> /\ Others(c) /\ TypesOK'
  /\ call[c].step # "done" /\ CallOK(c)'

(* A step that moves its call on, or answers it, keeps the types. *)
LEMMA Moves ==
  ASSUME TypesOK, NEW c \in Callers, NEW s \in Steps \ {"done"}, call[c].step # "done",
         Goes(c, s), UNCHANGED <<scene, tools, reg, now, cancelled, answer>>,
         held' = [d \in Callers |-> held'[d]], \A d \in Callers : d # c => held'[d] = held[d]
  PROVE  TypesOK' /\ Others(c) /\ call'[c] = [call[c] EXCEPT !.step = s] /\ answer'[c].kind = "none"
<1>1. /\ call' \in [Callers -> [ step: Steps, began: 0..MaxClock, until: 0..Never,
                                  runs: Registrars \cup {Nobody} ]]
      /\ call'[c] = [call[c] EXCEPT !.step = s]
      /\ \A d \in Callers : d # c => call'[d] = call[d]
  BY GoesTo
<1>2. call[c] \in [ step: Steps, began: 0..MaxClock, until: 0..Never, runs: Registrars \cup {Nobody} ]
  BY DEF TypesOK, RegistryTypeOK
<1>3. call'[c].step = s
  BY <1>1, <1>2
<1>4. QED
  BY <1>1, <1>3 DEF TypesOK, RegistryTypeOK, Others

(* A step that answers its call keeps the types.                            *)
LEMMA Settles ==
  ASSUME TypesOK, NEW c \in Callers, NEW k \in Kinds \ {"none"}, NEW out, Answer(c, k, out),
         UNCHANGED <<scene, tools, reg, now, cancelled, held>>
  PROVE  /\ TypesOK' /\ Others(c) /\ call'[c] = [call[c] EXCEPT !.step = "done"]
         /\ answer'[c].kind = k /\ answer'[c].out = out /\ call'[c].step = "done"
<1>1. /\ answer' = [d \in Callers |-> answer'[d]]
      /\ answer'[c].kind = k /\ answer'[c].out = out
      /\ \A d \in Callers : d # c => answer'[d] = answer[d]
      /\ call' \in [Callers -> [ step: Steps, began: 0..MaxClock, until: 0..Never,
                                  runs: Registrars \cup {Nobody} ]]
      /\ call'[c] = [call[c] EXCEPT !.step = "done"]
      /\ \A d \in Callers : d # c => call'[d] = call[d]
  BY Answers
<1>2. call[c] \in [ step: Steps, began: 0..MaxClock, until: 0..Never, runs: Registrars \cup {Nobody} ]
  BY DEF TypesOK, RegistryTypeOK
<1>3. call'[c].step = "done"
  BY <1>1, <1>2
<1>4. \A d \in Callers : /\ answer'[d].kind \in Kinds
                          /\ answer'[d].kind # "none" <=> call'[d].step = "done"
  <2>1. \A d \in Callers : /\ answer[d].kind \in Kinds
                            /\ answer[d].kind # "none" <=> call[d].step = "done"
    BY DEF TypesOK, RegistryTypeOK
  <2>2. QED
    BY <1>1, <1>3, <2>1
<1>5. RegistryTypeOK'
  BY <1>1, <1>4 DEF TypesOK, RegistryTypeOK
<1>6. Others(c)
  BY <1>1 DEF Others
<1>7. TypesOK'
  BY <1>1, <1>5 DEF TypesOK
<1>8. QED
  BY <1>1, <1>3, <1>6, <1>7

(* What every step of a call does: it keeps the types and what is known of  *)
(* its progress, and touches no other call.                                 *)
LEMMA CallFrame ==
  ASSUME TypesOK, NEW c \in Callers, CallOK(c), CallStep(c)
  PROVE  Frame(c)
<1>a. /\ call[c] \in [ step: Steps, began: 0..MaxClock, until: 0..Never, runs: Registrars \cup {Nobody} ]
      /\ held = [d \in Callers |-> held[d]] /\ Nobody \notin Registrars /\ Builtins \subseteq Registrars
      /\ call \in [Callers -> [ step: Steps, began: 0..MaxClock, until: 0..Never,
                                runs: Registrars \cup {Nobody} ]]
      /\ now \in 0..MaxClock /\ tools \in [FuncIDs -> Registrars \cup {Nobody}]
  BY RegistryAssumption DEF TypesOK, RegistryTypeOK
<1>b. /\ {"tool", "read", "compute", "write", "run", "lookup", "decode"} \subseteq Steps \ {"done"}
      /\ {"ok", "error", "ctx", "refused"} \subseteq Kinds \ {"none"}
  BY DEF Steps, Kinds
(* An answer ends the call. *)
<1>c. ASSUME Answered(c),
             UNCHANGED <<scene, tools, reg, now, cancelled, held, box>>,
             call[c].step # "done", call[c].step # "idle"
      PROVE  Frame(c)
  <2>1. PICK k \in Kinds \ {"none"} : \E out : Answer(c, k, out)
    BY <1>c DEF Answered
  <2>2. TypesOK' /\ Others(c) /\ call'[c].step = "done"
    BY <1>c, <2>1, Settles
  <2>3. CallOK(c)'
    BY <1>c, <2>2 DEF CallOK, OfTool
  <2>4. QED
    BY <1>c, <2>2, <2>3 DEF Frame
(* A move to the next step. *)
<1>d. ASSUME NEW s \in Steps \ {"done", "idle"}, Goes(c, s),
             UNCHANGED <<scene, tools, reg, now, cancelled, answer, box>>,
             call[c].step # "done", call[c].step # "idle",
             held' = [d \in Callers |-> held'[d]], \A d \in Callers : d # c => held'[d] = held[d],
             s \in OfTool => call[c].runs \in Builtins,
             s \in {"read", "compute", "write"} => Tool(c) \in Editors \cup Readers,
             s = "write" => Tool(c) \in Editors,
             s = "run" => Tool(c) = "shellcommand"
      PROVE  Frame(c)
  <2>1. TypesOK' /\ Others(c) /\ call'[c] = [call[c] EXCEPT !.step = s]
    BY <1>d, Moves
  <2>2. call'[c].step = s /\ call'[c].runs = call[c].runs /\ Tool(c)' = Tool(c)
    BY <1>a, <1>d, <2>1 DEF Tool, Request
  <2>3. CallOK(c)'
    BY <1>d, <2>2 DEF CallOK
  <2>4. QED
    BY <1>d, <2>1, <2>3 DEF Frame
<1>e. ASSUME TimesOut(c) \/ Fails(c) \/ (\E out : Answer(c, "ok", out) \/ Answer(c, "refused", out))
      PROVE  Answered(c)
  BY <1>b, <1>e DEF TimesOut, Fails, Answered
<1>1. CASE BeginCall(c) /\ UNCHANGED <<textVars, box, session>>
  <2>1. /\ c \in DOMAIN scene.calls /\ call[c].step = "idle"
        /\ call' = [call EXCEPT ![c].step = "lookup", ![c].began = now, ![c].until = Deadline(c)]
        /\ UNCHANGED <<scene, tools, reg, now, cancelled, answer, held, box>>
    BY <1>1 DEF BeginCall, textVars
  <2>2. Deadline(c) \in 0..Never
    <3>1. Request(c).parent \in 0..Never /\ Request(c).opts \in Seq(Int) /\ scene.timeout \in Int
      BY <2>1, Scenes
    <3>2. EffectiveCallTimeout(c) \in Int
      BY <3>1 DEF EffectiveCallTimeout, AskedTimeout
    <3>3. QED
      BY <1>a, <3>1, <3>2, RegistryAssumption DEF Deadline, Never
  <2> DEFINE r == [call[c] EXCEPT !.step = "lookup", !.began = now, !.until = Deadline(c)]
  <2>3. call' = [call EXCEPT ![c] = r]
    BY <1>a, <2>1
  <2>4. r \in [ step: Steps, began: 0..MaxClock, until: 0..Never, runs: Registrars \cup {Nobody} ]
    BY <1>a, <1>b, <2>2
  <2>5. /\ call' \in [Callers -> [ step: Steps, began: 0..MaxClock, until: 0..Never,
                                    runs: Registrars \cup {Nobody} ]]
        /\ call'[c].step = "lookup" /\ call'[c].runs = call[c].runs
        /\ \A d \in Callers : d # c => call'[d] = call[d]
    BY <1>a, <2>3, <2>4
  <2>6. TypesOK' /\ Others(c)
    BY <2>1, <2>5 DEF TypesOK, RegistryTypeOK, Others
  <2>7. CallOK(c)'
    BY <2>1, <2>5 DEF CallOK, OfTool
  <2>8. QED
    BY <2>1, <2>6, <2>7 DEF Frame
<1>2. CASE Lookup(c) /\ UNCHANGED <<textVars, box, session>>
  <2>1. UNCHANGED <<scene, tools, reg, now, cancelled, held, box>> /\ call[c].step = "lookup"
    BY <1>2 DEF Lookup, textVars
  <2>2. CASE Fails(c)
    BY <1>c, <1>e, <2>1, <2>2
  <2>3. CASE ~Fails(c)
    <3>1. PICK x \in Registrars :
            call' = [call EXCEPT ![c].step = "decode", ![c].runs = x] /\ answer' = answer
      <4>1. Request(c).id \in FuncIDs
        BY <2>1, Scenes DEF CallOK
      <4>2. tools[Request(c).id] \in Registrars \cup {Nobody}
        BY <1>a, <4>1
      <4>3. QED
        BY <1>2, <2>3, <4>2 DEF Lookup
    <3> DEFINE r == [call[c] EXCEPT !.step = "decode", !.runs = x]
    <3>2. call' = [call EXCEPT ![c] = r]
      BY <1>a, <3>1
    <3>3. r \in [ step: Steps, began: 0..MaxClock, until: 0..Never, runs: Registrars \cup {Nobody} ]
      BY <1>a, <1>b
    <3>4. /\ call' \in [Callers -> [ step: Steps, began: 0..MaxClock, until: 0..Never,
                                      runs: Registrars \cup {Nobody} ]]
          /\ call'[c].step = "decode" /\ \A d \in Callers : d # c => call'[d] = call[d]
      BY <1>a, <3>2, <3>3
    <3>5. TypesOK' /\ Others(c)
      BY <2>1, <3>1, <3>4 DEF TypesOK, RegistryTypeOK, Others
    <3>6. CallOK(c)'
      BY <2>1, <3>4 DEF CallOK, OfTool
    <3>7. QED
      BY <2>1, <3>5, <3>6 DEF Frame
  <2>4. QED
    BY <2>2, <2>3
<1>3. CASE Decode(c) /\ UNCHANGED <<textVars, box, session>>
  <2>1. /\ UNCHANGED <<scene, tools, reg, now, cancelled, held, box>>
        /\ call[c].step = "decode" /\ call[c].runs \in Builtins
        /\ (Goes(c, "tool") /\ answer' = answer) \/ Fails(c)
    BY <1>3 DEF Decode, textVars
  <2>2. CASE Goes(c, "tool") /\ answer' = answer
    BY <1>a, <1>b, <1>d, <2>1, <2>2
  <2>3. CASE Fails(c)
    BY <1>c, <1>e, <2>1, <2>3
  <2>4. QED
    BY <2>1, <2>2, <2>3
<1>4. CASE HostTool(c) /\ UNCHANGED <<textVars, box, session>>
  <2>1. UNCHANGED <<scene, tools, reg, now, cancelled, held, box>> /\ call[c].step = "decode"
    BY <1>4 DEF HostTool, textVars
  <2>2. TimesOut(c) \/ Fails(c) \/ (\E out : Answer(c, "ok", out) \/ Answer(c, "refused", out))
    BY <1>4 DEF HostTool
  <2>3. QED
    BY <1>c, <1>e, <2>1, <2>2
<1>5. CASE StartText(c) /\ UNCHANGED <<box, session>>
  <2>1. /\ UNCHANGED <<scene, tools, reg, now, cancelled, held, box>>
        /\ call[c].step = "tool" /\ Tool(c) \in Editors \cup Readers
        /\ TimesOut(c) \/ Fails(c) \/ (Goes(c, "read") /\ answer' = answer)
    BY <1>5 DEF StartText, textVars
  <2>2. CASE Goes(c, "read") /\ answer' = answer
    BY <1>a, <1>b, <1>d, <2>1, <2>2 DEF CallOK, OfTool
  <2>3. CASE TimesOut(c) \/ Fails(c)
    BY <1>c, <1>e, <2>1, <2>3
  <2>4. QED
    BY <2>1, <2>2, <2>3
<1>6. CASE ReadText(c) /\ UNCHANGED <<box, session>>
  <2>1. UNCHANGED <<scene, tools, reg, now, cancelled, box>> /\ call[c].step = "read"
    BY <1>6 DEF ReadText
  <2>2. CASE Fails(c) /\ held' = held
    BY <1>c, <1>e, <2>1, <2>2
  <2>3. CASE held' = [held EXCEPT ![c] = file] /\ Goes(c, "compute") /\ answer' = answer
    <3>1. held' = [d \in Callers |-> IF d = c THEN file ELSE held[d]]
      BY <1>a, <2>3
    <3>2. held' = [d \in Callers |-> held'[d]] /\ \A d \in Callers : d # c => held'[d] = held[d]
      BY <3>1
    <3>3. QED
      BY <1>b, <1>d, <2>1, <2>3, <3>2 DEF CallOK, OfTool
  <2>4. QED
    BY <1>6, <2>2, <2>3 DEF ReadText
<1>7. CASE Compute(c) /\ UNCHANGED <<box, session>>
  <2>1. /\ UNCHANGED <<scene, tools, reg, now, cancelled, held, box>> /\ call[c].step = "compute"
        /\ \/ TimesOut(c) \/ Fails(c) \/ \E out : Answer(c, "ok", out)
           \/ Tool(c) \in Editors /\ Goes(c, "write") /\ answer' = answer
    BY <1>7 DEF Compute, textVars
  <2>2. CASE Tool(c) \in Editors /\ Goes(c, "write") /\ answer' = answer
    BY <1>a, <1>b, <1>d, <2>1, <2>2 DEF CallOK, OfTool
  <2>3. CASE TimesOut(c) \/ Fails(c) \/ \E out : Answer(c, "ok", out)
    BY <1>c, <1>e, <2>1, <2>3
  <2>4. QED
    BY <2>1, <2>2, <2>3
<1>8. CASE WriteText(c) /\ UNCHANGED <<box, session>>
  <2>1. /\ UNCHANGED <<scene, tools, reg, now, cancelled, held, box>> /\ call[c].step = "write"
        /\ Fails(c) \/ \E out : Answer(c, "ok", out)
    BY <1>8 DEF WriteText
  <2>2. QED
    BY <1>c, <1>e, <2>1
<1>9. CASE RunScript(c)
  <2>1. /\ UNCHANGED <<scene, tools, reg, now, cancelled, held, box>> /\ call[c].step = "tool"
        /\ TimesOut(c) \/ Fails(c) \/ \E out : Answer(c, "ok", out)
    BY <1>9 DEF RunScript, textVars
  <2>2. QED
    BY <1>c, <1>e, <2>1
<1>10. CASE TakeEnv(c)
  <2>1. /\ UNCHANGED <<scene, tools, reg, now, cancelled, box>>
        /\ call[c].step = "tool" /\ Tool(c) = "shellcommand"
    BY <1>10 DEF TakeEnv
  <2>2. CASE held' = held /\ (TimesOut(c) \/ Fails(c))
    BY <1>c, <1>e, <2>1, <2>2
  <2>3. CASE ~(held' = held /\ (TimesOut(c) \/ Fails(c)))
    <3>1. PICK e : held' = [held EXCEPT ![c] = e] /\ Goes(c, "run") /\ answer' = answer
      BY <1>10, <2>3 DEF TakeEnv
    <3>2. held' = [d \in Callers |-> IF d = c THEN e ELSE held[d]]
      BY <1>a, <3>1
    <3>3. held' = [d \in Callers |-> held'[d]] /\ \A d \in Callers : d # c => held'[d] = held[d]
      BY <3>2
    <3>4. QED
      BY <1>b, <1>d, <2>1, <3>1, <3>3 DEF CallOK, OfTool
  <2>4. QED
    BY <2>2, <2>3
<1>11. CASE RunLine(c)
  <2>1. /\ UNCHANGED <<scene, tools, reg, now, cancelled, held, box>> /\ call[c].step = "run"
        /\ TimesOut(c) \/ (\E out : Answer(c, "ok", out) \/ Answer(c, "refused", out))
    BY <1>11 DEF RunLine, textVars
  <2>2. QED
    BY <1>c, <1>e, <2>1
<1>12. QED
  BY <1>1, <1>2, <1>3, <1>4, <1>5, <1>6, <1>7, <1>8, <1>9, <1>10, <1>11 DEF CallStep, TextStep
----------------------------------------------------------------------------
(* Environments: what a layer over another keeps, and what the session's    *)
(* map becomes.                                                             *)
LEMMA Surviving ==
  ASSUME NEW w, NEW V, NEW S \in Survivors(w, V)
  PROVE  /\ S \subseteq V
         /\ \A v \in V : \E u \in S : EnvKey(w, u) = EnvKey(w, v)
         /\ \A u, v \in S : EnvKey(w, u) = EnvKey(w, v) => u = v
BY DEF Survivors, Keys

(* A layer over another: what it has, and that no name of either is lost.   *)
LEMMA Overlaid ==
  ASSUME NEW w, NEW U, NEW L
  PROVE  /\ \A v \in Over(w, U, L) :
              \/ v \in U
              \/ v \in L /\ \A u \in U : EnvKey(w, u) # EnvKey(w, v)
         /\ U \subseteq Over(w, U, L)
         /\ \A v \in L : \E u \in Over(w, U, L) : EnvKey(w, u) = EnvKey(w, v)
BY DEF Over, Keys

(* What GetEffectiveEnv returns: of each name the last layer's variable.    *)
LEMMA Effective ==
  ASSUME NEW w, NEW process, NEW stored, NEW own, \A v \in own : Named(v),
         NEW e \in EffectiveEnvs(w, process, stored, own)
  PROVE  /\ \A v \in e : \/ v \in own
                         \/ v \in stored /\ \A u \in own : EnvKey(w, u) # EnvKey(w, v)
                         \/ /\ v \in process
                            /\ \A u \in own \cup stored : EnvKey(w, u) # EnvKey(w, v)
         /\ e \subseteq own \cup stored \cup process
         /\ \A v \in own \cup stored \cup process : \E u \in e : EnvKey(w, u) = EnvKey(w, v)
         /\ \A u, v \in e : EnvKey(w, u) = EnvKey(w, v) => u = v
<1>1. own = {v \in own : Named(v)}
  OBVIOUS
<1>2. PICK o \in Survivors(w, own) : \E s \in Survivors(w, stored) : \E p \in Survivors(w, process) :
        e = Over(w, o, Over(w, s, p))
  BY <1>1 DEF EffectiveEnvs
<1>3. PICK s \in Survivors(w, stored) : \E p \in Survivors(w, process) : e = Over(w, o, Over(w, s, p))
  BY <1>2
<1>4. PICK p \in Survivors(w, process) : e = Over(w, o, Over(w, s, p))
  BY <1>3
<1> DEFINE lower == Over(w, s, p)
<1>5. /\ o \subseteq own
      /\ \A v \in own : \E u \in o : EnvKey(w, u) = EnvKey(w, v)
      /\ \A u, v \in o : EnvKey(w, u) = EnvKey(w, v) => u = v
  BY Surviving
<1>6. /\ s \subseteq stored
      /\ \A v \in stored : \E u \in s : EnvKey(w, u) = EnvKey(w, v)
      /\ \A u, v \in s : EnvKey(w, u) = EnvKey(w, v) => u = v
  BY Surviving
<1>7. /\ p \subseteq process
      /\ \A v \in process : \E u \in p : EnvKey(w, u) = EnvKey(w, v)
      /\ \A u, v \in p : EnvKey(w, u) = EnvKey(w, v) => u = v
  BY Surviving
<1>8. /\ \A v \in lower : \/ v \in s
                          \/ v \in p /\ \A u \in s : EnvKey(w, u) # EnvKey(w, v)
      /\ s \subseteq lower /\ \A v \in p : \E u \in lower : EnvKey(w, u) = EnvKey(w, v)
  BY Overlaid DEF lower
<1>9. /\ \A v \in e : \/ v \in o
                      \/ v \in lower /\ \A u \in o : EnvKey(w, u) # EnvKey(w, v)
      /\ o \subseteq e /\ \A v \in lower : \E u \in e : EnvKey(w, u) = EnvKey(w, v)
  BY <1>4, Overlaid DEF lower
<1> HIDE DEF lower
<1>10. \A u, v \in e : EnvKey(w, u) = EnvKey(w, v) => u = v
  BY <1>5, <1>6, <1>7, <1>8, <1>9
<1>11. \A v \in own \cup stored \cup process : \E u \in e : EnvKey(w, u) = EnvKey(w, v)
  <2>1. \A v \in own : \E u \in e : EnvKey(w, u) = EnvKey(w, v)
    BY <1>5, <1>9
  <2>2. \A v \in stored : \E u \in lower : EnvKey(w, u) = EnvKey(w, v)
    BY <1>6, <1>8
  <2>3. \A v \in process : \E u \in lower : EnvKey(w, u) = EnvKey(w, v)
    BY <1>7, <1>8
  <2>4. ASSUME NEW v, \E u \in lower : EnvKey(w, u) = EnvKey(w, v)
        PROVE  \E u \in e : EnvKey(w, u) = EnvKey(w, v)
    BY <1>9, <2>4
  <2>5. QED
    BY <2>1, <2>2, <2>3, <2>4
<1>12. \A v \in e : \/ v \in own
                    \/ v \in stored /\ \A u \in own : EnvKey(w, u) # EnvKey(w, v)
                    \/ v \in process /\ \A u \in own \cup stored : EnvKey(w, u) # EnvKey(w, v)
  <2>1. ASSUME NEW v \in e, v \notin o
        PROVE  v \in lower /\ \A u \in own : EnvKey(w, u) # EnvKey(w, v)
    BY <1>5, <1>9, <2>1
  <2>2. ASSUME NEW v \in lower, v \notin s
        PROVE  v \in p /\ \A u \in stored : EnvKey(w, u) # EnvKey(w, v)
    BY <1>6, <1>8, <2>2
  <2>3. QED
    BY <1>5, <1>6, <1>7, <2>1, <2>2
<1>13. QED
  BY <1>10, <1>11, <1>12

(* A variable of a map, and its name, folded.                               *)
LEMMA FoldedRecord ==
  ASSUME NEW w, NEW V, IsMap(V), NEW v \in V
  PROVE  /\ Folded(w, v) = [ key |-> v.key,
                             spelling |-> IF w \/ v.spelling # "capital" THEN "exact" ELSE "capital",
                             value |-> v.value ]
         /\ EnvKey(w, v) = <<v.key, IF w \/ v.spelling # "capital" THEN "exact" ELSE "capital">>
BY DEF IsMap, Folded, EnvKey

FoldedOver(w, upper, lower) == {Folded(w, v) : v \in Over(w, upper, lower)}

(* AddToEnv loses no name of the session nor of what is added, keeps the    *)
(* map a map, and on Windows makes it one by name alone.                    *)
LEMMA Added ==
  ASSUME NEW w, NEW V, NEW A, IsMap(V), IsMap(A), NEW S \in AddToEnv(w, V, A)
  PROVE  /\ IsMap(S) /\ Keys(w, A) \subseteq Keys(w, S) /\ Keys(w, V) \subseteq Keys(w, S)
         /\ w => \A u, v \in S : u.key = v.key => u = v
<1>1. CASE ~w
  <2>1. S = A \cup {v \in V : \A a \in A : a.key # v.key \/ a.spelling # v.spelling}
    BY <1>1 DEF AddToEnv
  <2>2. IsMap(S)
    BY <2>1 DEF IsMap
  <2>3. \A v \in V : v \in S \/ \E a \in A : a.key = v.key /\ a.spelling = v.spelling
    BY <2>1
  <2>4. \A v \in V : \A a \in A : a.key = v.key /\ a.spelling = v.spelling => EnvKey(w, a) = EnvKey(w, v)
    <3>1. SUFFICES ASSUME NEW v \in V, NEW a \in A, a.key = v.key, a.spelling = v.spelling
                   PROVE  EnvKey(w, a) = EnvKey(w, v)
      OBVIOUS
    <3>2. EnvKey(w, v) = <<v.key, IF w \/ v.spelling # "capital" THEN "exact" ELSE "capital">>
      BY FoldedRecord
    <3>3. EnvKey(w, a) = <<a.key, IF w \/ a.spelling # "capital" THEN "exact" ELSE "capital">>
      BY FoldedRecord
    <3>4. QED
      BY <3>1, <3>2, <3>3
  <2>5. A \subseteq S
    BY <2>1
  <2>6. QED
    BY <1>1, <2>2, <2>3, <2>4, <2>5 DEF Keys
<1>2. CASE w
  <2>1. PICK a \in Survivors(w, A) : \E s \in Survivors(w, V) :
          S = {Folded(w, v) : v \in Over(w, a, s)}
    <3>1. AddToEnv(w, V, A) = {FoldedOver(w, x, y) : x \in Survivors(w, A), y \in Survivors(w, V)}
      BY <1>2 DEF AddToEnv, FoldedOver
    <3>2. \E x \in Survivors(w, A) : \E y \in Survivors(w, V) : S = FoldedOver(w, x, y)
      BY <3>1
    <3>3. QED
      BY <3>2 DEF FoldedOver
  <2>2. PICK s \in Survivors(w, V) : S = {Folded(w, v) : v \in Over(w, a, s)}
    BY <2>1
  <2> DEFINE M == Over(w, a, s)
  <2>3. /\ a \subseteq A
        /\ \A v \in A : \E u \in a : EnvKey(w, u) = EnvKey(w, v)
        /\ \A u, v \in a : EnvKey(w, u) = EnvKey(w, v) => u = v
    BY Surviving
  <2>4. /\ s \subseteq V
        /\ \A v \in V : \E u \in s : EnvKey(w, u) = EnvKey(w, v)
        /\ \A u, v \in s : EnvKey(w, u) = EnvKey(w, v) => u = v
    BY Surviving
  <2>5. /\ \A v \in M : \/ v \in a
                        \/ v \in s /\ \A u \in a : EnvKey(w, u) # EnvKey(w, v)
        /\ a \subseteq M /\ \A v \in s : \E u \in M : EnvKey(w, u) = EnvKey(w, v)
    BY Overlaid DEF M
  <2> HIDE DEF M
  <2>6. \A u, v \in M : EnvKey(w, u) = EnvKey(w, v) => u = v
    BY <2>3, <2>4, <2>5
  <2>7. \A v \in M : /\ Folded(w, v) = [key |-> v.key, spelling |-> "exact", value |-> v.value]
                     /\ EnvKey(w, v) = <<v.key, "exact">>
    <3>1. TAKE v \in M
    <3>2. v \in A \/ v \in V
      BY <2>3, <2>4, <2>5
    <3>3. /\ Folded(w, v) = [ key |-> v.key,
                             spelling |-> IF w \/ v.spelling # "capital" THEN "exact" ELSE "capital",
                             value |-> v.value ]
          /\ EnvKey(w, v) = <<v.key, IF w \/ v.spelling # "capital" THEN "exact" ELSE "capital">>
      BY <3>2, FoldedRecord
    <3>4. QED
      BY <1>2, <3>3
  <2>8. S = {[key |-> v.key, spelling |-> "exact", value |-> v.value] : v \in M}
    <3>1. S = {Folded(w, v) : v \in M}
      BY <2>2 DEF M
    <3>2. QED
      BY <2>7, <3>1
  <2>9. \A u, v \in S : u.key = v.key => u = v
    <3>1. SUFFICES ASSUME NEW u \in S, NEW v \in S, u.key = v.key PROVE u = v
      OBVIOUS
    <3>2. PICK x \in M : u = [key |-> x.key, spelling |-> "exact", value |-> x.value]
      BY <2>8
    <3>3. PICK y \in M : v = [key |-> y.key, spelling |-> "exact", value |-> y.value]
      BY <2>8
    <3>4. x.key = y.key
      BY <3>1, <3>2, <3>3
    <3>5. EnvKey(w, x) = EnvKey(w, y)
      BY <2>7, <3>4
    <3>6. x = y
      BY <2>6, <3>5
    <3>7. QED
      BY <3>2, <3>3, <3>6
  <2>10. IsMap(S)
    <3>1. \A v \in S : v = [key |-> v.key, spelling |-> v.spelling, value |-> v.value] /\ v.spelling = "exact"
      BY <2>8
    <3>2. QED
      BY <2>9, <3>1 DEF IsMap, Spellings
  <2>11. \A v \in M : \E u \in S : EnvKey(w, u) = EnvKey(w, v)
    <3>1. TAKE v \in M
    <3>2. PICK u \in S : u = [key |-> v.key, spelling |-> "exact", value |-> v.value]
      BY <2>8
    <3>3. EnvKey(w, u) = <<u.key, IF w \/ u.spelling # "capital" THEN "exact" ELSE "capital">>
      BY <2>10, FoldedRecord
    <3>4. QED
      BY <1>2, <2>7, <3>2, <3>3
  <2>12. Keys(w, A) \subseteq Keys(w, S) /\ Keys(w, V) \subseteq Keys(w, S)
    <3>1. \A v \in A : \E u \in S : EnvKey(w, u) = EnvKey(w, v)
      <4>1. TAKE v \in A
      <4>2. PICK x \in a : EnvKey(w, x) = EnvKey(w, v)
        BY <2>3
      <4>3. QED
        BY <2>5, <2>11, <4>2
    <3>2. \A v \in V : \E u \in S : EnvKey(w, u) = EnvKey(w, v)
      <4>1. TAKE v \in V
      <4>2. PICK x \in s : EnvKey(w, x) = EnvKey(w, v)
        BY <2>4
      <4>3. PICK y \in M : EnvKey(w, y) = EnvKey(w, x)
        BY <2>5
      <4>4. QED
        BY <2>11, <4>2, <4>3
    <3>3. QED
      BY <3>1, <3>2 DEF Keys
  <2>13. QED
    BY <1>2, <2>9, <2>10, <2>12
<1>3. QED
  BY <1>1, <1>2
----------------------------------------------------------------------------
(* What a step can be: of the clock or a caller's cancellation, of a        *)
(* registrar, or of a call.                                                 *)
Quiet ==
  /\ UNCHANGED <<scene, tools, reg, call, answer, file, held, box, session>>
  /\ now' \in 0..MaxClock /\ now <= now'
  /\ cancelled \subseteq cancelled' /\ cancelled' \subseteq Callers

(* Every step is one of these.                                              *)
LEMMA StepCases ==
  ASSUME TypesOK, [Next]_vars
  PROVE  \/ Quiet
         \/ \E r \in Registrars : Register(r) /\ UNCHANGED <<file, held, box, session>>
         \/ \E c \in Callers : CallStep(c)
<1>1. now \in 0..MaxClock /\ cancelled \subseteq Callers /\ scene.clock \in 0..MaxClock /\ MaxClock \in Nat
  BY Scenes, RegistryAssumption DEF TypesOK, RegistryTypeOK
<1>2. CASE UNCHANGED vars
  BY <1>1, <1>2 DEF vars, regVars, textVars, Quiet
<1>3. CASE RegistryStep /\ UNCHANGED <<textVars, box, session>>
  <2>1. ASSUME NEW c \in Callers, Cancel(c) PROVE Quiet
    BY <1>1, <1>3, <2>1 DEF Cancel, Quiet, textVars
  <2>2. ASSUME Tick PROVE Quiet
    BY <1>1, <1>3, <2>2 DEF Tick, Quiet, textVars
  <2>3. ASSUME NEW c \in Callers, BeginCall(c) \/ Lookup(c) \/ Decode(c) \/ HostTool(c)
        PROVE  CallStep(c)
    BY <1>3, <2>3 DEF CallStep
  <2>4. ASSUME NEW r \in Registrars, Register(r)
        PROVE  Register(r) /\ UNCHANGED <<file, held, box, session>>
    BY <1>3, <2>4 DEF textVars
  <2>5. QED
    BY <1>3, <2>1, <2>2, <2>3, <2>4 DEF RegistryStep
<1>4. QED
  BY <1>2, <1>3 DEF Next, CallStep

(* A call begins, finds its tool, or goes on; it begins once, and ends with *)
(* a context error only when its context is over.                           *)
LEMMA Progress ==
  ASSUME TypesOK, NEW c \in Callers, CallOK(c), CallStep(c)
  PROVE  /\ \/ /\ call'[c].step = "lookup" /\ call'[c].began = now /\ call'[c].until = Deadline(c)
               /\ call'[c].runs = call[c].runs /\ call[c].step = "idle"
            \/ /\ call[c].step # "idle"
               /\ call'[c].began = call[c].began /\ call'[c].until = call[c].until
               /\ call'[c].runs = call[c].runs \/ call'[c].runs = tools[Request(c).id]
         /\ answer'[c].kind = "ctx" => CtxDone(c) /\ call[c].step # "idle"
<1>1. /\ call[c] \in [ step: Steps, began: 0..MaxClock, until: 0..Never, runs: Registrars \cup {Nobody} ]
      /\ call \in [Callers -> [ step: Steps, began: 0..MaxClock, until: 0..Never,
                                runs: Registrars \cup {Nobody} ]]
      /\ call[c].step # "done" => answer[c].kind = "none"
      /\ answer = [d \in Callers |-> answer[d]]
  BY DEF TypesOK, RegistryTypeOK
<1>2. call[c].step # "done"
  BY CallFrame DEF Frame
<1> DEFINE Shape ==
             \/ BeginCall(c)
             \/ /\ call[c].step = "lookup" /\ answer' = answer
                /\ call' = [call EXCEPT ![c].step = "decode", ![c].runs = tools[Request(c).id]]
             \/ call[c].step # "idle" /\ answer' = answer /\ \E s : Goes(c, s)
             \/ call[c].step # "idle" /\ TimesOut(c)
             \/ call[c].step # "idle" /\ \E k \in {"ok", "error", "refused"} : \E out : Answer(c, k, out)
<1>3. Shape
  <2>1. CASE /\ BeginCall(c) \/ Lookup(c) \/ Decode(c) \/ HostTool(c)
             /\ UNCHANGED <<textVars, box, session>>
    BY <2>1 DEF Lookup, Decode, HostTool, Fails
  <2>2. CASE TextStep(c) /\ UNCHANGED <<box, session>>
    BY <2>2 DEF TextStep, StartText, ReadText, Compute, WriteText, Fails
  <2>3. CASE RunScript(c)
    BY <2>3 DEF RunScript, Fails
  <2>4. CASE TakeEnv(c)
    BY <2>4 DEF TakeEnv, Fails
  <2>5. CASE RunLine(c)
    BY <2>5 DEF RunLine
  <2>6. QED
    BY <2>1, <2>2, <2>3, <2>4, <2>5 DEF CallStep
<1> HIDE DEF Shape
<1>4. CASE BeginCall(c)
  <2>1. /\ call[c].step = "idle" /\ answer' = answer
        /\ call' = [call EXCEPT ![c].step = "lookup", ![c].began = now, ![c].until = Deadline(c)]
    BY <1>4 DEF BeginCall
  <2>2. /\ call'[c].step = "lookup" /\ call'[c].began = now /\ call'[c].until = Deadline(c)
        /\ call'[c].runs = call[c].runs
    BY <1>1, <2>1
  <2>3. QED
    BY <1>1, <2>1, <2>2
<1>5. ASSUME NEW s, Goes(c, s)
      PROVE  call'[c].began = call[c].began /\ call'[c].until = call[c].until /\ call'[c].runs = call[c].runs
  BY <1>1, <1>5 DEF Goes
<1>6. ASSUME NEW k, NEW out, Answer(c, k, out)
      PROVE  /\ answer'[c].kind = k
             /\ call'[c].began = call[c].began /\ call'[c].until = call[c].until
             /\ call'[c].runs = call[c].runs
  BY <1>1, <1>5, <1>6 DEF Answer
<1>7. CASE /\ call[c].step = "lookup" /\ answer' = answer
           /\ call' = [call EXCEPT ![c].step = "decode", ![c].runs = tools[Request(c).id]]
  <2>1. /\ call'[c].began = call[c].began /\ call'[c].until = call[c].until
        /\ call'[c].runs = tools[Request(c).id]
    BY <1>1, <1>7
  <2>2. QED
    BY <1>1, <1>7, <2>1
<1>8. CASE call[c].step # "idle" /\ answer' = answer /\ \E s : Goes(c, s)
  BY <1>1, <1>2, <1>5, <1>8
<1>9. CASE call[c].step # "idle" /\ TimesOut(c)
  BY <1>6, <1>9 DEF TimesOut
<1>10. CASE call[c].step # "idle" /\ \E k \in {"ok", "error", "refused"} : \E out : Answer(c, k, out)
  <2>1. PICK k \in {"ok", "error", "refused"} : \E out : Answer(c, k, out)
    BY <1>10
  <2>2. PICK out : Answer(c, k, out)
    BY <2>1
  <2>3. QED
    BY <1>6, <1>10, <2>2
<1>11. QED
  BY <1>3, <1>4, <1>7, <1>8, <1>9, <1>10 DEF Shape
----------------------------------------------------------------------------
(* Versions are made of the calls and the file.                             *)
LEMMA SameVersions ==
  ASSUME VersionsExplained, UNCHANGED <<scene, call, answer, file, held>>
  PROVE  VersionsExplained'
<1>1. \A c : Tool(c)' = Tool(c) /\ Args(c)' = Args(c)
  BY DEF Tool, Args, Request
<1>2. \A c : (Succeeded(c)' <=> Succeeded(c))
  BY DEF Succeeded
<1>3. \A c : Made(c)' = Made(c)
  BY <1>1 DEF Made, Written
<1>4. Versions' = Versions
  BY <1>1, <1>2, <1>3 DEF Versions
<1>5. QED
  BY <1>4 DEF VersionsExplained

(* Nothing of the invariant is lost when only time passes or a caller       *)
(* cancels.                                                                 *)
LEMMA QuietSteps ==
  ASSUME TInv, Quiet
  PROVE  TInv'
<1>1. /\ TypesOK /\ now \in 0..MaxClock /\ now' \in 0..MaxClock /\ now <= now'
      /\ cancelled \subseteq cancelled'
      /\ UNCHANGED <<scene, tools, reg, call, answer, file, held, box, session>>
  BY DEF TInv, TypesOK, RegistryTypeOK, Quiet
<1>2. TypesOK'
  <2>1. RegistryTypeOK'
    BY <1>1 DEF TypesOK, RegistryTypeOK, Quiet
  <2>2. QED
    BY <1>1, <2>1 DEF TypesOK
<1>3. TimeoutJustified'
  <2>1. SUFFICES ASSUME NEW c \in Callers, answer[c].kind = "ctx", c \notin cancelled',
                        ~(Request(c).parent <= now')
                 PROVE  \/ /\ Request(c).opts = <<>> /\ scene.timeout > 0
                           /\ call[c].began + scene.timeout <= now'
                        \/ /\ Request(c).opts # <<>>
                           /\ LET last == Request(c).opts[Len(Request(c).opts)]
                              IN last > 0 /\ call[c].began + last <= now'
    BY <1>1 DEF TimeoutJustified, Request
  <2>2. call[c].step = "done" /\ call[c].began \in 0..MaxClock
    BY <1>1, <2>1 DEF TypesOK, RegistryTypeOK
  <2>3. c \in DOMAIN scene.calls
    BY <2>2 DEF TInv, CallOK
  <2>4. Request(c).parent \in 0..Never /\ Request(c).opts \in Seq(Int) /\ scene.timeout \in Int
    BY <1>1, <2>3, Scenes
  <2>5. /\ c \notin cancelled /\ ~(Request(c).parent <= now)
        /\ MaxClock \in Nat
    BY <1>1, <2>1, <2>4, RegistryAssumption DEF Never
  <2>6. \/ /\ Request(c).opts = <<>> /\ scene.timeout > 0
           /\ call[c].began + scene.timeout <= now
        \/ /\ Request(c).opts # <<>>
           /\ LET last == Request(c).opts[Len(Request(c).opts)]
              IN last > 0 /\ call[c].began + last <= now
    BY <2>1, <2>5 DEF TInv, TimeoutJustified
  <2>7. ASSUME Request(c).opts # <<>>
        PROVE  Request(c).opts[Len(Request(c).opts)] \in Int
    BY <2>4, <2>7
  <2>8. QED
    BY <1>1, <2>2, <2>4, <2>5, <2>6, <2>7
<1>4. RegistrationHolds' /\ SessionOK'
  BY <1>1 DEF TInv, RegistrationHolds, SessionOK, Request
<1>5. VersionsExplained'
  BY <1>1, SameVersions DEF TInv
<1>6. ASSUME NEW c \in Callers PROVE CallOK(c)' /\ DeadlineOK(c)' /\ EnvOK(c)'
  BY <1>1 DEF TInv, CallOK, DeadlineOK, EnvOK, Environments, Judged, Tool, Args, Request
<1>7. QED
  BY <1>2, <1>3, <1>4, <1>5, <1>6 DEF TInv

(* A registrar fills an empty place, or stops.                              *)
LEMMA RegisterSteps ==
  ASSUME TInv, NEW r \in Registrars, Register(r), UNCHANGED <<file, held, box, session>>
  PROVE  TInv'
<1>1. /\ TypesOK /\ UNCHANGED <<scene, now, cancelled, call, answer, file, held, box, session>>
      /\ Nobody \notin Registrars
  BY RegistryAssumption DEF TInv, Register
<1>2. /\ tools \in [FuncIDs -> Registrars \cup {Nobody}]
      /\ reg \in [Registrars -> [next: Nat \ {0}, failed: BOOLEAN]]
      /\ scene.lists \in [Registrars -> Seq(FuncIDs)]
      /\ reg[r].next \in 1..Len(scene.lists[r])
      /\ \A q \in Registrars : reg[q].next <= Len(scene.lists[q]) + 1
  <2>1. scene.lists \in [Registrars -> Seq(FuncIDs)]
    BY <1>1, Scenes
  <2>2. /\ tools \in [FuncIDs -> Registrars \cup {Nobody}]
        /\ reg \in [Registrars -> [next: Nat \ {0}, failed: BOOLEAN]]
        /\ \A q \in Registrars : reg[q].next <= Len(scene.lists[q]) + 1
    BY <1>1 DEF TypesOK, RegistryTypeOK
  <2>3. reg[r].next <= Len(scene.lists[r]) /\ reg[r].next \in Nat \ {0}
    BY <2>2 DEF Register, Registers
  <2>4. scene.lists[r] \in Seq(FuncIDs)
    BY <2>1
  <2>5. QED
    BY <2>1, <2>2, <2>3, <2>4
<1> DEFINE id == scene.lists[r][reg[r].next]
<1>3. id \in FuncIDs
  BY <1>2
<1> HIDE DEF id
<1>4. ASSUME /\ tools[id] = Nobody /\ tools' = [tools EXCEPT ![id] = r]
             /\ reg' = [reg EXCEPT ![r].next = @ + 1]
      PROVE  TypesOK' /\ RegistrationHolds'
  <2>1. /\ \A f \in FuncIDs : tools'[f] = IF f = id THEN r ELSE tools[f]
        /\ tools' \in [FuncIDs -> Registrars \cup {Nobody}]
    BY <1>2, <1>3, <1>4
  <2>2. /\ reg' \in [Registrars -> [next: Nat \ {0}, failed: BOOLEAN]]
        /\ reg'[r].next = reg[r].next + 1
        /\ \A q \in Registrars : q # r => reg'[q] = reg[q]
    <3>1. reg[r] \in [next: Nat \ {0}, failed: BOOLEAN]
      BY <1>2
    <3> DEFINE e == [reg[r] EXCEPT !.next = @ + 1]
    <3>2. e \in [next: Nat \ {0}, failed: BOOLEAN] /\ e.next = reg[r].next + 1
      BY <3>1
    <3>3. reg' = [reg EXCEPT ![r] = e]
      BY <1>2, <1>4
    <3>4. QED
      BY <1>2, <3>2, <3>3
  <2>3. ASSUME NEW q \in Registrars
        PROVE  reg'[q].next <= Len(scene.lists[q]) + 1
    <3>1. scene.lists[q] \in Seq(FuncIDs) /\ Len(scene.lists[q]) \in Nat
      BY <1>2
    <3>2. CASE q = r
      BY <1>2, <2>2, <3>1, <3>2
    <3>3. CASE q # r
      BY <1>2, <2>2, <3>3
    <3>4. QED
      BY <3>2, <3>3
  <2>4. TypesOK'
    <3>1. RegistryTypeOK'
      BY <1>1, <2>1, <2>2 DEF TypesOK, RegistryTypeOK
    <3>2. QED
      BY <1>1, <2>3, <3>1 DEF TypesOK
  <2>5. ASSUME NEW q \in Registrars, NEW i \in 1..(reg'[q].next - 1)
        PROVE  tools'[scene.lists[q][i]] = q
    <3>1. CASE i \in 1..(reg[q].next - 1)
      <4>1. tools[scene.lists[q][i]] = q
        BY <3>1 DEF TInv, RegistrationHolds
      <4>2. scene.lists[q][i] \in FuncIDs
        <5>1. scene.lists[q] \in Seq(FuncIDs) /\ Len(scene.lists[q]) \in Nat
          BY <1>2
        <5>2. reg[q].next \in Nat /\ reg[q].next <= Len(scene.lists[q]) + 1
          BY <1>2
        <5>3. i \in 1..Len(scene.lists[q])
          BY <3>1, <5>1, <5>2
        <5>4. QED
          BY <5>1, <5>3
      <4>3. scene.lists[q][i] # id
        BY <1>1, <1>4, <4>1
      <4>4. QED
        BY <2>1, <4>1, <4>2, <4>3
    <3>2. CASE i \notin 1..(reg[q].next - 1)
      <4>1. q = r /\ i = reg[r].next
        <5>1. reg[q].next \in Nat /\ reg[r].next \in Nat
          BY <1>2
        <5>2. q = r
          BY <2>2, <3>2
        <5>3. QED
          BY <2>2, <3>2, <5>1, <5>2
      <4>2. scene.lists[q][i] = id
        BY <4>1 DEF id
      <4>3. QED
        BY <1>3, <2>1, <4>1, <4>2
    <3>3. QED
      BY <3>1, <3>2
  <2>6. ASSUME NEW c \in Callers, call[c].runs # Nobody
        PROVE  tools'[Request(c).id] = call[c].runs
    <3>1. tools[Request(c).id] = call[c].runs
      BY <2>6 DEF TInv, RegistrationHolds
    <3>2. Request(c).id \in FuncIDs
      <4>1. call[c].step # "idle"
        BY <2>6 DEF TInv, CallOK
      <4>2. c \in DOMAIN scene.calls
        BY <4>1 DEF TInv, CallOK
      <4>3. QED
        BY <1>1, <4>2, Scenes
    <3>3. Request(c).id # id
      BY <1>4, <2>6, <3>1
    <3>4. QED
      BY <2>1, <3>1, <3>2, <3>3
  <2>7. RegistrationHolds'
    BY <1>1, <2>5, <2>6 DEF RegistrationHolds, Request
  <2>8. QED
    BY <2>4, <2>7
<1>5. ASSUME tools' = tools, reg' = [reg EXCEPT ![r].failed = TRUE]
      PROVE  TypesOK' /\ RegistrationHolds'
  <2>1. /\ reg' \in [Registrars -> [next: Nat \ {0}, failed: BOOLEAN]]
        /\ \A q \in Registrars : reg'[q].next = reg[q].next
    <3>1. reg[r] \in [next: Nat \ {0}, failed: BOOLEAN]
      BY <1>2
    <3> DEFINE e == [reg[r] EXCEPT !.failed = TRUE]
    <3>2. e \in [next: Nat \ {0}, failed: BOOLEAN] /\ e.next = reg[r].next
      BY <3>1
    <3>3. reg' = [reg EXCEPT ![r] = e]
      BY <1>2, <1>5
    <3>4. QED
      BY <1>2, <3>2, <3>3
  <2>2. TypesOK'
    <3>1. RegistryTypeOK'
      BY <1>1, <1>5, <2>1 DEF TypesOK, RegistryTypeOK
    <3>2. QED
      BY <1>1, <1>2, <2>1, <3>1 DEF TypesOK
  <2>3. RegistrationHolds'
    BY <1>1, <1>5, <2>1 DEF TInv, RegistrationHolds, Request
  <2>4. QED
    BY <2>2, <2>3
<1>6. TypesOK' /\ RegistrationHolds'
  BY <1>4, <1>5 DEF Register, id
<1>7. TimeoutJustified' /\ SessionOK'
  BY <1>1 DEF TInv, TimeoutJustified, SessionOK, Request
<1>8. VersionsExplained'
  BY <1>1, SameVersions DEF TInv
<1>9. ASSUME NEW c \in Callers PROVE CallOK(c)' /\ DeadlineOK(c)' /\ EnvOK(c)'
  BY <1>1 DEF TInv, CallOK, DeadlineOK, EnvOK, Environments, Judged, Tool, Args, Request
<1>10. QED
  BY <1>6, <1>7, <1>8, <1>9 DEF TInv
----------------------------------------------------------------------------
(* A call runs the tool that it found, which stays registered.              *)
LEMMA CallKeepsRegistration ==
  ASSUME TInv, NEW c \in Callers, CallStep(c)
  PROVE  RegistrationHolds'
<1>1. TypesOK /\ CallOK(c) /\ RegistrationHolds
  BY DEF TInv
<1>2. UNCHANGED <<scene, tools, reg>> /\ \A d \in Callers : d # c => call'[d] = call[d]
  BY <1>1, CallFrame DEF Frame, Others
<1>3. call'[c].runs = call[c].runs \/ call'[c].runs = tools[Request(c).id]
  BY <1>1, Progress
<1>4. \A d \in Callers : call'[d].runs # Nobody => tools[Request(d).id] = call'[d].runs
  BY <1>1, <1>2, <1>3 DEF RegistrationHolds
<1>5. QED
  BY <1>1, <1>2, <1>4 DEF RegistrationHolds, Request

(* The end of a call's context is its caller's or that of its timeout, and  *)
(* a call that ends with a context error has reached it.                    *)
LEMMA CallKeepsDeadlines ==
  ASSUME TInv, NEW c \in Callers, CallStep(c)
  PROVE  TimeoutJustified' /\ \A d \in Callers : DeadlineOK(d)'
<1>1. TypesOK /\ CallOK(c) /\ TimeoutJustified /\ \A d \in Callers : CallOK(d) /\ DeadlineOK(d)
  BY DEF TInv
<1>2. /\ UNCHANGED <<scene, now, cancelled>> /\ Others(c) /\ CallOK(c)' /\ call[c].step # "done"
      /\ \A d \in Callers : d # c => call'[d] = call[d] /\ answer'[d] = answer[d]
  BY <1>1, CallFrame DEF Frame, Others
<1>3. /\ \/ /\ call'[c].step = "lookup" /\ call'[c].began = now /\ call'[c].until = Deadline(c)
            /\ call'[c].runs = call[c].runs /\ call[c].step = "idle"
         \/ /\ call[c].step # "idle"
            /\ call'[c].began = call[c].began /\ call'[c].until = call[c].until
            /\ call'[c].runs = call[c].runs \/ call'[c].runs = tools[Request(c).id]
      /\ answer'[c].kind = "ctx" => CtxDone(c) /\ call[c].step # "idle"
  BY <1>1, Progress
<1>4. \A d \in Callers : Request(d)' = Request(d)
  BY <1>2 DEF Request
<1>5. ASSUME NEW d \in Callers, d # c PROVE DeadlineOK(d)'
  BY <1>1, <1>2, <1>4, <1>5 DEF DeadlineOK
<1>6. DeadlineOK(c)'
  <2>1. CASE call[c].step # "idle"
    BY <1>1, <1>2, <1>3, <1>4, <2>1 DEF DeadlineOK
  <2>2. CASE call[c].step = "idle"
    <3>1. /\ call'[c].step = "lookup" /\ call'[c].began = now /\ call'[c].until = Deadline(c)
          /\ now \in 0..MaxClock
      BY <1>1, <1>3, <2>2 DEF TypesOK, RegistryTypeOK
    <3>2. c \in DOMAIN scene.calls
      BY <1>2, <3>1 DEF CallOK
    <3>3. /\ Request(c).parent \in 0..Never /\ Request(c).opts \in Seq(Int) /\ scene.timeout \in Int
      BY <1>1, <3>2, Scenes
    <3>4. CASE Request(c).opts = <<>>
      BY <1>2, <1>4, <3>1, <3>3, <3>4 DEF DeadlineOK, Deadline, EffectiveCallTimeout, AskedTimeout
    <3>5. CASE Request(c).opts # <<>>
      <4> DEFINE last == Request(c).opts[Len(Request(c).opts)]
      <4>1. last \in Int
        BY <3>3, <3>5
      <4>2. AskedTimeout(c) = last
        BY <3>5 DEF AskedTimeout
      <4>3. Deadline(c) # Request(c).parent => last > 0 /\ Deadline(c) = now + last
        <5> HIDE DEF last
        <5>1. QED
          BY <4>1, <4>2 DEF Deadline, EffectiveCallTimeout
      <4>4. QED
        BY <1>2, <1>4, <3>1, <3>5, <4>3 DEF DeadlineOK
    <3>6. QED
      BY <3>4, <3>5
  <2>3. QED
    BY <2>1, <2>2
<1>7. TimeoutJustified'
  <2>1. ASSUME NEW d \in Callers, answer'[d].kind = "ctx", d \notin cancelled,
               ~(Request(d).parent <= now)
        PROVE  \/ /\ Request(d).opts = <<>> /\ scene.timeout > 0
                  /\ call'[d].began + scene.timeout <= now
               \/ /\ Request(d).opts # <<>>
                  /\ LET last == Request(d).opts[Len(Request(d).opts)]
                     IN last > 0 /\ call'[d].began + last <= now
    <3>1. CASE d # c
      BY <1>1, <1>2, <2>1, <3>1 DEF TimeoutJustified
    <3>2. CASE d = c
      <4>1. /\ CtxDone(c) /\ call[c].step # "idle"
            /\ call'[c].began = call[c].began /\ call'[c].until = call[c].until
        BY <1>3, <2>1, <3>2
      <4>2. now >= call[c].until
        BY <2>1, <3>2, <4>1 DEF CtxDone
      <4>3. call[c].until # Request(c).parent
        <5>1. now \in 0..MaxClock /\ call[c].until \in 0..Never /\ MaxClock \in Nat
          BY <1>1, RegistryAssumption DEF TypesOK, RegistryTypeOK
        <5>2. QED
          BY <2>1, <3>2, <4>2, <5>1 DEF Never
      <4>4. /\ Request(c).opts = <<>> =>
                 scene.timeout > 0 /\ call[c].until = call[c].began + scene.timeout
            /\ Request(c).opts # <<>> =>
                 LET last == Request(c).opts[Len(Request(c).opts)]
                 IN last > 0 /\ call[c].until = call[c].began + last
        BY <1>1, <1>2, <4>1, <4>3 DEF DeadlineOK
      <4>5. now \in Int /\ call[c].until \in Int
        BY <1>1, RegistryAssumption DEF TypesOK, RegistryTypeOK, Never
      <4>6. QED
        BY <3>2, <4>1, <4>2, <4>4, <4>5
    <3>3. QED
      BY <3>1, <3>2
  <2>2. QED
    BY <1>2, <1>4, <2>1 DEF TimeoutJustified
<1>8. QED
  BY <1>5, <1>6, <1>7

(* Only a call that succeeds changes the file, to what it makes of the      *)
(* version that it holds, and a call holds what the file was when it read.  *)
LEMMA CallKeepsVersions ==
  ASSUME TInv, NEW c \in Callers, CallStep(c)
  PROVE  VersionsExplained'
<1>1. TypesOK /\ CallOK(c) /\ VersionsExplained
  BY DEF TInv
<1>2. /\ scene' = scene /\ TypesOK' /\ call[c].step # "done"
      /\ \A d \in Callers : d # c => call'[d] = call[d] /\ answer'[d] = answer[d] /\ held'[d] = held[d]
  BY <1>1, CallFrame DEF Frame, Others
<1>3. \A d : Tool(d)' = Tool(d) /\ Args(d)' = Args(d)
  BY <1>2 DEF Tool, Args, Request
<1>4. ~Succeeded(c)
  BY <1>1, <1>2 DEF Succeeded, TypesOK, RegistryTypeOK
<1>5. ASSUME NEW d \in Callers, d # c
      PROVE  (Succeeded(d)' <=> Succeeded(d)) /\ Made(d)' = Made(d)
  <2>1. call'[d] = call[d] /\ answer'[d] = answer[d] /\ held'[d] = held[d]
    BY <1>2, <1>5
  <2>2. QED
    BY <1>3, <2>1 DEF Succeeded, Made, Written
<1>6. Versions \subseteq Versions'
  <2>1. ASSUME NEW v \in Versions, v # scene.file PROVE v \in Versions'
    <3>1. PICK d \in {x \in Callers : Succeeded(x) /\ Tool(x) \in Editors} : v \in Made(d)
      BY <2>1 DEF Versions
    <3>2. d # c
      BY <1>4, <3>1
    <3>3. Succeeded(d)' /\ Tool(d)' \in Editors /\ v \in Made(d)'
      BY <1>3, <1>5, <3>1, <3>2
    <3>4. QED
      BY <3>1, <3>3 DEF Versions, Editors
  <2>2. QED
    BY <1>2, <2>1 DEF Versions
<1>7. file' \in Versions'
  <2>1. CASE file' = file
    BY <1>1, <1>6, <2>1 DEF VersionsExplained
  <2>2. CASE file' # file
    <3>1. WriteText(c)
      BY <2>2 DEF CallStep, TextStep, StartText, ReadText, Compute, RunScript, TakeEnv, RunLine, textVars
    <3>2. call[c].step = "write" /\ held' = held /\ Tool(c) \in Editors /\ call[c].runs \in Builtins
      BY <1>1, <3>1 DEF WriteText, CallOK, OfTool
    <3>3. PICK e \in Results(Tool(c), Args(c), Parse(held[c])) :
            file' = Written(c, e) /\ Answer(c, "ok", e.at)
      BY <2>2, <3>1 DEF WriteText
    <3>4. answer'[c].kind = "ok" /\ call'[c].runs = call[c].runs
      <4>1. "ok" \in Kinds
        BY DEF Kinds
      <4>2. answer'[c].kind = "ok" /\ call'[c] = [call[c] EXCEPT !.step = "done"]
        BY <1>1, <3>3, <4>1, Answers
      <4>3. call[c] \in [ step: Steps, began: 0..MaxClock, until: 0..Never, runs: Registrars \cup {Nobody} ]
        BY <1>1 DEF TypesOK, RegistryTypeOK
      <4>4. QED
        BY <4>2, <4>3
    <3>5. Succeeded(c)' /\ Tool(c)' \in Editors
      BY <1>3, <3>2, <3>4 DEF Succeeded
    <3>6. e \in Edits(Tool(c), Args(c), Parse(held[c]))
      BY <3>2, <3>3 DEF Results
    <3>7. file' \in Made(c)'
      BY <1>3, <3>2, <3>3, <3>6 DEF Made, Written
    <3>8. QED
      BY <3>5, <3>7 DEF Versions, Editors
  <2>3. QED
    BY <2>1, <2>2
<1>8. ASSUME NEW d \in Callers, call'[d].step \in {"compute", "write"}
      PROVE  held'[d] \in Versions'
  <2>1. CASE d # c
    <3>1. call[d].step \in {"compute", "write"} /\ held'[d] = held[d]
      BY <1>2, <1>8, <2>1
    <3>2. QED
      BY <1>1, <1>6, <3>1 DEF VersionsExplained
  <2>2. CASE d = c
    <3>1. /\ call \in [Callers -> [ step: Steps, began: 0..MaxClock, until: 0..Never,
                                    runs: Registrars \cup {Nobody} ]]
          /\ held = [x \in Callers |-> held[x]]
      BY <1>1 DEF TypesOK, RegistryTypeOK
    <3>2. \A t : Goes(c, t) => call'[c].step = t
      BY <3>1 DEF Goes
    <3>3. \A k, out : Answer(c, k, out) => call'[c].step = "done"
      BY <3>2 DEF Answer
    <3>4. call'[c].step \in {"compute", "write"}
      BY <1>8, <2>2
    <3>5. \/ held'[c] = file
          \/ held' = held /\ call[c].step = "compute"
      <4>1. CASE /\ BeginCall(c) \/ Lookup(c) \/ Decode(c) \/ HostTool(c)
                 /\ UNCHANGED <<textVars, box, session>>
        <5>1. ASSUME BeginCall(c) PROVE call'[c].step = "lookup"
          BY <3>1, <5>1 DEF BeginCall
        <5>2. ASSUME Lookup(c) PROVE call'[c].step \in {"decode", "done"}
          BY <3>1, <3>3, <5>2 DEF Lookup, Fails
        <5>3. QED
          BY <3>2, <3>3, <3>4, <4>1, <5>1, <5>2 DEF Decode, HostTool, Fails, TimesOut
      <4>2. CASE TextStep(c) /\ UNCHANGED <<box, session>>
        <5>1. ASSUME held' = [held EXCEPT ![c] = file] PROVE held'[c] = file
          BY <3>1, <5>1
        <5>2. QED
          BY <3>2, <3>3, <3>4, <4>2, <5>1
          DEF TextStep, StartText, ReadText, Compute, WriteText, Fails, TimesOut, textVars
      <4>3. CASE RunScript(c) \/ TakeEnv(c) \/ RunLine(c)
        BY <3>2, <3>3, <3>4, <4>3 DEF RunScript, TakeEnv, RunLine, Fails, TimesOut
      <4>4. QED
        BY <4>1, <4>2, <4>3 DEF CallStep
    <3>6. file \in Versions /\ (call[c].step = "compute" => held[c] \in Versions)
      BY <1>1 DEF VersionsExplained
    <3>7. QED
      BY <1>6, <2>2, <3>5, <3>6
  <2>3. QED
    BY <2>1, <2>2
<1>9. QED
  BY <1>7, <1>8 DEF VersionsExplained
----------------------------------------------------------------------------
(* A command's environment is one that the layers allow, and the variables  *)
(* of every call that was judged are in the session from then on.           *)
LEMMA CallKeepsEnv ==
  ASSUME TInv, NEW c \in Callers, CallStep(c)
  PROVE  SessionOK' /\ \A d \in Callers : EnvOK(d)'
<1>1. TypesOK /\ CallOK(c) /\ SessionOK /\ \A d \in Callers : CallOK(d) /\ EnvOK(d)
  BY DEF TInv
<1>2. /\ UNCHANGED <<scene, box>> /\ TypesOK' /\ call[c].step # "done"
      /\ \A d \in Callers : d # c => call'[d] = call[d] /\ answer'[d] = answer[d] /\ held'[d] = held[d]
  BY <1>1, CallFrame DEF Frame, Others
<1>3. \A d : Tool(d)' = Tool(d) /\ Args(d)' = Args(d)
  BY <1>2 DEF Tool, Args, Request
<1>4. \A d, e : Environments(d, e)' = EffectiveEnvs(box.windows, box.process, e', Args(d).env)
  BY <1>2, <1>3 DEF Environments
<1>5. /\ call \in [Callers -> [ step: Steps, began: 0..MaxClock, until: 0..Never,
                                runs: Registrars \cup {Nobody} ]]
      /\ held = [d \in Callers |-> held[d]] /\ answer = [d \in Callers |-> answer[d]]
      /\ answer[c].kind = "none"
  BY <1>1, <1>2 DEF TypesOK, RegistryTypeOK
<1>6. \A t : Goes(c, t) => call'[c].step = t /\ call'[c].runs = call[c].runs
  BY <1>5 DEF Goes
<1>7. \A k, out : Answer(c, k, out) =>
        call'[c].step = "done" /\ call'[c].runs = call[c].runs /\ answer'[c].kind = k
  BY <1>5, <1>6 DEF Answer
(* The session's map. *)
<1>8. /\ session' = session \/ RunLine(c)
      /\ SessionOK' /\ Keys(box.windows, session) \subseteq Keys(box.windows, session')
      /\ RunLine(c) => Keys(box.windows, Args(c).env) \subseteq Keys(box.windows, session')
  <2>1. session' = session \/ RunLine(c)
    BY DEF CallStep, RunScript, TakeEnv
  <2>2. CASE ~RunLine(c)
    BY <1>1, <1>2, <2>1, <2>2 DEF SessionOK
  <2>3. CASE RunLine(c)
    <3>1. /\ call[c].step = "run" /\ Tool(c) = "shellcommand" /\ c \in DOMAIN scene.calls
      BY <1>1, <2>3 DEF RunLine, CallOK
    <3>2. IsMap(Args(c).env) /\ IsMap(session)
      BY <1>1, <3>1, Scenes DEF SessionOK
    <3>3. CASE Args(c).env = {}
      <4>1. session' = session
        BY <2>3, <3>3 DEF RunLine
      <4>2. Keys(box.windows, Args(c).env) = {}
        BY <3>3 DEF Keys
      <4>3. QED
        BY <1>1, <1>2, <2>3, <4>1, <4>2 DEF SessionOK
    <3>4. CASE Args(c).env # {}
      <4>1. session' \in AddToEnv(box.windows, session, Args(c).env)
        BY <2>3, <3>4 DEF RunLine
      <4>2. /\ IsMap(session') /\ Keys(box.windows, Args(c).env) \subseteq Keys(box.windows, session')
            /\ Keys(box.windows, session) \subseteq Keys(box.windows, session')
            /\ box.windows => \A u, v \in session' : u.key = v.key => u = v
        BY <3>2, <4>1, Added
      <4>3. IsMap(session)' <=> IsMap(session')
        BY DEF IsMap
      <4>4. QED
        BY <1>2, <2>3, <4>2, <4>3 DEF SessionOK
    <3>5. QED
      BY <3>3, <3>4
  <2>4. QED
    BY <2>1, <2>2, <2>3
(* Which steps lead to a command and which to its verdict. *)
<1>9. /\ call'[c].step = "run" => TakeEnv(c)
      /\ Judged(c)' => RunLine(c)
  <2>1. CASE BeginCall(c)
    BY <1>5, <2>1 DEF BeginCall, Judged
  <2>2. CASE Lookup(c)
    <3>1. Fails(c) \/ (answer' = answer /\ call'[c].step = "decode")
      BY <1>5, <2>2 DEF Lookup
    <3>2. QED
      BY <1>5, <1>7, <3>1 DEF Fails, Judged
  <2>3. CASE Decode(c)
    BY <1>5, <1>6, <1>7, <2>3 DEF Decode, Fails, Judged
  <2>4. CASE HostTool(c)
    BY <1>5, <1>6, <1>7, <2>4 DEF HostTool, Fails, TimesOut, Judged
  <2>5. CASE TextStep(c)
    <3>1. Tool(c) # "shellcommand"
      BY <1>1, <2>5 DEF TextStep, StartText, ReadText, Compute, WriteText, CallOK, Editors, Readers
    <3>2. call'[c].step # "run"
      BY <1>6, <1>7, <2>5 DEF TextStep, StartText, ReadText, Compute, WriteText, Fails, TimesOut
    <3>3. QED
      BY <1>3, <3>1, <3>2 DEF Judged
  <2>6. CASE RunScript(c)
    BY <1>3, <1>7, <2>6 DEF RunScript, Fails, TimesOut, Judged
  <2>7. CASE TakeEnv(c)
    <3>1. answer'[c].kind \in {"none", "ctx", "error"}
      BY <1>5, <1>7, <2>7 DEF TakeEnv, Fails, TimesOut
    <3>2. QED
      BY <2>7, <3>1 DEF Judged
  <2>8. CASE RunLine(c)
    BY <1>6, <1>7, <2>8 DEF RunLine, TimesOut
  <2>9. QED
    BY <2>1, <2>2, <2>3, <2>4, <2>5, <2>6, <2>7, <2>8 DEF CallStep
<1>10. ASSUME NEW d \in Callers, call'[d].step = "run"
       PROVE  /\ held'[d].env \in EffectiveEnvs(box.windows, box.process, held'[d].session, Args(d).env)
              /\ \A v \in Args(d).env : Named(v)
  <2>1. CASE d # c
    <3>1. call[d].step = "run" /\ held'[d] = held[d]
      BY <1>2, <1>10, <2>1
    <3>2. QED
      BY <1>1, <3>1 DEF EnvOK, Environments
  <2>2. CASE d = c
    <3>1. TakeEnv(c)
      BY <1>9, <1>10, <2>2
    <3>2. /\ ValidEnvMap(Args(c).env, MaxEnvVars)
          /\ \E e \in Environments(c, session) : held' = [held EXCEPT ![c] = [env |-> e, session |-> session]]
      BY <1>7, <1>10, <2>2, <3>1 DEF TakeEnv, TimesOut, Fails
    <3>3. PICK e \in Environments(c, session) : held' = [held EXCEPT ![c] = [env |-> e, session |-> session]]
      BY <3>2
    <3>4. held'[c] = [env |-> e, session |-> session]
      BY <1>5, <3>3
    <3>5. held'[c].env = e /\ held'[c].session = session
      BY <3>4
    <3>6. QED
      BY <2>2, <3>2, <3>3, <3>5 DEF Environments, ValidEnvMap
  <2>3. QED
    BY <2>1, <2>2
<1>11. ASSUME NEW d \in Callers, Judged(d)'
       PROVE  Keys(box.windows, Args(d).env) \subseteq Keys(box.windows, session')
  <2>1. CASE d # c
    <3>1. Judged(d)
      BY <1>2, <1>3, <1>11, <2>1 DEF Judged
    <3>2. QED
      BY <1>1, <1>8, <3>1 DEF EnvOK
  <2>2. CASE d = c
    BY <1>8, <1>9, <1>11, <2>2
  <2>3. QED
    BY <2>1, <2>2
<1>12. ASSUME NEW d \in Callers PROVE EnvOK(d)'
  <2>1. Environments(d, held[d].session)' =
          EffectiveEnvs(box.windows, box.process, held'[d].session, Args(d).env)
    BY <1>2, <1>3 DEF Environments
  <2>2. (Keys(box.windows, Args(d).env) \subseteq Keys(box.windows, session))' <=>
          Keys(box.windows, Args(d).env) \subseteq Keys(box.windows, session')
    BY <1>2, <1>3 DEF Keys, EnvKey, Folded
  <2>3. QED
    BY <1>3, <1>10, <1>11, <2>1, <2>2 DEF EnvOK, Named
<1>13. QED
  BY <1>8, <1>12

(* A step of a call keeps the invariant.                                    *)
LEMMA CallSteps ==
  ASSUME TInv, NEW c \in Callers, CallStep(c)
  PROVE  TInv'
<1>1. TypesOK /\ CallOK(c) /\ \A d \in Callers : CallOK(d)
  BY DEF TInv
<1>2. /\ TypesOK' /\ CallOK(c)' /\ scene' = scene
      /\ \A d \in Callers : d # c => call'[d] = call[d]
  BY <1>1, CallFrame DEF Frame, Others
<1>3. ASSUME NEW d \in Callers PROVE CallOK(d)'
  <2>1. CASE d = c
    BY <1>2, <2>1
  <2>2. CASE d # c
    BY <1>1, <1>2, <2>2 DEF CallOK, Tool, Request
  <2>3. QED
    BY <2>1, <2>2
<1>4. RegistrationHolds' /\ VersionsExplained'
  BY CallKeepsRegistration, CallKeepsVersions
<1>5. TimeoutJustified' /\ \A d \in Callers : DeadlineOK(d)'
  BY CallKeepsDeadlines
<1>6. SessionOK' /\ \A d \in Callers : EnvOK(d)'
  BY CallKeepsEnv
<1>7. QED
  BY <1>2, <1>3, <1>4, <1>5, <1>6 DEF TInv

(* The invariant holds at first.                                            *)
LEMMA Initially ==
  ASSUME Init
  PROVE  TInv
<1>1. /\ RegistryInit /\ TextInit /\ session = {}
      /\ \E S \in Families : scene \in S
  BY DEF Init, RegistryInit
<1>2. /\ MaxClock \in Nat /\ Nobody \notin Registrars
      /\ scene.lists \in [Registrars -> Seq(FuncIDs)]
  BY <1>1, RegistryAssumption
<1>3. RegistryTypeOK
  BY <1>1, <1>2 DEF RegistryInit, RegistryTypeOK, Steps, Kinds, Never
<1>4. TypesOK
  <2>1. \A r \in Registrars : reg[r].next = 1 /\ scene.lists[r] \in Seq(FuncIDs)
    BY <1>1, <1>2 DEF RegistryInit
  <2>2. \A r \in Registrars : reg[r].next <= Len(scene.lists[r]) + 1
    BY <2>1
  <2>3. QED
    BY <1>1, <1>3, <2>2 DEF TypesOK, RegistryInit, TextInit
<1>5. \A c \in Callers : call[c].step = "idle" /\ call[c].runs = Nobody /\ answer[c].kind = "none"
  BY <1>1 DEF RegistryInit
<1>6. RegistrationHolds /\ TimeoutJustified
  BY <1>1, <1>5 DEF RegistrationHolds, TimeoutJustified, RegistryInit
<1>7. VersionsExplained
  BY <1>1, <1>5 DEF VersionsExplained, Versions, TextInit
<1>8. SessionOK /\ \A c \in Callers : CallOK(c) /\ DeadlineOK(c) /\ EnvOK(c)
  BY <1>1, <1>5 DEF SessionOK, IsMap, CallOK, OfTool, DeadlineOK, EnvOK, Judged
<1>9. QED
  BY <1>4, <1>6, <1>7, <1>8 DEF TInv

(* TInv is an invariant for all tools, calls, texts, policies and layers:   *)
(* the four properties with what a call is known to be at each of its steps *)
(* (registry.go, the text tools, shellcommand.go and shell_session.go).     *)
THEOREM Invariance == Spec => []TInv
<1>1. Init => TInv
  BY Initially
<1>2. TInv /\ [Next]_vars => TInv'
  <2>1. SUFFICES ASSUME TInv, [Next]_vars PROVE TInv'
    OBVIOUS
  <2>2. \/ Quiet
        \/ \E r \in Registrars : Register(r) /\ UNCHANGED <<file, held, box, session>>
        \/ \E c \in Callers : CallStep(c)
    BY <2>1, StepCases DEF TInv
  <2>3. QED
    BY <2>1, <2>2, QuietSteps, RegisterSteps, CallSteps
<1>3. QED
  BY <1>1, <1>2, PTL DEF Spec

(* The state always has its types, and a call has an answer exactly when it *)
(* is done.                                                                 *)
THEOREM Types == Spec => []ToolboxTypeOK
<1>1. TInv => ToolboxTypeOK
  BY DEF TInv, TypesOK, EnvOK, SessionOK, ToolboxTypeOK
<1>2. QED
  BY <1>1, Invariance, PTL

(* A tool is never replaced and a call runs the one it looked up            *)
(* (RegisterTool and Lookup).                                               *)
THEOREM Registration == Spec => []RegistrationHolds
<1>1. TInv => RegistrationHolds
  BY DEF TInv
<1>2. QED
  BY <1>1, Invariance, PTL

(* A context error has a reason: the deadline of a caller, its cancellation *)
(* or the timeout that counts (the choice of timeout in Call).              *)
THEOREM Deadlines == Spec => []TimeoutJustified
<1>1. TInv => TimeoutJustified
  BY DEF TInv
<1>2. QED
  BY <1>1, Invariance, PTL

(* The file only ever holds what successful calls made of versions they had *)
(* read; a call that fails leaves no trace (the text tools).                *)
THEOREM NoTrace == Spec => []VersionsExplained
<1>1. TInv => VersionsExplained
  BY DEF TInv
<1>2. QED
  BY <1>1, Invariance, PTL

(* Each variable of a command comes from the last layer that names it, and  *)
(* the session keeps each call's variables (GetEffectiveEnv and AddToEnv).   *)
THEOREM Layers == Spec => []EnvLayers
<1>1. TInv => EnvLayers
  <2>1. SUFFICES ASSUME TInv PROVE EnvLayers
    OBVIOUS
  <2> DEFINE key(v) == EnvKey(box.windows, v)
             own(c) == Args(c).env
             layer(c, k) == IF \E v \in own(c) : key(v) = k THEN own(c)
                            ELSE IF \E v \in held[c].session : key(v) = k THEN held[c].session
                            ELSE box.process
  <2>2. ASSUME NEW c \in Callers, call[c].step = "run"
        PROVE  /\ \A v \in held[c].env : \E u \in layer(c, key(v)) : key(u) = key(v) /\ u.value = v.value
               /\ {key(v) : v \in held[c].env} =
                    {key(v) : v \in own(c) \cup held[c].session \cup box.process}
               /\ \A u, v \in held[c].env : key(u) = key(v) => u = v
    <3>1. /\ held[c].env \in EffectiveEnvs(box.windows, box.process, held[c].session, own(c))
          /\ \A v \in own(c) : Named(v)
      BY <2>1, <2>2 DEF TInv, EnvOK, Environments
    <3>2. /\ \A v \in held[c].env :
               \/ v \in own(c)
               \/ v \in held[c].session /\ \A u \in own(c) : EnvKey(box.windows, u) # EnvKey(box.windows, v)
               \/ /\ v \in box.process
                  /\ \A u \in own(c) \cup held[c].session : EnvKey(box.windows, u) # EnvKey(box.windows, v)
          /\ held[c].env \subseteq own(c) \cup held[c].session \cup box.process
          /\ \A v \in own(c) \cup held[c].session \cup box.process :
               \E u \in held[c].env : EnvKey(box.windows, u) = EnvKey(box.windows, v)
          /\ \A u, v \in held[c].env : EnvKey(box.windows, u) = EnvKey(box.windows, v) => u = v
      <4> HIDE DEF own
      <4>1. QED
        BY <3>1, Effective
    <3>3. \A v \in held[c].env : v \in layer(c, key(v))
      BY <3>2
    <3>4. QED
      BY <3>2, <3>3
  <2>3. \A c \in Callers : Judged(c) =>
          Keys(box.windows, Args(c).env) \subseteq Keys(box.windows, session)
    BY <2>1 DEF TInv, EnvOK
  <2>4. box.windows => \A u, v \in session : u.key = v.key => u = v
    BY <2>1 DEF TInv, SessionOK
  <2>5. QED
    BY <2>2, <2>3, <2>4 DEF EnvLayers
<1>2. QED
  BY <1>1, Invariance, PTL
----------------------------------------------------------------------------
(* What the text tools make of their input: that an edit is exact, that a   *)
(* search and a range are right (TextLinesProofs).                          *)

(* A line of a file with the newlines of t. *)
LineOf(t) == Seq(InLine(Symbols, t.crlf))

(* What the tools are given becomes lines that any file can have.           *)
LEMMA NormOfLines ==
  ASSUME NEW in \in Seq(Seq(Symbols)), NEW t
  PROVE  Norm(in) \in Seq(LineOf(t))
<1>1. "LF" \in Symbols
  BY TextAssumption
<1>2. NormalizeLineBlockInput(in) \in Seq(Seq(Symbols \ {"LF", "CR"}))
  BY <1>1, NormLines, Zenon
<1> DEFINE A == Symbols \ {"LF", "CR"}
           B == InLine(Symbols, t.crlf)
<1>3. A \subseteq B
  BY DEF InLine
<1>4. Norm(in) \in Seq(Seq(A))
  BY <1>2 DEF Norm
<1> HIDE DEF A, B
<1>5. Seq(A) \subseteq Seq(B)
  BY <1>3
<1> DEFINE SA == Seq(A)
           SB == Seq(B)
<1>6. SA \subseteq SB /\ Norm(in) \in Seq(SA)
  BY <1>4, <1>5
<1> HIDE DEF SA, SB
<1>7. Norm(in) \in Seq(SB)
  BY <1>6
<1>8. QED
  BY <1>7 DEF SB, B, LineOf

(* A text's lines are lines of its file.                                    *)
LEMMA LinesOfText ==
  ASSUME NEW t \in Texts(Symbols)
  PROVE  t.lines \in Seq(LineOf(t))
BY DEF Texts, LineOf

(* Other lines that its file can have make a text again.                    *)
LEMMA TextOfLines ==
  ASSUME NEW t \in Texts(Symbols), NEW l \in Seq(LineOf(t))
  PROVE  [t EXCEPT !.lines = l] \in Texts(Symbols)
<1>1. t \in [crlf : BOOLEAN, final : BOOLEAN, lines : Seq(Seq(Symbols))]
  BY DEF Texts
<1> DEFINE A == InLine(Symbols, t.crlf)
           SA == Seq(A)
           SB == Seq(Symbols)
<1>2. A \subseteq Symbols
  BY DEF InLine
<1>3. SA \subseteq SB
  <2> HIDE DEF A
  <2>1. QED
    BY <1>2
<1>4. l \in Seq(SB)
  <2>1. l \in Seq(SA)
    BY DEF LineOf
  <2> HIDE DEF SA, SB
  <2>2. QED
    BY <1>3, <2>1
<1> DEFINE u == [t EXCEPT !.lines = l]
<1>5. /\ u \in [crlf : BOOLEAN, final : BOOLEAN, lines : Seq(SB)]
      /\ u.lines = l /\ u.crlf = t.crlf
  <2> HIDE DEF SA
  <2>1. t \in [crlf : BOOLEAN, final : BOOLEAN, lines : Seq(SB)]
    BY <1>1
  <2> HIDE DEF SB
  <2>2. QED
    BY <1>4, <2>1
<1> HIDE DEF u
<1>6. u.lines \in Seq(Seq(InLine(Symbols, u.crlf)))
  BY <1>5 DEF LineOf
<1>7. u \in Texts(Symbols)
  BY <1>5, <1>6 DEF Texts
<1>8. QED
  BY <1>7 DEF u
----------------------------------------------------------------------------
(* A block that is found is where it is.                                    *)
Finding(idxs, lines, before, match, after) ==
  /\ ToSet(idxs) = Places(lines, before, match, after)
  /\ Cardinality(Places(lines, before, match, after)) = Len(idxs)
  /\ IsFiniteSet(Places(lines, before, match, after))
  /\ InTurn(idxs, Places(lines, before, match, after), Len(lines))

(* The places that a search finds are the places of the block, all of them, *)
(* each once and in turn (FindTrimmedAdjacentBlockMatches).                 *)
LEMMA FindingPlaces ==
  ASSUME NEW X, NEW lines \in Seq(X), NEW before \in Seq(X), NEW match \in Seq(X),
         NEW after \in Seq(X), match # <<>>
  PROVE  Finding(FindTrimmedAdjacentBlockMatches(lines, before, match, after),
                 lines, before, match, after)
<1> DEFINE P == Places(lines, before, match, after)
           idxs == FindTrimmedAdjacentBlockMatches(lines, before, match, after)
<1>1. idxs = InOrder(P, lines)
  BY FindIsPlaces, ZenonT(60)
<1>2. InTurn(InOrder(P, lines), P, Len(lines))
  BY InOrderInTurn, Zenon
<1>3. P \in SUBSET (1..Len(lines)) /\ Len(lines) \in Nat
  <2>1. \A p \in P : p \in 1..Len(lines)
    BY PlacesFit, Zenon
  <2> HIDE DEF P
  <2>2. QED
    BY <2>1
<1> HIDE DEF P, idxs
<1>4. InTurn(idxs, P, Len(lines))
  BY <1>1, <1>2
<1>5. ToSet(idxs) = P /\ Cardinality(P) = Len(idxs) /\ IsFiniteSet(P)
  BY <1>3, <1>4, InTurnCount
<1>6. QED
  BY <1>4, <1>5 DEF P, idxs, Finding

(* Of the places of a block, those of the block that is to be replaced.     *)
Replacing(idxs, lines, before, match, after, repl, X) ==
  /\ ReplaceMatches(lines, idxs, Len(match), repl)
       = Replaced(lines, Places(lines, before, match, after), Len(match), repl)
  /\ Replaced(lines, Places(lines, before, match, after), Len(match), repl) \in Seq(X)

(* Replacing from the end at the places found is replacing at all places.   *)
LEMMA ReplacingPlaces ==
  ASSUME NEW X, NEW lines \in Seq(X), NEW before \in Seq(X), NEW match \in Seq(X),
         NEW after \in Seq(X), match # <<>>, NEW repl \in Seq(X), NEW idxs,
         Finding(idxs, lines, before, match, after), EnsureNonOverlapping(idxs, Len(match))
  PROVE  Replacing(idxs, lines, before, match, after, repl, X)
<1> DEFINE P == Places(lines, before, match, after)
           w == Len(match)
<1>1. InTurn(idxs, P, Len(lines))
  BY DEF Finding
<1>2. \A p \in P : p \in 1..Len(lines) /\ (p + Len(match)) - 1 <= Len(lines)
  BY PlacesFit, Zenon
<1>3. Len(match) \in Nat \ {0}
  <2> DEFINE none == <<>>
  <2>1. match # none
    OBVIOUS
  <2>2. QED
    BY <2>1
<1> HIDE DEF P
<1>4. P \in SUBSET (1..Len(lines)) /\ \A p \in P : (p + w) - 1 <= Len(lines)
  BY <1>2
<1>5. EnsureNonOverlapping(idxs, w) /\ w \in Nat \ {0}
  BY <1>3
<1> HIDE DEF w
<1>6. ReplaceMatches(lines, idxs, w, repl) = Replaced(lines, P, w, repl)
  BY <1>1, <1>4, <1>5, ReplaceIsReplaced
<1>7. /\ Pieces(lines, P, w, repl) \in Seq(Seq(X))
      /\ Replaced(lines, P, w, repl) = FlattenSeq(Pieces(lines, P, w, repl))
  BY PiecesMake
<1>8. FlattenSeq(Pieces(lines, P, w, repl)) \in Seq(X)
  BY <1>7, FlattenSeqs, Zenon
<1>9. Replaced(lines, P, w, repl) \in Seq(X)
  BY <1>7, <1>8
<1>10. QED
  BY <1>6, <1>9 DEF P, w, Replacing

(* A block that is found once.                                              *)
FoundOnce(at, lines, block) ==
  /\ Places(lines, <<>>, block, <<>>) = {at}
  /\ at \in 1..Len(lines) /\ (at + Len(block)) - 1 <= Len(lines)
  /\ block # <<>>

(* A block that a search finds once is in one place, and has lines.         *)
LEMMA FindingOne ==
  ASSUME NEW X, NEW lines \in Seq(X), NEW block \in Seq(X),
         Len(FindTrimmedBlockMatches(lines, block)) = 1
  PROVE  FoundOnce(FindTrimmedBlockMatches(lines, block)[1], lines, block)
<1> DEFINE P == Places(lines, <<>>, block, <<>>)
           idxs == FindTrimmedBlockMatches(lines, block)
           at == idxs[1]
<1>1. block # <<>>
  <2>1. ASSUME block = <<>> PROVE Len(idxs) = 0
    BY <2>1 DEF FindTrimmedBlockMatches, FindTrimmedAdjacentBlockMatches
  <2>2. QED
    BY <2>1
<1>2. <<>> \in Seq(X)
  OBVIOUS
<1>3. Finding(idxs, lines, <<>>, block, <<>>)
  BY <1>1, <1>2, FindingPlaces, Zenon DEF FindTrimmedBlockMatches
<1>4. ToSet(idxs) = P /\ InTurn(idxs, P, Len(lines)) /\ Len(idxs) = 1
  BY <1>3 DEF Finding
<1>5. \A p \in P : p \in 1..Len(lines) /\ (p + Len(block)) - 1 <= Len(lines)
  BY <1>2, PlacesFit, Zenon
<1> HIDE DEF P, idxs
<1>6. idxs \in Seq(Nat)
  BY <1>4 DEF InTurn
<1>7. P = {at}
  BY <1>4, <1>6 DEF ToSet
<1>8. QED
  BY <1>1, <1>5, <1>7 DEF P, idxs, FoundOnce
----------------------------------------------------------------------------
(* What a text tool can be given (TextAssumption).                          *)
TextArgs(tool, a) ==
  /\ tool \in {"replacetextlines", "deletetextlines"} =>
       {a.match, a.before, a.after} \subseteq Seq(Seq(Symbols))
  /\ tool = "replacetextlines" => a.with \in Seq(Seq(Symbols))
  /\ tool = "inserttextlines" => {a.lines, a.anchor} \subseteq Seq(Seq(Symbols))
  /\ tool = "readtextrange" => {a.start, a.end} \subseteq Seq(Seq(Symbols))
  /\ tool = "findtext" => /\ a.match \in Seq(Seq(Symbols)) /\ a.query \in Seq(Symbols)
                          /\ a.contextLines \subseteq Int
                          /\ \A m, n \in a.contextLines : m = n
                          /\ a.maxMatches \in Int

BlockPlaces(a, t) == Places(t.lines, Norm(a.before), Norm(a.match), Norm(a.after))
Instead(tool, a) == IF tool = "deletetextlines" THEN <<>> ELSE Norm(a.with)

(* The lines that an edit is to leave, and where it is to have been.        *)
Intended(tool, a, t, at) ==
  IF tool = "inserttextlines"
  THEN Upto(t.lines, at[1] - 1) \o Norm(a.lines) \o From(t.lines, at[1])
  ELSE Replaced(t.lines, BlockPlaces(a, t), Len(Norm(a.match)), Instead(tool, a))

EverywhereExpected(tool, a, t, at) ==
  IF tool = "inserttextlines" THEN Inserted(a, t, at[1])
  ELSE /\ ToSet(at) = BlockPlaces(a, t) /\ Cardinality(BlockPlaces(a, t)) = Len(at)
       /\ Len(at) = Expected(tool, a)

EditRight(tool, a, t, r) ==
  /\ r.lines = Intended(tool, a, t, r.at) /\ r.lines \in Seq(LineOf(t))
  /\ EverywhereExpected(tool, a, t, r.at)

(* replaceTextLines and deleteTextLines: all the places and no other.       *)
LEMMA ReplacementsRight ==
  ASSUME NEW tool \in {"replacetextlines", "deletetextlines"}, NEW a, TextArgs(tool, a),
         ArgumentsOK(tool, a), NEW t \in Texts(Symbols), NEW r \in Replacements(tool, a, t)
  PROVE  EditRight(tool, a, t, r)
<1> DEFINE before == Norm(a.before)
           match == Norm(a.match)
           after == Norm(a.after)
           with == Instead(tool, a)
           X == LineOf(t)
           lines == t.lines
           idxs == FindTrimmedAdjacentBlockMatches(lines, before, match, after)
<1>1. /\ a.before \in Seq(Seq(Symbols)) /\ a.match \in Seq(Seq(Symbols))
      /\ a.after \in Seq(Seq(Symbols)) /\ a.match # <<>>
      /\ tool = "replacetextlines" => a.with \in Seq(Seq(Symbols))
  BY DEF TextArgs, ArgumentsOK
<1>2. before \in Seq(X) /\ match \in Seq(X) /\ after \in Seq(X)
  BY <1>1, NormOfLines, Zenon
<1>3. match # <<>>
  <2>1. "LF" \in Symbols
    BY TextAssumption
  <2>2. NormalizeLineBlockInput(a.match) = <<>> <=> a.match = <<>>
    BY <1>1, <2>1, NormLines, Zenon
  <2>3. QED
    BY <1>1, <2>2 DEF Norm
<1>4. with \in Seq(X)
  <2>1. CASE tool = "deletetextlines"
    <3>1. with = <<>>
      BY <2>1 DEF Instead
    <3> HIDE DEF X, with
    <3>2. QED
      BY <3>1
  <2>2. CASE tool = "replacetextlines"
    <3>1. Norm(a.with) \in Seq(X)
      BY <1>1, <2>2, NormOfLines, Zenon
    <3>2. with = Norm(a.with)
      BY <2>2 DEF Instead
    <3>3. QED
      BY <3>1, <3>2
  <2>3. QED
    BY <2>1, <2>2
<1>5. lines \in Seq(X)
  BY LinesOfText
<1>6. /\ r = [at |-> idxs, lines |-> ReplaceMatches(lines, idxs, Len(match), with)]
      /\ EnsureNonOverlapping(idxs, Len(match)) /\ Len(idxs) = Expected(tool, a)
  BY DEF Replacements, Instead
<1>7. Finding(idxs, lines, before, match, after)
  <2> HIDE DEF X, lines, before, match, after
  <2>1. QED
    BY <1>2, <1>3, <1>5, FindingPlaces, Zenon
<1>8. Replacing(idxs, lines, before, match, after, with, X)
  <2> HIDE DEF X, lines, before, match, after, with, idxs
  <2>1. QED
    BY <1>2, <1>3, <1>4, <1>5, <1>6, <1>7, ReplacingPlaces
<1>9. /\ ReplaceMatches(lines, idxs, Len(match), with)
           = Replaced(lines, BlockPlaces(a, t), Len(match), with)
      /\ Replaced(lines, BlockPlaces(a, t), Len(match), with) \in Seq(X)
  BY <1>8 DEF Replacing, BlockPlaces
<1>10. Intended(tool, a, t, r.at) = Replaced(lines, BlockPlaces(a, t), Len(match), with)
  BY DEF Intended
<1>11. r.at = idxs /\ r.lines = ReplaceMatches(lines, idxs, Len(match), with)
  <2> HIDE DEF idxs, with, match, lines
  <2>1. QED
    BY <1>6
<1>12. ToSet(r.at) = BlockPlaces(a, t) /\ Cardinality(BlockPlaces(a, t)) = Len(r.at)
  BY <1>7, <1>11 DEF Finding, BlockPlaces
<1>13. EverywhereExpected(tool, a, t, r.at)
  BY <1>6, <1>11, <1>12 DEF EverywhereExpected
<1>14. r.lines \in Seq(X) /\ r.lines = Intended(tool, a, t, r.at)
  BY <1>9, <1>10, <1>11
<1>15. QED
  BY <1>13, <1>14 DEF EditRight

(* computeInsertIndex: a place before, between or behind the lines, the one *)
(* that is asked for.                                                       *)
LEMMA InsertPlacesRight ==
  ASSUME NEW a, TextArgs("inserttextlines", a), NEW t \in Texts(Symbols),
         NEW n \in InsertPlaces(a, t)
  PROVE  n \in 1..(Len(t.lines) + 1) /\ Inserted(a, t, n)
<1> DEFINE anchor == Norm(a.anchor)
           X == LineOf(t)
           lines == t.lines
           idxs == FindTrimmedBlockMatches(lines, anchor)
<1>1. anchor \in Seq(X) /\ lines \in Seq(X)
  <2>1. a.anchor \in Seq(Seq(Symbols))
    BY DEF TextArgs
  <2>2. QED
    BY <2>1, NormOfLines, LinesOfText, Zenon
<1>2. Len(lines) \in Nat /\ Len(anchor) \in Nat
  <2> HIDE DEF lines, anchor, X
  <2>1. QED
    BY <1>1
<1>3. CASE Position(a) = "start"
  <2>1. n = 1
    BY <1>3 DEF InsertPlaces
  <2>2. QED
    BY <1>2, <1>3, <2>1 DEF Inserted
<1>4. CASE Position(a) = "end"
  <2>1. n = Len(lines) + 1
    BY <1>4 DEF InsertPlaces
  <2>2. QED
    BY <1>2, <1>4, <2>1 DEF Inserted
<1>5. CASE Position(a) \notin {"start", "end"}
  <2>1. /\ Position(a) \in {"beforeAnchor", "afterAnchor"} /\ Len(idxs) = 1
        /\ n = IF Position(a) = "beforeAnchor" THEN idxs[1] ELSE idxs[1] + Len(anchor)
    BY <1>5 DEF InsertPlaces
  <2> DEFINE at == idxs[1]
  <2>2. FoundOnce(at, lines, anchor)
    <3> HIDE DEF X, lines, anchor
    <3>1. QED
      BY <1>1, <2>1, FindingOne DEF idxs
  <2> HIDE DEF at
  <2>3. /\ Places(lines, <<>>, anchor, <<>>) = {at} /\ at \in 1..Len(lines)
        /\ (at + Len(anchor)) - 1 <= Len(lines)
    BY <2>2 DEF FoundOnce
  <2>4. n = IF Position(a) = "beforeAnchor" THEN at ELSE at + Len(anchor)
    BY <2>1 DEF at
  <2> DEFINE w == Len(anchor)
  <2> HIDE DEF w
  <2>5. w \in Nat /\ (at + w) - 1 <= Len(lines)
        /\ n = IF Position(a) = "beforeAnchor" THEN at ELSE at + w
    BY <1>2, <2>3, <2>4 DEF w
  <2>6. n \in 1..(Len(lines) + 1) /\ (Position(a) = "afterAnchor" => n - w = at)
    BY <1>2, <2>1, <2>3, <2>5
  <2>7. Position(a) = "beforeAnchor" => n = at
    BY <2>5
  <2>8. Inserted(a, t, n)
    BY <1>5, <2>3, <2>6, <2>7 DEF Inserted, w
  <2>9. QED
    BY <2>6, <2>8
<1>6. QED
  BY <1>3, <1>4, <1>5

(* What is put between two parts of a sequence of a set's elements.         *)
LEMMA Between ==
  ASSUME NEW X, NEW s \in Seq(X), NEW new \in Seq(X), NEW n \in 1..(Len(s) + 1)
  PROVE  InsertLines(s, n, new) \in Seq(X)
<1>1. Upto(s, n - 1) \in Seq(X)
  BY DEF Upto
<1>2. From(s, n) \in Seq(X)
  BY DEF From
<1>3. QED
  BY <1>1, <1>2 DEF InsertLines

(* An edit has the lines that it is to have, at the places that it names    *)
(* (the three editing tools between reading and writing).                   *)
THEOREM EditsRight ==
  ASSUME NEW tool \in Editors, NEW a, TextArgs(tool, a), ArgumentsOK(tool, a),
         NEW t \in Texts(Symbols), NEW r \in Edits(tool, a, t)
  PROVE  EditRight(tool, a, t, r)
<1>1. CASE tool # "inserttextlines"
  <2>1. tool \in {"replacetextlines", "deletetextlines"} /\ r \in Replacements(tool, a, t)
    BY <1>1 DEF Editors, Edits
  <2>2. QED
    BY <2>1, ReplacementsRight
<1>2. CASE tool = "inserttextlines"
  <2>1. PICK n \in InsertPlaces(a, t) :
          r = [at |-> <<n>>, lines |-> InsertLines(t.lines, n, Norm(a.lines))]
    BY <1>2 DEF Edits
  <2>2. n \in 1..(Len(t.lines) + 1) /\ Inserted(a, t, n)
    BY <1>2, InsertPlacesRight
  <2>3. r.at[1] = n /\ r.lines = InsertLines(t.lines, n, Norm(a.lines))
    BY <2>1
  <2>4. Norm(a.lines) \in Seq(LineOf(t)) /\ t.lines \in Seq(LineOf(t))
    <3>1. a.lines \in Seq(Seq(Symbols))
      BY <1>2 DEF TextArgs
    <3>2. QED
      BY <3>1, NormOfLines, LinesOfText, Zenon
  <2>5. r.lines \in Seq(LineOf(t))
    BY <2>2, <2>3, <2>4, Between
  <2>6. r.lines = Intended(tool, a, t, r.at)
    BY <1>2, <2>3 DEF Intended, InsertLines
  <2>7. EverywhereExpected(tool, a, t, r.at)
    BY <1>2, <2>2, <2>3 DEF EverywhereExpected
  <2>8. QED
    BY <2>5, <2>6, <2>7 DEF EditRight
<1>3. QED
  BY <1>1, <1>2
(* A text is written with its own symbols.                                  *)
LEMMA RenderedText ==
  ASSUME NEW t \in Texts(Symbols)
  PROVE  Render(t) \in Seq(Symbols)
<1>1. /\ t \in [crlf : BOOLEAN, final : BOOLEAN, lines : Seq(Seq(Symbols))]
      /\ "LF" \in Symbols /\ "CR" \in Symbols
  BY TextAssumption DEF Texts
<1>2. t.lines \in Seq(Seq(Symbols))
  BY <1>1
<1>3. Sep(t.crlf) \in Seq(Symbols) /\ <<>> \in Seq(Symbols)
  BY <1>1 DEF Sep
<1>4. Join(t.lines, Sep(t.crlf)) \in Seq(Symbols)
  BY <1>2, <1>3, JoinText, Zenon
<1> DEFINE j == Join(t.lines, Sep(t.crlf))
           e == IF t.final THEN Sep(t.crlf) ELSE <<>>
<1>5. j \in Seq(Symbols) /\ e \in Seq(Symbols)
  BY <1>3, <1>4
<1>6. Render(t) = j \o e
  BY DEF Render
<1> HIDE DEF j, e
<1>7. QED
  BY <1>5, <1>6
----------------------------------------------------------------------------
(* What a call is given is text where a tool takes text.                    *)
LEMMA RequestsOfText ==
  ASSUME TypesOK, NEW c \in DOMAIN scene.calls
  PROVE  TextArgs(Tool(c), Args(c))
<1>1. PICK S \in Families : scene \in S
  BY DEF TypesOK, RegistryTypeOK
<1>2. QED
  BY <1>1, TextAssumption DEF TextArgs, Tool, Args, Request

(* What the text tools and runscript are known to work on, and to answer.   *)
Content(c) ==
  /\ call[c].step \in {"read", "compute", "write"} => ArgumentsOK(Tool(c), Args(c))
  /\ call[c].step \in {"compute", "write"} => held[c] \in Seq(Symbols)
  /\ Succeeded(c) /\ Tool(c) \in Readers =>
       /\ held[c] \in Seq(Symbols) /\ ArgumentsOK(Tool(c), Args(c))
       /\ answer[c].out \in Results(Tool(c), Args(c), Parse(held[c]))
  /\ Succeeded(c) /\ Tool(c) = "runscript" =>
       answer[c].out.command \in ScriptCommands(box, Args(c))

BoxKept ==
  \E p \in NormalizeRunScriptPolicy(scene.box.policy) : box = [scene.box EXCEPT !.policy = p]

ContentInv == file \in Seq(Symbols) /\ BoxKept /\ \A c \in Callers : Content(c)

(* What a step of a call can come to, as far as its content goes. *)
Comes(c) ==
  /\ call'[c].step \in {"read", "compute", "write"} =>
       \/ call'[c].step = "read" /\ ArgumentsOK(Tool(c), Args(c))
       \/ call'[c].step = "compute" /\ call[c].step = "read" /\ held'[c] = file
       \/ call'[c].step = "write" /\ call[c].step = "compute" /\ held' = held
  /\ answer'[c].kind = "ok" /\ call'[c].runs \in Builtins =>
       \/ Tool(c) \in Editors
       \/ /\ call[c].step = "compute" /\ held' = held
          /\ answer'[c].out \in Results(Tool(c), Args(c), Parse(held[c]))
       \/ /\ Tool(c) = "runscript"
          /\ answer'[c].out.command \in ScriptCommands(box, Args(c))
       \/ Tool(c) = "shellcommand"
  /\ file' = file \/ (WriteText(c) /\ answer'[c].kind = "ok")

(* Every step of a call comes to one of these.                              *)
LEMMA CallComes ==
  ASSUME TypesOK, NEW c \in Callers, CallOK(c), CallStep(c)
  PROVE  Comes(c)
<1>1. /\ call \in [Callers -> [ step: Steps, began: 0..MaxClock, until: 0..Never,
                                runs: Registrars \cup {Nobody} ]]
      /\ held = [x \in Callers |-> held[x]] /\ answer = [x \in Callers |-> answer[x]]
      /\ call[c].step # "done" => answer[c].kind = "none"
  BY DEF TypesOK, RegistryTypeOK
<1>2. call[c].step # "done"
  BY CallFrame DEF Frame
<1>3. answer[c].kind = "none"
  BY <1>1, <1>2
<1>4. ASSUME NEW s, Goes(c, s) PROVE call'[c].step = s /\ call'[c].runs = call[c].runs
  BY <1>1, <1>4 DEF Goes
<1>5. ASSUME NEW k, NEW out, Answer(c, k, out)
      PROVE  /\ call'[c].step = "done" /\ call'[c].runs = call[c].runs
             /\ answer'[c].kind = k /\ answer'[c].out = out
  BY <1>1, <1>4, <1>5 DEF Answer
<1>6. ASSUME Fails(c) \/ TimesOut(c)
      PROVE  call'[c].step = "done" /\ answer'[c].kind # "ok"
  BY <1>5, <1>6 DEF Fails, TimesOut
<1>7. CASE BeginCall(c) /\ UNCHANGED <<textVars, box, session>>
  <2>1. call'[c].step = "lookup" /\ answer' = answer /\ file' = file
    BY <1>1, <1>7 DEF BeginCall, textVars
  <2>2. QED
    BY <1>3, <2>1 DEF Comes
<1>8. CASE Lookup(c) /\ UNCHANGED <<textVars, box, session>>
  <2>1. /\ file' = file
        /\ \/ Fails(c)
           \/ call'[c].step = "decode" /\ answer' = answer
    BY <1>1, <1>8 DEF Lookup, textVars
  <2>2. QED
    BY <1>3, <1>6, <2>1 DEF Comes
<1>9. CASE Decode(c) /\ UNCHANGED <<textVars, box, session>>
  <2>1. /\ file' = file
        /\ Fails(c) \/ (call'[c].step = "tool" /\ answer' = answer)
    BY <1>4, <1>9 DEF Decode, textVars
  <2>2. QED
    BY <1>3, <1>6, <2>1 DEF Comes
<1>10. CASE HostTool(c) /\ UNCHANGED <<textVars, box, session>>
  <2>1. /\ file' = file /\ call[c].runs \notin Builtins
        /\ Answer(c, "ok", <<>>) \/ Fails(c) \/ TimesOut(c)
    BY <1>10 DEF HostTool, textVars
  <2>2. QED
    BY <1>5, <1>6, <2>1 DEF Comes
<1>11. CASE StartText(c)
  <2>1. /\ file' = file
        /\ \/ Fails(c) \/ TimesOut(c)
           \/ /\ call'[c].step = "read" /\ ArgumentsOK(Tool(c), Args(c))
              /\ answer' = answer
    BY <1>4, <1>11 DEF StartText, textVars
  <2>2. QED
    BY <1>3, <1>6, <2>1 DEF Comes
<1>12. CASE ReadText(c)
  <2>1. /\ file' = file /\ call[c].step = "read"
        /\ \/ Fails(c)
           \/ held' = [held EXCEPT ![c] = file] /\ call'[c].step = "compute" /\ answer' = answer
    BY <1>4, <1>12 DEF ReadText
  <2>2. held' = [held EXCEPT ![c] = file] => held'[c] = file
    BY <1>1
  <2>3. QED
    BY <1>3, <1>6, <2>1, <2>2 DEF Comes
<1>13. CASE Compute(c)
  <2>1. /\ file' = file /\ held' = held /\ call[c].step = "compute"
        /\ \/ Fails(c) \/ TimesOut(c)
           \/ \E r \in Results(Tool(c), Args(c), Parse(held[c])) :
                \/ Goes(c, "write") /\ answer' = answer
                \/ Answer(c, "ok", r)
    BY <1>13 DEF Compute, textVars
  <2>2. QED
    BY <1>3, <1>4, <1>5, <1>6, <2>1 DEF Comes
<1>14. CASE WriteText(c)
  <2>1. /\ call[c].step = "write"
        /\ \/ Fails(c) /\ file' = file
           \/ \E r \in Results(Tool(c), Args(c), Parse(held[c])) : Answer(c, "ok", r.at)
    BY <1>14 DEF WriteText
  <2>2. Tool(c) \in Editors
    BY <2>1 DEF CallOK
  <2>3. QED
    BY <1>5, <1>6, <1>14, <2>1, <2>2 DEF Comes
<1>15. CASE RunScript(c)
  <2>1. /\ file' = file /\ Tool(c) = "runscript"
        /\ \/ Fails(c) \/ TimesOut(c)
           \/ \E cmd \in ScriptCommands(box, Args(c)) : \E e :
                Answer(c, "ok", [command |-> cmd, env |-> e])
    BY <1>15 DEF RunScript, textVars
  <2>2. CASE Fails(c) \/ TimesOut(c)
    BY <1>6, <2>1, <2>2 DEF Comes
  <2>3. CASE \E cmd \in ScriptCommands(box, Args(c)) : \E e :
               Answer(c, "ok", [command |-> cmd, env |-> e])
    <3>1. PICK cmd \in ScriptCommands(box, Args(c)) : \E e :
                 Answer(c, "ok", [command |-> cmd, env |-> e])
      BY <2>3
    <3>2. PICK e : Answer(c, "ok", [command |-> cmd, env |-> e])
      BY <3>1
    <3>3. call'[c].step = "done" /\ answer'[c].out = [command |-> cmd, env |-> e]
      BY <1>5, <3>2
    <3>4. answer'[c].out.command \in ScriptCommands(box, Args(c))
      BY <3>1, <3>3
    <3>5. QED
      BY <2>1, <3>3, <3>4 DEF Comes
  <2>4. QED
    BY <2>1, <2>2, <2>3
<1>16. CASE TakeEnv(c)
  <2>1. /\ file' = file
        /\ Fails(c) \/ TimesOut(c) \/ (call'[c].step = "run" /\ answer' = answer)
    BY <1>4, <1>16 DEF TakeEnv
  <2>2. QED
    BY <1>3, <1>6, <2>1 DEF Comes
<1>17. CASE RunLine(c)
  <2>1. /\ file' = file /\ call[c].step = "run"
        /\ TimesOut(c) \/ Answer(c, "refused", <<>>) \/ Answer(c, "ok", <<>>)
    BY <1>17 DEF RunLine, textVars
  <2>2. Tool(c) = "shellcommand"
    BY <2>1 DEF CallOK
  <2>3. QED
    BY <1>5, <1>6, <2>1, <2>2 DEF Comes
<1>18. QED
  BY <1>7, <1>8, <1>9, <1>10, <1>11, <1>12, <1>13, <1>14, <1>15, <1>16, <1>17
  DEF CallStep, TextStep
(* What an editor writes is exact.                                          *)
WritesRight(tool, a, s, written, at) ==
  /\ written \in Seq(Symbols)
  /\ EverywhereExpected(tool, a, Parse(s), at)
  /\ \/ Parse(written) = [Parse(s) EXCEPT !.lines = Intended(tool, a, Parse(s), at)]
     \/ Unwritable(Parse(s), Intended(tool, a, Parse(s), at))

(* What an editor makes of a version reads back as what it is to be.        *)
LEMMA WrittenRight ==
  ASSUME NEW tool \in Editors, NEW a, TextArgs(tool, a), ArgumentsOK(tool, a),
         NEW s \in Seq(Symbols), NEW r \in Edits(tool, a, Parse(s))
  PROVE  WritesRight(tool, a, s, Render([Parse(s) EXCEPT !.lines = r.lines]), r.at)
<1> DEFINE t == Parse(s)
           u == [t EXCEPT !.lines = r.lines]
<1>1. "LF" \in Symbols /\ "CR" \in Symbols
  BY TextAssumption
<1>2. t \in Texts(Symbols)
  BY <1>1, ParseText, Zenon
<1>3. EditRight(tool, a, t, r)
  <2> HIDE DEF t
  <2>1. r \in Edits(tool, a, t)
    BY DEF t
  <2>2. QED
    BY <1>2, <2>1, EditsRight
<1>4. /\ r.lines = Intended(tool, a, t, r.at) /\ r.lines \in Seq(LineOf(t))
      /\ EverywhereExpected(tool, a, t, r.at)
  BY <1>3 DEF EditRight
<1>5. u \in Texts(Symbols)
  <2> HIDE DEF t
  <2>1. QED
    BY <1>2, <1>4, TextOfLines
<1>6. u.lines = r.lines /\ u.crlf = t.crlf /\ u.final = t.final
  <2> HIDE DEF t
  <2>1. t \in [crlf : BOOLEAN, final : BOOLEAN, lines : Seq(Seq(Symbols))]
    BY <1>2 DEF Texts
  <2>2. QED
    BY <2>1
<1> HIDE DEF t, u
<1>7. Render(u) \in Seq(Symbols)
  BY <1>5, RenderedText
<1>8. Parse(Render(u)) = u \/ Unwritable(u, u.lines)
  BY <1>1, <1>5, RoundTrip, Zenon
<1>9. Unwritable(u, u.lines) => Unwritable(t, Intended(tool, a, t, r.at))
  BY <1>4, <1>6 DEF Unwritable
<1>10. u = [t EXCEPT !.lines = Intended(tool, a, t, r.at)]
  BY <1>4 DEF u
<1>11. QED
  BY <1>4, <1>7, <1>8, <1>9, <1>10 DEF WritesRight, t, u

(* The file that a call has written, and where it says that it has been.    *)
LEMMA WriteTextRight ==
  ASSUME TInv, ContentInv, NEW c \in Callers, WriteText(c), answer'[c].kind = "ok"
  PROVE  WritesRight(Tool(c), Args(c), held[c], file', answer'[c].out)
<1>1. TypesOK /\ CallOK(c) /\ Content(c)
  BY DEF TInv, ContentInv
<1>2. /\ call[c].step = "write" /\ Tool(c) \in Editors /\ c \in DOMAIN scene.calls
      /\ held[c] \in Seq(Symbols) /\ ArgumentsOK(Tool(c), Args(c))
  BY <1>1 DEF WriteText, CallOK, Content
<1>3. answer = [x \in Callers |-> answer[x]]
  BY <1>1 DEF TypesOK
<1>4. PICK r \in Results(Tool(c), Args(c), Parse(held[c])) :
        file' = Written(c, r) /\ Answer(c, "ok", r.at)
  <2>1. ASSUME Fails(c) PROVE answer'[c].kind = "error"
    BY <1>3, <2>1 DEF Fails, Answer
  <2>2. QED
    BY <2>1 DEF WriteText
<1>5. answer'[c].out = r.at
  BY <1>3, <1>4 DEF Answer
<1>6. r \in Edits(Tool(c), Args(c), Parse(held[c]))
  BY <1>2 DEF Results
<1>7. TextArgs(Tool(c), Args(c))
  BY <1>1, <1>2, RequestsOfText
<1>8. WritesRight(Tool(c), Args(c), held[c],
                  Render([Parse(held[c]) EXCEPT !.lines = r.lines]), r.at)
  <2> DEFINE tool == Tool(c)
             a == Args(c)
             s == held[c]
  <2>1. /\ tool \in Editors /\ TextArgs(tool, a) /\ ArgumentsOK(tool, a) /\ s \in Seq(Symbols)
        /\ r \in Edits(tool, a, Parse(s))
    BY <1>2, <1>6, <1>7
  <2> HIDE DEF tool, a, s
  <2>2. WritesRight(tool, a, s, Render([Parse(s) EXCEPT !.lines = r.lines]), r.at)
    BY <2>1, WrittenRight
  <2>3. QED
    BY <2>2 DEF tool, a, s
<1>9. QED
  BY <1>4, <1>5, <1>8 DEF Written

(* What a call is known to work on stays known through its steps.           *)
LEMMA CallKeepsContent ==
  ASSUME TInv, ContentInv, NEW c \in Callers, CallStep(c)
  PROVE  ContentInv'
<1>1. TypesOK /\ CallOK(c) /\ file \in Seq(Symbols) /\ BoxKept /\ \A d \in Callers : Content(d)
  BY DEF TInv, ContentInv
<1>2. /\ scene' = scene /\ box' = box /\ call[c].step # "done"
      /\ \A d \in Callers : d # c => call'[d] = call[d] /\ answer'[d] = answer[d] /\ held'[d] = held[d]
      /\ TypesOK'
  BY <1>1, CallFrame DEF Frame, Others
<1>3. \A d : Tool(d)' = Tool(d) /\ Args(d)' = Args(d)
  BY <1>2 DEF Tool, Args, Request
<1>4. Comes(c)
  BY <1>1, CallComes
<1>5. file' \in Seq(Symbols)
  <2>1. CASE WriteText(c) /\ answer'[c].kind = "ok"
    BY <2>1, WriteTextRight DEF WritesRight
  <2>2. QED
    BY <1>1, <1>4, <2>1 DEF Comes
<1>6. ASSUME NEW d \in Callers, d # c PROVE Content(d)'
  <2>1. call'[d] = call[d] /\ answer'[d] = answer[d] /\ held'[d] = held[d] /\ Content(d)
    BY <1>1, <1>2, <1>6
  <2>2. QED
    BY <1>2, <1>3, <2>1 DEF Content, Succeeded
<1>7. Content(c)'
  <2>1. Content(c)
    BY <1>1
  <2>2. /\ call'[c].step \in {"read", "compute", "write"} => ArgumentsOK(Tool(c), Args(c))
        /\ call'[c].step \in {"compute", "write"} => held'[c] \in Seq(Symbols)
    BY <1>1, <1>4, <2>1 DEF Comes, Content
  <2>3. ASSUME answer'[c].kind = "ok", call'[c].runs \in Builtins, Tool(c) \in Readers
        PROVE  /\ held'[c] \in Seq(Symbols) /\ ArgumentsOK(Tool(c), Args(c))
               /\ answer'[c].out \in Results(Tool(c), Args(c), Parse(held'[c]))
    <3>1. Tool(c) \notin Editors \cup {"runscript", "shellcommand"}
      BY <2>3 DEF Readers, Editors
    <3>2. /\ call[c].step = "compute" /\ held' = held
          /\ answer'[c].out \in Results(Tool(c), Args(c), Parse(held[c]))
      BY <1>4, <2>3, <3>1 DEF Comes
    <3>3. QED
      BY <2>1, <3>2 DEF Content
  <2>4. ASSUME answer'[c].kind = "ok", call'[c].runs \in Builtins, Tool(c) = "runscript"
        PROVE  answer'[c].out.command \in ScriptCommands(box, Args(c))
    <3>1. /\ Tool(c) \notin Editors /\ call[c].step # "compute" /\ Tool(c) # "shellcommand"
      BY <1>1, <2>4 DEF Readers, Editors, CallOK
    <3>2. QED
      BY <1>4, <2>4, <3>1 DEF Comes
  <2>5. QED
    BY <1>2, <1>3, <2>2, <2>3, <2>4 DEF Content, Succeeded
<1>8. BoxKept'
  BY <1>1, <1>2 DEF BoxKept
<1>9. QED
  BY <1>5, <1>6, <1>7, <1>8 DEF ContentInv

(* TInv and ContentInv are invariants: the file is text, and what is held   *)
(* and what has been answered was made of it with the arguments checked     *)
(* (the text tools and runScript).                                          *)
THEOREM Contents == Spec => [](TInv /\ ContentInv)
<1>1. Init => TInv /\ ContentInv
  <2>1. SUFFICES ASSUME Init PROVE ContentInv
    BY Initially
  <2>2. PICK S \in Families : scene \in S
    BY <2>1 DEF Init, RegistryInit
  <2>3. file \in Seq(Symbols)
    BY <2>1, <2>2, TextAssumption DEF Init, TextInit
  <2>4. \A c \in Callers : call[c].step = "idle" /\ answer[c].kind = "none"
    BY <2>1 DEF Init, RegistryInit
  <2>5. \A c \in Callers : Content(c)
    BY <2>4, SMTT(60) DEF Content, Succeeded
  <2>6. QED
    BY <2>1, <2>3, <2>5 DEF ContentInv, BoxKept, Init
<1>2. TInv /\ ContentInv /\ [Next]_vars => (TInv /\ ContentInv)'
  <2>1. SUFFICES ASSUME TInv, ContentInv, [Next]_vars PROVE TInv' /\ ContentInv'
    OBVIOUS
  <2>2. \/ Quiet
        \/ \E r \in Registrars : Register(r) /\ UNCHANGED <<file, held, box, session>>
        \/ \E c \in Callers : CallStep(c)
    BY <2>1, StepCases DEF TInv
  <2>3. TInv'
    BY <2>1, <2>2, QuietSteps, RegisterSteps, CallSteps
  <2>4. ASSUME UNCHANGED <<scene, call, answer, file, held, box>> PROVE ContentInv'
    <3>1. \A d : Tool(d)' = Tool(d) /\ Args(d)' = Args(d)
      BY <2>4 DEF Tool, Args, Request
    <3>2. ASSUME NEW d \in Callers PROVE Content(d)'
      <4>1. Content(d)
        BY <2>1 DEF ContentInv
      <4>2. QED
        BY <2>4, <3>1, <4>1 DEF Content, Succeeded
    <3>3. BoxKept'
      BY <2>1, <2>4 DEF BoxKept, ContentInv
    <3>4. QED
      BY <2>1, <2>4, <3>2, <3>3 DEF ContentInv
  <2>5. QED
    BY <2>1, <2>2, <2>3, <2>4, CallKeepsContent DEF Quiet, Register
<1>3. QED
  BY <1>1, <1>2, PTL DEF Spec

(* An edit changes the version that the call read, all of the places its    *)
(* block was at and no other, as many as expected, and what it wrote reads  *)
(* back as those lines, for every text and all arguments (replace-,         *)
(* delete- and insertTextLines with Render and ReadTextFileUTF8).           *)
THEOREM ExactEdits == Spec => EditIsExact
<1> DEFINE Exact ==
      \A c \in Callers : call[c].step = "write" /\ answer'[c].kind = "ok" =>
       LET a == Args(c)
           t == Parse(held[c])
           at == answer'[c].out
           P == Places(t.lines, Norm(a.before), Norm(a.match), Norm(a.after))
           lines == IF Tool(c) = "inserttextlines"
                    THEN Upto(t.lines, at[1] - 1) \o Norm(a.lines) \o From(t.lines, at[1])
                    ELSE Replaced(t.lines, P, Len(Norm(a.match)),
                                  IF Tool(c) = "deletetextlines" THEN <<>> ELSE Norm(a.with))
       IN /\ IF Tool(c) = "inserttextlines" THEN Inserted(a, t, at[1])
             ELSE ToSet(at) = P /\ Cardinality(P) = Len(at) /\ Len(at) = Expected(Tool(c), a)
          /\ Parse(file') = [t EXCEPT !.lines = lines] \/ Unwritable(t, lines)
<1>1. ASSUME TInv, ContentInv, [Next]_vars
      PROVE  [Exact]_vars
  <2>1. SUFFICES ASSUME NEW c \in Callers, call[c].step = "write", answer'[c].kind = "ok"
                 PROVE  WritesRight(Tool(c), Args(c), held[c], file', answer'[c].out)
    BY DEF WritesRight, Intended, EverywhereExpected, BlockPlaces, Instead
  <2>2. TypesOK /\ CallOK(c)
    BY <1>1 DEF TInv
  <2>3. answer[c].kind = "none"
    BY <2>1, <2>2 DEF TypesOK, RegistryTypeOK
  <2>4. \E d \in Callers : CallStep(d)
    BY <1>1, <2>1, <2>2, <2>3, StepCases DEF Quiet, Register
  <2>5. PICK d \in Callers : CallStep(d)
    BY <2>4
  <2>6. d = c
    <3>1. CallOK(d)
      BY <1>1 DEF TInv
    <3>2. \A e \in Callers : e # d => answer'[e] = answer[e]
      BY <2>2, <2>5, <3>1, CallFrame DEF Frame, Others
    <3>3. QED
      BY <2>1, <2>3, <3>2
  <2>7. WriteText(c)
    BY <2>1, <2>5, <2>6 DEF CallStep, TextStep, StartText, ReadText, Compute, RunScript, TakeEnv,
       RunLine, BeginCall, Lookup, Decode, HostTool
  <2>8. QED
    BY <1>1, <2>1, <2>7, WriteTextRight
<1>2. QED
  BY <1>1, Contents, PTL DEF Spec, EditIsExact
----------------------------------------------------------------------------
(* The larger and the smaller of two numbers.                               *)
LEMMA LargerOf ==
  ASSUME NEW x \in Int, NEW y \in Int
  PROVE  Max({x, y}) = IF x >= y THEN x ELSE y
<1> DEFINE m == IF x >= y THEN x ELSE y
<1>1. m \in {x, y} /\ \A z \in {x, y} : m >= z
  OBVIOUS
<1>2. \A w \in {x, y} : (\A z \in {x, y} : w >= z) => w = m
  OBVIOUS
<1> HIDE DEF m
<1>3. Max({x, y}) = m
  BY <1>1, <1>2 DEF Max
<1>4. QED
  BY <1>3 DEF m

(* The same for the smaller.                                                *)
LEMMA SmallerOf ==
  ASSUME NEW x \in Int, NEW y \in Int
  PROVE  Min({x, y}) = IF x <= y THEN x ELSE y
<1> DEFINE m == IF x <= y THEN x ELSE y
<1>1. m \in {x, y} /\ \A z \in {x, y} : m <= z
  OBVIOUS
<1>2. \A w \in {x, y} : (\A z \in {x, y} : w <= z) => w = m
  OBVIOUS
<1> HIDE DEF m
<1>3. Min({x, y}) = m
  BY <1>1, <1>2 DEF Min
<1>4. QED
  BY <1>3 DEF m

(* An omitted number of lines counts as 0, and a negative one too.          *)
LEMMA ContextIs ==
  ASSUME NEW a, TextArgs("findtext", a)
  PROVE  /\ ContextLines(a) \in Nat
         /\ \A c \in a.contextLines : ContextLines(a) = Max({0, c})
<1> DEFINE given == The(a.contextLines, 0)
<1>1. a.contextLines \subseteq Int /\ \A m, n \in a.contextLines : m = n
  BY DEF TextArgs
<1>2. (a.contextLines = {} => given = 0) /\ (a.contextLines # {} => given \in a.contextLines)
  BY DEF The
<1>3. given \in Int /\ \A c \in a.contextLines : given = c
  BY <1>1, <1>2
<1>4. ContextLines(a) = Max({0, given})
  BY DEF ContextLines
<1> HIDE DEF given
<1>5. Max({0, given}) = IF 0 >= given THEN 0 ELSE given
  BY <1>3, LargerOf
<1>6. QED
  BY <1>3, <1>4, <1>5

(* A match with its lines around it, as many as the tool takes on each side *)
(* or up to the end of the file.                                            *)
WindowRight(a, t, i, w) ==
  /\ w.from = i /\ w.to = (i + HitWidth(a)) - 1
  /\ w.first \in Int /\ w.last \in Int /\ w.to \in Int
  /\ w.first = 1 \/ w.from - w.first = ContextLines(a)
  /\ w.last = Len(t.lines) \/ w.last - w.to = ContextLines(a)
  /\ 1 <= w.first /\ w.first <= w.from /\ w.to <= w.last /\ w.last <= Len(t.lines)

(* addMatch's window is one.                                                *)
LEMMA WindowsRight ==
  ASSUME NEW a, ContextLines(a) \in Nat, NEW t, Len(t.lines) \in Nat,
         HitWidth(a) \in Nat \ {0}, NEW i \in 1..Len(t.lines),
         (i + HitWidth(a)) - 1 <= Len(t.lines)
  PROVE  WindowRight(a, t, i, Window(a, t, i))
<1> DEFINE around == ContextLines(a)
           last == (i + HitWidth(a)) - 1
           n == Len(t.lines)
           first == Max({1, i - around})
           end == Min({n, last + around})
<1>1. around \in Nat
  OBVIOUS
<1>2. n \in Nat /\ last \in Nat /\ i \in 1..n /\ i <= last /\ last <= n
  OBVIOUS
<1>3. /\ Window(a, t, i).from = i /\ Window(a, t, i).to = last
      /\ Window(a, t, i).first = first /\ Window(a, t, i).last = end
  BY DEF Window
<1> HIDE DEF around, last, n
<1>4. first = IF 1 >= i - around THEN 1 ELSE i - around
  BY <1>1, <1>2, LargerOf
<1>5. end = IF n <= last + around THEN n ELSE last + around
  BY <1>1, <1>2, SmallerOf
<1> HIDE DEF first, end
<1>6. /\ first \in Int /\ end \in Int /\ last \in Int
      /\ first = 1 \/ i - first = around
      /\ end = n \/ end - last = around
      /\ 1 <= first /\ first <= i /\ last <= end /\ end <= n
  BY <1>1, <1>2, <1>4, <1>5
<1>7. QED
  BY <1>3, <1>6 DEF WindowRight, around, last, n
(* What a search has when it has gone through some of its hits.             *)
Window4 == [from : Int, to : Int, first : Int, last : Int]
Searches4 == [found : Seq(Window4), reached : BOOLEAN, total : Int]
NoneFound == [found |-> <<>>, reached |-> FALSE, total |-> 0]
Searched(a, t, q) == FoldLeft(LAMBDA acc, i : AddMatch(a, t, acc, i), NoneFound, q)

(* g is what a search goes through.                                         *)
SearchesAlong(g, a, t, q) ==
  /\ g \in [0..Len(q) -> Searches4] /\ g[0] = NoneFound /\ Searched(a, t, q) = g[Len(q)]
  /\ \A i \in 1..Len(q) : g[i] = AddMatch(a, t, g[i - 1], q[i])

(* One more match stays within the types.                                   *)
LEMMA MatchesOf ==
  ASSUME NEW a, ContextLines(a) \in Nat, NEW t, Len(t.lines) \in Nat,
         HitWidth(a) \in Nat \ {0}, NEW i \in 1..Len(t.lines),
         (i + HitWidth(a)) - 1 <= Len(t.lines), NEW acc \in Searches4
  PROVE  AddMatch(a, t, acc, i) \in Searches4 /\ Window(a, t, i) \in Window4
<1> DEFINE w == Window(a, t, i)
<1>1. WindowRight(a, t, i, w)
  BY WindowsRight
<1>2. /\ w = [from |-> w.from, to |-> w.to, first |-> w.first, last |-> w.last]
      /\ w.from \in Int /\ w.to \in Int /\ w.first \in Int /\ w.last \in Int
  <2>1. w = [from |-> w.from, to |-> w.to, first |-> w.first, last |-> w.last]
    BY DEF Window
  <2>2. w.from \in Int /\ w.to \in Int /\ w.first \in Int /\ w.last \in Int
    BY <1>1 DEF WindowRight
  <2>3. QED
    BY <2>1, <2>2
<1> HIDE DEF w
<1>3. w \in Window4
  BY <1>2 DEF Window4
<1>4. CASE acc.reached \/ acc.total > MaxReturnedLines
  BY <1>3, <1>4 DEF AddMatch, w
<1>5. CASE ~(acc.reached \/ acc.total > MaxReturnedLines)
  <2>1. AddMatch(a, t, acc, i) = [ found |-> Append(acc.found, w),
                                   reached |-> Len(acc.found) + 1 >= MaxMatches(a),
                                   total |-> acc.total + (w.last - w.first) + 1 ]
    BY <1>5 DEF AddMatch, w
  <2>2. acc.found \in Seq(Window4) /\ acc.total \in Int
    BY DEF Searches4
  <2>3. Append(acc.found, w) \in Seq(Window4)
    BY <1>3, <2>2, AppendProperties
  <2>4. acc.total + (w.last - w.first) + 1 \in Int
    BY <1>2, <2>2
  <2> DEFINE more == Len(acc.found) + 1 >= MaxMatches(a)
             f == Append(acc.found, w)
             n == acc.total + (w.last - w.first) + 1
  <2>5. more \in BOOLEAN
    OBVIOUS
  <2> HIDE DEF more, f, n
  <2>6. AddMatch(a, t, acc, i) = [found |-> f, reached |-> more, total |-> n]
    BY <2>1 DEF more, f, n
  <2>7. f \in Seq(Window4) /\ n \in Int
    BY <2>3, <2>4 DEF f, n
  <2>8. QED
    BY <1>3, <2>5, <2>6, <2>7 DEF Searches4, w
<1>6. QED
  BY <1>4, <1>5

(* A search goes through its hits one by one.                               *)
LEMMA SearchTrace ==
  ASSUME NEW a, ContextLines(a) \in Nat, NEW t, Len(t.lines) \in Nat,
         HitWidth(a) \in Nat \ {0}, NEW q \in Seq(Nat),
         \A i \in 1..Len(q) : /\ q[i] \in 1..Len(t.lines)
                              /\ (q[i] + HitWidth(a)) - 1 <= Len(t.lines)
  PROVE  \E g : SearchesAlong(g, a, t, q)
<1> DEFINE n == Len(q)
           A == Searches4
           base == NoneFound
           step == [x \in A |-> [i \in 1..n |-> AddMatch(a, t, x, q[i])]]
           Eq(j) == j = [x \in SUBSET DOMAIN q |->
                           IF x = {} THEN base ELSE AddMatch(a, t, j[x \ {Max(x)}], q[Max(x)])]
           ch == CHOOSE j : Eq(j)
<1>1. n \in Nat /\ DOMAIN q = 1..n
  BY LenProperties
<1>2. base \in A
  <2>1. <<>> \in Seq(Window4)
    OBVIOUS
  <2>2. QED
    BY <2>1 DEF Searches4, NoneFound
<1>3. step \in [A -> [1..n -> A]]
  <2>1. ASSUME NEW x \in A, NEW i \in 1..n PROVE AddMatch(a, t, x, q[i]) \in A
    <3> HIDE DEF A
    <3>1. x \in Searches4 /\ q[i] \in 1..Len(t.lines) /\ (q[i] + HitWidth(a)) - 1 <= Len(t.lines)
      BY DEF A
    <3>2. AddMatch(a, t, x, q[i]) \in Searches4
      BY <3>1, MatchesOf
    <3>3. QED
      BY <3>2 DEF A
  <2> HIDE DEF A, n
  <2>2. QED
    BY <2>1
<1>4. Searched(a, t, q) = ch[DOMAIN q]
  BY DEF Searched, FoldLeft, MapThenFoldSet
<1> HIDE DEF A, base, n
<1>5. ASSUME NEW x \in A, NEW i \in 1..n PROVE step[x][i] = AddMatch(a, t, x, q[i])
  BY <1>5
<1> HIDE DEF step
<1>6. PICK it \in [SUBSET (1..n) -> A] : FoldsTo(it, base, step, n)
  BY <1>1, <1>2, <1>3, LeftFold
<1>7. ASSUME NEW x \in SUBSET (1..n), x # {}
      PROVE  Max(x) \in 1..n /\ x \ {Max(x)} \in SUBSET (1..n)
  BY <1>1, <1>7, MaxOf
<1>8. Eq(it)
  <2>1. \A x \in SUBSET (1..n) : x # {} => it[x] = AddMatch(a, t, it[x \ {Max(x)}], q[Max(x)])
    BY <1>5, <1>6, <1>7 DEF FoldsTo
  <2>2. it[{}] = base
    BY <1>6 DEF FoldsTo
  <2>3. QED
    BY <1>1, <1>6, <2>1, <2>2
<1>9. Eq(ch)
  BY <1>8
<1> HIDE DEF ch
<1>10. Follows(ch, A, base, step, n)
  <2>1. ch[{}] = base
    BY <1>9
  <2>2. \A x \in SUBSET (1..n) : x # {} => ch[x] = AddMatch(a, t, ch[x \ {Max(x)}], q[Max(x)])
    BY <1>1, <1>9
  <2>3. ASSUME NEW x \in SUBSET (1..n), x # {}, ch[x \ {Max(x)}] \in A
        PROVE  ch[x] = step[ch[x \ {Max(x)}]][Max(x)]
    BY <1>5, <1>7, <2>2, <2>3
  <2>4. QED
    BY <2>1, <2>3 DEF Follows
<1>11. Yields(A, base, step, n, ch[1..n])
  BY <1>1, <1>2, <1>3, <1>10, ChosenFold
<1>12. PICK g : GoesThrough(g, A, base, step, n) /\ g[n] = ch[1..n]
  BY <1>11 DEF Yields
<1>13. \A i \in 1..n : g[i - 1] \in A /\ g[i] = step[g[i - 1]][i]
  BY <1>1, <1>12, SMTT(60) DEF GoesThrough
<1>14. \A i \in 1..n : g[i] = AddMatch(a, t, g[i - 1], q[i])
  BY <1>5, <1>13
<1>15. QED
  BY <1>1, <1>4, <1>12, <1>14 DEF GoesThrough, SearchesAlong, n, A, base
(* What a search has found once it has gone through k of its hits q: the    *)
(* first ones with their windows; all, unless it has ended.                 *)
FoundSoFar(a, t, q, k, acc) ==
  /\ acc \in Searches4 /\ Len(acc.found) <= k
  /\ \A j \in 1..Len(acc.found) : acc.found[j] = Window(a, t, q[j])
  /\ \/ acc.total > MaxReturnedLines
     \/ acc.reached /\ Len(acc.found) = MaxMatches(a)
     \/ ~acc.reached /\ Len(acc.found) = k /\ k < MaxMatches(a)

(* One hit more.                                                            *)
LEMMA FoundOneMore ==
  ASSUME NEW a, NEW t, NEW q, NEW k \in Nat, NEW acc, FoundSoFar(a, t, q, k, acc),
         Window(a, t, q[k + 1]) \in Window4, MaxMatches(a) \in Nat \ {0},
         AddMatch(a, t, acc, q[k + 1]) \in Searches4
  PROVE  FoundSoFar(a, t, q, k + 1, AddMatch(a, t, acc, q[k + 1]))
<1> DEFINE w == Window(a, t, q[k + 1])
           new == AddMatch(a, t, acc, q[k + 1])
<1>1. /\ acc.found \in Seq(Window4) /\ acc.reached \in BOOLEAN /\ Len(acc.found) \in Nat
      /\ Len(acc.found) <= k
      /\ \A j \in 1..Len(acc.found) : acc.found[j] = Window(a, t, q[j])
  BY LenProperties DEF FoundSoFar, Searches4
<1>2. CASE acc.reached \/ acc.total > MaxReturnedLines
  <2>1. new = acc
    BY <1>2 DEF AddMatch
  <2> HIDE DEF new
  <2>2. FoundSoFar(a, t, q, k + 1, acc)
    BY <1>1, <1>2 DEF FoundSoFar
  <2>3. QED
    BY <2>1, <2>2 DEF new
<1>3. CASE ~(acc.reached \/ acc.total > MaxReturnedLines)
  <2>1. new.found = Append(acc.found, w) /\ new.reached = (Len(acc.found) + 1 >= MaxMatches(a))
    BY <1>3 DEF AddMatch
  <2>2. Len(acc.found) = k /\ k < MaxMatches(a)
    BY <1>1, <1>3 DEF FoundSoFar
  <2>3. /\ Len(new.found) = k + 1 /\ new.found[k + 1] = w
        /\ \A j \in 1..k : new.found[j] = acc.found[j]
    <3> DEFINE f == acc.found
    <3> HIDE DEF f, new, w
    <3>1. f \in Seq(Window4) /\ w \in Window4 /\ new.found = Append(f, w) /\ Len(f) = k
      BY <1>1, <2>1, <2>2 DEF f, w
    <3>2. QED
      BY <3>1, AppendProperties DEF f
  <2> HIDE DEF new
  <2>4. \A j \in 1..Len(new.found) : new.found[j] = Window(a, t, q[j])
    <3>1. \A j \in 1..(k + 1) : j \in 1..k \/ j = k + 1
      OBVIOUS
    <3>2. QED
      BY <1>1, <2>2, <2>3, <3>1
  <2>5. \/ new.reached /\ Len(new.found) = MaxMatches(a)
        \/ ~new.reached /\ Len(new.found) = k + 1 /\ k + 1 < MaxMatches(a)
    <3>1. new.reached <=> Len(acc.found) + 1 >= MaxMatches(a)
      BY <2>1, Zenon
    <3>2. CASE new.reached
      BY <2>2, <2>3, <3>1, <3>2
    <3>3. CASE ~new.reached
      BY <2>2, <2>3, <3>1, <3>3
    <3>4. QED
      BY <3>2, <3>3
  <2>6. FoundSoFar(a, t, q, k + 1, new)
    BY <2>3, <2>4, <2>5 DEF FoundSoFar, new
  <2>7. QED
    BY <2>6 DEF new
<1>4. QED
  BY <1>2, <1>3

(* What the search has found in the end.                                    *)
LEMMA FoundInTheEnd ==
  ASSUME NEW a, ContextLines(a) \in Nat, MaxMatches(a) \in Nat \ {0},
         NEW t, Len(t.lines) \in Nat, HitWidth(a) \in Nat \ {0}, NEW q \in Seq(Nat),
         \A i \in 1..Len(q) : /\ q[i] \in 1..Len(t.lines)
                              /\ (q[i] + HitWidth(a)) - 1 <= Len(t.lines)
  PROVE  FoundSoFar(a, t, q, Len(q), Searched(a, t, q))
<1>1. PICK g : SearchesAlong(g, a, t, q)
  BY SearchTrace
<1>2. /\ g \in [0..Len(q) -> Searches4] /\ g[0] = NoneFound /\ Searched(a, t, q) = g[Len(q)]
      /\ \A i \in 1..Len(q) : g[i] = AddMatch(a, t, g[i - 1], q[i])
      /\ Len(q) \in Nat
  BY <1>1, LenProperties DEF SearchesAlong
<1> DEFINE T == {k \in Nat : k <= Len(q) => FoundSoFar(a, t, q, k, g[k])}
<1>3. 0 \in T
  <2>1. /\ NoneFound \in Searches4 /\ NoneFound.found = <<>> /\ NoneFound.reached = FALSE
    <3>1. g[0] \in Searches4
      BY <1>2
    <3>2. QED
      BY <1>2, <3>1, SMTT(60) DEF NoneFound
  <2>2. /\ Len(NoneFound.found) = 0 /\ 0 < MaxMatches(a)
        /\ \A j \in 1..Len(NoneFound.found) : FALSE
    BY <2>1
  <2>3. FoundSoFar(a, t, q, 0, NoneFound)
    BY <2>1, <2>2 DEF FoundSoFar
  <2>4. QED
    BY <1>2, <2>3
<1>4. ASSUME NEW k \in Nat, k \in T PROVE k + 1 \in T
  <2>1. SUFFICES ASSUME k + 1 <= Len(q) PROVE FoundSoFar(a, t, q, k + 1, g[k + 1])
    OBVIOUS
  <2>2. /\ k \in 0..Len(q) /\ k + 1 \in 1..Len(q) /\ (k + 1) - 1 = k /\ k + 1 \in 0..Len(q)
        /\ k <= Len(q)
    BY <1>2, <2>1
  <2>3. FoundSoFar(a, t, q, k, g[k]) /\ g[k] \in Searches4
    BY <1>2, <1>4, <2>2
  <2>4. g[k + 1] = AddMatch(a, t, g[k], q[k + 1]) /\ g[k + 1] \in Searches4
    BY <1>2, <2>2
  <2>5. q[k + 1] \in 1..Len(t.lines) /\ (q[k + 1] + HitWidth(a)) - 1 <= Len(t.lines)
    BY <2>2
  <2>6. Window(a, t, q[k + 1]) \in Window4
    BY <2>3, <2>5, MatchesOf
  <2>7. FoundSoFar(a, t, q, k + 1, AddMatch(a, t, g[k], q[k + 1]))
    BY <2>3, <2>4, <2>6, FoundOneMore
  <2>8. QED
    BY <2>4, <2>7
<1> HIDE DEF T
<1>5. Len(q) \in T
  BY <1>2, <1>3, <1>4, Naturally
<1>6. QED
  BY <1>2, <1>5 DEF T

(* The elements of S before the kth one are k - 1.                          *)
LEMMA CountBefore ==
  ASSUME NEW n \in Nat, NEW S \in SUBSET (1..n), NEW q, InTurn(q, S, n), NEW k \in 1..Len(q)
  PROVE  Cardinality({h \in S : h < q[k]}) = k - 1
<1> DEFINE R == {h \in S : h < q[k]}
           p == SubSeq(q, 1, k - 1)
           m == k - 1
<1>1. /\ q \in Seq(Nat) /\ Len(q) \in Nat
      /\ \A j \in 1..Len(q) : q[j] \in S /\ q[j] \in 1..n
      /\ \A i \in S : i \in 1..n => \E j \in 1..Len(q) : q[j] = i
      /\ \A i, j \in 1..Len(q) : i < j => q[i] < q[j]
  BY LenProperties DEF InTurn
<1>2. p \in Seq(Nat) /\ Len(p) = m /\ \A j \in 1..m : p[j] = q[j]
  BY <1>1
<1>3. m \in Nat /\ \A j \in 1..m : j \in 1..Len(q) /\ j < k
  BY <1>1
<1>4. R \in SUBSET (1..n) /\ \A h \in S : h \in 1..n /\ (h \in R <=> h < q[k])
  OBVIOUS
<1> HIDE DEF p, R
<1>5. \A j \in 1..Len(p) : p[j] \in R /\ p[j] \in 1..n
  BY <1>1, <1>2, <1>3, <1>4
<1>6. ASSUME NEW i \in R PROVE \E j \in 1..Len(p) : p[j] = i
  <2>1. i \in S /\ i \in 1..n /\ i < q[k]
    BY <1>4, <1>6 DEF R
  <2>2. PICK j \in 1..Len(q) : q[j] = i
    BY <1>1, <2>1
  <2>3. j < k
    <3>1. ASSUME k < j PROVE FALSE
      <4>1. q[k] < q[j] /\ q[k] \in 1..n /\ q[j] \in 1..n
        BY <1>1, <3>1
      <4>2. QED
        BY <2>1, <2>2, <4>1
    <3>2. q[k] \in 1..n
      BY <1>1
    <3>3. QED
      BY <1>1, <2>1, <2>2, <3>1, <3>2
  <2>4. j \in 1..m
    BY <1>1, <2>3
  <2>5. QED
    BY <1>2, <2>2, <2>4
<1>7. ASSUME NEW i \in 1..Len(p), NEW j \in 1..Len(p), i < j PROVE p[i] < p[j]
  BY <1>1, <1>2, <1>3, <1>7
<1>8. InTurn(p, R, n)
  BY <1>2, <1>5, <1>6, <1>7 DEF InTurn
<1>9. Cardinality(R) = Len(p)
  BY <1>4, <1>8, InTurnCount
<1>10. QED
  BY <1>2, <1>9 DEF R
(* Where a search is to find something.                                     *)
HitSet(a, t) ==
  IF a.queryType = "lineblock" THEN Places(t.lines, <<>>, Norm(a.match), <<>>)
  ELSE {i \in DOMAIN t.lines : ContainsText(TrimSpace(t.lines[i]),
          IF a.queryType = "regex" THEN a.query ELSE TrimSpace(a.query))}

HitsRight(a, t) ==
  /\ InTurn(Hits(a, t), HitSet(a, t), Len(t.lines))
  /\ HitSet(a, t) \in SUBSET (1..Len(t.lines)) /\ Len(t.lines) \in Nat
  /\ HitWidth(a) \in Nat \ {0}
  /\ \A h \in HitSet(a, t) : (h + HitWidth(a)) - 1 <= Len(t.lines)

(* findText goes through the lines or the places where its query is.        *)
LEMMA HitsAreRight ==
  ASSUME NEW a, TextArgs("findtext", a), NEW t \in Texts(Symbols), QueryOK(a)
  PROVE  HitsRight(a, t)
<1> DEFINE X == LineOf(t)
           lines == t.lines
           match == Norm(a.match)
           S == HitSet(a, t)
<1>1. lines \in Seq(X) /\ a.match \in Seq(Seq(Symbols))
  BY LinesOfText DEF TextArgs
<1>2. Len(lines) \in Nat /\ DOMAIN lines = 1..Len(lines)
  <2> HIDE DEF X, lines
  <2>1. QED
    BY <1>1, LenProperties
<1>3. CASE a.queryType = "lineblock"
  <2>1. match \in Seq(X)
    BY <1>1, NormOfLines, Zenon
  <2>2. match # <<>>
    <3>1. "LF" \in Symbols /\ a.match # <<>>
      BY <1>3, TextAssumption DEF QueryOK
    <3>2. NormalizeLineBlockInput(a.match) = <<>> <=> a.match = <<>>
      BY <1>1, <3>1, NormLines, Zenon
    <3>3. QED
      BY <3>1, <3>2 DEF Norm
  <2>3. Hits(a, t) = FindTrimmedAdjacentBlockMatches(lines, <<>>, match, <<>>)
    BY <1>3 DEF Hits, FindTrimmedBlockMatches
  <2>4. S = Places(lines, <<>>, match, <<>>) /\ HitWidth(a) = Len(match)
    BY <1>3 DEF HitSet, HitWidth
  <2>5. <<>> \in Seq(X)
    OBVIOUS
  <2> HIDE DEF X, match, lines, S
  <2>6. Finding(FindTrimmedAdjacentBlockMatches(lines, <<>>, match, <<>>),
                lines, <<>>, match, <<>>)
    BY <1>1, <2>1, <2>2, <2>5, FindingPlaces, Zenon
  <2>7. InTurn(Hits(a, t), S, Len(lines))
    BY <2>3, <2>4, <2>6 DEF Finding
  <2>8. \A p \in Places(lines, <<>>, match, <<>>) :
          p \in 1..Len(lines) /\ (p + Len(match)) - 1 <= Len(lines)
    BY <1>1, <2>1, <2>5, PlacesFit, Zenon
  <2>9. Len(match) \in Nat \ {0}
    <3> DEFINE none == <<>>
    <3>1. match # none
      BY <2>2
    <3>2. QED
      BY <2>1, <3>1
  <2>10. S \in SUBSET (1..Len(lines)) /\ \A p \in S : (p + HitWidth(a)) - 1 <= Len(lines)
    BY <2>4, <2>8
  <2>11. QED
    BY <1>2, <2>4, <2>7, <2>9, <2>10 DEF HitsRight, S, lines
<1>4. CASE a.queryType # "lineblock"
  <2> DEFINE y == IF a.queryType = "regex" THEN a.query ELSE TrimSpace(a.query)
             R == {i \in DOMAIN lines : ContainsText(TrimSpace(lines[i]), y)}
  <2>1. Hits(a, t) = InOrder(R, lines) /\ S = R /\ HitWidth(a) = 1
    BY <1>4 DEF Hits, HitSet, HitWidth
  <2>2. R \subseteq DOMAIN lines
    OBVIOUS
  <2> HIDE DEF R, lines, S, X
  <2>3. InTurn(InOrder(R, lines), R, Len(lines))
    BY <1>1, InOrderInTurn, Zenon
  <2>4. \A p \in R : p \in 1..Len(lines) /\ (p + 1) - 1 <= Len(lines)
    BY <1>2, <2>2
  <2>5. QED
    BY <1>2, <2>1, <2>3, <2>4 DEF HitsRight, S, lines
<1>5. QED
  BY <1>3, <1>4

(* findText, over all lines: the first matches in their order, each with    *)
(* its context, and the limit reached exactly when there are that many.     *)
THEOREM FindsRight ==
  ASSUME NEW a, TextArgs("findtext", a), NEW t \in Texts(Symbols),
         NEW out \in Finds(a, t)
  PROVE  FoundRight(a, t, out)
<1> DEFINE hits == HitSet(a, t)
           n == Len(out.found)
           around == ContextLines(a)
           total == Len(t.lines)
           M == MaxMatches(a)
           q == Hits(a, t)
<1>1. M \in Nat \ {0} /\ ContextLines(a) \in Nat /\ \A c \in a.contextLines : around = Max({0, c})
  <2>1. M \in Nat \ {0}
    BY MatchesAssumption DEF TextArgs, MaxMatches
  <2>2. ContextLines(a) \in Nat /\ \A c \in a.contextLines : ContextLines(a) = Max({0, c})
    BY ContextIs
  <2>3. QED
    BY <2>1, <2>2
<1>0. Finds(a, t) =
        IF t.lines = <<>> THEN {[found |-> <<>>, reached |-> FALSE]}
        ELSE IF ~Searches(a, t) \/ Searched(a, t, q).total > MaxReturnedLines THEN {}
        ELSE {[found |-> Searched(a, t, q).found, reached |-> Searched(a, t, q).reached]}
  BY Zenon DEF Finds, Searched, NoneFound
<1>2. CASE t.lines = <<>>
  <2>1. out = [found |-> <<>>, reached |-> FALSE]
    BY <1>0, <1>2
  <2>2. out.found = <<>> /\ out.reached = FALSE /\ Len(out.found) = 0
    BY <2>1
  <2>3. hits = {}
    <3>1. DOMAIN t.lines = {}
      BY <1>2
    <3>2. QED
      BY <3>1 DEF HitSet, Places
  <2>4. Cardinality(hits) = 0
    BY <2>3, FS_EmptySet
  <2>5. Min({M, Cardinality(hits)}) = 0
    <3> HIDE DEF M, hits
    <3>1. Cardinality(hits) \in Int /\ M \in Int /\ ~(M <= Cardinality(hits))
      BY <1>1, <2>4
    <3>2. QED
      BY <2>4, <3>1, SmallerOf
  <2>6. n = Min({M, Cardinality(hits)}) /\ \A k \in 1..n : FALSE
    BY <2>2, <2>5
  <2>7. out.reached <=> t.lines # <<>> /\ Cardinality(hits) >= M
    BY <1>2, <2>2
  <2> HIDE DEF M, n
  <2>8. QED
    BY <2>6, <2>7 DEF FoundRight, HitSet, M, n
<1>3. CASE t.lines # <<>>
  <2>1. /\ Searches(a, t) /\ ~(Searched(a, t, q).total > MaxReturnedLines)
        /\ out = [found |-> Searched(a, t, q).found, reached |-> Searched(a, t, q).reached]
    BY <1>0, <1>3
  <2>2. HitsRight(a, t)
    BY <2>1, HitsAreRight DEF Searches
  <2>3. /\ InTurn(q, hits, total) /\ hits \in SUBSET (1..total) /\ total \in Nat
        /\ HitWidth(a) \in Nat \ {0} /\ \A h \in hits : (h + HitWidth(a)) - 1 <= total
    BY <2>2 DEF HitsRight
  <2> DEFINE end == Searched(a, t, q)
  <2> HIDE DEF hits, q, M, end
  <2>4. /\ q \in Seq(Nat) /\ Len(q) \in Nat
        /\ \A i \in 1..Len(q) : /\ q[i] \in hits /\ q[i] \in 1..total
                                /\ (q[i] + HitWidth(a)) - 1 <= total
    BY <2>3, LenProperties DEF InTurn
  <2>5. FoundSoFar(a, t, q, Len(q), Searched(a, t, q))
    BY <1>1, <2>3, <2>4, FoundInTheEnd DEF M
  <2>6. /\ end.found \in Seq(Window4) /\ Len(end.found) <= Len(q) /\ Len(end.found) \in Nat
        /\ \A j \in 1..Len(end.found) : end.found[j] = Window(a, t, q[j])
        /\ \/ end.reached /\ Len(end.found) = M
           \/ ~end.reached /\ Len(end.found) = Len(q) /\ Len(q) < M
    BY <2>1, <2>5, LenProperties DEF FoundSoFar, Searches4, end, M
  <2>7. out.found = end.found /\ (out.reached <=> end.reached)
    BY <2>1 DEF end
  <2>8. Cardinality(hits) = Len(q)
    BY <2>3, InTurnCount
  <2>9. n = Min({M, Cardinality(hits)})
    <3>1. Min({M, Cardinality(hits)}) = IF M <= Cardinality(hits) THEN M ELSE Cardinality(hits)
      BY <1>1, <2>4, <2>8, SmallerOf
    <3>2. QED
      BY <1>1, <2>4, <2>6, <2>7, <2>8, <3>1
  <2>10. out.reached <=> t.lines # <<>> /\ Cardinality(hits) >= M
    BY <1>1, <1>3, <2>4, <2>6, <2>7, <2>8
  <2>11. ASSUME NEW k \in 1..n
         PROVE  /\ out.found[k].from \in hits
                /\ Cardinality({h \in hits : h < out.found[k].from}) = k - 1
                /\ out.found[k].first = 1 \/ out.found[k].from - out.found[k].first = around
                /\ out.found[k].last = total \/ out.found[k].last - out.found[k].to = around
                /\ 1 <= out.found[k].first /\ out.found[k].first <= out.found[k].from
                /\ out.found[k].to <= out.found[k].last /\ out.found[k].last <= total
    <3>1. k \in 1..Len(q) /\ out.found[k] = Window(a, t, q[k])
      BY <2>4, <2>6, <2>7
    <3>2. WindowRight(a, t, q[k], Window(a, t, q[k]))
      BY <1>1, <2>3, <2>4, <3>1, WindowsRight
    <3>3. Cardinality({h \in hits : h < q[k]}) = k - 1
      BY <2>3, <3>1, CountBefore
    <3>4. out.found[k].from = q[k] /\ q[k] \in hits
      BY <2>4, <3>1, <3>2 DEF WindowRight
    <3>5. Cardinality({h \in hits : h < out.found[k].from}) = k - 1
      BY <3>3, <3>4
    <3>6. QED
      BY <3>1, <3>2, <3>4, <3>5 DEF WindowRight
  <2>12. \A k \in 1..n : \A c \in a.contextLines : Shows(out.found[k], t, Max({0, c}))
    BY <1>1, <2>11 DEF Shows
  <2> HIDE DEF n, around, total
  <2>13. QED
    BY <2>9, <2>10, <2>11, <2>12 DEF FoundRight, HitSet, hits, n, total, M
<1>4. QED
  BY <1>2, <1>3
(* readTextRange: from the one place of the start marker to the end of the  *)
(* one place of the end marker.                                             *)
THEOREM RangesRight ==
  ASSUME NEW a, TextArgs("readtextrange", a), NEW t \in Texts(Symbols),
         NEW out \in Ranges(a, t)
  PROVE  RangeRight(a, t, out)
<1> DEFINE X == LineOf(t)
           lines == t.lines
           start == Norm(a.start)
           end == Norm(a.end)
           starts == FindTrimmedBlockMatches(lines, start)
           ends == FindTrimmedBlockMatches(lines, end)
           from == IF start = <<>> THEN 1 ELSE starts[1]
           to == IF end = <<>> THEN Len(lines) ELSE (ends[1] + Len(end)) - 1
<1>1. lines \in Seq(X) /\ start \in Seq(X) /\ end \in Seq(X)
  <2>1. a.start \in Seq(Seq(Symbols)) /\ a.end \in Seq(Seq(Symbols))
    BY DEF TextArgs
  <2>2. QED
    BY <2>1, NormOfLines, LinesOfText, Zenon
<1>2. /\ Len(lines) \in Nat /\ Len(start) \in Nat /\ Len(end) \in Nat
      /\ lines # <<>> => Len(lines) >= 1
  <2> HIDE DEF X, lines, start, end
  <2> DEFINE none == <<>>
  <2>1. none = <<>>
    OBVIOUS
  <2>2. Len(lines) \in Nat /\ Len(start) \in Nat /\ Len(end) \in Nat
    BY <1>1, LenProperties
  <2>3. lines # <<>> => Len(lines) # 0
    BY <1>1
  <2>4. QED
    BY <2>2, <2>3
<1>3. SUFFICES ASSUME lines # <<>> PROVE RangeRight(a, t, out)
  BY DEF RangeRight
<1>4. /\ start # <<>> => Len(starts) = 1
      /\ end # <<>> => Len(ends) = 1
      /\ start # <<>> /\ end # <<>> => ~(ends[1] < from + Len(start))
      /\ ~(from > to) /\ out = [from |-> from, to |-> to]
  <2>1. Ranges(a, t) =
          IF \/ start # <<>> /\ Len(starts) # 1
             \/ end # <<>> /\ Len(ends) # 1 THEN {}
          ELSE IF \/ start # <<>> /\ end # <<>> /\ ends[1] < from + Len(start)
                  \/ from > to \/ (to - from) + 1 > MaxRangeLines THEN {}
          ELSE {[from |-> from, to |-> to]}
    BY <1>3, Zenon DEF Ranges
  <2> HIDE DEF lines, start, end, starts, ends, from, to
  <2>2. QED
    BY <2>1
<1> HIDE DEF X, lines, start, end
<1>5. start # <<>> => FoundOnce(starts[1], lines, start)
  BY <1>1, <1>4, FindingOne
<1>6. end # <<>> => FoundOnce(ends[1], lines, end)
  BY <1>1, <1>4, FindingOne
<1>7. start # <<>> =>
        /\ Places(lines, <<>>, start, <<>>) = {from} /\ from \in 1..Len(lines)
  BY <1>5 DEF FoundOnce
<1>8. end # <<>> =>
        /\ Places(lines, <<>>, end, <<>>) = {ends[1]} /\ ends[1] \in 1..Len(lines)
        /\ to = (ends[1] + Len(end)) - 1 /\ to <= Len(lines)
  BY <1>6 DEF FoundOnce
<1>9. (start = <<>> => from = 1) /\ (end = <<>> => to = Len(lines))
  OBVIOUS
<1> DEFINE e == ends[1]
<1> HIDE DEF from, to, starts, ends, e
<1>10. from \in 1..Len(lines)
  BY <1>2, <1>3, <1>7, <1>9
<1>11. to \in Int /\ to <= Len(lines) /\ from <= to
  <2>1. to \in Int /\ to <= Len(lines)
    BY <1>2, <1>8, <1>9
  <2>2. QED
    BY <1>4, <1>10, <2>1
<1>12. end # <<>> => Places(lines, <<>>, end, <<>>) = {(to - Len(end)) + 1}
  <2>1. end # <<>> => (to - Len(end)) + 1 = ends[1]
    BY <1>2, <1>8
  <2>2. QED
    BY <1>8, <2>1
<1>13. start # <<>> /\ end # <<>> => (to - from) + 1 >= Len(start) + Len(end)
  BY <1>2, <1>4, <1>8, <1>10, <1>11
<1>14. out.from = from /\ out.to = to
  BY <1>4
<1>15. QED
  BY <1>7, <1>9, <1>10, <1>11, <1>12, <1>13, <1>14 DEF RangeRight, lines, start, end

(* What a reader that succeeds returns is right for the version that it     *)
(* read, for every text and all arguments (findText and readTextRange).     *)
THEOREM RightReaders == Spec => []ReadersAgree
<1>1. TInv /\ ContentInv => ReadersAgree
  <2>1. SUFFICES ASSUME TInv, ContentInv, NEW c \in Callers, Succeeded(c), Tool(c) \in Readers
                 PROVE  /\ Tool(c) = "findtext" =>
                             FoundRight(Args(c), Parse(held[c]), answer[c].out)
                        /\ Tool(c) = "readtextrange" =>
                             RangeRight(Args(c), Parse(held[c]), answer[c].out)
    BY DEF ReadersAgree, Readers
  <2>2. TypesOK /\ CallOK(c) /\ Content(c)
    BY <2>1 DEF TInv, ContentInv
  <2>3. /\ held[c] \in Seq(Symbols)
        /\ answer[c].out \in Results(Tool(c), Args(c), Parse(held[c]))
    BY <2>1, <2>2 DEF Content
  <2>4. c \in DOMAIN scene.calls
    <3>1. call[c].step = "done"
      BY <2>1, <2>2 DEF Succeeded, TypesOK, RegistryTypeOK
    <3>2. QED
      BY <2>2, <3>1 DEF CallOK
  <2>5. TextArgs(Tool(c), Args(c))
    BY <2>2, <2>4, RequestsOfText
  <2>6. Parse(held[c]) \in Texts(Symbols)
    <3>1. "LF" \in Symbols /\ "CR" \in Symbols
      BY TextAssumption
    <3>2. QED
      BY <2>3, <3>1, ParseText, Zenon
  <2>7. CASE Tool(c) = "findtext"
    <3>1. answer[c].out \in Finds(Args(c), Parse(held[c])) /\ TextArgs("findtext", Args(c))
      BY <2>3, <2>5, <2>7, Zenon DEF Results, Editors
    <3>2. FoundRight(Args(c), Parse(held[c]), answer[c].out)
      BY <2>6, <3>1, FindsRight, Zenon
    <3>3. QED
      BY <2>7, <3>2
  <2>8. CASE Tool(c) = "readtextrange"
    <3>1. answer[c].out \in Ranges(Args(c), Parse(held[c])) /\ TextArgs("readtextrange", Args(c))
      BY <2>3, <2>5, <2>8, Zenon DEF Results, Editors
    <3>2. RangeRight(Args(c), Parse(held[c]), answer[c].out)
      BY <2>6, <3>1, RangesRight, Zenon
    <3>3. QED
      BY <2>8, <3>2
  <2>9. QED
    BY <2>1, <2>7, <2>8 DEF Readers
<1>2. QED
  BY <1>1, Contents, PTL
----------------------------------------------------------------------------
(* The command line that runscript makes of a script and its arguments, and *)
(* what the policy has to say of it.                                        *)

(* Texts of some characters are texts of more.                              *)
LEMMA TextsWithin ==
  ASSUME NEW A, NEW B, A \subseteq B
  PROVE  Seq(A) \subseteq Seq(B)
OBVIOUS

(* What a script's command line may be made of.                             *)
Chars(shell) == (STRING \cup Quotables) \cup {"&", "/", shell}

(* There is a word, at least the script's own, and all are of characters.   *)
LEMMA WordsOfScript ==
  ASSUME NEW runs \in Interpreters, NEW shell,
         NEW script \in Seq(STRING), NEW args \in Seq(Seq(STRING))
  PROVE  Argv(runs, shell, script, args) \in Seq(Seq(Chars(shell))) \ {<<>>}
<1> DEFINE C == Chars(shell)
           L == Seq(C)
           S == Seq(STRING)
           own == << <<"/", shell>> , script >>
           line == TrimSpace(runs.command)
           inter == <<line>>
           one == <<script>>
<1>1. STRING \subseteq C /\ "/" \in C /\ shell \in C
  BY DEF Chars
<1> HIDE DEF C
<1>2. S \subseteq L
  BY <1>1, TextsWithin, Zenon
<1>3. runs.command \in Seq(STRING) /\ runs.args \in Seq(S)
  BY DEF Interpreters
<1>4. line \in S
  BY <1>3, TrimSpaceText
<1>5. <<"/", shell>> \in L
  <2>1. ASSUME NEW x \in C, NEW y \in C PROVE <<x, y>> \in Seq(C)
    OBVIOUS
  <2>2. QED
    BY <1>1, <2>1, Zenon
<1>6. script \in L /\ line \in L
  BY <1>2, <1>4
<1> HIDE DEF S, L, line
<1>7. args \in Seq(L) /\ runs.args \in Seq(L)
  <2>1. args \in Seq(S)
    BY DEF S
  <2>2. QED
    BY <1>2, <1>3, <2>1
<1>8. one \in Seq(L) /\ inter \in Seq(L) /\ own \in Seq(L) /\ one # <<>> /\ inter # <<>> /\ own # <<>>
  BY <1>5, <1>6
<1> HIDE DEF one, inter, own
<1>9. \A s, t \in Seq(L) : s # <<>> => s \o t \in Seq(L) \ {<<>>}
  BY ConcatProperties, ConcatSimplifications
<1>10. /\ one \o args \in Seq(L) \ {<<>>} /\ own \o args \in Seq(L) \ {<<>>}
       /\ inter \o runs.args \in Seq(L) \ {<<>>}
  BY <1>7, <1>8, <1>9
<1>11. (inter \o runs.args) \o one \in Seq(L) \ {<<>>}
  BY <1>8, <1>9, <1>10
<1>12. ((inter \o runs.args) \o one) \o args \in Seq(L) \ {<<>>}
  BY <1>7, <1>9, <1>11
<1>13. QED
  BY <1>10, <1>12 DEF Argv, one, own, inter, line, L, C
(* To the filter the command is one of these words, and it is what runs.    *)
OneCommand(cmd) ==
  /\ SeenAs(cmd.checked, DialectForShell(cmd.shell), SeenWords(cmd))
  /\ cmd.exec \in {cmd.checked, <<"&", "SP">> \o cmd.checked}
  /\ Len(cmd.exec) \in Nat

(* A PowerShell line is checked without its call operator.                  *)
LEMMA WithoutOperator ==
  ASSUME NEW C, NEW line \in Seq(C), {"&", "SP"} \subseteq C
  PROVE  Tail(<<"&", "SP">> \o line) = <<"SP">> \o line
<1> DEFINE op == <<"&", "SP">>
           sp == <<"SP">>
           s == op \o line
           t == sp \o line
<1>1. /\ op \in Seq(C) /\ Len(op) = 2 /\ op[1] = "&" /\ op[2] = "SP"
      /\ sp \in Seq(C) /\ Len(sp) = 1 /\ sp[1] = "SP"
  OBVIOUS
<1> HIDE DEF op, sp
<1>2. Len(line) \in Nat /\ \A i \in 1..Len(line) : line[i] \in C
  BY LenProperties, ElementOfSeq
<1>3. /\ s \in Seq(C) /\ Len(s) = 2 + Len(line)
      /\ \A i \in 1..(2 + Len(line)) : s[i] = IF i <= 2 THEN op[i] ELSE line[i - 2]
  <2>1. op \in Seq(C) /\ line \in Seq(C)
    BY <1>1
  <2>2. /\ s \in Seq(C) /\ Len(s) = Len(op) + Len(line)
        /\ \A i \in 1..(Len(op) + Len(line)) :
             s[i] = IF i <= Len(op) THEN op[i] ELSE line[i - Len(op)]
    BY <2>1, ConcatProperties
  <2>3. QED
    BY <1>1, <2>2
<1>4. /\ t \in Seq(C) /\ Len(t) = 1 + Len(line)
      /\ \A i \in 1..(1 + Len(line)) : t[i] = IF i <= 1 THEN sp[i] ELSE line[i - 1]
  BY <1>1, ConcatProperties
<1> HIDE DEF s, t
<1>5. s # <<>>
  BY <1>2, <1>3, EmptySeq
<1>6. /\ Tail(s) \in Seq(C) /\ Len(Tail(s)) = Len(s) - 1
      /\ \A i \in 1..(Len(s) - 1) : Tail(s)[i] = s[i + 1]
  BY <1>3, <1>5, HeadTailProperties
<1>7. \A i \in 1..Len(t) : Tail(s)[i] = t[i]
  <2>1. SUFFICES ASSUME NEW i \in 1..Len(t) PROVE Tail(s)[i] = t[i]
    OBVIOUS
  <2>2. i \in 1..(1 + Len(line)) /\ i + 1 \in 1..(2 + Len(line)) /\ i \in Int
    BY <1>2, <1>4
  <2>3. Tail(s)[i] = s[i + 1] /\ s[i + 1] = (IF i + 1 <= 2 THEN op[i + 1] ELSE line[(i + 1) - 2])
    BY <1>3, <1>6, <2>2
  <2>4. t[i] = IF i <= 1 THEN sp[i] ELSE line[i - 1]
    BY <1>4, <2>2
  <2>5. CASE i = 1
    <3>1. i + 1 = 2 /\ i + 1 <= 2 /\ i <= 1
      BY <2>5
    <3>2. Tail(s)[i] = op[2] /\ t[i] = sp[1]
      BY <2>3, <2>4, <2>5, <3>1
    <3>3. QED
      BY <1>1, <3>2
  <2>6. CASE i # 1
    <3>1. (i + 1) - 2 = i - 1 /\ ~(i + 1 <= 2) /\ ~(i <= 1)
      BY <2>2, <2>6
    <3>2. QED
      BY <2>3, <2>4, <3>1
  <2>7. QED
    BY <2>5, <2>6
<1>8. Len(Tail(s)) = Len(t)
  BY <1>2, <1>3, <1>4, <1>6, SMTT(60)
<1>9. Tail(s) = t
  BY <1>4, <1>6, <1>7, <1>8, SeqEqual
<1>10. QED
  BY <1>9 DEF s, t, op, sp

(* What runScript makes of a script is one command of its words             *)
(* (CommandFromArgv).                                                       *)
THEOREM ScriptIsOneCommand ==
  ASSUME NEW tool, NEW a, a.script \in Seq(STRING), a.args \in Seq(Seq(STRING)),
         NEW runs \in Interpreters, NEW shell, shell # "cmd"
  PROVE  OneCommand(ScriptCommand(tool, a, runs, shell))
<1> DEFINE C == Chars(shell)
           d == DialectForShell(shell)
           argv == Argv(runs, shell, a.script, a.args)
           line == QuotedLine(d, argv)
           c == ScriptCommand(tool, a, runs, shell)
<1>1. Quotables \cup {"&"} \subseteq C /\ Quotables \subseteq C /\ {"&", "SP"} \subseteq C
  BY DEF Chars, Quotables
<1>2. d \in {"sh", "powershell"}
  BY DEF DialectForShell
<1>3. argv \in Seq(Seq(C)) /\ argv # <<>>
  BY WordsOfScript
<1>4. /\ c.argv = argv /\ c.shell = shell /\ c.exec = CommandFromArgv(d, argv)
      /\ c.checked = Checked(d, c.exec)
  BY DEF ScriptCommand
<1>5. SeenWords(c) = AllSeen(d, argv)
  <2>1. SeenWords(c) = Without(<<>>, [i \in DOMAIN argv |-> Seen(d, argv[i])])
    BY <1>4 DEF SeenWords, Seen
  <2>2. QED
    BY <2>1 DEF AllSeen
<1> HIDE DEF C, d, argv, c
<1>6. SeenAs(line, d, AllSeen(d, argv))
  BY <1>1, <1>2, <1>3, QuotedLines
<1>7. CommandFromArgv(d, argv) = IF d = "powershell" THEN <<"&", "SP">> \o line ELSE line
  BY <1>1, <1>2, <1>3, CommandIsLine
<1>8. line \in Seq(C)
  <2>1. ReadsLine(d, argv, C)
    BY <1>1, <1>2, <1>3, LineRead
  <2>2. PICK f : Reads(QuotedLine(d, argv), d, "none", f, C)
    BY <2>1 DEF ReadsLine, ReadsTo
  <2>3. QED
    BY <2>2 DEF Reads
<1> HIDE DEF line
<1>9. c.checked = line /\ c.exec \in {line, <<"&", "SP">> \o line}
  <2>1. CASE d = "powershell"
    <3> DEFINE back == <<"SP">> \o line
    <3>1. c.exec = <<"&", "SP">> \o line
      BY <1>4, <1>7, <2>1
    <3>2. Tail(<<"&", "SP">> \o line) = back
      BY <1>1, <1>8, WithoutOperator
    <3>3. TrimSpace(back) = line
      BY <1>6 DEF SeenAs
    <3> HIDE DEF back
    <3>4. QED
      BY <1>4, <2>1, <3>1, <3>2, <3>3 DEF Checked
  <2>2. CASE d = "sh"
    <3>1. c.exec = line
      BY <1>4, <1>7, <2>2
    <3>2. QED
      BY <1>4, <2>2, <3>1 DEF Checked
  <2>3. QED
    BY <1>2, <2>1, <2>2
<1>10. DialectForShell(c.shell) = d
  BY <1>4 DEF d
<1>11. Len(c.exec) \in Nat
  <2> DEFINE op == <<"&", "SP">>
  <2>1. op \in Seq(C)
    BY <1>1
  <2> HIDE DEF op
  <2>2. op \o line \in Seq(C)
    BY <1>8, <2>1, ConcatProperties
  <2>3. c.exec \in {line, op \o line}
    BY <1>9 DEF op
  <2>4. c.exec \in Seq(C)
    BY <1>8, <2>2, <2>3
  <2>5. QED
    BY <2>4, LenProperties
<1>12. QED
  BY <1>5, <1>6, <1>9, <1>10, <1>11 DEF OneCommand, c
(* What a normalised policy has of the policy it was made of. *)
Normalised(p, q) ==
  /\ q.execution = p.execution /\ q.allowed = {NormalizeExt(e) : e \in p.allowed}
  /\ \E S \in SUBSET p.interpreters :
       q.interpreters = Stored(S) /\ KeysOf(S) = KeysOf(p.interpreters)

(* That is what NormalizeRunScriptPolicy keeps.                             *)
LEMMA PolicyKept ==
  ASSUME NEW p \in RunScriptPolicies, NEW q \in NormalizeRunScriptPolicy(p)
  PROVE  Normalised(p, q)
<1>1. p = [ allowed |-> p.allowed, interpreters |-> p.interpreters, maxArgs |-> p.maxArgs,
            maxArgBytes |-> p.maxArgBytes, execution |-> p.execution ]
  BY DEF RunScriptPolicies
<1>2. PICK S \in SUBSET p.interpreters :
        /\ KeysOf(S) = KeysOf(p.interpreters)
        /\ q = [p EXCEPT !.allowed = {NormalizeExt(e) : e \in p.allowed}, !.interpreters = Stored(S)]
  BY DEF NormalizeRunScriptPolicy
<1> DEFINE A == {NormalizeExt(e) : e \in p.allowed}
           I == Stored(S)
<1> HIDE DEF A, I
<1>3. q = [p EXCEPT !.allowed = A, !.interpreters = I]
  BY <1>2 DEF A, I
<1>4. q.allowed = A /\ q.interpreters = I /\ q.execution = p.execution
  BY <1>1, <1>3
<1>5. QED
  BY <1>2, <1>4 DEF Normalised, A, I

(* The interpreters that the host has for an extension, however written. *)
GivenFor(p, n) == {m.runs : m \in {k \in p.interpreters : k.ext.name = n}}

(* An interpreter that is found is one the host has for the extension, or   *)
(* for none when it has no other (lookupInterpreter).                       *)
LEMMA LookedUp ==
  ASSUME NEW p \in RunScriptPolicies, NEW q, Normalised(p, q), NEW ext,
         NEW runs \in LookupInterpreter(q, ext)
  PROVE  /\ runs \in Interpreters
         /\ runs \in IF GivenFor(p, ext) # {} THEN GivenFor(p, ext) ELSE GivenFor(p, NoExtension)
<1>1. PICK S \in SUBSET p.interpreters :
        q.interpreters = Stored(S) /\ KeysOf(S) = KeysOf(p.interpreters)
  BY DEF Normalised
<1>2. \A m \in p.interpreters : m.runs \in Interpreters
  BY DEF RunScriptPolicies
<1>3. ASSUME NEW n, NEW r \in RunsFor(q, n) PROVE r \in GivenFor(p, n)
  <2>1. PICK m \in q.interpreters : m.ext = Ext(n) /\ r = m.runs
    BY <1>3 DEF RunsFor
  <2>2. PICK k \in S : m = NormalizeMapping(k)
    BY <1>1, <2>1 DEF Stored
  <2>3. NormalizeExt(k.ext) = Ext(n) /\ r = k.runs
    BY <2>1, <2>2 DEF NormalizeMapping
  <2>4. k.ext.name = n
    BY <2>3 DEF NormalizeExt, Ext
  <2>5. k \in p.interpreters
    BY <1>1, <2>2
  <2>6. QED
    BY <2>3, <2>4, <2>5 DEF GivenFor
<1>4. ASSUME NEW n, n # NoExtension, GivenFor(p, n) # {} PROVE RunsFor(q, n) # {}
  <2>1. PICK k \in p.interpreters : k.ext.name = n
    BY <1>4 DEF GivenFor
  <2>2. NormalizeExt(k.ext) = Ext(n)
    BY <1>4, <2>1 DEF NormalizeExt, Ext
  <2>3. Ext(n) \in KeysOf(S)
    BY <1>1, <2>1, <2>2 DEF KeysOf
  <2>4. PICK j \in S : NormalizeExt(j.ext) = Ext(n)
    BY <2>3 DEF KeysOf
  <2>5. NormalizeMapping(j) \in q.interpreters /\ NormalizeMapping(j).ext = Ext(n)
    BY <1>1, <2>4 DEF Stored, NormalizeMapping
  <2>6. QED
    BY <2>5 DEF RunsFor
<1>5. runs \in IF RunsFor(q, ext) # {} THEN RunsFor(q, ext) ELSE RunsFor(q, NoExtension)
  BY DEF LookupInterpreter
<1>6. runs \in IF GivenFor(p, ext) # {} THEN GivenFor(p, ext) ELSE GivenFor(p, NoExtension)
  <2>1. CASE ext = NoExtension
    BY <1>3, <1>5, <2>1
  <2>2. CASE ext # NoExtension /\ RunsFor(q, ext) # {}
    <3>1. runs \in GivenFor(p, ext)
      BY <1>3, <1>5, <2>2
    <3>2. QED
      BY <3>1
  <2>3. CASE ext # NoExtension /\ RunsFor(q, ext) = {}
    BY <1>3, <1>4, <1>5, <2>3
  <2>4. QED
    BY <2>1, <2>2, <2>3
<1>7. runs \in Interpreters
  BY <1>2, <1>6 DEF GivenFor
<1>8. QED
  BY <1>6, <1>7

(* A limit that is in force is at most the hard one and, if it is set, at   *)
(* most what it is set to (effectiveTimeout, effectiveMaxCommandLength).    *)
LEMMA Clamped ==
  ASSUME NEW v \in Int, NEW default \in Nat \ {0}, NEW hard \in Nat \ {0}
  PROVE  /\ Clamp(v, default, hard) \in 1..hard
         /\ v > 0 => Clamp(v, default, hard) <= v
BY DEF Clamp

(* A command that is one segment and is not rejected is not blocked.        *)
LEMMA NotBlocked ==
  ASSUME NEW s, NEW d, NEW words, SeenAs(s, d, words), NEW blocked, NEW windows, NEW heuristics,
         ~RejectDangerousCommand(s, d, windows, blocked, heuristics)
  PROVE  Unwrap(words) \notin blocked
<1> DEFINE one == <<s>>
<1>1. TrimSpace(s) = s /\ Segments(s, d) = one /\ ShellFields(s, d) = words
  BY DEF SeenAs
<1>2. s \in ToSet(one)
  <2>1. 1 \in DOMAIN one /\ one[1] = s
    OBVIOUS
  <2> HIDE DEF one
  <2>2. QED
    BY <2>1 DEF ToSet
<1> HIDE DEF one
<1>3. ~IsBlocked(Unwrap(ShellFields(s, d)), Blocklist(d, windows, blocked), windows)
  BY <1>1, <1>2 DEF RejectDangerousCommand
<1>4. QED
  BY <1>1, <1>3 DEF IsBlocked, Blocklist

(* What b, as the host made it, allows of the call a. *)
AllowedBy(b, a, cmd) ==
  LET p == b.policy
      own == p.execution.timeout # 0 \/ p.execution.maxCommandLength # 0 \/ p.execution.allowDangerous
      limits == IF own THEN p.execution ELSE b.execution
  IN /\ p.allowed # {} => \E e \in p.allowed : e.name = a.ext
     /\ cmd.runs \in IF GivenFor(p, a.ext) # {} THEN GivenFor(p, a.ext) ELSE GivenFor(p, NoExtension)
     /\ Unwrap(SeenWords(cmd)) \notin b.blocked
     /\ cmd.timeout \in 1..HardMaxTimeout /\ Len(cmd.exec) <= HardMaxCommandLength
     /\ limits.timeout > 0 => cmd.timeout <= limits.timeout
     /\ limits.maxCommandLength > 0 => Len(cmd.exec) <= limits.maxCommandLength

(* The exec tool keeps what it was made with, but for its policy, which is  *)
(* normalised (NewExecTool).                                                *)
ToolOf(b, t) ==
  /\ Normalised(b.policy, t.policy)
  /\ t.execution = b.execution /\ t.blocked = b.blocked

(* The limits in force are the host's.                                      *)
LEMMA LimitsOf ==
  ASSUME NEW b \in ExecTools, NEW t, ToolOf(b, t)
  PROVE  LET own == \/ b.policy.execution.timeout # 0 \/ b.policy.execution.maxCommandLength # 0
                    \/ b.policy.execution.allowDangerous
         IN /\ Execution(t) = IF own THEN b.policy.execution ELSE b.execution
            /\ Execution(t) \in Executions
<1> DEFINE x == b.policy.execution
<1>1. x \in Executions /\ b.execution \in Executions
  BY DEF ExecTools, RunScriptPolicies
<1>2. t.policy.execution = x /\ t.execution = b.execution
  BY DEF ToolOf, Normalised
<1> HIDE DEF x
<1>3. x = NoLimits <=> ~(x.timeout # 0 \/ x.maxCommandLength # 0 \/ x.allowDangerous)
  <2>1. /\ x = [ timeout |-> x.timeout, maxCommandLength |-> x.maxCommandLength,
                 allowDangerous |-> x.allowDangerous ]
        /\ x.allowDangerous \in BOOLEAN
    BY <1>1 DEF Executions
  <2>2. x = NoLimits => x.timeout = 0 /\ x.maxCommandLength = 0 /\ x.allowDangerous = FALSE
    BY DEF NoLimits
  <2>3. QED
    BY <2>1, <2>2 DEF NoLimits
<1>4. Execution(t) = IF x = NoLimits THEN b.execution ELSE x
  BY <1>2 DEF Execution, EffectiveExecution
<1>5. QED
  BY <1>1, <1>3, <1>4 DEF x

(* Every command of runScript is one that the host allows and that is one   *)
(* command of its words.                                                    *)
THEOREM ScriptsAllowed ==
  ASSUME NEW b \in ExecTools, NEW t, ToolOf(b, t), NEW a,
         a.script \in Seq(STRING), a.args \in Seq(Seq(STRING)),
         NEW cmd \in ScriptCommands(t, a)
  PROVE  OneCommand(cmd) /\ AllowedBy(b, a, cmd)
<1> DEFINE p == b.policy
           x == Execution(t)
<1>1. p \in RunScriptPolicies /\ Normalised(p, t.policy) /\ t.blocked = b.blocked
  BY DEF ExecTools, ToolOf
<1>2. /\ ~ArgumentsRefused(t.policy, a) /\ Passes(t, cmd)
      /\ \E runs \in LookupInterpreter(t.policy, a.ext) :
           \E shell \in SelectShell(runs.shell, t.shells, t.windows) \ {"cmd"} :
              cmd = ScriptCommand(t, a, runs, shell)
  BY DEF ScriptCommands
<1>3. PICK runs \in LookupInterpreter(t.policy, a.ext) : \E shell :
        shell # "cmd" /\ cmd = ScriptCommand(t, a, runs, shell)
  BY <1>2
<1>4. PICK shell : shell # "cmd" /\ cmd = ScriptCommand(t, a, runs, shell)
  BY <1>3
<1>5. /\ runs \in Interpreters
      /\ runs \in IF GivenFor(p, a.ext) # {} THEN GivenFor(p, a.ext) ELSE GivenFor(p, NoExtension)
  BY <1>1, <1>3, LookedUp
<1>6. OneCommand(cmd)
  BY <1>4, <1>5, ScriptIsOneCommand
<1>7. cmd.runs = runs /\ cmd.timeout = EffectiveTimeout(x)
  BY <1>4 DEF ScriptCommand
<1>8. p.allowed # {} => \E e \in p.allowed : e.name = a.ext
  <2>1. SUFFICES ASSUME p.allowed # {} PROVE \E e \in p.allowed : e.name = a.ext
    OBVIOUS
  <2>2. t.policy.allowed = {NormalizeExt(e) : e \in p.allowed}
    BY <1>1 DEF Normalised
  <2>3. t.policy.allowed # {}
    BY <2>1, <2>2
  <2>4. ExtAllowed(a.ext, t.policy.allowed)
    BY <1>2, <2>3 DEF ArgumentsRefused
  <2>5. PICK n \in t.policy.allowed : NormalizeExt(n).name = a.ext
    BY <2>4 DEF ExtAllowed
  <2>6. PICK e \in p.allowed : n = NormalizeExt(e)
    BY <2>2, <2>5
  <2>7. e.name = a.ext
    BY <2>5, <2>6 DEF NormalizeExt
  <2>8. QED
    BY <2>6, <2>7
<1>9. Unwrap(SeenWords(cmd)) \notin b.blocked
  <2>1. SeenAs(cmd.checked, DialectForShell(cmd.shell), SeenWords(cmd))
    BY <1>6 DEF OneCommand
  <2>2. ~RejectDangerousCommand(cmd.checked, DialectForShell(cmd.shell), t.windows, t.blocked, ~x.allowDangerous)
    BY <1>2 DEF Passes
  <2>3. Unwrap(SeenWords(cmd)) \notin t.blocked
    BY <2>1, <2>2, NotBlocked, Zenon
  <2>4. QED
    BY <1>1, <2>3
<1>10. /\ cmd.timeout \in 1..HardMaxTimeout /\ Len(cmd.exec) <= HardMaxCommandLength
       /\ x.timeout > 0 => cmd.timeout <= x.timeout
       /\ x.maxCommandLength > 0 => Len(cmd.exec) <= x.maxCommandLength
  <2> DEFINE most == EffectiveMaxCommandLength(x)
             len == Len(cmd.exec)
  <2>1. x \in Executions
    BY LimitsOf
  <2>2. x.timeout \in Int /\ x.maxCommandLength \in Int
    BY <2>1 DEF Executions
  <2>3. /\ DefaultTimeout \in Nat \ {0} /\ HardMaxTimeout \in Nat \ {0}
        /\ DefaultMaxCommandLength \in Nat \ {0} /\ HardMaxCommandLength \in Nat \ {0}
    BY LimitsAssumption
  <2>4. /\ most \in 1..HardMaxCommandLength
        /\ x.maxCommandLength > 0 => most <= x.maxCommandLength
    BY <2>2, <2>3, Clamped DEF EffectiveMaxCommandLength
  <2>5. len \in Nat /\ len <= most
    BY <1>2, <1>6 DEF OneCommand, Passes
  <2>6. /\ EffectiveTimeout(x) \in 1..HardMaxTimeout
        /\ x.timeout > 0 => EffectiveTimeout(x) <= x.timeout
    BY <2>2, <2>3, Clamped DEF EffectiveTimeout
  <2> HIDE DEF most, len, x
  <2>7. len <= HardMaxCommandLength /\ (x.maxCommandLength > 0 => len <= x.maxCommandLength)
    BY <2>2, <2>3, <2>4, <2>5
  <2>8. QED
    BY <1>7, <2>6, <2>7 DEF len
<1>11. LET own == \/ p.execution.timeout # 0 \/ p.execution.maxCommandLength # 0
                  \/ p.execution.allowDangerous
       IN x = IF own THEN p.execution ELSE b.execution
  BY LimitsOf
<1>12. cmd.runs \in IF GivenFor(p, a.ext) # {} THEN GivenFor(p, a.ext) ELSE GivenFor(p, NoExtension)
  BY <1>5, <1>7
<1> HIDE DEF x
<1>13. AllowedBy(b, a, cmd)
  BY <1>8, <1>9, <1>10, <1>11, <1>12 DEF AllowedBy
<1>14. QED
  BY <1>6, <1>13

(* What a call to runscript has come to is a command of the tool, as the    *)
(* host made it.                                                            *)
LEMMA ScriptOfCall ==
  ASSUME TInv, ContentInv, NEW c \in Callers, Succeeded(c), Tool(c) = "runscript"
  PROVE  OneCommand(answer[c].out.command) /\ AllowedBy(scene.box, Args(c), answer[c].out.command)
<1>1. TypesOK /\ CallOK(c) /\ Content(c) /\ BoxKept
  BY DEF TInv, ContentInv
<1>2. c \in DOMAIN scene.calls
  <2>1. call[c].step = "done"
    BY <1>1 DEF Succeeded, TypesOK, RegistryTypeOK
  <2>2. QED
    BY <1>1, <2>1 DEF CallOK
<1>3. PICK S \in Families : scene \in S
  BY <1>1 DEF TypesOK, RegistryTypeOK
<1> DEFINE b == scene.box
<1>4. b \in ExecTools /\ Args(c).script \in Seq(STRING) /\ Args(c).args \in Seq(Seq(STRING))
  BY <1>2, <1>3, ScriptAssumption DEF Args, Tool, Request
<1>5. ToolOf(b, box)
  <2>1. PICK p \in NormalizeRunScriptPolicy(b.policy) : box = [b EXCEPT !.policy = p]
    BY <1>1 DEF BoxKept
  <2> HIDE DEF b
  <2>2. b = [ policy |-> b.policy, execution |-> b.execution, blocked |-> b.blocked,
              shells |-> b.shells, windows |-> b.windows, process |-> b.process ]
    BY <1>4 DEF ExecTools
  <2>3. box.policy = p /\ box.execution = b.execution /\ box.blocked = b.blocked
    BY <2>1, <2>2
  <2>4. b.policy \in RunScriptPolicies
    BY <1>4 DEF ExecTools
  <2>5. Normalised(b.policy, box.policy)
    BY <2>1, <2>3, <2>4, PolicyKept
  <2>6. QED
    BY <2>3, <2>5 DEF ToolOf
<1>6. answer[c].out.command \in ScriptCommands(box, Args(c))
  BY <1>1 DEF Content
<1> HIDE DEF b
<1>7. OneCommand(answer[c].out.command) /\ AllowedBy(b, Args(c), answer[c].out.command)
  BY <1>4, <1>5, <1>6, ScriptsAllowed, SMTT(60)
<1>8. QED
  BY <1>7 DEF b

(* The command line that runscript makes of its words is one command of     *)
(* these words and nothing else to the filter that judges it, and what runs *)
(* is that line (CommandFromArgv against forEachSegment and shellFields).   *)
THEOREM OneCommandOfWords == Spec => []QuotedIsOneCommand
<1>1. TInv /\ ContentInv => QuotedIsOneCommand
  BY ScriptOfCall DEF QuotedIsOneCommand, OneCommand, SeenAs
<1>2. QED
  BY <1>1, Contents, PTL

(* What runscript runs is what the policy, as the host wrote it, allows:    *)
(* its extensions, its interpreters, no blocked command, and its limits, or *)
(* the exec tool's when it has none, within the hard ones (runScript,       *)
(* NormalizeRunScriptPolicy).                                               *)
THEOREM JustifiedScripts == Spec => []ScriptJustified
<1>1. TInv /\ ContentInv => ScriptJustified
  BY ScriptOfCall DEF ScriptJustified, AllowedBy, GivenFor
<1>2. QED
  BY <1>1, Contents, PTL
----------------------------------------------------------------------------
(* A call of shellcommand that was judged was refused if its line is, and   *)
(* only then.                                                               *)
Verdict(c) == Judged(c) => (answer[c].kind = "refused" <=> Rejected(c))
Verdicts == \A c \in Callers : Verdict(c)

(* Only the filter judges a call of shellcommand.                           *)
LEMMA CallJudges ==
  ASSUME TypesOK, NEW c \in Callers, CallOK(c), CallStep(c),
         call'[c].runs \in Builtins, answer'[c].kind \in {"ok", "refused"}, Tool(c) = "shellcommand"
  PROVE  answer'[c].kind = "refused" <=> Rejected(c)
<1>1. /\ call \in [Callers -> [ step: Steps, began: 0..MaxClock, until: 0..Never,
                                runs: Registrars \cup {Nobody} ]]
      /\ answer = [x \in Callers |-> answer[x]]
      /\ call[c].step # "done" => answer[c].kind = "none"
  BY DEF TypesOK, RegistryTypeOK
<1>2. answer[c].kind = "none"
  BY <1>1, CallFrame DEF Frame
<1>3. answer' # answer
  BY <1>2
<1>4. ASSUME NEW k, NEW out, Answer(c, k, out)
      PROVE  call'[c].runs = call[c].runs /\ answer'[c].kind = k
  BY <1>1, <1>4 DEF Answer, Goes
<1>5. ~Fails(c) /\ ~TimesOut(c)
  BY <1>4 DEF Fails, TimesOut
<1>6. Tool(c) \notin Editors \cup Readers \cup {"runscript"}
  BY DEF Editors, Readers
<1>7. ~BeginCall(c) /\ ~Lookup(c) /\ ~Decode(c)
  BY <1>3, <1>5 DEF BeginCall, Lookup, Decode
<1>8. ~HostTool(c)
  <2>1. SUFFICES ASSUME HostTool(c) PROVE FALSE
    OBVIOUS
  <2>2. Answer(c, "ok", <<>>) /\ call[c].runs \notin Builtins
    BY <1>5, <2>1 DEF HostTool
  <2>3. QED
    BY <1>4, <2>2
<1>9. ~TextStep(c)
  <2>1. call[c].step \in {"read", "compute", "write"} => Tool(c) \in Editors \cup Readers
    BY DEF CallOK
  <2>2. ~StartText(c) /\ ~ReadText(c) /\ ~Compute(c) /\ ~WriteText(c)
    BY <1>6, <2>1 DEF StartText, ReadText, Compute, WriteText
  <2>3. QED
    BY <2>2 DEF TextStep
<1>10. ~RunScript(c)
  BY <1>6 DEF RunScript
<1>11. ~TakeEnv(c)
  BY <1>3, <1>5 DEF TakeEnv
<1>12. RunLine(c)
  BY <1>7, <1>8, <1>9, <1>10, <1>11 DEF CallStep
<1>13. \/ Rejected(c) /\ Answer(c, "refused", <<>>)
       \/ ~Rejected(c) /\ Answer(c, "ok", <<>>)
  BY <1>5, <1>12 DEF RunLine
<1>14. QED
  BY <1>4, <1>13

(* What it answers stays so.                                                *)
LEMMA JudgedOnce ==
  ASSUME TInv, Verdicts, [Next]_vars
  PROVE  Verdicts'
<1>1. TypesOK /\ \A c \in Callers : CallOK(c)
  BY DEF TInv
<1>2. \/ Quiet
      \/ \E r \in Registrars : Register(r) /\ UNCHANGED <<file, held, box, session>>
      \/ \E c \in Callers : CallStep(c)
  BY <1>1, StepCases
<1>3. ASSUME UNCHANGED <<scene, box>>, NEW c \in Callers, call'[c] = call[c], answer'[c] = answer[c]
      PROVE  Verdict(c)'
  <2>1. Tool(c)' = Tool(c) /\ Args(c)' = Args(c)
    BY <1>3 DEF Tool, Args, Request
  <2>2. Judged(c)' <=> Judged(c)
    BY <1>3, <2>1 DEF Judged
  <2>3. Rejected(c)' <=> Rejected(c)
    BY <1>3, <2>1 DEF Rejected
  <2>4. Verdict(c)
    BY DEF Verdicts
  <2>5. QED
    BY <1>3, <2>2, <2>3, <2>4 DEF Verdict
<1>4. ASSUME NEW c \in Callers, CallStep(c) PROVE Verdicts'
  <2>1. CallOK(c)
    BY <1>1
  <2>2. /\ UNCHANGED <<scene, box>>
        /\ \A d \in Callers : d # c => call'[d] = call[d] /\ answer'[d] = answer[d]
    BY <1>1, <1>4, <2>1, CallFrame DEF Frame, Others
  <2>3. Tool(c)' = Tool(c) /\ Args(c)' = Args(c)
    BY <2>2 DEF Tool, Args, Request
  <2>4. Rejected(c)' <=> Rejected(c)
    BY <2>2, <2>3 DEF Rejected
  <2>5. Verdict(c)'
    <3>1. SUFFICES ASSUME Judged(c)' PROVE answer'[c].kind = "refused" <=> Rejected(c)'
      BY DEF Verdict
    <3>2. answer'[c].kind \in {"ok", "refused"} /\ call'[c].runs \in Builtins /\ Tool(c) = "shellcommand"
      BY <2>3, <3>1 DEF Judged
    <3>3. answer'[c].kind = "refused" <=> Rejected(c)
      BY <1>1, <1>4, <2>1, <3>2, CallJudges
    <3>4. QED
      BY <2>4, <3>3
  <2>6. \A d \in Callers : Verdict(d)'
    BY <1>3, <2>2, <2>5
  <2>7. QED
    BY <2>6 DEF Verdicts
<1>5. ASSUME UNCHANGED <<scene, call, answer, box>> PROVE Verdicts'
  BY <1>3, <1>5 DEF Verdicts
<1>6. QED
  BY <1>2, <1>4, <1>5 DEF Quiet, Register

(* The block list of a shell is the host's; cmd has format in it, too.      *)
LEMMA Listed ==
  ASSUME NEW d, NEW windows, NEW blocked, NEW name
  PROVE  IsBlocked(name, Blocklist(d, windows, blocked), windows)
         <=> \/ IsBlocked(name, blocked, windows)
             \/ windows /\ d = "cmd" /\ IsBlocked(name, {<<"format">>}, windows)
<1>1. <<"mkfs">> # <<"format">>
  OBVIOUS
<1>2. CASE windows /\ d = "cmd"
  <2>1. Blocklist(d, windows, blocked) = blocked \cup {<<"format">>}
    BY <1>2 DEF Blocklist
  <2>2. QED
    BY <1>1, <1>2, <2>1, Zenon DEF IsBlocked
<1>3. CASE ~(windows /\ d = "cmd")
  <2>1. Blocklist(d, windows, blocked) = blocked
    BY <1>3 DEF Blocklist
  <2>2. QED
    BY <1>3, <2>1
<1>4. QED
  BY <1>2, <1>3

(* What the filter is given is what the host made the tool with, and a line *)
(* that is composed of its parts.                                           *)
LEMMA LineOfCall ==
  ASSUME TInv, ContentInv, NEW c \in Callers, Judged(c), ~scene.box.execution.allowDangerous \/ ~LeavesRunning(c)
  PROVE  Rejected(c) <=>
           \/ RunsBlocked(c)
           \/ /\ ~scene.box.execution.allowDangerous
              /\ LeavesRunning(c) \/ LooksLikeForkBomb(TrimSpace(Args(c).line))
<1> DEFINE a == Args(c)
           b == scene.box
<1>1. TypesOK /\ CallOK(c) /\ BoxKept /\ Tool(c) = "shellcommand"
  BY DEF TInv, ContentInv, Judged
<1>2. c \in DOMAIN scene.calls
  <2>1. call[c].step = "done"
    BY <1>1 DEF Judged, TypesOK, RegistryTypeOK
  <2>2. QED
    BY <1>1, <2>1 DEF CallOK
<1>3. PICK S \in Families : scene \in S
  BY <1>1 DEF TypesOK, RegistryTypeOK
<1>4. a.dialect \in Dialects /\ IsLine(a.dialect, a.parts) /\ TrimSpace(a.line) = LineText(a.dialect, a.parts)
  BY <1>1, <1>2, <1>3, LineAssumption DEF Args, Tool, Request
<1>5. b \in ExecTools
  BY <1>3, ScriptAssumption
<1> HIDE DEF a, b
<1>6. <<>> \notin b.blocked /\ b.blocked \subseteq Seq(STRING) /\ b.windows \in BOOLEAN
  BY <1>5 DEF ExecTools
<1>7. box.blocked = b.blocked /\ box.execution = b.execution /\ box.windows = b.windows
  <2>1. PICK p \in NormalizeRunScriptPolicy(b.policy) : box = [b EXCEPT !.policy = p]
    BY <1>1 DEF BoxKept, b
  <2>2. b = [ policy |-> b.policy, execution |-> b.execution, blocked |-> b.blocked,
              shells |-> b.shells, windows |-> b.windows, process |-> b.process ]
    BY <1>5 DEF ExecTools
  <2>3. QED
    BY <2>1, <2>2
<1> DEFINE list == Blocklist(a.dialect, b.windows, b.blocked)
           looks == ~b.execution.allowDangerous
<1>8. Rejected(c) <=> RejectDangerousCommand(a.line, a.dialect, b.windows, b.blocked, looks)
  BY <1>7 DEF Rejected, a
<1>9. LeavesRunning(c) <=> Backgrounds(a.dialect, a.parts)
  BY DEF LeavesRunning, a
<1>10. looks \/ ~Backgrounds(a.dialect, a.parts)
  BY <1>9 DEF b
<1>11. RunsBlocked(c) <=> \E name \in CommandsOf(a.parts) : IsBlocked(name, list, b.windows)
  <2>1. \A name : IsBlocked(name, list, b.windows)
                 <=> \/ IsBlocked(name, b.blocked, b.windows)
                     \/ b.windows /\ a.dialect = "cmd" /\ IsBlocked(name, {<<"format">>}, b.windows)
    BY <1>6, Listed, Zenon
  <2> HIDE DEF list
  <2>2. QED
    <3>1. RunsBlocked(c) <=> \E name \in CommandsOf(a.parts) :
                               \/ IsBlocked(name, b.blocked, b.windows)
                               \/ b.windows /\ a.dialect = "cmd" /\ IsBlocked(name, {<<"format">>}, b.windows)
      BY DEF RunsBlocked, a, b
    <3>2. QED
      BY <2>1, <3>1
<1> HIDE DEF looks
<1>12. Rejected(c) <=>
         \/ \E name \in CommandsOf(a.parts) : IsBlocked(name, list, b.windows)
         \/ looks /\ (Backgrounds(a.dialect, a.parts) \/ LooksLikeForkBomb(TrimSpace(a.line)))
  BY <1>4, <1>6, <1>8, <1>10, LineJudged, Zenon
<1> HIDE DEF list
<1>13. QED
  BY <1>9, <1>11, <1>12 DEF a, b, looks

(* A line that is composed of commands, however they are quoted, wrapped    *)
(* and joined, is refused exactly when one of the commands is blocked, or,  *)
(* with the heuristics on, a lone & of sh leaves one in the background or   *)
(* there is a fork bomb in it; of a lone & with the heuristics off, which   *)
(* lets blocked commands pass, nothing is said (RejectDangerousCommand      *)
(* against the parts that make up the line).                                *)
THEOREM FilteredLines == Spec => []FilterAgrees
<1>1. Init => Verdicts
  <2>1. Init => \A c \in Callers : answer[c].kind = "none"
    BY DEF Init, RegistryInit
  <2>2. QED
    BY <2>1 DEF Verdicts, Verdict, Judged
<1>2. TInv /\ Verdicts /\ [Next]_vars => Verdicts'
  BY JudgedOnce
<1>3. TInv /\ ContentInv /\ Verdicts => FilterAgrees
  BY LineOfCall DEF Verdicts, Verdict, FilterAgrees
<1>4. QED
  BY <1>1, <1>2, <1>3, Contents, PTL DEF Spec
============================================================================
