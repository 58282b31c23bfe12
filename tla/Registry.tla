------------------------------ MODULE Registry ------------------------------
(* The tool registry: registration under one lock, and calls, which read    *)
(* the timeout and look the tool up in critical sections of their own. What *)
(* the tool then does is for the modules that extend this one.              *)
EXTENDS Integers, Sequences, FiniteSets

CONSTANTS
  Callers,      \* calls of Registry.Call, one each
  Registrars,   \* calls that register tools, one list each
  Builtins,     \* those of them that are RegisterBuiltins
  FuncIDs,
  Nobody,
  Families,     \* sets of scenes to consider: what does not change in a behaviour
  MaxClock

VARIABLES
  scene,        \* of one of Families
  tools,        \* toolMap: who registered the tool of an id
  reg,          \* of each registrar: the next of its list, and whether it failed
  now,          \* the clock
  cancelled,    \* the calls whose caller has cancelled them
  call,         \* of each call: its step, when it began, when its context ends, whose tool it runs
  answer        \* of each call: what it returned

regVars == <<scene, tools, reg, now, cancelled, call, answer>>

Never == MaxClock + 1

ASSUME RegistryAssumption ==
  /\ MaxClock \in Nat
  /\ Builtins \subseteq Registrars /\ Nobody \notin Registrars
  /\ \A S \in Families : \A s \in S :
       /\ s.timeout \in Int /\ s.clock \in 0..MaxClock
       /\ s.lists \in [Registrars -> Seq(FuncIDs)]
       /\ DOMAIN s.calls \subseteq Callers
       /\ \A c \in DOMAIN s.calls : /\ s.calls[c].id \in FuncIDs
                                    /\ s.calls[c].opts \in Seq(Int)
                                    /\ s.calls[c].parent \in 0..Never

Request(c) == scene.calls[c]

Steps == {"idle", "lookup", "decode", "tool", "read", "compute", "write", "run", "done"}
Kinds == {"none", "ok", "error", "ctx", "refused"}

RegistryTypeOK ==
  /\ \E S \in Families : scene \in S
  /\ tools \in [FuncIDs -> Registrars \cup {Nobody}]
  /\ reg \in [Registrars -> [next: Nat \ {0}, failed: BOOLEAN]]
  /\ now \in 0..MaxClock
  /\ cancelled \subseteq Callers
  /\ call \in [Callers -> [ step: Steps, began: 0..MaxClock, until: 0..Never,
                            runs: Registrars \cup {Nobody} ]]
  /\ \A c \in Callers : /\ answer[c].kind \in Kinds
                        /\ answer[c].kind # "none" <=> call[c].step = "done"

RegistryInit ==
  /\ \E S \in Families : scene \in S
  /\ tools = [f \in FuncIDs |-> Nobody]
  /\ reg = [r \in Registrars |-> [next |-> 1, failed |-> FALSE]]
  /\ now = 0
  /\ cancelled = {}
  /\ call = [c \in Callers |-> [step |-> "idle", began |-> 0, until |-> Never, runs |-> Nobody]]
  /\ answer = [c \in Callers |-> [kind |-> "none", out |-> <<>>]]

----------------------------------------------------------------------------
(* A registrar goes through its list; on an error RegisterBuiltins gives up. *)
Registers(r) == ~reg[r].failed /\ reg[r].next <= Len(scene.lists[r])

(* Faulty variant: the tool is stored whether or not there is one. *)
RegisterAnyway(r) ==
  /\ Registers(r)
  /\ tools' = [tools EXCEPT ![scene.lists[r][reg[r].next]] = r]
  /\ reg' = [reg EXCEPT ![r].next = @ + 1]
  /\ UNCHANGED <<scene, now, cancelled, call, answer>>

(* RegisterTool. A tool of the host can also fail the checks that come      *)
(* before the lock.                                                         *)
Register(r) ==
  /\ Registers(r)
  /\ LET id == scene.lists[r][reg[r].next] IN
     \/ /\ tools[id] = Nobody
        /\ tools' = [tools EXCEPT ![id] = r]
        /\ reg' = [reg EXCEPT ![r].next = @ + 1]
     \/ /\ tools[id] # Nobody \/ r \notin Builtins
        /\ reg' = [reg EXCEPT ![r].failed = TRUE]
        /\ UNCHANGED tools
  /\ UNCHANGED <<scene, now, cancelled, call, answer>>

----------------------------------------------------------------------------
CtxDone(c) == c \in cancelled \/ now >= call[c].until

Goes(c, s) == call' = [call EXCEPT ![c].step = s]
Answer(c, k, out) ==
  /\ answer' = [answer EXCEPT ![c] = [kind |-> k, out |-> out]]
  /\ Goes(c, "done")
Fails(c) == Answer(c, "error", <<>>)
TimesOut(c) == CtxDone(c) /\ Answer(c, "ctx", <<>>)

(* Faulty variant: of two options the first wins. *)
FirstOption(c) ==
  IF Request(c).opts = <<>> THEN scene.timeout ELSE Head(Request(c).opts)

(* The last WithCallTimeout, else the registry's timeout. *)
AskedTimeout(c) ==
  IF Request(c).opts = <<>> THEN scene.timeout ELSE Request(c).opts[Len(Request(c).opts)]

EffectiveCallTimeout(c) == IF AskedTimeout(c) < 0 THEN 0 ELSE AskedTimeout(c)

(* Faulty variant: the timeout takes the place of the caller's deadline. *)
DeadlineReplaced(c) ==
  IF EffectiveCallTimeout(c) > 0 THEN now + EffectiveCallTimeout(c) ELSE Request(c).parent

(* context.WithTimeout never extends the caller's deadline. *)
Deadline(c) ==
  LET end == now + EffectiveCallTimeout(c)
  IN IF EffectiveCallTimeout(c) > 0 /\ end < Request(c).parent THEN end ELSE Request(c).parent

BeginCall(c) ==
  /\ call[c].step = "idle" /\ c \in DOMAIN scene.calls
  /\ call' = [call EXCEPT ![c].step = "lookup", ![c].began = now, ![c].until = Deadline(c)]
  /\ UNCHANGED <<scene, tools, reg, now, cancelled, answer>>

Lookup(c) ==
  /\ call[c].step = "lookup"
  /\ LET r == tools[Request(c).id] IN
     \/ r = Nobody /\ Fails(c)
     \/ /\ r # Nobody
        /\ call' = [call EXCEPT ![c].step = "decode", ![c].runs = r]
        /\ UNCHANGED answer
  /\ UNCHANGED <<scene, tools, reg, now, cancelled>>

(* typedToText and typedToOutputs: what does not decode is an error. *)
Decode(c) ==
  /\ call[c].step = "decode" /\ call[c].runs \in Builtins
  /\ (Goes(c, "tool") /\ UNCHANGED answer) \/ Fails(c)
  /\ UNCHANGED <<scene, tools, reg, now, cancelled>>

(* A tool of the host returns, ends with its context, or fails; a panic is  *)
(* recovered in Call and is an error.                                       *)
HostTool(c) ==
  /\ call[c].step = "decode" /\ call[c].runs \notin Builtins
  /\ Answer(c, "ok", <<>>) \/ TimesOut(c) \/ Fails(c)
  /\ UNCHANGED <<scene, tools, reg, now, cancelled>>

Cancel(c) ==
  /\ call[c].step \notin {"idle", "done"} /\ c \notin cancelled /\ Request(c).cancels
  /\ cancelled' = cancelled \cup {c}
  /\ UNCHANGED <<scene, tools, reg, now, call, answer>>

Tick ==
  /\ now < scene.clock /\ now' = now + 1
  /\ UNCHANGED <<scene, tools, reg, cancelled, call, answer>>

RegistryStep ==
  \/ \E r \in Registrars : Register(r)
  \/ \E c \in Callers : BeginCall(c) \/ Lookup(c) \/ Decode(c) \/ HostTool(c) \/ Cancel(c)
  \/ Tick

(* What a successful registration or a lookup found stays true: a tool is   *)
(* never replaced, so of all registrations of an id one succeeds, and       *)
(* every call runs that one's function (RegisterTool and Lookup).           *)
RegistrationHolds ==
  /\ \A r \in Registrars : \A i \in 1..(reg[r].next - 1) : tools[scene.lists[r][i]] = r
  /\ \A c \in Callers : call[c].runs # Nobody => tools[Request(c).id] = call[c].runs

(* A call that ends with a context error was cancelled, or its caller's     *)
(* deadline passed, or the timeout that counts, the last option or else the *)
(* registry's, passed since it began; one that is not positive never does   *)
(* (the choice of timeout in Call).                                         *)
TimeoutJustified ==
  \A c \in Callers : answer[c].kind = "ctx" =>
    \/ c \in cancelled
    \/ Request(c).parent <= now
    \/ /\ Request(c).opts = <<>> /\ scene.timeout > 0
       /\ call[c].began + scene.timeout <= now
    \/ /\ Request(c).opts # <<>>
       /\ LET last == Request(c).opts[Len(Request(c).opts)]
          IN last > 0 /\ call[c].began + last <= now
===========================================================================
