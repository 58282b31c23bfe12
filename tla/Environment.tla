---------------------------- MODULE Environment ----------------------------
(* The environment of a command: the process's, the session's and the       *)
(* call's variables. A name as it is written is a record of the name itself *)
(* and of its spelling; on Unix spaces around it are cut off, on Windows    *)
(* capitals do not matter either.                                           *)
EXTENDS Naturals, FiniteSets

Spellings == {"exact", "spaced", "capital"}

(* canonicalEnvKey(TrimSpace(k)), as a spelling that stands for others. A   *)
(* variable is a record of key, spelling and value.                         *)
Folded(windows, v) ==
  [v EXCEPT !.spelling = IF windows \/ @ # "capital" THEN "exact" ELSE "capital"]
EnvKey(windows, v) == <<v.key, Folded(windows, v).spelling>>
Named(v) == v.key # ""

Keys(windows, vars) == {EnvKey(windows, v) : v \in vars}
(* A map that is written into another, in the order of its iteration: of    *)
(* variables with one key any can be the last.                              *)
Survivors(windows, vars) ==
  {S \in SUBSET vars : /\ Keys(windows, S) = Keys(windows, vars)
                       /\ \A u, v \in S : EnvKey(windows, u) = EnvKey(windows, v) => u = v}
(* Faulty variant: the lower layer wins. *)
Under(windows, upper, lower) ==
  lower \cup {v \in upper : EnvKey(windows, v) \notin Keys(windows, lower)}

Over(windows, upper, lower) ==
  upper \cup {v \in lower : EnvKey(windows, v) \notin Keys(windows, upper)}

(* A map of the program: no two variables are written alike. *)
IsMap(vars) ==
  /\ \A u, v \in vars : u.key = v.key /\ u.spelling = v.spelling => u = v
  /\ \A v \in vars : /\ v = [key |-> v.key, spelling |-> v.spelling, value |-> v.value]
                     /\ v.spelling \in Spellings

(* GetEffectiveEnv: what each variable may be. *)
EffectiveEnvs(windows, process, session, overrides) ==
  {Over(windows, o, Over(windows, s, p)) :
     o \in Survivors(windows, {v \in overrides : Named(v)}),
     s \in Survivors(windows, session), p \in Survivors(windows, process)}

(* ValidateEnvMap, with the number of variables as the only limit. *)
ValidEnvMap(vars, limit) == Cardinality(vars) <= limit /\ \A v \in vars : Named(v)

(* AddToEnv: on Windows the whole map is folded, elsewhere it is copied as  *)
(* it is written.                                                           *)
AddToEnv(windows, session, added) ==
  IF windows
  THEN {{Folded(windows, v) : v \in Over(windows, a, s)} :
          a \in Survivors(windows, added), s \in Survivors(windows, session)}
  ELSE {added \cup {v \in session :
          \A a \in added : a.key # v.key \/ a.spelling # v.spelling}}
===========================================================================
