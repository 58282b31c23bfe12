---------------------------- MODULE MCShellCommand ----------------------------
(* An instance of ShellCommand for TLC: two goroutines, a store that holds *)
(* one session, so that each new session evicts the other's, and requests  *)
(* that between them take every path through the handler.                  *)
EXTENDS ShellCommand

CONSTANTS s1, s2, s3, path, home, good, bad, root, sub, outside

MCIds == {s1, s2, s3}
MCNoChange == {}

MCRequest(session, dir, e, commands, parallel) ==
    [session |-> session, workdir |-> dir, env |-> e,
     commands |-> commands, parallel |-> parallel]

Only(key, value) == [NoEnv EXCEPT ![key] = value]

MCRequests ==
    { MCRequest(NoId, sub, Only(path, good), <<"plain", "blocked">>, FALSE),
      MCRequest(NoId, outside, NoEnv, <<"plain">>, TRUE),
      MCRequest(s1, sub, Only(path, bad), <<"plain">>, FALSE),
      MCRequest(s1, NoDir, Only(home, good), <<"plain", "plain">>, TRUE),
      MCRequest(s1, sub, NoEnv, <<"plain", "plain">>, FALSE) }
===============================================================================
