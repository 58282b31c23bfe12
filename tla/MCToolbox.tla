----------------------------- MODULE MCToolbox -----------------------------
(* Scenes for the toolbox: few calls with all that can happen around them,  *)
(* or one call on one of many inputs.                                       *)
EXTENDS Toolbox, TLC

CONSTANTS c1, c2, builtins, host

Plain == [timeout |-> 0, maxCommandLength |-> 0, allowDangerous |-> FALSE]
SomePolicy == [allowed |-> {}, interpreters |-> {}, maxArgs |-> 0, maxArgBytes |-> 0, execution |-> Plain]
SomeBox == [ policy |-> SomePolicy, execution |-> Plain, blocked |-> {<<"rm">>, <<"mkfs">>},
             shells |-> {"sh"}, windows |-> FALSE, process |-> {} ]
Scene(ids, calls) ==
  [ timeout |-> 0, clock |-> 0, lists |-> (builtins :> ids @@ host :> <<>>), calls |-> calls,
    file |-> <<>>, box |-> SomeBox ]
Ask(id, args) == [id |-> id, opts |-> <<>>, parent |-> Never, cancels |-> FALSE, args |-> args]
One(id, args) == Scene(<<id>>, c1 :> Ask(id, args))

(* Registration and deadlines. *)
TimedScenes ==
  {[Scene(<<"readtextrange", "findtext">>,
          c1 :> [id |-> id, opts |-> o, parent |-> p, cancels |-> FALSE,
                 args |-> [start |-> <<>>, end |-> <<>>]])
      EXCEPT !.timeout = t, !.clock = 2, !.lists[host] = <<"hosttool", "readtextrange">>,
             !.file = <<"x">>] :
     id \in {"readtextrange", "hosttool"}, t \in {-1, 0, 1}, p \in {1, Never},
     o \in {<<>>, <<0>>, <<-1>>, <<2>>, <<1, 0>>, <<0, 1>>}}

(* The inputs of the text tools. *)
MCSymbols == {"x", "y", "SP", "LF", "CR"}
X == <<"x">>  Y == <<"y">>  SX == <<"SP", "x">>  E == <<>>
LineSets == {<<>>, <<E>>, <<X>>, <<X, Y>>, <<Y, SX>>, <<X, E, Y>>, <<X, X, Y>>, <<SX, Y, X>>,
             <<Y, X, Y, X>>, <<X, X, X>>, <<X, Y, X, E>>}
Texts == {Render([crlf |-> b, final |-> f, lines |-> l]) : b \in BOOLEAN, f \in BOOLEAN, l \in LineSets}
         \cup {<<"x", "CR", "y">>, <<"x", "CR", "LF", "y", "LF", "x">>, <<"CR">>,
               <<"x", "CR", "CR", "LF", "y">>, <<"y", "LF", "x", "CR">>}
Blocks == {<<X>>, <<X, Y>>, << <<"x", "CR", "LF", "x", "LF">> >>}

EditRequests ==
  {Ask("replacetextlines", [match |-> m, before |-> b, after |-> a, with |-> w, expected |-> n]) :
     m \in Blocks, b \in {<<>>, <<Y>>}, a \in {<<>>, <<Y>>},
     w \in {<<E>>, <<Y, <<"x", "LF", "y">> >>}, n \in {{}, {2}}}
  \cup {Ask("replacetextlines", [match |-> m, before |-> <<>>, after |-> <<>>, with |-> w, expected |-> {0}]) :
     m \in {<<>>, <<X>>}, w \in {<<>>, <<Y>>}}
  \cup {Ask("deletetextlines", [match |-> m, before |-> b, after |-> <<>>, expected |-> n]) :
     m \in Blocks \cup {<<>>}, b \in {<<>>, <<Y>>}, n \in {{}, {0}, {2}, {3}}}
  \cup {Ask("inserttextlines", [position |-> p, lines |-> l, anchor |-> a]) :
     p \in {"", "start", "end", "beforeAnchor", "afterAnchor", "other"},
     l \in {<<Y, E>>}, a \in {<<>>, <<SX>>, <<X, Y>>}}
  \cup {Ask("inserttextlines", [position |-> "", lines |-> <<>>, anchor |-> <<>>])}
ReadRequests ==
  {Ask("findtext", [queryType |-> q, query |-> y, match |-> <<>>, contextLines |-> n, maxMatches |-> m]) :
     q \in {"substring", "regex"}, y \in {X, <<"SP", "x">>, <<"SP">>}, n \in {{}, {-1}, {1}}, m \in {0, 1, 2}}
  \cup {Ask("findtext", [queryType |-> "lineblock", query |-> E, match |-> b, contextLines |-> {1},
                         maxMatches |-> m]) : b \in Blocks, m \in {1, 2}}
  \cup {Ask("findtext", [queryType |-> "lineblock", query |-> X, match |-> <<X>>, contextLines |-> n,
                         maxMatches |-> m]) : n \in {{0}, {9}}, m \in {0, 9}}
  \cup {Ask("readtextrange", [start |-> s, end |-> e]) :
     s \in {<<>>, <<X>>, <<X, Y>>, <<Y>>}, e \in {<<>>, <<Y>>, <<Y, X>>}}
TextScenes ==
  {[Scene(<<r.id>>, c1 :> r) EXCEPT !.file = t] : t \in Texts, r \in EditRequests \cup ReadRequests}
CancelledScenes ==
  {[Scene(<<r.id>>, c1 :> [r EXCEPT !.cancels = TRUE]) EXCEPT !.file = <<"x", "LF", "y">>] :
     r \in EditRequests \cup ReadRequests}

(* Two editors, or an editor and a reader, of one file. *)
Few == {Ask("replacetextlines", [match |-> <<X>>, before |-> <<>>, after |-> <<>>, with |-> <<Y>>,
                                 expected |-> {}]),
        Ask("deletetextlines", [match |-> <<Y>>, before |-> <<>>, after |-> <<>>, expected |-> {}]),
        Ask("inserttextlines", [position |-> "end", lines |-> <<X>>, anchor |-> <<>>]),
        Ask("findtext", [queryType |-> "substring", query |-> X, match |-> <<>>, contextLines |-> {0},
                         maxMatches |-> 2])}
PairScenes ==
  {[Scene(<<r.id, q.id>>, (c1 :> r @@ c2 :> [q EXCEPT !.cancels = TRUE]))
      EXCEPT !.file = <<"x", "LF", "y", "LF">>] : r \in Few, q \in Few}

(* Scripts: policies as a host may write them, words that need quoting. *)
Runs(mode, shell) == [mode |-> mode, shell |-> shell, command |-> <<"SP", "a">>, args |-> <<<<"-", "b">>>>]
Odd(n) == [name |-> n, dot |-> FALSE, plain |-> FALSE]
Maps ==
  {{[ext |-> Ext("sh"), runs |-> Runs("shell", s)], [ext |-> Ext(""), runs |-> Runs("direct", "auto")]} :
     s \in {"auto", "sh", "powershell", "pwsh", "cmd"}}
  \cup {{[ext |-> Ext("sh"), runs |-> Runs("direct", "auto")],
         [ext |-> Odd("sh"), runs |-> Runs("interpreter", "auto")]},
        {[ext |-> Odd("sh"), runs |-> Runs("interpreter", "auto")],
         [ext |-> Ext(""), runs |-> Runs("direct", "auto")]},
        {[ext |-> Ext("py"), runs |-> Runs("direct", "auto")]},
        {[ext |-> Ext("sh"), runs |-> Runs("other", "auto")]}}
SomeMap == {[ext |-> Ext("sh"), runs |-> Runs("direct", "auto")]}
Limits == {Plain, [Plain EXCEPT !.timeout = 2], [Plain EXCEPT !.maxCommandLength = 9],
           [Plain EXCEPT !.allowDangerous = TRUE], [Plain EXCEPT !.timeout = 99]}
Policies ==
  {[SomePolicy EXCEPT !.interpreters = m, !.allowed = a] :
     m \in Maps, a \in {{}, {Odd("sh")}, {Ext("py"), Ext("")}}}
  \cup {[SomePolicy EXCEPT !.interpreters = SomeMap, !.maxArgs = n, !.maxArgBytes = b] :
        n \in {-1, 1, 2}, b \in {-1, 0, 3}}
Machines == {<<{"sh"}, FALSE>>, <<{"pwsh", "sh"}, FALSE>>, <<{"powershell", "cmd"}, TRUE>>}
ScriptRequests ==
  {Ask("runscript", [ext |-> x, script |-> <<"/", s>>, args |-> a, env |-> {}]) :
     x \in {"sh", "py", ""}, s \in {"a", "rm"},
     a \in {<<>>, <<<<>>, <<"a", "'", ";", "SP">>>>, <<<<"DQ", "'", "&">>, <<"#", "LF", "BS">>>>}}
  \cup {Ask("runscript", [ext |-> "sh", script |-> <<"/", "a">>, args |-> <<<<"a", "a", "a", "a", "a">>>>,
                          env |-> {}])}
ScriptScenes ==
  {[One("runscript", r.args) EXCEPT !.box.policy = p, !.box.shells = m[1], !.box.windows = m[2]] :
     r \in ScriptRequests, p \in Policies, m \in Machines}
  \cup {[One("runscript", r.args) EXCEPT !.box.policy.interpreters = SomeMap,
            !.box.policy.execution = e, !.box.execution = f] :
          r \in ScriptRequests, e \in Limits, f \in {Plain, [Plain EXCEPT !.timeout = 1]}}

(* Lines of parts: a name in many ways, with what may stand around it.      *)
Piece(form, run) == [form |-> form, run |-> run]
Word(pieces) == [pieces |-> pieces, gap |-> <<"SP">>]
Bare(symbols) == Word([i \in DOMAIN symbols |-> Piece("bare", <<symbols[i]>>)])
Part(words) == [ lead |-> <<>>, words |-> [words EXCEPT ![Len(words)].gap = <<>>], end |-> <<>> ]
Then(p, gap, end) == [p EXCEPT !.words[Len(p.words)].gap = gap, !.end = end]
NoPart == [lead |-> <<>>, words |-> <<>>, end |-> <<>>]

PartsOf(d) ==
  UNION {{ Part(<<Bare(<<n>>)>>), Part(<<Bare(<<"/", n>>), Bare(<<"-", "b">>)>>),
           Part(<<Word(<<Piece("double", <<n>>)>>)>>),
           Part(<<Word(<<Piece("double", <<n, ";", "&", "|">>)>>)>>),
           Part(<<Bare(<<"env">>), Bare(<<"a", "=", "b">>), Bare(<<n>>)>>),
           Part(<<Bare(<<"command">>), Bare(<<"-", "b">>), Bare(<<n>>), Bare(<<"a">>)>>),
           Part(<<Bare(<<"ls">>), Word(<<Piece("escaped", <<"|">>), Piece("bare", <<n>>)>>)>>) } :
         n \in {"rm", "ls"}}
  \cup {Part(<<Bare(<<"RM">>)>>), Part(<<Bare(<<"mkfs">>)>>),
        Part(<<Bare(<<"command">>), Bare(<<"env">>)>>)}
  \cup (IF d = "cmd" THEN {}
        ELSE {Part(<<Word(<<Piece("single", <<"rm">>)>>), Bare(<<"a">>)>>),
              Part(<<Bare(<<"ls">>), Word(<<Piece("single", <<";", "rm">>)>>)>>),
              Part(<<Bare(<<"ls">>), Word(<<Piece("redirection", <<">", "&">>), Piece("bare", <<"a">>)>>)>>)})
  \cup (IF d = "sh" THEN {Part(<<Bare(<<"a", "=", "b">>), Bare(<<n>>)>>) : n \in {"rm", "ls"}} ELSE {})
  \cup (IF d = "powershell" THEN {Part(<<Word(<<Piece("ampersand", <<"&">>)>>), Bare(<<"rm">>)>>)} ELSE {})
Simple == {Part(<<Bare(<<n>>)>>) : n \in {"rm", "ls"}}
Lines(d) ==
  {<<p>> : p \in PartsOf(d)}
  \cup UNION {{<<Then(p, <<"SP">>, e), q>>, <<Then(q, <<>>, e), [p EXCEPT !.lead = <<"SP">>]>>} :
              p \in PartsOf(d), q \in Simple, e \in Separators(d)}
  \cup UNION {{<<Then(p, <<"SP">>, <<"(">>), Then(p, <<>>, <<")">>), NoPart>>} : p \in Simple}
  \cup (IF d = "cmd" THEN {}
        ELSE {<<Then(p, <<"SP">>, <<"#", "rm", "'">>)>> : p \in Simple})
(* A fork bomb, typed or only written; a & at the end; names with extensions. *)
Forks == <<Then(Part(<<Bare(<<":">>)>>), <<>>, <<"(">>), [NoPart EXCEPT !.end = <<")">>],
           Then(Part(<<Bare(<<"{", ":">>)>>), <<"SP">>, <<"|">>), Then(Part(<<Bare(<<":">>)>>), <<>>, <<"&">>),
           Then(Part(<<Bare(<<"}">>)>>), <<>>, <<";">>), Part(<<Bare(<<":">>)>>)>>
Quoting == <<Part(<<Bare(<<"ls">>), Word(<<Piece("double", ForkBomb)>>)>>)>>
Trailing == {<<Then(p, g, <<"&">>), NoPart>> : p \in PartsOf("sh"), g \in {<<>>, <<"SP">>}}
Programmes == {<<Part(<<Bare(n), Bare(<<"a">>)>>)>> :
                 n \in {<<"rm", ".", "exe">>, <<"RM", ".", "bat">>, <<"rm", ".", "a">>, <<"format">>,
                        <<"format", ".", "com">>, <<"mkfs", ".", "a">>}}
Line(d, parts, around) ==
  Ask("shellcommand", [line |-> around \o LineText(d, parts) \o around, dialect |-> d, env |-> {},
                       parts |-> parts])
Judging(d, lines, around) ==
  {[One("shellcommand", Line(d, l, around).args) EXCEPT !.box.execution.allowDangerous = h] :
     l \in lines, h \in BOOLEAN}
LineScenes ==
  UNION {Judging(d, Lines(d), <<>>) : d \in Dialects}
  \cup UNION {Judging(d, {<<p>> : p \in PartsOf(d)}, <<"SP">>) : d \in Dialects}
  \cup Judging("sh", Trailing \cup {Forks}, <<>>)
  \cup UNION {Judging(d, {Quoting}, <<>>) : d \in Dialects}
  \cup {[s EXCEPT !.box.windows = w] : s \in UNION {Judging(d, Programmes, <<>>) : d \in Dialects}, w \in BOOLEAN}
LineFamilies == {LineScenes}

(* Two calls on the session, with names that may be one. *)
Var(k, s, v) == [key |-> k, spelling |-> s, value |-> v]
Maps1 == {{}, {Var("a", "exact", 1)}, {Var("a", "spaced", 1), Var("b", "exact", 1)},
          {Var("a", "exact", 1), Var("a", "capital", 2)}, {Var("a", "spaced", 1), Var("a", "exact", 2)},
          {Var("", "exact", 1)}, {Var("a", "exact", 1), Var("b", "exact", 2), Var("c", "exact", 3)}}
Processes == {{}, {Var("a", "capital", 8), Var("c", "exact", 8)}, {Var("a", "exact", 8)}}
Listed(env) == Ask("shellcommand", [line |-> <<"ls">>, dialect |-> "sh", env |-> env,
                                    parts |-> <<Part(<<Bare(<<"ls">>)>>)>>])
EnvScenes ==
  {[Scene(<<"shellcommand">>, (c1 :> Listed(m) @@ c2 :> [Listed(n) EXCEPT !.cancels = TRUE]))
      EXCEPT !.box.windows = w, !.box.process = p] :
     m \in Maps1, n \in Maps1, w \in BOOLEAN, p \in Processes}
  \cup {[Scene(<<"runscript">>, c1 :> [Ask("runscript",
             [ext |-> "sh", script |-> <<"a">>, args |-> <<>>, env |-> m]) EXCEPT !.cancels = TRUE])
           EXCEPT !.box.process = p,
                  !.box.policy.interpreters = SomeMap] :
           m \in Maps1, p \in Processes}

MCFamilies == {TimedScenes, TextScenes, CancelledScenes, PairScenes, ScriptScenes, LineScenes, EnvScenes}

MCFuncIDs == {"replacetextlines", "deletetextlines", "inserttextlines", "findtext", "readtextrange",
              "runscript", "shellcommand", "hosttool"}
===========================================================================
