---------------------------- MODULE MCMakeBuild ----------------------------
(* Makefiles, goals and options for model checking MakeBuild.              *)
EXTENDS MakeBuild

CONSTANTS a, b, c

MCNode == {a, b, c}

Cmd == <<{}>>

\* a target rule with prerequisites ps and commands cmds
Target(ps, cmds) ==
  [all |-> ps, dcolon |-> FALSE,
   rules |-> <<[pre |-> {ps[i] : i \in DOMAIN ps} \ {Wait}, cmds |-> cmds]>>,
   is_target |-> TRUE, phony |-> FALSE, precious |-> FALSE]

\* a target without commands, and a name that no rule mentions
Group(ps) == [Target(ps, <<>>) EXCEPT !.rules = <<>>]
Source == [Group(<<>>) EXCEPT !.is_target = FALSE]
Phony(r) == [r EXCEPT !.phony = TRUE]

Graphs(as, bs, cs) ==
  {[n \in MCNode |-> CASE n = a -> x [] n = b -> y [] n = c -> z] : x \in as, y \in bs, z \in cs}

\* chains, forks, .WAIT and cycles
Shapes ==
  Graphs({Target(<<b, c>>, Cmd), Target(<<b, Wait, c>>, Cmd)},
         {Target(<<c>>, Cmd), Target(<<a>>, Cmd)},
         {Target(<<>>, Cmd), Target(<<b>>, Cmd)})
  \cup Graphs({Target(<<b, c>>, Cmd), Group(<<c, b>>)}, {Target(<<>>, Cmd)}, {Target(<<>>, Cmd)})

\* every kind of target and line: for the runs with -n, -q and -t
Mixed(ps) ==
  [Target(ps, <<{"-"}, {"+"}>>) EXCEPT !.precious = TRUE]
Double(ps, qs) ==
  [all |-> ps \o qs, dcolon |-> TRUE,
   rules |-> <<[pre |-> {ps[i] : i \in DOMAIN ps}, cmds |-> <<{"MAKE"}>>],
               [pre |-> {qs[i] : i \in DOMAIN qs}, cmds |-> Cmd]>>,
   is_target |-> TRUE, phony |-> FALSE, precious |-> FALSE]
Kinds ==
  Graphs({Target(<<b, c>>, Cmd)}, {Mixed(<<c>>), Phony(Target(<<c>>, Cmd))},
         {Source, Target(<<>>, Cmd)})
  \cup Graphs({Double(<<b>>, <<c>>)}, {Target(<<>>, <<>>), Mixed(<<c>>)}, {Source})
  \cup Graphs({Group(<<b>>)}, {Double(<<>>, <<c>>)}, {Target(<<>>, Cmd)})

Makes == Shapes \cup Kinds

\* -k with -j, and one target at a time without it
Few ==
  Graphs({Target(<<c>>, Cmd), Target(<<b, Wait, c>>, Cmd)},
         {Target(<<c>>, Cmd), Target(<<a>>, Cmd)},
         {Target(<<>>, Cmd)})

OptionsRun == [k : BOOLEAN, notpar : {FALSE}, mode : {"run"}]
OptionsAll ==
  OptionsRun \cup [k : {FALSE}, notpar : {TRUE}, mode : {"run"}]
             \cup [k : {TRUE}, notpar : {FALSE}, mode : Modes \ {"run"}]
GoalsBA == <<b, a>>
GoalsAB == <<a, b>>
=============================================================================
