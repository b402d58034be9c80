---------------------------------- MODULE MCM4 ----------------------------------
(* m4 for TLC: a task is one input, or two of them, one run after the other.   *)
EXTENDS Integers, Sequences, SequencesExt, FiniteSets

CONSTANT Tasks

VARIABLES input, operands, calls, defs, lang, divnum, divs, out, wraps, m4status, m4pc,
          task, half, first

Letters == {"x", "y", "f", "g", "rev", "changequote", "define", "pushdef", "popdef", "defn", "divert", "m4wrap",
            "ifelse", "shift", "len", "undivert", "index", "substr", "incr", "translit", "divnum", "dnl", "ifdef", "eval"}

INSTANCE M4 WITH WordStart <- Letters, Bits <- 6, MaxDiv <- 2, MaxInput <- 60

Def(text) == <<[builtin |-> "", text |-> text]>>
Call(name, args) == <<name, "(">> \o Listed(args) \o <<")">>
Q(t) == <<"lq">> \o t \o <<"rq">>
Table(x) == [n \in {<<"x">>, <<"f">>, <<"g">>, <<"rev">>} |->
               CASE n = <<"x">> -> Def(x)
                 [] n = <<"f">> -> Def(<<"g", "(", "$", "@", ")">>)
                 [] n = <<"g">> -> Def(<<"$", "2", ";", "$", "1", ";", "$", "#">>)
                 [] n = <<"rev">> -> Def(Call("ifelse", <<<<"$", "#">>, <<"0">>, <<>>, <<"$", "#">>, <<"1">>, Q(Q(<<"$", "1">>)),
                                              Q(Call("rev", <<Call("shift", <<<<"$", "@">>>>)>>) \o <<",">> \o Q(<<"$", "1">>))>>))]
\* Other quotes.
Swap(t) == [i \in DOMAIN t |-> CASE t[i] = "lq" -> "[" [] t[i] = "rq" -> "]" [] OTHER -> t[i]]

-----------------------------------------------------------------------------
M4Init == /\ \E k \in DOMAIN Tasks : task \in Tasks[k]
          /\ Start(task.p, Table(task.x))
          /\ half = 1 /\ first = <<>>

\* The second input, with what m4 begins with.
Again ==
  /\ half = 1 /\ m4pc = "exit" /\ task.q # <<>>
  /\ half' = 2 /\ first' = <<out, m4status>> /\ UNCHANGED task
  /\ input' = Head(task.q) /\ operands' = Tail(task.q)
  /\ defs' = Table(task.x)
  /\ lang' = [lquote |-> <<"lq">>, rquote |-> <<"rq">>, bcomm |-> <<"#">>, ecomm |-> <<"\n">>]
  /\ calls' = <<>> /\ divnum' = 0 /\ divs' = [n \in DOMAIN divs |-> <<>>] /\ out' = <<>> /\ wraps' = <<>>
  /\ m4status' = 0 /\ m4pc' = "expand"

MNext == (M4Next /\ UNCHANGED <<task, half, first>>) \/ Again

\* A quoted text comes out as it is; rev reverses what it is given, quotes,
\* commas and parentheses in it included; $@ hands arguments on unchanged; a
\* macro copied with defn is that macro; popdef undoes pushdef; diversions come
\* out in their order, the text of m4wrap after the input; other quotes do the
\* same.
M4Right ==
  m4pc = "exit" =>
    /\ task.q = <<>> => out = task.want /\ (m4status # 0) = task.fails
    /\ half = 2 => first = <<IF task.swap THEN Swap(out) ELSE out, m4status>>
===============================================================================
