------------------------------ MODULE MCXargs ------------------------------
(* xargs on inputs written from the arguments they are meant to hold.       *)
EXTENDS Integers, Sequences, SequencesExt, FiniteSets

VARIABLES job, stdin, rest, at_eof, quote_error, cmd, pending, ran, log, status, phase, result

NL == "nl"
NUL == "nul"
Signal == -1
No == -2
NoEof == <<"none">>

Opt == [zero |-> FALSE, eof |-> NoEof, repl |-> FALSE, L |-> 0, n |-> 0, size |-> 100, x |-> FALSE, r |-> FALSE, p |-> FALSE,
        init |-> <<<<"u">>>>]
MCJobs == {Opt, [Opt EXCEPT !.n = 2], [Opt EXCEPT !.size = 6], [Opt EXCEPT !.size = 6, !.n = 2], [Opt EXCEPT !.n = 2, !.x = TRUE, !.size = 7],
           [Opt EXCEPT !.r = TRUE], [Opt EXCEPT !.eof = <<"_">>, !.n = 1], [Opt EXCEPT !.size = 1], [Opt EXCEPT !.p = TRUE, !.n = 1],
           [Opt EXCEPT !.L = 1], [Opt EXCEPT !.L = 2, !.size = 9], [Opt EXCEPT !.zero = TRUE, !.n = 1],
           [Opt EXCEPT !.repl = TRUE, !.init = <<<<"u">>, <<"-", "repl", "repl">>>>, !.size = 9]}

\* An argument and the ways to write it; the blanks after it; on a line, an
\* argument may hold blanks, and go on in the next line after a last blank.
W(s, a) == [s |-> s, a |-> a]
Words == {W(<<"a">>, <<"a">>), W(<<"'", "'">>, <<>>), W(<<"\"", "a", " ", "'", "\"", "b">>, <<"a", " ", "'", "b">>),
          W(<<"\\", " ">>, <<" ">>), W(<<"\\", NL, "b">>, <<NL, "b">>), W(<<"_">>, <<"_">>)}
Gaps == {<<" ">>, <<" ", NL, NL, " ">>}
OnLine == {W(<<"a", " ", "b">>, <<"a", " ", "b">>), W(<<"a", "\\", " ">>, <<"a", " ">>), W(<<"'", " ", "'">>, <<" ">>),
           W(<<"a">>, <<"a">>)}
OnLines == OnLine \union {W(<<"a", " ", " ", NL, NL, "b">>, <<"a", "b">>)}
Zeros == {W(<<"a">>, <<"a">>), W(<<>>, <<>>), W(<<"'", NL>>, <<"'", NL>>)}

Seqs(S) == UNION {[1..n -> S] : n \in 0..3}
Text(ws, Gap(_)) == FlattenSeq([i \in DOMAIN ws |-> ws[i].s \o Gap(i)])
Args(ws) == [i \in DOMAIN ws |-> ws[i].a]
Upto(as, eof) == LET i == SelectInSeq(as, LAMBDA a : a = eof) IN IF i = 0 THEN as ELSE SubSeq(as, 1, i - 1)
Of(ws, g, j) == [s |-> Text(ws, LAMBDA i : g), args |-> IF j.eof = NoEof THEN Args(ws) ELSE Upto(Args(ws), j.eof)]
Written(j) ==
    IF j.zero THEN {Of(ws, <<NUL>>, j) : ws \in Seqs(Zeros)}
                   \union {[Of(ws, <<NUL>>, j) EXCEPT !.s = @ \o <<"a">>] : ws \in Seqs(Zeros)}
    ELSE IF j.repl THEN {Of(ws, g, j) : ws \in Seqs(OnLine), g \in {<<NL>>, <<NL, NL>>}}
    ELSE IF j.L > 0 THEN {Of(ws, g, j) : ws \in Seqs(OnLines), g \in {<<NL>>, <<NL, NL>>}}
    ELSE UNION {{Of(ws, g, j), [Of(ws, g, j) EXCEPT !.s = SubSeq(@, 1, IF ws = <<>> THEN 0 ELSE Len(@) - Len(g))],
                 [Of(ws, g, j) EXCEPT !.s = @ \o <<"'", "b">>]} : ws \in Seqs(Words), g \in Gaps}
MCPathErrors == {<<"ENOENT">>, <<"EACCES, no stat", "EACCES", "ENOENT">>}
MCStatuses == {0, 1, 255, Signal}
MCInputs == [j \in MCJobs |-> Written(j)]

INSTANCE Xargs WITH Jobs <- MCJobs, Inputs <- MCInputs, Statuses <- MCStatuses, PathErrors <- MCPathErrors

Unclosed == stdin.s # <<>> /\ ~job.zero /\ Len(stdin.s) > 1 /\ stdin.s[Len(stdin.s) - 1] = "'" /\ Last(stdin.s) = "b"

----------------------------------------------------------------------------
\* Every argument is handed to one command line, in the order of the input,
\* whatever the utility returns; when xargs says that all went well, or that
\* a utility failed, none was left out; the text before a quote without its
\* end is used (-p: the line is offered).
Own(l) == SubSeq(l.argv, Len(job.init) + 1, Len(l.argv))
Handed == FlattenSeq([k \in DOMAIN log |-> Own(log[k])])
EachOnce ==
    IF job.repl
    THEN /\ \A k \in DOMAIN log : log[k].argv = IF stdin.args = <<>> THEN job.init ELSE subst(job.init, stdin.args[k])
         /\ phase = "done" /\ result \in {0, 123} => Len(log) = IF stdin.args = <<>> THEN 1 ELSE Len(stdin.args)
    ELSE /\ IsPrefix(Handed, stdin.args)
         /\ phase = "done" /\ result \in {0, 123} => Handed = stdin.args
         /\ phase = "done" /\ quote_error /\ result = 1 => Handed = stdin.args

\* A command line is within the size and the number; and it is ended early
\* only because the next argument would not fit, or none was left.
WellFilled ==
    /\ \A k \in DOMAIN log : SizeOf(log[k].argv) <= job.size
    /\ ~job.repl =>
         \A k \in DOMAIN log :
           LET upto == Len(FlattenSeq([i \in 1 .. k |-> Own(log[i])]))
           IN  /\ limit > 0 => Len(Own(log[k])) <= limit
               /\ upto < Len(stdin.args) => \/ limit > 0 /\ Len(Own(log[k])) = limit
                                            \/ SizeOf(log[k].argv) + Len(stdin.args[upto + 1]) + 1 > job.size

\* The status tells what happened: 0 only if every utility returned 0 and
\* the quotes were closed, 123 for a failure, 124 and 125 for the one that
\* stopped it; an empty input runs the utility once, or not at all with -r.
StatusTells ==
    phase = "done" =>
      LET ends == {log[k].ws : k \in DOMAIN log} IN
      /\ result = 0 => ends \subseteq {0, No} /\ ~(Unclosed /\ job.eof = NoEof)
      /\ (result = 125) = (Signal \in ends) /\ (result = 124) = (255 \in ends)
      /\ result \in {126, 127} => log # <<>> /\ Last(log).ws = result
      /\ ends \subseteq {0, No} /\ result = 1 => Unclosed \/ job.size < 20
      /\ stdin.args = <<>> /\ job.size > 1 => Len(log) = IF job.r THEN 0 ELSE 1

XargsRight == EachOnce /\ WellFilled /\ StatusTells
=============================================================================
