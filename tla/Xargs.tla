------------------------------- MODULE Xargs -------------------------------
(***************************************************************************)
(* xargs (src/xargs/xargs.c): the arguments read from the standard input,  *)
(* the command lines they are put together in, and what becomes of them.   *)
(*                                                                         *)
(* The input is a sequence of characters, an argument too; NL is the       *)
(* newline.  A job gives the options: zero (-0), eof (-E), repl (-I),      *)
(* L, n, size, x, r, p, and init, the utility with its own arguments, in   *)
(* which "repl" is the replstr.                                             *)
(***************************************************************************)
EXTENDS Integers, Sequences, SequencesExt

CONSTANTS Jobs,
          Inputs,            \* Inputs[job]: the [s, args] it may be given: s is read,
                             \* args the arguments whoever wrote it meant
          Statuses,          \* what a utility may end with: a status, or Signal
          PathErrors,        \* the errors of the exec of each entry of PATH
          NL, NUL,           \* the newline and the NUL character
          Signal, No,        \* a signal ended the utility; it was not run
          NoEof              \* without -E

VARIABLES job, stdin, rest, at_eof, quote_error, cmd, pending, ran, log, status, phase, result
vars == <<job, stdin, rest, at_eof, quote_error, cmd, pending, ran, log, status, phase, result>>

----------------------------------------------------------------------------
(* next_arg: the argument, what is left of the input, and how it ended.    *)

IsBlank(c) == c \in {" ", "\t"}
SkipTo(s, i, Is(_)) == CHOOSE j \in i .. Len(s) + 1 : /\ \A k \in i .. j - 1 : Is(s[k])
                                                      /\ j <= Len(s) => ~Is(s[j])

(* The characters of one argument from place i on: b is what was read of   *)
(* it, blank the length before blanks at its end (-1: there are none).     *)
Got(b, i, eof, any) == [arg |-> b, next |-> i, eof |-> eof, any |-> any, quote |-> FALSE]
Read(s, lines, L) ==
    LET Arg[i \in 1 .. Len(s) + 2, b \in Seq(STRING), blank \in -1 .. Len(s), any \in BOOLEAN] ==
          IF i > Len(s) THEN Got(b, i, TRUE, any)
          ELSE LET c == s[i] IN
          IF c = NL /\ lines /\ L /\ blank >= 0
          THEN LET j == SkipTo(s, i, LAMBDA d : d = NL)
                   kept == SubSeq(b, 1, blank)
               IN  IF j > Len(s) THEN Got(kept, j, FALSE, any) ELSE Arg[j, kept, -1, any]
          ELSE IF c = NL \/ (IsBlank(c) /\ ~lines) THEN Got(b, i + 1, FALSE, any)
          ELSE IF IsBlank(c) THEN Arg[i + 1, Append(b, c), IF blank < 0 THEN Len(b) ELSE blank, TRUE]
          ELSE IF c = "\\"
          THEN IF i = Len(s) THEN Got(b, i + 1, FALSE, TRUE) ELSE Arg[i + 2, Append(b, s[i + 1]), -1, TRUE]
          ELSE IF c \in {"'", "\""}
          THEN LET j == SkipTo(s, i + 1, LAMBDA d : d # c /\ d # NL)
               IN  IF j > Len(s) \/ s[j] = NL THEN [Got(<<>>, j + 1, TRUE, TRUE) EXCEPT !.quote = TRUE]
                   ELSE Arg[j + 1, b \o SubSeq(s, i + 1, j - 1), -1, TRUE]
          ELSE Arg[i + 1, Append(b, c), -1, TRUE]
    IN  Arg[1, <<>>, -1, FALSE]

None == [arg |-> <<>>, got |-> FALSE, eof |-> TRUE, quote |-> FALSE, rest |-> <<>>]
next_arg(j, s, lines) ==
    IF j.zero
    THEN LET e == SkipTo(s, 1, LAMBDA c : c # NUL)
         IN  IF e > Len(s) THEN None
             ELSE [None EXCEPT !.arg = SubSeq(s, 1, e - 1), !.got = TRUE, !.eof = FALSE, !.rest = SubSeq(s, e + 1, Len(s))]
    ELSE LET i == SkipTo(s, 1, LAMBDA c : IsBlank(c) \/ c = NL)
             t == SubSeq(s, i, Len(s))
             r == Read(t, lines, j.L > 0)
         IN  IF t = <<>> THEN None
             ELSE IF r.quote THEN [None EXCEPT !.quote = TRUE]
             ELSE IF j.eof # NoEof /\ r.arg = j.eof THEN None
             ELSE [arg |-> r.arg, got |-> TRUE, eof |-> r.eof, quote |-> FALSE, rest |-> SubSeq(t, r.next, Len(t))]

----------------------------------------------------------------------------
(* The command line and its size: each argument with a NUL.                *)

SizeOf(c) == FoldLeft(LAMBDA n, a : n + Len(a) + 1, 0, c)
subst(c, a) == [k \in DOMAIN c |-> FlattenSeq([i \in DOMAIN c[k] |-> IF c[k][i] = "repl" THEN a ELSE <<c[k][i]>>])]
limit == IF job.L > 0 THEN job.L ELSE job.n
Count == Len(cmd) - Len(job.init)

(* exec_utility: an entry of PATH that is there but cannot be run decides; *)
(* an entry that cannot be searched does not.                              *)
exec_utility(errs) ==
    LET seen == SelectSeq(errs, LAMBDA e : e \notin {"ENOENT", "ENOTDIR", "EACCES, no stat"})
    IN  IF seen = <<>> THEN 127 ELSE 126

Exit(n) == phase' = "done" /\ result' = n /\ UNCHANGED <<rest, at_eof, quote_error, cmd, pending, ran, log, status>>
Given == UNCHANGED <<job, stdin>>

(* One turn of the loop that fills a command line.                         *)
OverflowLost(a) == phase' = "full" /\ UNCHANGED <<cmd, pending>>
Overflow(a) == pending' = <<a>> /\ phase' = "full" /\ UNCHANGED cmd
Fill == /\ phase = "fill" /\ ~job.repl /\ Given /\ (limit = 0 \/ Count < limit)
        /\ LET t == IF at_eof THEN None ELSE next_arg(job, rest, job.L > 0)
               a == IF pending # <<>> THEN pending[1] ELSE t.arg
               fits == SizeOf(cmd) + Len(a) + 1 <= job.size
           IN  IF pending = <<>> /\ ~t.got
               THEN /\ phase' = "full" /\ at_eof' = TRUE /\ quote_error' = (quote_error \/ t.quote)
                    /\ rest' = <<>> /\ UNCHANGED <<cmd, pending, ran, log, status, result>>
               ELSE IF ~fits /\ (Count = 0 \/ job.x) THEN Exit(1)
               ELSE /\ IF pending # <<>> THEN UNCHANGED <<rest, at_eof>> ELSE rest' = t.rest /\ at_eof' = t.eof
                    /\ IF fits THEN cmd' = Append(cmd, a) /\ pending' = <<>> /\ UNCHANGED phase
                       ELSE Overflow(a)
                    /\ UNCHANGED <<quote_error, ran, log, status, result>>
Full == /\ phase = "fill" /\ ~job.repl /\ limit > 0 /\ Count >= limit /\ phase' = "full"
        /\ UNCHANGED <<job, stdin, rest, at_eof, quote_error, cmd, pending, ran, log, status, result>>

(* A line that holds no argument is run when nothing was, without -r; what *)
(* is returned at the end.                                                 *)
Final == IF quote_error THEN 1 ELSE status
Decide == /\ phase = "full" /\ Given
          /\ IF Count = 0 /\ pending = <<>> /\ (ran \/ job.r) THEN Exit(Final)
             ELSE phase' = "run" /\ UNCHANGED <<rest, at_eof, quote_error, cmd, pending, ran, log, status, result>>

(* run: the utility is waited for; 255 and a signal stop xargs, and so     *)
(* does a utility that cannot be executed; No is the answer  with -p.     *)
AfterRun(last) ==
    IF last THEN phase' = "done" /\ result' = (IF quote_error THEN 1 ELSE status') /\ UNCHANGED cmd
    ELSE phase' = "fill" /\ cmd' = job.init /\ UNCHANGED result
Ended(ws, last) ==
    /\ log' = Append(log, [argv |-> cmd, ws |-> ws]) /\ ran' = TRUE
    /\ IF ws = Signal \/ ws \in {255, 126, 127}
       THEN /\ phase' = "done" /\ result' = (IF ws = Signal THEN 125 ELSE IF ws = 255 THEN 124 ELSE ws)
            /\ UNCHANGED <<cmd, status>>
       ELSE status' = (IF ws \in {0, No} THEN status ELSE 123) /\ AfterRun(last)
Run == /\ phase = "run" /\ Given /\ UNCHANGED <<rest, at_eof, quote_error, pending>>
       /\ \E ws \in Statuses \union {exec_utility(e) : e \in PathErrors} \union (IF job.p THEN {No} ELSE {}) :
            Ended(ws, ~job.repl /\ pending = <<>> /\ (Count = 0 \/ at_eof))

(* -I: one line for each line of the input, with it put into the arguments.*)
Replace == /\ phase = "fill" /\ job.repl /\ Given
           /\ LET t == IF at_eof THEN None ELSE next_arg(job, rest, TRUE)
                  c == subst(job.init, t.arg)
              IN  IF t.got
                  THEN IF SizeOf(c) > job.size THEN Exit(1)
                       ELSE /\ cmd' = c /\ rest' = t.rest /\ at_eof' = t.eof /\ phase' = "run"
                            /\ UNCHANGED <<quote_error, pending, ran, log, status, result>>
                  ELSE /\ quote_error' = (quote_error \/ t.quote) /\ at_eof' = TRUE /\ rest' = <<>>
                       /\ IF ran \/ job.r THEN phase' = "done" /\ result' = (IF quote_error' THEN 1 ELSE status) /\ UNCHANGED cmd
                          ELSE phase' = "run" /\ cmd' = job.init /\ UNCHANGED result
                       /\ UNCHANGED <<pending, ran, log, status>>

Init == /\ job \in Jobs /\ stdin \in Inputs[job] /\ rest = stdin.s
        /\ at_eof = FALSE /\ quote_error = FALSE /\ cmd = job.init /\ pending = <<>> /\ ran = FALSE
        /\ log = <<>> /\ status = 0
        /\ IF ~job.repl /\ SizeOf(job.init) > job.size THEN phase = "done" /\ result = 1
           ELSE phase = "fill" /\ result = 0
Next == Fill \/ Full \/ Decide \/ Run \/ Replace
Spec == Init /\ [][Next]_vars
=============================================================================
