-------------------------------- MODULE ShellExec --------------------------------
(* sh: the evaluation of commands. A command is a tree; eval_tree() and what it *)
(* calls take a state of the shell to the next one and a status, r. A jump to   *)
(* an outer handler is a state with exc set, which every caller passes on.      *)
EXTENDS Integers, Sequences, TLC

CONSTANTS
  Fuel     \* iterations of loops and calls of functions, after which a run is given up

VARIABLES
  script,  \* the complete commands still to be read
  sh       \* the shell
vars == <<script, sh>>

Nil == [t |-> "nil"]
\* Files: where standard output goes; a save is what it was.
Fresh(inter) ==
  [st |-> 0, r |-> 0, exc |-> "", skip |-> "", cnt |-> 0, loop |-> 0, fn |-> 0, sup |-> 0,
   e |-> FALSE, x |-> 0, ro |-> FALSE, down |-> 2, body |-> Nil, fd |-> "std", saves |-> <<>>,
   t0 |-> Nil, tu |-> Nil, got |-> FALSE, intrap |-> 0, before |-> 0,
   params |-> "set", inter |-> inter, sub |-> FALSE, exiting |-> FALSE, hand |-> 0, out |-> <<>>, fuel |-> Fuel]

Away(s) == s.exc # ""
Gives(s, st) == [s EXCEPT !.r = st]
Says(s, w) == [s EXCEPT !.out = Append(@, <<s.fd, w>>)]
sh_error(s) == [s EXCEPT !.st = 2, !.exc = "error"]

RECURSIVE eval_tree(_, _, _, _), exitshell(_, _), eval_string(_, _)

-----------------------------------------------------------------------------
(* Redirections: of the standard output, to a file; "okbad": two, of which the *)
(* second cannot be opened.                                                      *)

push_save(s) == [s EXCEPT !.saves = Append(@, s.fd)]
Redirected(rd, s, done) ==
  CASE rd = "" -> Gives(s, 0)
    [] rd = "ok" -> Gives(done, 0)
    [] rd = "bad" -> Gives(s, -1)
    [] rd = "okbad" -> Gives(done, -1)
redirect(rd, save, s) == Redirected(rd, s, [(IF save THEN push_save(s) ELSE s) EXCEPT !.fd = "file"])
undo_redirects(s, depth) ==
  IF Len(s.saves) <= depth THEN s
  ELSE [s EXCEPT !.fd = s.saves[depth + 1], !.saves = SubSeq(@, 1, depth)]

-----------------------------------------------------------------------------
(* Variables: x, which may be read-only.                                        *)

set_assignments(v, s) == IF v = 0 THEN s ELSE IF s.ro THEN sh_error(s) ELSE [s EXCEPT !.x = v]
check_readonly(v, s) == IF v # 0 /\ s.ro THEN sh_error(s) ELSE s
var_restore(s, v, was) == IF v = 0 THEN s ELSE [s EXCEPT !.x = was.x, !.ro = was.ro]

-----------------------------------------------------------------------------
(* Subshells and the end of a shell.                                            *)

reset_traps_for_subshell(s) == [s EXCEPT !.t0 = Nil, !.tu = Nil, !.got = FALSE]
enter_subshell(s) == [reset_traps_for_subshell(s) EXCEPT !.sub = TRUE, !.inter = FALSE]

\* The EXIT trap, once; then the process is gone.
Gone(s, st) == IF s.exc \in {"exit", "killed", "long", "leaked"} THEN s ELSE [s EXCEPT !.exc = "exit", !.st = st % 256]
exitshell(s, st) ==
  Gone(IF s.exiting \/ s.t0 = Nil THEN s
       ELSE eval_string(s.t0, [s EXCEPT !.exiting = TRUE, !.t0 = Nil, !.intrap = @ + 1, !.before = st,
                                        !.st = st, !.skip = "", !.hand = 0]), st)

\* What main_loop() makes of an error, in a shell that is not interactive.
Aborted(s) == IF s.exc = "error" THEN exitshell([s EXCEPT !.exc = ""], IF s.st # 0 THEN s.st ELSE 2) ELSE s

\* A child: it has the parent's handlers too, and an error may be caught by one
\* of them: then the child goes on with the parent's program.
ChildEnds(r) ==
  IF ~Away(r) THEN exitshell(r, r.st)
  ELSE IF r.exc = "error" /\ r.hand > 0 THEN [r EXCEPT !.exc = "leaked"] ELSE Aborted(r)
\* The command of a process that does nothing else, its redirections made.
Only(n, c) == IF c.r < 0 THEN [c EXCEPT !.exc = "exit", !.st = 1] ELSE eval_tree(n, TRUE, FALSE, c)
Child(n, rd, s) == ChildEnds(Only(n, redirect(rd, FALSE, enter_subshell(s))))
\* The parent after its wait: the status, and what was written.
Ended(c) == IF c.exc = "killed" THEN 138 ELSE c.st
Waited(s, c, shown) ==
  [s EXCEPT !.r = Ended(c), !.fuel = c.fuel, !.out = IF shown THEN c.out ELSE s.out,
            !.exc = IF c.exc \in {"long", "leaked"} THEN c.exc ELSE ""]

-----------------------------------------------------------------------------
(* Traps: SIGUSR1 only marks the shell; its action runs between the commands   *)
(* of a list, and after a complete command.                                      *)

on_sig(s) == IF s.tu = Nil THEN [s EXCEPT !.exc = "killed"] ELSE [s EXCEPT !.got = TRUE]
\* a: after the action; the shell goes on as it was at s.
AfterAction(s, a) ==
  IF Away(a) THEN a ELSE [a EXCEPT !.intrap = @ - 1, !.skip = IF a.skip = "" THEN s.skip ELSE a.skip, !.st = s.st]
run_pending_traps(s) ==
  IF s.intrap > 0 \/ ~s.got \/ Away(s) THEN s
  ELSE IF s.tu = Nil THEN [s EXCEPT !.got = FALSE]
  ELSE AfterAction(s, eval_string(s.tu, [s EXCEPT !.got = FALSE, !.intrap = @ + 1, !.before = s.st, !.skip = ""]))

-----------------------------------------------------------------------------
(* Built-in utilities: a special one that fails ends the shell.                *)

Special == {":", "break", "continue", "return", "exit", "eval", "set-e", "trap0", "trapU", "shift", "readonly"}
loop_count(k, s) == IF k > s.loop THEN s.loop ELSE k
bi_break(k, s) == IF loop_count(k, s) > 0 THEN [s EXCEPT !.skip = "break", !.cnt = loop_count(k, s), !.r = 0] ELSE Gives(s, 0)
bi_continue(k, s) == IF loop_count(k, s) > 0 THEN [s EXCEPT !.skip = "cont", !.cnt = loop_count(k, s), !.r = 0] ELSE Gives(s, 0)
OrLast(k, s) == IF k >= 0 THEN k ELSE IF s.intrap > 0 THEN s.before ELSE s.st
bi_return(k, s) ==
  IF s.fn > 0 THEN [s EXCEPT !.skip = "return", !.r = OrLast(k, s)]
  ELSE IF ~s.inter THEN exitshell(s, OrLast(k, s)) ELSE Gives(s, OrLast(k, s))
StatusOf(s) == Gives(s, s.st)
bi_eval(n, s) == StatusOf(eval_string(n, s))
run_builtin(n, s) ==
  CASE n.c = "break" -> bi_break(n.k, s)
    [] n.c = "continue" -> bi_continue(n.k, s)
    [] n.c = "return" -> bi_return(n.k, s)
    [] n.c = "exit" -> exitshell(s, OrLast(n.k, s))
    [] n.c = "eval" -> bi_eval(n.b, s)
    [] n.c = "set-e" -> Gives([s EXCEPT !.e = TRUE], 0)
    [] n.c = "trap0" -> Gives([s EXCEPT !.t0 = n.b], 0)
    [] n.c = "trapU" -> Gives([s EXCEPT !.tu = n.b], 0)
    [] n.c = "readonly" -> Gives([s EXCEPT !.ro = TRUE], 0)
    [] n.c \in {"shift", "cd"} -> sh_error(s)   \* with operands that are in error
    [] n.c = "false" -> Gives(s, 1)
    [] n.c = "down" -> Gives([s EXCEPT !.down = @ - 1], IF s.down > 0 THEN 0 ELSE 1)
    [] n.c = "say" -> Gives(Says(s, s.x), 0)
    [] OTHER -> Gives(s, 0)

\* The redirections and the assignments of a command that was started at s.
IsSpecial(n) == n.c \in Special /\ ~n.via
Back(n, s, r) ==
  IF IsSpecial(n) THEN undo_redirects(r, Len(s.saves)) ELSE var_restore(undo_redirects(r, Len(s.saves)), n.x, s)
\* A handler catches what goes wrong in a regular built-in utility.
Caught(n, s, r) ==
  IF r.exc = "error" /\ ~IsSpecial(n) THEN Gives([Back(n, s, r) EXCEPT !.exc = ""], IF r.st # 0 THEN r.st ELSE 2)
  ELSE IF r.exc \in {"", "error"} THEN Back(n, s, r) ELSE r
WithFiles(n, s, rd) ==
  IF Away(rd) THEN rd
  ELSE IF rd.r >= 0
  THEN Caught(n, s, [run_builtin(n, [rd EXCEPT !.hand = IF IsSpecial(n) THEN @ ELSE @ + 1]) EXCEPT !.hand = s.hand])
  ELSE IF IsSpecial(n) /\ ~s.inter THEN exitshell(Back(n, s, rd), 1) ELSE Gives(Back(n, s, rd), 1)
Opened(n, as) == IF Away(as) THEN as ELSE redirect(n.rd, TRUE, as)
run_builtin_cmd(n, s) == WithFiles(n, s, Opened(n, set_assignments(n.x, s)))

\* The shell that called the function at s goes on.
Returned(n, s, r) == [var_restore(undo_redirects(r, Len(s.saves)), n.x, s) EXCEPT !.fn = s.fn, !.loop = s.loop]
AfterBody(n, s, r) ==
  IF r.exc = "error" THEN Returned(n, s, r)
  ELSE IF Away(r) THEN r
  ELSE IF r.skip = "return" THEN Gives([Returned(n, s, r) EXCEPT !.skip = ""], r.st) ELSE Returned(n, s, r)
\* The handler also leaves a function that has not been entered yet.
Called(n, s, rd) ==
  IF Away(rd) THEN [Returned(n, s, rd) EXCEPT !.fn = @ - 1, !.params = "freed"]
  ELSE IF rd.r < 0 THEN Gives(Returned(n, s, rd), 1)
  ELSE AfterBody(n, s, IF s.fuel = 0 THEN [s EXCEPT !.exc = "long"]
                       ELSE eval_tree(s.body, FALSE, FALSE, [rd EXCEPT !.fn = @ + 1, !.loop = 0, !.fuel = @ - 1]))
call_function(n, s) == Called(n, s, Opened(n, set_assignments(n.x, s)))

exec_in_place_ok(ex, s) == ex /\ s.t0 = Nil /\ ~s.got
\* "sig": a utility during which a SIGUSR1 comes for the process that had the
\* shell; in place of the shell it is the one that ends.
Executed(n, inplace, s) ==
  IF ~inplace \/ Away(s) THEN Gives(s, IF n.c = "fails" THEN 1 ELSE 0) ELSE [s EXCEPT !.exc = "exit", !.st = IF n.c = "fails" THEN 1 ELSE 0]
External(n, inplace, s) ==
  IF n.rd \in {"bad", "okbad"} THEN (IF inplace THEN [s EXCEPT !.exc = "exit", !.st = 1] ELSE Gives(s, 1))
  ELSE Executed(n, inplace, IF n.c # "sig" THEN s ELSE IF inplace THEN [s EXCEPT !.exc = "killed"] ELSE on_sig(s))

\* No command name: the status is that of the command substitution.
Substituted(n, s, c) == Waited([s EXCEPT !.st = Ended(c)], c, FALSE)
Assigned(n, s, w, as) ==
  IF Away(w) \/ Away(as) THEN as
  ELSE Gives(undo_redirects(redirect(n.rd, TRUE, as), Len(s.saves)),
             IF n.rd \in {"bad", "okbad"} THEN 1 ELSE IF n.b = Nil THEN 0 ELSE w.r)
Substitutes(n, s, w) == Assigned(n, s, w, set_assignments(n.x, w))

\* What cannot be assigned to is found before any utility is looked for.
SearchedFor(n, ex, s) ==
  CASE Away(s) -> s
    [] ~Away(s) /\ n.c \in {"true", "false", "say", "down", "cd"} -> run_builtin_cmd(n, s)
    [] ~Away(s) /\ n.c \in {"f", "missing"} -> Gives(s, 127)
    [] OTHER -> External(n, exec_in_place_ok(ex, s), s)
eval_simple(n, ex, s) ==
  CASE n.c = "" -> Substitutes(n, s, IF n.b = Nil THEN s ELSE Substituted(n, s, Child(n.b, "", s)))
    [] n.c \in Special -> run_builtin_cmd(n, s)
    [] n.c = "f" /\ s.body # Nil /\ ~n.via -> call_function(n, s)
    [] OTHER -> SearchedFor(n, ex, check_readonly(n.x, s))

-----------------------------------------------------------------------------
(* Pipelines, subshells and compound commands.                                  *)

\* Each command of a pipeline is a child; the last one's output is seen.
LastOf(n, s, a) ==
  IF a.exc \in {"long", "leaked"} THEN [s EXCEPT !.exc = a.exc] ELSE Waited(s, Child(n.b, "", [s EXCEPT !.fuel = a.fuel]), TRUE)
eval_pipe(n, s) == LastOf(n, s, Child(n.a, "", s))

\* The subshell is this process, which has nothing else to do.
Whole(r) == IF Away(r) THEN r ELSE exitshell(r, r.st)
eval_subshell(n, ex, s) ==
  IF exec_in_place_ok(ex, s) THEN Whole(Only(n.a, redirect(n.rd, FALSE, s)))
  ELSE Waited(s, Child(n.a, n.rd, s), TRUE)

\* After the body of a loop: does it end, and what is still to be skipped?
LastLoop(s) == s.cnt <= 1
loop_ends(s) == s.skip = "break" \/ s.skip = "return" \/ (s.skip = "cont" /\ ~LastLoop(s))
loop_check(s) == IF s.skip \in {"break", "cont"} THEN [s EXCEPT !.cnt = @ - 1, !.skip = IF LastLoop(s) THEN "" ELSE @] ELSE s
LoopDone(s, st) == [s EXCEPT !.loop = @ - 1, !.r = st]

RECURSIVE ForFrom(_, _, _, _), WhileFrom(_, _, _, _)
AfterItem(n, i, te, b) ==
  IF Away(b) THEN b ELSE IF loop_ends(b) THEN LoopDone(loop_check(b), b.r) ELSE ForFrom(n, i + 1, te, loop_check(b))
ForFrom(n, i, te, s) ==
  IF i > n.items THEN LoopDone(s, s.r)
  ELSE IF s.ro /\ n.x THEN sh_error([s EXCEPT !.loop = @ - 1])
  ELSE AfterItem(n, i, te, eval_tree(n.a, FALSE, te, IF n.x THEN [s EXCEPT !.x = i] ELSE s))
eval_for(n, te, s) == ForFrom(n, 1, te, [s EXCEPT !.loop = @ + 1, !.r = 0])

\* After a part of a loop that has jumped, or its body; st: the loop's status.
AfterRound(n, te, b, st) ==
  IF Away(b) THEN b ELSE IF loop_ends(b) THEN LoopDone(loop_check(b), st) ELSE WhileFrom(n, te, loop_check(b), st)
RoundDone(n, te, b) == AfterRound(n, te, b, b.r)
AfterCondition(n, te, c, st) ==
  IF Away(c) \/ c.skip # "" THEN AfterRound(n, te, c, st)
  ELSE IF (c.r = 0) = (n.t = "until") THEN LoopDone(c, st)
  ELSE RoundDone(n, te, eval_tree(n.b, FALSE, te, c))
WhileFrom(n, te, s, st) ==
  IF s.fuel = 0 THEN [s EXCEPT !.exc = "long"]
  ELSE AfterCondition(n, te, eval_tree(n.a, FALSE, TRUE, [s EXCEPT !.fuel = @ - 1]), st)
eval_while(n, te, s) == WhileFrom(n, te, [s EXCEPT !.loop = @ + 1], 0)

\* The first list of the case is selected; ";&" goes on with the second.
FallsOn(n, ex, te, a) == IF Away(a) \/ a.skip # "" \/ ~n.fall THEN a ELSE eval_tree(n.b, ex, te, a)
eval_case(n, ex, te, s) == FallsOn(n, ex, te, eval_tree(n.a, ex, te, s))

Undone(s, r) == IF r.exc \in {"", "error"} THEN undo_redirects(r, Len(s.saves)) ELSE r
\* Mutant: what a failed redirection had done is not undone.
RedirectedKept(n, ex, te, s, rd) ==
  IF rd.r < 0 THEN Gives(rd, 1)
  ELSE Undone(s, eval_tree(IF n.t = "brace" THEN n.a ELSE [n EXCEPT !.rd = ""], ex, te, rd))
WithRedirs(n, ex, te, s, rd) ==
  IF rd.r < 0 THEN Gives(undo_redirects(rd, Len(s.saves)), 1)
  ELSE Undone(s, eval_tree(IF n.t = "brace" THEN n.a ELSE [n EXCEPT !.rd = ""], ex, te, rd))
with_redirs(n, ex, te, s) == WithRedirs(n, ex, te, s, redirect(n.rd, TRUE, s))

-----------------------------------------------------------------------------
(* A node of the tree. ex: the shell has nothing left to do after it; te: its  *)
(* status is tested, and -e has no effect.                                       *)

Compound == {"if", "while", "until", "for", "case"}
Sets(s) == IF Away(s) THEN s ELSE [s EXCEPT !.st = s.r]
\* Mutant: -e has its effect in a function called where the status is tested.
errexit_tested(n, te, s) == s.e /\ s.r # 0 /\ ~te /\ s.skip = "" /\ n.t \in {"simple", "pipe", "subshell"}
errexit(n, te, s) == s.e /\ s.r # 0 /\ ~te /\ s.sup = 0 /\ s.skip = "" /\ n.t \in {"simple", "pipe", "subshell"}
\* After the commands that -e is about, and for a compound one with
\* redirections.
Ends(n, ex, te, s) == IF ~Away(s) /\ (errexit(n, te, s) \/ ex) THEN exitshell(Sets(s), s.r) ELSE Sets(s)

\* The second list of a list, a condition or an if, after the first one: r.
Second(n, ex, te, r) == IF Away(r) THEN r ELSE eval_tree(n.b, ex, te, r)
Chosen(n, ex, te, r) ==
  IF r.r = 0 THEN eval_tree(n.b, ex, te, r) ELSE IF n.els = Nil THEN Gives(r, 0) ELSE eval_tree(n.els, ex, te, r)
AfterFirst(n, ex, te, r) ==
  CASE Away(r) -> r
    [] ~Away(r) /\ n.t = "not" -> Sets(Gives(r, IF r.r = 0 THEN 1 ELSE 0))
    [] ~Away(r) /\ n.t # "not" /\ r.skip # "" -> StatusOf(r)
    [] OTHER -> CASE n.t = "list" -> Second(n, ex, te, run_pending_traps(r))
                  [] n.t = "if" -> Sets(Chosen(n, ex, te, r))
                  [] n.t \in {"and", "or"} -> IF (n.t = "and") = (r.r = 0) THEN Second(n, ex, te, r) ELSE Sets(r)

eval_tree1(n, ex, te, s) ==
  CASE n.t = "nil" -> [s EXCEPT !.st = 0, !.r = 0]
    [] n.t \in Compound /\ n.rd # "" -> Ends(n, ex, te, with_redirs(n, ex, te, s))
    [] n.t \in {"list", "and", "or", "not"} \/ (n.t = "if" /\ n.rd = "") ->
         AfterFirst(n, ex, te, eval_tree(n.a, FALSE, te \/ n.t # "list", s))
    [] n.t \in {"while", "until"} /\ n.rd = "" -> Sets(eval_while(n, te, s))
    [] n.t = "for" /\ n.rd = "" -> Sets(eval_for(n, te, s))
    [] n.t = "case" /\ n.rd = "" -> Sets(eval_case(n, ex, te, s))
    [] n.t = "brace" -> Sets(IF n.rd # "" THEN with_redirs(n, ex, te, s) ELSE eval_tree(n.a, ex, te, s))
    [] n.t = "func" -> Ends(n, ex, te, Gives([s EXCEPT !.body = n.a], 0))
    [] n.t \in {"simple", "pipe", "subshell"} ->
         Ends(n, ex, te, CASE n.t = "simple" -> eval_simple(n, ex, s)
                           [] n.t = "pipe" -> eval_pipe(n, s)
                           [] n.t = "subshell" -> eval_subshell(n, ex, s))

Untested(r) == [r EXCEPT !.sup = @ - 1]
eval_tree(n, ex, te, s) ==
  IF ~te \/ n = Nil THEN eval_tree1(n, ex, te, s) ELSE Untested(eval_tree1(n, ex, te, [s EXCEPT !.sup = @ + 1]))

eval_string(n, s) == run_pending_traps(eval_tree(n, FALSE, FALSE, s))

-----------------------------------------------------------------------------
(* The shell reads one complete command at a time and evaluates it.            *)

Reset(s) == undo_redirects([s EXCEPT !.exc = "", !.skip = "", !.cnt = 0, !.loop = 0, !.fn = 0, !.sup = 0, !.intrap = 0], 0)
AfterError(s) == IF s.exc # "error" THEN s ELSE IF s.inter THEN Reset(s) ELSE Aborted(s)
AfterCommand(r) == IF Away(r) THEN r ELSE run_pending_traps([r EXCEPT !.skip = "", !.cnt = 0])
main_loop(n, s) == AfterError(AfterCommand(eval_tree(n, FALSE, FALSE, s)))
Command == /\ script # <<>> /\ ~Away(sh)
           /\ sh' = main_loop(Head(script), sh) /\ script' = Tail(script)
EndOfFile == /\ script = <<>> /\ ~Away(sh)
             /\ sh' = exitshell(sh, sh.st) /\ UNCHANGED script
ShellNext == Command \/ EndOfFile
================================================================================
