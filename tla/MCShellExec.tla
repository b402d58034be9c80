------------------------------ MODULE MCShellExec ------------------------------
(* What commands mean, by their structure alone, for all small scripts.         *)
EXTENDS ShellExec, FiniteSets

VARIABLES start  \* the shell and the script at the start

Cmd(c, k, x, rd, via, b) == [t |-> "simple", c |-> c, k |-> k, x |-> x, rd |-> rd, via |-> via, b |-> b]
Plain(c) == Cmd(c, 0, 0, "", FALSE, Nil)
Op(c, k) == Cmd(c, k, 0, "", FALSE, Nil)
Binary(t, a, b) == [t |-> t, a |-> a, b |-> b, rd |-> "", els |-> Nil, fall |-> FALSE]
Say == Plain("say")

-----------------------------------------------------------------------------
(* The meaning. o: how a command ends: "" (and the next one is executed),       *)
(* "break", "cont", "return", "error", "exit", "killed" or "long".             *)

Stop(m, o, st) == [m EXCEPT !.o = o, !.st = st]
Ok(m, st) == [m EXCEPT !.st = st]
Write(m, w, fd) == [m EXCEPT !.out = Append(@, <<fd, w>>)]
SpecialM == {":", "break", "continue", "return", "exit", "eval", "set-e", "shift", "readonly"}

RECURSIVE Mean(_, _, _, _)
\* The EXIT trap is executed with the status of the shell, and keeps it; where the
\* shell was when it ended its output goes.
Gave(m, r) == IF r.o = "exit" THEN r ELSE Ok(r, m.st)
AtExit(m, fd) ==
  IF m.t0 = Nil \/ m.o \in {"killed", "long"} THEN m
  ELSE Gave(m, Mean(m.t0, FALSE, IF m.fd = "" THEN fd ELSE m.fd, [m EXCEPT !.o = "", !.t0 = Nil]))
Parent(m, e) ==
  [m EXCEPT !.st = IF e.o = "killed" THEN 138 ELSE e.st, !.out = e.out, !.fuel = e.fuel, !.o = IF e.o = "long" THEN "long" ELSE ""]
Failed(r) == IF r.o = "error" THEN Ok(r, 2) ELSE r
Subshell(n, ign, fd, m) ==
  Parent(m, AtExit(Failed(Mean(n, ign, fd, [m EXCEPT !.t0 = Nil, !.tu = FALSE, !.inter = FALSE, !.fd = ""])), fd))

\* A utility whose redirections and assignments have been made.
OutOf(m, r) == [r EXCEPT !.fn = m.fn, !.loop = m.loop, !.o = IF r.o = "return" THEN "" ELSE @]
Utility(n, ign, fd, m) ==
  CASE n.c \in {"break", "continue"} ->
         IF m.loop = 0 THEN Ok(m, 0)
         ELSE [m EXCEPT !.o = IF n.c = "break" THEN "break" ELSE "cont", !.k = IF n.k > m.loop THEN m.loop ELSE n.k, !.st = 0]
    [] n.c = "return" -> IF m.fn > 0 THEN Stop(m, "return", IF n.k < 0 THEN m.st ELSE n.k)
                         ELSE IF m.inter THEN Ok(m, IF n.k < 0 THEN m.st ELSE n.k) ELSE Stop(m, "exit", IF n.k < 0 THEN m.st ELSE n.k)
    [] n.c = "exit" -> Stop(m, "exit", IF n.k < 0 THEN m.st ELSE n.k)
    [] n.c = "eval" -> Mean(n.b, ign, fd, m)
    [] n.c = "set-e" -> Ok([m EXCEPT !.e = TRUE], 0)
    [] n.c = "readonly" -> Ok([m EXCEPT !.ro = TRUE], 0)
    [] n.c \in {"shift", "cd"} -> Stop(m, "error", 2)
    [] n.c \in {"false", "fails"} -> Ok(m, 1)
    [] n.c = "down" -> Ok([m EXCEPT !.down = @ - 1], IF m.down > 0 THEN 0 ELSE 1)
    [] n.c = "say" -> Ok(Write(m, m.x, fd), 0)
    [] n.c = "missing" \/ (n.c = "f" /\ (n.via \/ m.body = Nil)) -> Ok(m, 127)
    [] n.c = "f" -> OutOf(m, IF m.fuel = 0 THEN Stop(m, "long", 0)
                             ELSE Mean(m.body, ign, fd, [m EXCEPT !.fn = @ + 1, !.loop = 0, !.fuel = @ - 1]))
    [] n.c = "sig" -> IF m.tu THEN Ok(m, 0) ELSE Stop(m, "killed", 138)
    [] OTHER -> Ok(m, 0)

\* Assignments last after a special built-in utility, or when there is no
\* command; an error in a special one is the shell's.
IsSpecialM(n) == n.c \in SpecialM /\ ~n.via
Lasts(n) == IsSpecialM(n) \/ n.c = ""
Set(n, m) == IF n.x = 0 THEN m ELSE [m EXCEPT !.x = n.x]
Unset(n, m, r) == IF Lasts(n) \/ n.x = 0 THEN r ELSE [r EXCEPT !.x = m.x, !.ro = m.ro]
Forgiven(n, r) == IF r.o = "error" /\ ~IsSpecialM(n) /\ n.c # "f" THEN Ok([r EXCEPT !.o = ""], 2) ELSE r
\* sub: after the command substitution, the output of which is not seen.
NoName(n, m, sub) ==
  IF sub.o # "" THEN sub
  ELSE IF n.x # 0 /\ m.ro THEN [Stop(sub, "error", 2) EXCEPT !.out = m.out]
  ELSE Ok([Set(n, sub) EXCEPT !.out = m.out], IF n.rd \in {"bad", "okbad"} THEN 1 ELSE IF n.b = Nil THEN 0 ELSE sub.st)
SimpleCommand(n, ign, fd, m) ==
  IF n.c = "" THEN NoName(n, m, Subshell(n.b, ign, "lost", m))
  ELSE IF n.x # 0 /\ m.ro THEN Stop(m, "error", 2)
  ELSE IF n.c \in {"missing"} \/ (n.c = "f" /\ m.body = Nil) THEN Ok(m, 127)
  ELSE IF n.rd \notin {"bad", "okbad"}
  THEN Forgiven(n, Unset(n, m, Utility(n, ign, IF n.rd = "ok" THEN "file" ELSE fd, Set(n, m))))
  ELSE IF IsSpecialM(n) /\ ~m.inter THEN Stop(Set(n, m), "exit", 1) ELSE Ok(IF Lasts(n) THEN Set(n, m) ELSE m, 1)

RECURSIVE Times(_, _, _, _, _, _)
\* r: after the condition or the body of iteration i; st: the status of the loop.
Again(n, i, ign, fd, st, r) ==
  CASE r.o = "" \/ (r.o = "cont" /\ r.k = 1) -> Times(n, i + 1, ign, fd, st, [r EXCEPT !.o = ""])
    [] r.o = "break" /\ r.k = 1 -> Ok([r EXCEPT !.o = ""], st)
    [] r.o \in {"break", "cont"} /\ r.k > 1 -> Ok([r EXCEPT !.k = @ - 1], st)
    [] OTHER -> r
AgainAfter(n, i, ign, fd, b) == Again(n, i, ign, fd, b.st, b)
\* c: after the condition.
Body(n, i, ign, fd, st, c) ==
  IF c.o # "" THEN Again(n, i, ign, fd, st, c)
  ELSE IF (c.st = 0) = (n.t = "until") THEN Ok(c, st)
  ELSE IF n.t = "for" /\ n.x /\ c.ro THEN Stop(c, "error", 2)
  ELSE AgainAfter(n, i, ign, fd, IF n.t # "for" THEN Mean(n.b, ign, fd, c) ELSE Mean(n.a, ign, fd, IF n.x THEN [c EXCEPT !.x = i + 1] ELSE c))
\* The iterations of a loop: i of them are done and st is its status so far.
Times(n, i, ign, fd, st, m) ==
  IF m.fuel = 0 THEN Stop(m, "long", 0)
  ELSE Body(n, i, ign, fd, st, IF n.t = "for" THEN [m EXCEPT !.st = IF i < n.items THEN 0 ELSE 1] ELSE Mean(n.a, TRUE, fd, [m EXCEPT !.fuel = @ - 1]))
OutOfLoop(m, r) == [r EXCEPT !.loop = m.loop]
Loop(n, ign, fd, m) == OutOfLoop(m, Times(n, 0, ign, fd, 0, [m EXCEPT !.loop = @ + 1]))

Left(r, fd) == IF r.o = "exit" /\ r.fd = "" THEN [r EXCEPT !.fd = fd] ELSE r
\* ign: -e is ignored.
Checked(ign, fd, r) == Left(IF r.o = "" /\ r.e /\ r.st # 0 /\ ~ign THEN [r EXCEPT !.o = "exit"] ELSE r, fd)
\* r: after the first list.
Rest(n, ign, fd, r) ==
  CASE r.o # "" -> r
    [] r.o = "" /\ n.t = "not" -> Ok(r, IF r.st = 0 THEN 1 ELSE 0)
    [] r.o = "" /\ ((n.t \in {"and", "or"} /\ (n.t = "and") # (r.st = 0)) \/ (n.t = "case" /\ ~n.fall) \/ n.t = "brace") -> r
    [] OTHER -> Mean(IF n.t = "if" /\ r.st # 0 THEN n.els ELSE n.b, ign, fd, r)
LastOne(n, ign, fd, m, l) == IF l.o = "long" THEN l ELSE Checked(ign, fd, Subshell(n.b, ign, fd, [m EXCEPT !.fuel = l.fuel]))
Redirectable == Compound \union {"brace", "subshell"}
Mean(n, ign, fd, m) ==
  CASE n.t = "nil" -> Ok(m, 0)
    [] n.t \in Redirectable /\ n.rd \in {"bad", "okbad"} -> IF n.t = "subshell" THEN Checked(ign, fd, Ok(m, 1)) ELSE Ok(m, 1)
    [] n.t \in Redirectable /\ n.rd = "ok" ->
         IF n.t = "subshell" THEN Checked(ign, fd, Subshell(n.a, ign, "file", m)) ELSE Mean([n EXCEPT !.rd = ""], ign, "file", m)
    [] n.t \in {"list", "and", "or", "not"} \/ (n.t \in {"if", "case", "brace"} /\ n.rd = "") ->
         Rest(n, ign, fd, Mean(n.a, ign \/ n.t \in {"and", "or", "not", "if"}, fd, m))
    [] n.t \in {"while", "until", "for"} /\ n.rd = "" -> Loop(n, ign, fd, m)
    [] n.t = "func" -> Ok([m EXCEPT !.body = n.a], 0)
    [] n.t = "simple" -> Checked(ign, fd, SimpleCommand(n, ign, fd, m))
    [] n.t = "subshell" /\ n.rd = "" -> Checked(ign, fd, Subshell(n.a, ign, fd, m))
    [] n.t = "pipe" -> LastOne(n, ign, fd, m, Subshell(n.a, ign, "lost", m))

Meant(s) == [st |-> 0, o |-> "", k |-> 0, loop |-> 0, fn |-> 0, e |-> s.e, x |-> s.x, ro |-> s.ro, down |-> s.down, body |-> s.body,
             t0 |-> s.t0, tu |-> s.tu # Nil, inter |-> s.inter, out |-> <<>>, fd |-> "", fuel |-> s.fuel]
Over(m) == m.o \in {"exit", "killed", "long"}
RECURSIVE Scripted(_, _)
ScriptedOn(cs, r) ==
  IF r.o = "error" /\ ~r.inter THEN AtExit([r EXCEPT !.o = "exit"], "std")
  ELSE Scripted(cs, IF Over(r) THEN r ELSE [r EXCEPT !.o = ""])
Scripted(cs, m) ==
  IF cs = <<>> \/ Over(m) THEN AtExit(m, "std") ELSE ScriptedOn(Tail(cs), Mean(Head(cs), FALSE, "std", m))

-----------------------------------------------------------------------------
(* The scripts: commands built in two levels from simple ones, executed in the *)
(* shell and as the body of a function.                                         *)

Simple == {Plain(c) : c \in {"true", "false", "say", "cd", "shift", "f", "sig", "set-e", "missing", "readonly"}}
          \union {Op("break", 1), Op("continue", 1), Op("break", 2), Op("return", 3), Op("return", -1), Op("exit", 4), Op("exit", -1)}
          \union {Cmd("shift", 0, 0, "", TRUE, Nil), Cmd("say", 0, 5, "", FALSE, Nil), Cmd(":", 0, 6, "", FALSE, Nil), Cmd("f", 0, 7, "", FALSE, Nil)}
          \union {Cmd("say", 0, 0, rd, FALSE, Nil) : rd \in {"ok", "okbad"}} \union {Cmd(":", 0, 0, "bad", FALSE, Nil), Cmd("", 0, 8, "", FALSE, Nil)}
Few == {Plain("false"), Say, Op("break", 1), Op("continue", 2), Op("return", 3), Plain("shift"), Plain("f"), Cmd("f", 0, 7, "ok", FALSE, Nil)}
Forms == {"list", "and", "or", "not", "if", "while", "until", "for", "forx", "case", "fall", "brace", "braceok", "bracebad",
          "subshell", "subok", "pipe", "eval", "command", "assign"}
\* until loops begin with a count, so that they come to an end.
Made(t, a, b) ==
  CASE t \in {"list", "and", "or", "not", "pipe", "case"} -> Binary(t, a, b)
    [] t = "if" -> [Binary(t, a, Say) EXCEPT !.els = b]
    [] t = "while" -> Binary(t, Binary("and", Plain("down"), a), b)
    [] t = "until" -> Binary(t, Binary("or", Binary("not", Plain("down"), Nil), a), b)
    [] t = "for" -> Binary("for", Binary("list", a, b), Nil) @@ [items |-> 2, x |-> FALSE]
    [] t = "forx" -> [(Binary("for", Binary("list", a, b), Nil) @@ [items |-> 2, x |-> TRUE]) EXCEPT !.rd = "ok"]
    [] t = "fall" -> [Binary("case", a, b) EXCEPT !.fall = TRUE]
    [] t = "brace" -> Binary("brace", Binary("list", a, b), Nil)
    [] t = "braceok" -> [Binary("brace", Binary("list", a, b), Nil) EXCEPT !.rd = "ok"]
    [] t = "bracebad" -> Binary("list", [Binary("brace", a, Nil) EXCEPT !.rd = "okbad"], b)
    [] t = "subshell" -> Binary("subshell", Binary("list", a, b), Nil)
    [] t = "subok" -> Binary("list", [Binary("subshell", a, Nil) EXCEPT !.rd = "ok"], b)
    [] t = "eval" -> Binary("list", Cmd("eval", 0, 0, "", FALSE, a), b)
    [] t = "command" -> Binary("list", Cmd("eval", 0, 0, "ok", TRUE, a), b)
    [] t = "assign" -> Binary("and", Cmd("", 0, 9, "", FALSE, a), b)
\* The shell at the start: -e, an EXIT trap, a trap for SIGUSR1, or interactive.
Trap == Binary("list", Say, Plain("false"))
Shells == {Fresh(FALSE), [Fresh(FALSE) EXCEPT !.e = TRUE], [Fresh(FALSE) EXCEPT !.t0 = Trap, !.tu = Binary("or", Plain("false"), Plain("true"))], Fresh(TRUE)}
Started(s, p) == \* p as the whole script, and as a function of it
  {<<p, Say>>, <<Binary("func", p, Nil), Binary("list", Plain("f"), Say), Say>>}

mcvars == <<vars, start>>

Init == \E s \in Shells : sh = s /\ script = <<>> /\ start = [sh |-> s, script |-> <<>>]
\* The script is chosen first.
Choose(p) == \E c \in Started(sh, p) : script' = c /\ start' = [sh |-> sh, script |-> c] /\ UNCHANGED sh
One == start.script = <<>> /\ \E t \in Forms : \E a, b \in Simple : Choose(Made(t, a, b))
Two == start.script = <<>> /\ \E t, u \in Forms : \E a \in Few : \E b \in {Say, Op("break", 1), Plain("shift")} : \E c \in {Say, Plain("false")} :
                                Choose(Made(t, Made(u, a, b), c))
Next == One \/ Two \/ (start.script # <<>> /\ ShellNext /\ UNCHANGED start)
Spec == Init /\ [][Next]_mcvars

-----------------------------------------------------------------------------
RECURSIVE Parts(_)
Parts(n) == {n} \union UNION {Parts(n[f]) : f \in DOMAIN n \intersect {"a", "b", "els"}}
Has(n, t(_)) == \E q \in Parts(n) : t(q)
\* What the code does otherwise: ";&" where nothing follows in a subshell, return
\* as the condition of a loop, a jump under "!", an error in a loop that a regular
\* built-in utility catches.
Jumps(n, cs) == LET t(q) == q.t = "simple" /\ q.c \in cs IN Has(n, t)
Apart(n) ==
  LET forks(q) == q.t \in {"subshell", "pipe"} \/ (q.t = "simple" /\ q.c = "" /\ q.b # Nil)
      falls(q) == q.t = "case" /\ q.fall
      fork(q) == forks(q) /\ Has(q, falls)
      asks(q) == (q.t \in {"while", "until"} /\ Jumps(q.a, {"return", "f"})) \/ (q.t = "not" /\ Jumps(q.a, {"return", "f", "break", "continue"}))
      loops(q) == q.t \in {"while", "until", "for"}
      catches(q) == q.t = "simple" /\ q.via /\ Has(q, loops)
  IN Has(n, fork) \/ Has(n, asks) \/ Has(n, catches)
Excepted == (\E i \in DOMAIN start.script : Apart(start.script[i])) \/ sh.exc \in {"long", "leaked"} \/ sh.params = "freed"

Agrees(m) == m.o # "long" => m.out = sh.out /\ m.st = Ended(sh) /\ m.x = sh.x

\* exec.c: a script has the output, the status and the variables that its
\* structure gives it, whatever of it runs in place, in a child or in a handler.
AsMeant == Away(sh) /\ ~Excepted => Agrees(Scripted(start.script, Meant(start.sh)))
\* exec.c: after a complete command, also one that an error ended, the shell is in
\* no loop, function, trap or condition, and its files are as they were.
Restored == ~Away(sh) /\ ~Excepted =>
              /\ sh.fd = "std" /\ sh.saves = <<>>
              /\ sh.loop = 0 /\ sh.fn = 0 /\ sh.sup = 0 /\ sh.skip = "" /\ sh.intrap = 0 /\ sh.hand = 0
================================================================================
