--------------------------------- MODULE LexDfa ---------------------------------
(***************************************************************************)
(* lex: from the rules to the scanner's automaton.  Thompson automata for  *)
(* the patterns, the subset construction with a start state for each start *)
(* condition (and for the beginning of a line), separate automata for the  *)
(* two parts of a variable trailing context, and minimization.             *)
(*                                                                         *)
(* A pattern is a tree of nodes, a character set a set of characters.      *)
(***************************************************************************)
EXTENDS Integers, Sequences, FiniteSets, SequencesExt, FiniteSetsExt

ReNode(type, set, subs, min, max) == [type |-> type, set |-> set, subs |-> subs, min |-> min, max |-> max]
SetNode(cs) == ReNode("set", cs, <<>>, 0, 0)
Cat(a, b) == ReNode("cat", {}, <<a, b>>, 0, 0)
Alt(a, b) == ReNode("alt", {}, <<a, b>>, 0, 0)
Star(a) == ReNode("star", {}, <<a>>, 0, 0)
Plus(a) == ReNode("plus", {}, <<a>>, 0, 0)
Quest(a) == ReNode("quest", {}, <<a>>, 0, 0)
NoMax == -1
Rep(a, min, max) == ReNode("rep", {}, <<a>>, min, max)

\* The length of what a pattern matches, -1 if it varies.
SumOf(a, b) == IF a < 0 \/ b < 0 THEN -1 ELSE a + b
Same(a, b) == IF a = b THEN a ELSE -1
Times(a, min, max) == IF a = 0 THEN 0 ELSE IF a < 0 \/ min # max THEN -1 ELSE a * min
RECURSIVE fixed_length(_)
fixed_length(n) ==
  CASE n.type = "empty" -> 0
    [] n.type = "set" -> 1
    [] n.type = "cat" -> SumOf(fixed_length(n.subs[1]), fixed_length(n.subs[2]))
    [] n.type = "alt" -> Same(fixed_length(n.subs[1]), fixed_length(n.subs[2]))
    [] n.type \in {"star", "plus", "quest"} -> IF fixed_length(n.subs[1]) = 0 THEN 0 ELSE -1
    [] n.type = "rep" -> Times(fixed_length(n.subs[1]), n.min, n.max)

Trailing(r) == r.x # <<>>
rlen(r) == fixed_length(r.r)
xlen(r) == fixed_length(r.x[1])
Whole(r) == IF Trailing(r) THEN Cat(r.r, r.x[1]) ELSE r.r
\* Cutting the match needs the automata of both parts.
GenericCut(r) == Trailing(r) /\ rlen(r) < 0 /\ xlen(r) < 0

--------------------------------------------------------------------------------
(* The nondeterministic automaton: a sequence of states.  build returns it *)
(* with the first and the last state of a pattern's part.                  *)

NoState == 0
Eps == [type |-> "eps", set |-> {}, out1 |-> NoState, out2 |-> NoState, acc |-> NoState]
OnSet(cs, to) == [type |-> "set", set |-> cs, out1 |-> to, out2 |-> NoState, acc |-> NoState]
AccState(rule, kind) == [type |-> "acc", set |-> {}, out1 |-> NoState, out2 |-> NoState, acc |-> <<rule, kind>>]

Frag(ns, s, e) == [ns |-> ns, s |-> s, e |-> e]
Join(ns, e, to) == [ns EXCEPT ![e].out1 = to]

\* Two parts one after the other, one or the other, one part again or not at all.
Concat(a, b) == Frag(Join(b.ns, a.e, b.s), a.s, b.e)
EitherOf(a, b) ==
  LET s == Len(b.ns) + 1
  IN Frag(Join(Join(b.ns \o <<[Eps EXCEPT !.out1 = a.s, !.out2 = b.s], Eps>>, a.e, s + 1), b.e, s + 1), s, s + 1)
Looped(a, type) ==
  LET s == Len(a.ns) + 1
      all == a.ns \o <<[Eps EXCEPT !.out1 = a.s, !.out2 = IF type = "plus" THEN NoState ELSE s + 1], Eps>>
  IN Frag([all EXCEPT ![a.e].out1 = s + 1, ![a.e].out2 = IF type = "quest" THEN @ ELSE a.s], s, s + 1)
Single(ns) == Frag(Append(ns, Eps), Len(ns) + 1, Len(ns) + 1)

RECURSIVE build(_, _)
Then(a, n) == Concat(a, build(a.ns, n))
Copies(ns, parts) == IF parts = <<>> THEN Single(ns) ELSE FoldLeft(Then, build(ns, Head(parts)), Tail(parts))
Expanded(n) == [i \in 1..n.min |-> n.subs[1]]
               \o (IF n.max = NoMax THEN <<Star(n.subs[1])>> ELSE [i \in 1..(n.max - n.min) |-> Quest(n.subs[1])])
Alternatives(a, n) == EitherOf(a, build(a.ns, n))
build(ns, n) ==
  CASE n.type = "empty" -> Single(ns)
    [] n.type = "set" -> Frag(ns \o <<OnSet(n.set, Len(ns) + 2), Eps>>, Len(ns) + 1, Len(ns) + 2)
    [] n.type = "cat" -> Then(build(ns, n.subs[1]), n.subs[2])
    [] n.type = "alt" -> Alternatives(build(ns, n.subs[1]), n.subs[2])
    [] n.type \in {"star", "plus", "quest"} -> Looped(build(ns, n.subs[1]), n.type)
    [] n.type = "rep" -> Copies(ns, Expanded(n))

\* The automaton of a rule or of a part of it, with its accepting state.
Accepting(f, rule, kind) ==
  Frag(Join(Append(f.ns, AccState(rule, kind)), f.e, Len(f.ns) + 1), f.s, Len(f.ns) + 1)
build_accepting(ns, n, rule, kind) == Accepting(build(ns, n), rule, kind)

--------------------------------------------------------------------------------
(* The subset construction. *)

WithEps(ns, S) == S \cup (UNION {{ns[i].out1, ns[i].out2} : i \in {j \in S : ns[j].type = "eps"}} \ {NoState})
RECURSIVE EpsFrom(_, _)
EpsFrom(ns, S) == IF WithEps(ns, S) = S THEN S ELSE EpsFrom(ns, WithEps(ns, S))
\* The states that matter.
Stable(ns, S) == {i \in S : ns[i].type # "eps"}
eps_closure(ns, S) == Stable(ns, EpsFrom(ns, S))
Move(ns, d, c) == eps_closure(ns, {ns[i].out1 : i \in {j \in d : ns[j].type = "set" /\ c \in ns[j].set}})

RECURSIVE Reached(_, _, _, _)
Onward(ns, Chars, ds) == {Move(ns, d, c) : d \in ds, c \in Chars} \ {{}}
Reached(ns, Chars, known, todo) ==
  IF todo = {} THEN known ELSE Reached(ns, Chars, known \cup todo, Onward(ns, Chars, todo) \ (known \cup todo))

Accepts(ns, d) == {ns[i].acc : i \in {j \in d : ns[j].type = "acc"}}
\* The rules of a state, the earliest first; whether it ends an r, or an x.
AcceptOf(ns, d) ==
  [acc |-> SetToSortSeq({a[1] : a \in {b \in Accepts(ns, d) : b[2] = "rule"}}, <),
   racc |-> \E a \in Accepts(ns, d) : a[2] = "r",
   xacc |-> \E a \in Accepts(ns, d) : a[2] = "x"]

--------------------------------------------------------------------------------
(* Minimization: blocks with the same acceptance, refined until stable. *)

Block(cls, d) == IF d = {} THEN {} ELSE cls[d]
RefineOnce(ns, Chars, cls) ==
  [d \in DOMAIN cls |-> {e \in cls[d] : \A c \in Chars : Block(cls, Move(ns, e, c)) = Block(cls, Move(ns, d, c))}]
RECURSIVE Refined(_, _, _)
Finer(ns, Chars, cls, finer) == IF finer = cls THEN cls ELSE Refined(ns, Chars, finer)
Refined(ns, Chars, cls) == Finer(ns, Chars, cls, RefineOnce(ns, Chars, cls))
ByRulesOnly(ns, ds) == [d \in ds |-> {e \in ds : AcceptOf(ns, e).acc = AcceptOf(ns, d).acc}]
same_accept(ns, ds) == [d \in ds |-> {e \in ds : AcceptOf(ns, e) = AcceptOf(ns, d)}]

\* The scanner's tables, evaluated once.  No state is {}.
Table(f) == f @@ <<>>
WithRule(n, f) == [n EXCEPT !.ns = f.ns, !.starts = Append(@, f.s)]
WithR(n, f) == [n EXCEPT !.ns = f.ns, !.r = Append(@, f.s)]
WithX(n, f) == [n EXCEPT !.ns = f.ns, !.x = Append(@, f.s)]
Cut(n, r, k) == LET both == WithR(n, build_accepting(n.ns, r.r, k, "r"))
                IN WithX(both, build_accepting(both.ns, r.x[1], k, "x"))
Uncut(n) == [n EXCEPT !.r = Append(@, NoState), !.x = Append(@, NoState)]
\* All rules in one automaton; then the parts of those that need them.
Nfa(rules) ==
  LET each == [k \in DOMAIN rules |-> k]
      whole == FoldLeft(LAMBDA n, k : WithRule(n, build_accepting(n.ns, Whole(rules[k]), k, "rule")),
                        [ns |-> <<>>, starts |-> <<>>, r |-> <<>>, x |-> <<>>], each)
  IN FoldLeft(LAMBDA n, k : IF GenericCut(rules[k]) THEN Cut(n, rules[k], k) ELSE Uncut(n), whole, each)

Start(n, rules, cond, bol) ==
  eps_closure(n.ns, {n.starts[k] : k \in {j \in DOMAIN rules : cond \in rules[j].sc /\ (bol \/ ~rules[j].bol)}})
Part(n, s) == IF s = NoState THEN {} ELSE eps_closure(n.ns, {s})
Starts(n, rules, conds) == ({Start(n, rules, cond, bol) : cond \in conds, bol \in BOOLEAN}
                            \cup {Part(n, s) : s \in ToSet(n.r) \cup ToSet(n.x)}) \ {{}}
Minimal(n, Chars, ds) == Refined(n.ns, Chars, same_accept(n.ns, ds))
\* cls: the block of each state.
State(b) == CHOOSE d \in b : TRUE
DfaTables(n, rules, conds, Chars, cls) ==
  [start |-> Table([p \in conds \X BOOLEAN |-> Block(cls, Start(n, rules, p[1], p[2]))]),
   tc_r |-> Table([k \in DOMAIN rules |-> Block(cls, Part(n, n.r[k]))]),
   tc_x |-> Table([k \in DOMAIN rules |-> Block(cls, Part(n, n.x[k]))]),
   trans |-> Table([p \in {cls[d] : d \in DOMAIN cls} \X Chars |-> Block(cls, Move(n.ns, State(p[1]), p[2]))]),
   accept |-> Table([b \in {cls[d] : d \in DOMAIN cls} |-> AcceptOf(n.ns, State(b))])]
FromNfa(n, rules, conds, Chars) ==
  DfaTables(n, rules, conds, Chars, Minimal(n, Chars, Reached(n.ns, Chars, {}, Starts(n, rules, conds))))
build_automata(rules, conds, Chars) == FromNfa(Nfa(rules), rules, conds, Chars)

================================================================================
