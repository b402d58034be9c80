------------------------------- MODULE MCTools -------------------------------
(* sort, join, comm, uniq, tsort, sed, xargs and m4 for TLC.  A behaviour is *)
(* about one of them; the variables of the others stay as they are (task is  *)
(* of the first and m4, out of sed and m4).                                  *)
EXTENDS Integers, Sequences, SequencesExt, FiniteSets, Sort, Join

------------------------------------------------------------------------------
(* sort, join, comm, uniq and tsort: each tool against what it is for, and    *)
(* against the other tools.                                                   *)

VARIABLES task, answer

\* Lines over a few characters; the words and numbers that are compared.
Str(S, n) == UNION {[1..k -> S] : k \in 0..n}
Count(x, v) == Cardinality({i \in DOMAIN v : v[i] = x})
SameLines(v, w) == Len(v) = Len(w) /\ \A x \in ToSet(v) : Count(x, v) = Count(x, w)

Key(f, ch, ef, ec, fl) == [sf |-> f, sc |-> ch, ef |-> ef, ec |-> ec, hasEnd |-> ef # 0, flags |-> fl, own |-> fl # {}]
O(ks, fl, t, u) == [keys |-> ks, g |-> fl, t |-> t, u |-> u]
Numbers == {<<>>, <<48>>, <<45, 48>>, <<49>>, <<45, 49>>, <<49, 48>>, <<48, 57>>, <<57>>, <<49, 46, 53>>, <<45, 49, 46, 53>>,
            <<46, 53, 48>>, <<32, 57>>, <<49, 44, 48, 48>>, <<49, 48, 48>>, <<44, 57>>, <<57, 97>>, <<46>>, <<49, 46>>}
Words == Str({32, 65, 97}, 2) \union {<<98, 32, 97>>, <<97, 32, 98>>, <<97, 32, 32, 65>>, <<32, 97, 32, 97>>, <<33, 97>>}
Colons == Str({58, 97, 98}, 3)

\* What is sorted: [options, lines].
Sorts ==
  [o : {O(<<>>, g, 0, u) : g \in {{}, {"r"}, {"f"}, {"d"}, {"b", "e"}, {"f", "r"}}, u \in BOOLEAN}
        \union {O(<<Key(2, 1, 0, 0, {})>>, {}, 0, FALSE), O(<<Key(2, 1, 2, 0, {"b"}), Key(1, 1, 1, 1, {"r"})>>, {}, 0, TRUE),
                O(<<Key(1, 2, 2, 1, {"b", "e"})>>, {"r"}, 0, FALSE)}, of : {Words}]
  \union [o : {O(<<>>, g, 0, u) : g \in {{"n"}, {"n", "r"}}, u \in BOOLEAN}, of : {Numbers}]
  \union [o : {O(<<Key(2, 1, 2, 0, {})>>, {}, 58, FALSE), O(<<Key(3, 1, 0, 0, {}), Key(1, 1, 1, 0, {"r"})>>, {}, 58, TRUE),
               O(<<Key(1, 2, 2, 1, {})>>, {"r"}, 58, FALSE)}, of : {Colons}]

\* Files of up to three lines, of the few lines that tell the options apart.
SomeWords == {<<97>>, <<65>>, <<97, 32, 98>>, <<98, 32, 97>>, <<97, 32, 32, 65>>, <<32, 97, 32, 97>>}
SomeNumbers == {<<49>>, <<48, 49>>, <<45, 49>>, <<57>>, <<49, 48>>, <<57, 97>>}
SomeColons == {<<97>>, <<98, 58>>, <<97, 58, 98>>, <<58, 97>>, <<98, 58, 97>>, <<58, 58, 97>>}
Few(S) == IF S = Words THEN SomeWords ELSE IF S = Numbers THEN SomeNumbers ELSE SomeColons
Files(S) == {v \in [1..2 -> Str(S, 2)] : Len(v[1]) + Len(v[2]) <= 3}
SortTasks == UNION {[kind : {"sort"}, o : {x.o}, files : Files(Few(x.of))] : x \in Sorts}
OrderTasks == UNION {[kind : {"order"}, o : {x.o}, a : x.of, b : x.of] : x \in Sorts}

\* Joined: lines of one or two fields, in the order of the join field.
F1 == {<<<<97>>>>, <<<<97>>, <<98>>>>, <<<<98>>, <<97>>>>, <<<<>>, <<97>>>>, <<<<97>>, <<>>, <<98>>>>}
InOrder(f, k) == \A i \in 1 .. Len(f) - 1 : Coll(FieldOf(f[i], k), FieldOf(f[i + 1], k)) <= 0
JoinOps == {[jf |-> jf, a |-> a, v |-> v, o |-> o, e |-> <<101>>] :
              jf \in {<<1, 1>>, <<1, 2>>}, a \in {{}, {1}, {1, 2}}, v \in {{}, {2}}, o \in {<<>>, <<<<0>>, <<1, 2>>, <<2, 1>>>>}}
JoinTasks == UNION {[kind : {"join"}, op : {op}, f1 : {f \in Str(F1, 2) : InOrder(f, op.jf[1])},
                     f2 : {f \in Str(F1, 2) : InOrder(f, op.jf[2])}] : op \in JoinOps}

\* Compared: sorted files; and the runs of uniq.
AB == Str({97, 98}, 1)
Asc(v) == \A i \in 1 .. Len(v) - 1 : Coll(v[i], v[i + 1]) <= 0
CommTasks == [kind : {"comm"}, show : SUBSET (1..3), a : {v \in Str(AB, 3) : Asc(v)}, b : {v \in Str(AB, 3) : Asc(v)}]
UniqTasks == [kind : {"uniq"}, op : [f : 0..1, s : 0..1, d : BOOLEAN, u : BOOLEAN],
              v : Str({<<97>>, <<97, 32, 98>>, <<98, 32, 98>>, <<32, 97>>}, 3)]
TsortTasks == [kind : {"tsort"}, words : UNION {[1..n -> {"a", "b", "c"}] : n \in 0..6} \union
                 {<<"b", "a", "a", "b", "c", "d", "d", "c", "c", "a">>, <<"a", "b", "b", "c", "c", "a", "c", "d">>,
                  <<"c", "a", "b", "d", "a", "b", "d", "c", "b", "c">>}]

Run(t) == CASE t.kind = "order" -> linecmp(t.o, t.a, t.b)
            [] t.kind = "sort"  -> sort_all(t.o, t.files)
            [] t.kind = "join"  -> join(t.op, t.f1, t.f2)
            [] t.kind = "comm"  -> comm(t.show, t.a, t.b)
            [] t.kind = "uniq"  -> uniq(t.op, t.v)
            [] t.kind = "tsort" -> tsort(t.words)

Init == /\ task \in OrderTasks \union SortTasks \union JoinTasks \union CommTasks \union UniqTasks \union TsortTasks
        /\ answer = <<>>
Next == answer = <<>> /\ answer' = <<Run(task)>> /\ UNCHANGED task
Spec == Init /\ [][Next]_<<task, answer>>
Is(k) == task.kind = k /\ answer # <<>>
Out == answer[1]

----------------------------------------------------------------------------
\* The order of the lines is one, whatever the keys: it is turned around
\* with the lines, it is transitive (so qsort has a defined result), and of
\* two numbers the lesser comes first.
Value(n) == LET Add(v, c) == 10 * v + (c - 48)
                f == FoldLeft(Add, 0, n.int \o SubSeq(n.frac \o <<48, 48>>, 1, 2))
            IN  IF n.neg THEN -f ELSE f
ByValue(x, y) == /\ x # y => ((Out < 0) = (IF "r" \in task.o.g THEN x > y ELSE x < y))
                 /\ task.o.u /\ x = y => Out = 0
OrderIsOne ==
    Is("order") =>
      /\ linecmp(task.o, task.b, task.a) = -Out
      /\ \A c \in {x \in Words \union Numbers : Len(x) < 3} :
           Out <= 0 /\ linecmp(task.o, task.b, c) <= 0 => linecmp(task.o, task.a, c) <= 0
      /\ "n" \in task.o.g => ByValue(Value(Number(task.a)), Value(Number(task.b)))

\* sort writes the lines it read, in order; to sort each file and to merge
\* them, or to sort the result again, changes nothing; -c accepts it; with
\* -u the first line read of those with equal keys is left.
Each(fs) == FlattenSeq(fs)
SortAgrees ==
    Is("sort") =>
      LET o == task.o
          v == Each(task.files)
          sorted == [i \in 1..2 |-> sort_all(o, <<task.files[i]>>)]
      IN  /\ ~o.u => SameLines(v, Out)
          /\ check(o, Out) = 0 /\ sort_all(o, <<Out>>) = Out
          /\ merge(o, sorted) = Out
          /\ o.u => \A i \in DOMAIN v :
               (\A j \in 1 .. i - 1 : keycmp(o, v[i], v[j]) # 0) <=> (\E k \in DOMAIN Out : Out[k] = v[i] /\
                 i = CHOOSE m \in DOMAIN v : v[m] = v[i] /\ \A n \in 1 .. m - 1 : v[n] # v[i])

\* join writes the pairs of lines with equal fields, and the lines without
\* one as asked; each as often as there are such pairs.
JoinIsJoin ==
    Is("join") =>
      LET op == task.op
          f1 == task.f1
          f2 == task.f2
          eq(i, j) == key(op, f1[i], 1) = key(op, f2[j], 2)
          pairs == IF op.v = {} THEN {p \in (DOMAIN f1) \X (DOMAIN f2) : eq(p[1], p[2])} ELSE {}
          lone1 == IF 1 \in op.a \union op.v THEN {i \in DOMAIN f1 : \A j \in DOMAIN f2 : ~eq(i, j)} ELSE {}
          lone2 == IF 2 \in op.a \union op.v THEN {j \in DOMAIN f2 : \A i \in DOMAIN f1 : ~eq(i, j)} ELSE {}
          times(x) == Cardinality({p \in pairs : output(op, f1[p[1]], f2[p[2]]) = x})
                      + Cardinality({i \in lone1 : output(op, f1[i], NoLine) = x})
                      + Cardinality({j \in lone2 : output(op, NoLine, f2[j]) = x})
      IN  /\ Len(Out) = Cardinality(pairs) + Cardinality(lone1) + Cardinality(lone2)
          /\ \A k \in DOMAIN Out : Count(Out[k], Out) = times(Out[k])

\* comm puts each line of both files in one column, the common ones as often
\* as both have them; a column that is left out takes nothing from the others.
CommParts ==
    Is("comm") =>
      LET in(c, l) == Cardinality({i \in DOMAIN Out : Out[i].col = c /\ Out[i].l = l})
          both(l) == LET x == Count(l, task.a)
                         y == Count(l, task.b)
                     IN  IF x < y THEN x ELSE y
      IN  \A l \in ToSet(task.a) \union ToSet(task.b) :
            /\ 1 \in task.show => in(1, l) = Count(l, task.a) - both(l)
            /\ 2 \in task.show => in(2, l) = Count(l, task.b) - both(l)
            /\ 3 \in task.show => in(3, l) = both(l)

(* A subsequence of another sequence.                                      *)
Within(v, w) == \E f \in [DOMAIN v -> DOMAIN w] : /\ \A i \in DOMAIN v : v[i] = w[f[i]]
                                                  /\ \A i, j \in DOMAIN v : i < j => f[i] < f[j]

\* uniq takes each line into one run: the counts add up, and -d and -u share
\* the runs between them; with -f and -s blank fields and characters count.
UniqParts ==
    Is("uniq") =>
      LET op == task.op
          all == uniq([op EXCEPT !.d = FALSE, !.u = FALSE], task.v)
          d == uniq([op EXCEPT !.d = TRUE, !.u = FALSE], task.v)
          u == uniq([op EXCEPT !.d = FALSE, !.u = TRUE], task.v)
      IN  /\ FoldLeft(LAMBDA n, r : n + r.count, 0, all) = Len(task.v)
          /\ Len(d) + Len(u) = Len(all) /\ Within(Out, all)
          /\ op.f = 0 /\ op.s = 0 /\ ~op.d /\ ~op.u /\ (\A i \in 1 .. Len(task.v) - 1 : bytecmp(task.v[i], task.v[i + 1]) <= 0) =>
               [i \in DOMAIN Out |-> Out[i].l] = sort_all(O(<<>>, {}, 0, TRUE), <<task.v>>)

\* tsort writes every item once; what is reported is a cycle of the edges;
\* an item that comes before one it must follow was the item a cycle was
\* broken at, and without a cycle nothing is reported.
Reaches(es, a, b) ==
    LET Steps[n \in Nat] == IF n = 0 THEN {a} ELSE Steps[n - 1] \union {e[2] : e \in {x \in ToSet(es) : x[1] \in Steps[n - 1]}}
    IN  b \in UNION {{e[2] : e \in {x \in ToSet(es) : x[1] = y}} : y \in Steps[4]}
TsortOrders ==
    Is("tsort") /\ ~Out.error =>
      LET es == Edges(task.words)
          at(x) == SelectInSeq(Out.out, LAMBDA n : n = x)
          broken == {Out.cycles[k].at : k \in DOMAIN Out.cycles}
      IN  /\ SameLines(Nodes(task.words), Out.out)
          /\ \A e \in ToSet(es) : at(e[2]) < at(e[1]) => e[2] \in broken
          /\ \A k \in DOMAIN Out.cycles :
               LET c == Out.cycles[k].cycle
               IN  \A i \in DOMAIN c : \E e \in ToSet(es) : e = <<c[i], c[IF i = Len(c) THEN 1 ELSE i + 1]>>
          /\ (\A x \in ToSet(Out.out) : ~Reaches(es, x, x)) => Out.cycles = <<>>

LinesAgree == OrderIsOne /\ SortAgrees /\ JoinIsJoin /\ CommParts /\ UniqParts /\ TsortOrders

------------------------------------------------------------------------------
(* m4: pairs of inputs that mean the same, and inputs with what they give.   *)

Bits6 == INSTANCE M4Eval WITH Bits <- 6

-----------------------------------------------------------------------------
(* Texts: all up to a length, with their quotes closed.                      *)
Balanced(t, open, close) ==
  FoldLeft(LAMBDA n, c : IF n < 0 THEN n ELSE IF c = open THEN n + 1 ELSE IF c = close THEN n - 1 ELSE n, 0, t) = 0
TextsTo(n) == {t \in BoundedSeq({"x", "(", ")", ",", "lq", "rq", " ", "#"}, n) : Balanced(t, "lq", "rq")}
Texts1 == TextsTo(1)
Texts2 == TextsTo(2)
Texts3 == TextsTo(3)
Plains == BoundedSeq({"y", ";"}, 3)
Paired == {t \in Texts2 : Balanced(t, "(", ")") /\ "#" \notin Range(t)}

Q(t) == <<"lq">> \o t \o <<"rq">>
Call(name, args) == <<name, "(">> \o FoldLeft(LAMBDA s, i : s \o (IF i > 1 THEN <<",">> ELSE <<>>) \o args[i], <<>>,
                                              [i \in DOMAIN args |-> i]) \o <<")">>
Num(v) == Bits6!Shown(v, 10, 1)
Cut == <<"lq", "rq">>

\* What x means: a comma, a quoted one, its arguments, itself.
Xs == {<<",">>, <<"lq", ",", "rq">>, <<"$", "*">>, <<"$", "@", "$", "2">>, <<"y", "$", "#">>}
Same(p, q, x) == [p |-> p, q |-> q, want |-> <<>>, x |-> x, swap |-> FALSE, fails |-> FALSE]
Gives(p, text) == [p |-> <<p>>, q |-> <<>>, want |-> text, x |-> <<",">>, swap |-> FALSE, fails |-> FALSE]
\* The text with [ and ] for its quotes.
Bracketed(t) == [i \in DOMAIN t |-> CASE t[i] = "lq" -> "[" [] t[i] = "rq" -> "]" [] OTHER -> t[i]]

-----------------------------------------------------------------------------
\* Expressions as trees, written with as few parentheses as C's precedences allow.
Leaves == {[op |-> "", text |-> <<d>>, kids |-> <<>>] : d \in {"0", "2", "3"}}
BinaryOps == UNION {Bits6!Levels[k] : k \in DOMAIN Bits6!Levels}
Tree(op, kids) == [op |-> IF Len(op) = 1 THEN op[1] ELSE op[1] \o op[2], text |-> op, kids |-> kids]
Strength(t) == IF Len(t.kids) < 2 THEN 99 ELSE CHOOSE k \in DOMAIN Bits6!Levels : t.text \in Bits6!Levels[k]
Parens(t) == <<"(">> \o t \o <<")">>
RECURSIVE Written(_)
Written(t) ==
  LET kid(k, min) == IF Strength(t.kids[k]) < min THEN Parens(Written(t.kids[k])) ELSE Written(t.kids[k])
  IN CASE Len(t.kids) = 0 -> t.text
       [] Len(t.kids) = 1 -> t.text \o kid(1, 99)
       [] OTHER -> kid(1, Strength(t)) \o t.text \o <<" ">> \o kid(2, Strength(t) + 1)
\* The value of a tree, as C has it; none when something that counts is divided by 0.
RECURSIVE ValueOf(_)
ValueOf(t) ==
  LET a == ValueOf(t.kids[1])  b == ValueOf(t.kids[2])
      each(op(_, _)) == {op(v, w) : v \in a, w \in b}
  IN CASE Len(t.kids) = 0 -> {Bits6!DigitValue(t.text[1])}
       [] Len(t.kids) = 1 -> {Bits6!Unary(t.op, v) : v \in a}
       [] t.op = "&&" -> UNION {IF v = 0 THEN {0} ELSE {Bits6!Truth(w # 0) : w \in b} : v \in a}
       [] t.op = "||" -> UNION {IF v # 0 THEN {1} ELSE {Bits6!Truth(w # 0) : w \in b} : v \in a}
       [] t.op \in {"/", "%"} -> IF b = {0} THEN {} ELSE each(LAMBDA v, w : Bits6!Binary(t.text, v, w))
       [] OTHER -> each(LAMBDA v, w : Bits6!Binary(t.text, v, w))
Evaluates(t) == LET v == ValueOf(t)
                IN [Gives(Call("eval", <<Q(Written(t))>>), IF v = {} THEN <<>> ELSE Num(CHOOSE x \in v : TRUE))
                      EXCEPT !.fails = v = {}]
Flat == {Tree(op, <<a, b>>) : op \in BinaryOps, a, b \in Leaves}

\* One operand of the outer operator, zero and not.
Ends == {l \in Leaves : l.text \in {<<"0">>, <<"3">>}}
Trees == UNION {
  {Tree(op, <<f, l>>) : op \in BinaryOps, f \in Flat, l \in Ends},
  {Tree(op, <<l, f>>) : op \in BinaryOps, f \in Flat, l \in Ends},
  {Tree(<<u>>, <<f>>) : u \in {"-", "~", "!"}, f \in Flat},
  {Tree(op, <<Tree(<<u>>, <<k>>), l>>) : op \in BinaryOps, u \in {"-", "~", "!"}, k, l \in Leaves},
  {Tree(op, <<k, Tree(<<u>>, <<l>>)>>) : op \in BinaryOps, u \in {"-", "~", "!"}, k, l \in Leaves}}
Expressions == {Evaluates(t) : t \in Trees}

-----------------------------------------------------------------------------
\* The parts of a text, its length, a place in it, and letters for letters and back.
Pieces == UNION {
  {Gives(Call("substr", <<Q(a), <<"0">>, Num(n)>>) \o Cut \o Call("substr", <<Q(a), Num(n)>>), a) : a \in Plains, n \in 0..3},
  {Gives(Call("len", <<Q(a)>>), Num(Len(a))) : a \in Plains},
  {Gives(Call("incr", <<Call("index", <<Q(a \o <<"#">>), Q(<<"#">>)>>)>>), Num(Len(a) + 1)) : a \in Plains},
  {Gives(Call("translit", <<Call("translit", <<Q(a), <<"y", ";">>, <<";", "y">>>>), <<"y", ";">>, <<";", "y">>>>), a) : a \in Plains}}

\* Quoted texts, names that are no calls, reversed arguments, other quotes.
Quoting == UNION {
  {Gives(Q(a), a) : a \in Texts3},
  {Gives(<<"len">> \o Cut \o Q(a), <<"len">> \o a) : a \in Texts1},
  {Gives(Call("rev", <<Q(a), Q(b), Q(c)>>), c \o <<",">> \o b \o <<",">> \o a) : a \in Texts2, b, c \in Texts1},
  {[Same(<<Call("changequote", <<<<"[">>, <<"]">>>>) \o Bracketed(a)>>, <<a>>, <<",">>) EXCEPT !.swap = TRUE] : a \in Texts3}}

\* Arguments handed on, a macro under another name, one put over another and taken away.
Naming == UNION {
  {Same(<<Call("f", <<a, b>>)>>, <<Call("g", <<a, b>>)>>, x) : x \in Xs, a \in Texts3, b \in {<<>>, <<"x">>}},
  {Same(<<Call("define", <<Q(<<"y">>), Call("defn", <<Q(<<n>>)>>)>>) \o Call("y", <<a, b>>)>>, <<Call(n, <<a, b>>)>>, x) :
                x \in Xs, n \in {"x", "len", "shift", "ifelse"}, a \in Texts1, b \in Texts1},
  {Same(<<Call("pushdef", <<Q(<<"x">>), Q(a)>>) \o Call("popdef", <<Q(<<"x">>)>>) \o b>>, <<b>>, <<",">>) :
                a \in Texts1, b \in Texts3}}

\* Texts put aside, thrown away, and wrapped.
Aside == UNION {
  {Same(<<Call("divert", <<<<"1">>>>) \o Q(a) \o Call("divert", <<<<"-", "1">>>>) \o Q(c) \o <<"divert">> \o Cut \o Q(b)
                   \o Call("undivert", <<<<"1">>>>) \o Q(c)>>, <<Q(b) \o Cut \o Q(a) \o Cut \o Q(c)>>, <<",">>) : a, b, c \in Texts1},
  {Same(<<Call("divert", <<<<"2">>>>) \o a \o Cut \o Call("divert", <<<<"1">>>>) \o b \o Cut \o <<"divert">> \o Cut \o c>>,
                   <<c \o Cut \o b \o Cut \o a>>, x) : x \in {<<"$", "*">>}, a, b \in Paired, c \in Paired \cap Texts1},
  {Same(<<Call("m4wrap", <<Q(a)>>) \o Call("m4wrap", <<Q(b)>>) \o c>>, <<c, a \o b>>, <<"$", "*">>) : a, b \in Texts2, c \in Texts1}}

Tasks == <<Expressions, Pieces, Quoting, Naming, Aside>>

------------------------------------------------------------------------------
(* One behaviour for each.                                                   *)

VARIABLES part, phase, status,
          prog, files, inp, look, lookDone, ln, ps, hold, sub, lastre, rng, aq, out, wout, pc, steps,
          job, stdin, rest, at_eof, quote_error, cmd, pending, ran, log, result,
          input, operands, calls, defs, lang, divnum, divs, wraps, m4status, m4pc, half, first

Stream == INSTANCE MCSed
Args == INSTANCE MCXargs
Macros == INSTANCE MCM4

textOnly == <<task, answer>>
sedOnly == <<prog, files, inp, look, lookDone, ln, ps, hold, sub, lastre, rng, aq, out, wout, pc, steps>>
xargsOnly == <<job, stdin, rest, at_eof, quote_error, cmd, pending, ran, log, result>>
m4Only == <<input, operands, calls, defs, lang, divnum, divs, wraps, m4status, m4pc, half, first>>
sedRest == <<prog, files, inp, look, lookDone, ln, ps, hold, sub, lastre, rng, aq, wout, pc, steps>>
all == <<part, phase, status, textOnly, sedOnly, xargsOnly, m4Only>>

NoText == answer = <<>>
NoSed == /\ prog = 0 /\ files = 0 /\ inp = 0 /\ look = 0 /\ lookDone = 0 /\ ln = 0 /\ ps = 0 /\ hold = 0 /\ sub = 0
         /\ lastre = 0 /\ rng = 0 /\ aq = 0 /\ wout = 0 /\ pc = 0 /\ steps = 0
NoXargs == /\ job = 0 /\ stdin = 0 /\ rest = 0 /\ at_eof = 0 /\ quote_error = 0 /\ cmd = 0 /\ pending = 0 /\ ran = 0
           /\ log = 0 /\ result = 0
NoM4 == /\ input = 0 /\ operands = 0 /\ calls = 0 /\ defs = 0 /\ lang = 0 /\ divnum = 0 /\ divs = 0 /\ wraps = 0
        /\ m4status = 0 /\ m4pc = "idle" /\ half = 0 /\ first = 0

AllInit == \/ part = "text" /\ Init /\ NoSed /\ out = 0 /\ NoXargs /\ NoM4 /\ phase = 0 /\ status = 0
           \/ part = "sed" /\ Stream!Init /\ NoText /\ task = 0 /\ NoXargs /\ NoM4
           \/ part = "xargs" /\ Args!Init /\ NoText /\ task = 0 /\ NoSed /\ out = 0 /\ NoM4
           \/ part = "m4" /\ Macros!M4Init /\ NoText /\ NoSed /\ NoXargs /\ phase = 0 /\ status = 0
AllNext == \/ part = "text" /\ Next /\ UNCHANGED <<part, phase, status, sedOnly, xargsOnly, m4Only>>
           \/ part = "sed" /\ Stream!Next /\ UNCHANGED <<part, textOnly, xargsOnly, m4Only>>
           \/ part = "xargs" /\ Args!Next /\ UNCHANGED <<part, textOnly, sedOnly, m4Only>>
           \/ part = "m4" /\ Macros!MNext /\ UNCHANGED <<part, phase, status, answer, sedRest, xargsOnly>>
AllSpec == AllInit /\ [][AllNext]_all

\* sort orders, stably and through every number of runs; join, comm and uniq agree with
\* what they are for; tsort puts no item before a predecessor.
TextToolsRight == part = "text" => LinesAgree

\* sed loses no line, and its scripts do what they mean (NothingLost and ScriptsMean of
\* MCSed).
SedRight == part = "sed" => Stream!NothingLost /\ Stream!ScriptsMean

\* xargs gives each argument to a command once, fills the commands up to their limits
\* and tells in its status what went wrong (MCXargs).
XargsRight == part = "xargs" => Args!XargsRight

\* Quoting, arguments, diversions and saved texts of m4 do what they mean (M4Right of
\* MCM4).
MacrosRight == part = "m4" => Macros!M4Right
==============================================================================
