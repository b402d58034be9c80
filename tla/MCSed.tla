------------------------------- MODULE MCSed -------------------------------
(* sed on small inputs: every script of two commands out of a few, the     *)
(* scripts everybody uses, and every range of lines.                       *)
EXTENDS Integers, Sequences, FiniteSets, SequencesExt

VARIABLES prog, files, inp, look, lookDone, status, ln, ps, hold, sub, lastre, rng, aq, out, wout, pc, phase, steps

NL == "nl"
Missing == <<<<"missing">>>>

----------------------------------------------------------------------------
\* The regular expressions: a, a*, ^a, a newline, two equal lines.
MCEnds(re, s, i) ==
    CASE re = "a"   -> {e \in {i + 1} : e <= Len(s) /\ s[e] = "a"}
      [] re = "a*"  -> {e \in i .. Len(s) : \A k \in i + 1 .. e : s[k] = "a"}
      [] re = "^a"  -> {e \in {1} : i = 0 /\ e <= Len(s) /\ s[e] = "a"}
      [] re = "nl"  -> {e \in {i + 1} : e <= Len(s) /\ s[e] = NL}
      [] re = "dup" -> {e \in {Len(s)} : /\ i = 0 /\ Len(s) % 2 = 1
                                         /\ LET h == Len(s) \div 2
                                            IN  /\ s[h + 1] = NL
                                                /\ SubSeq(s, 1, h) = SubSeq(s, h + 2, e)}
      [] OTHER -> {}

C0(v) == [t |-> v, a |-> <<>>, neg |-> FALSE, x |-> <<v, "">>]
With(v, a, x) == [t |-> v, a |-> a, neg |-> FALSE, x |-> <<v, x>>]
Not(c) == [c EXCEPT !.neg = TRUE]
L(n) == [k |-> "line", v |-> n]
Dollar == [k |-> "last", v |-> 0]
R(re) == [k |-> "re", v |-> re]
S(re, repl, nth, g) == [re |-> re, repl |-> repl, nth |-> nth, g |-> g, p |-> FALSE, w |-> FALSE]
Sc(n, cs) == [n |-> n, cmds |-> cs]

\* The lines of the input, and what is written at the end.
Lines == FlattenSeq([i \in DOMAIN files |-> IF files[i] = Missing THEN <<>> ELSE files[i]])
Text == [i \in DOMAIN out |-> out[i].s]

----------------------------------------------------------------------------
(* Scripts whose meaning is known: [name, script].                         *)
One == <<L(1)>>
Idiom == [
  tac      |-> Sc(FALSE, <<Not(With("G", One, "")), C0("h"), Not(With("d", <<Dollar>>, ""))>>),
  same     |-> Sc(FALSE, <<Not(With("N", <<Dollar>>, "")), C0("P"), C0("D")>>),
  odd      |-> Sc(FALSE, <<C0("n"), C0("d")>>),
  last2    |-> Sc(FALSE, <<Not(With("N", <<Dollar>>, "")), Not(With("D", <<Dollar>>, ""))>>),
  uniq     |-> Sc(FALSE, <<Not(With("N", <<Dollar>>, "")), Not(With("P", <<R("dup")>>, "")), C0("D")>>),
  joined   |-> Sc(FALSE, <<With(":", <<>>, "l"), Not(With("N", <<Dollar>>, "")),
                           With("s", <<>>, S("nl", <<"b">>, 1, FALSE)), With("t", <<>>, "l")>>),
  count    |-> Sc(TRUE, <<Not(With("{", <<Dollar>>, "")), C0("h"), C0("d"), C0("}"), C0("x"), C0("G"), C0("p")>>),
  head     |-> Sc(FALSE, <<With("q", <<L(2)>>, "")>>),
  after    |-> Sc(FALSE, <<With("a", <<R("a")>>, <<<<"x">>>>), With("i", <<R("")>>, <<"y">>)>>),
  change   |-> Sc(FALSE, <<With("c", <<L(2), Dollar>>, <<"x">>)>>)]

(* tac, uniq, tail and the others, said of the lines as a whole.           *)
Every2nd(s) == [i \in 1 .. (Len(s) + 1) \div 2 |-> s[2 * i - 1]]
Meant(name, s) ==
    CASE name = "tac"    -> Reverse(s)
      [] name = "same"   -> s
      [] name = "odd"    -> Every2nd(s)
      [] name = "last2"  -> SubSeq(s, IF Len(s) < 2 THEN 1 ELSE Len(s) - 1, Len(s))
      [] name = "uniq"   -> LET k == SelectSeq([i \in DOMAIN s |-> i], LAMBDA i : i = Len(s) \/ s[i + 1] # s[i])
                            IN  [j \in DOMAIN k |-> s[k[j]]]
      [] name = "joined" -> IF s = <<>> THEN <<>>
                            ELSE <<FlattenSeq([i \in DOMAIN s |-> IF i = 1 THEN s[i] ELSE <<"b">> \o s[i]])>>
      [] name = "count"  -> IF s = <<>> THEN <<>>
                            ELSE <<IF Len(s) = 1 THEN <<>> ELSE s[Len(s) - 1], s[Len(s)]>>
      [] name = "head"   -> SubSeq(s, 1, IF Len(s) < 2 THEN Len(s) ELSE 2)
      [] name = "after"  -> FlattenSeq([i \in DOMAIN s |-> IF \E k \in DOMAIN s[i] : s[i][k] = "a"
                                                           THEN <<<<"y">>, s[i], <<"x">>>> ELSE <<s[i]>>])
      [] name = "change" -> IF Len(s) < 2 THEN s ELSE <<s[1], <<"x">>>>

----------------------------------------------------------------------------
(* -n and one p with two addresses, each line a cycle: the lines of the    *)
(* ranges, each from the first line that matches the first address after   *)
(* the range before, to the next one that matches the second.              *)
RangeScripts == {Sc(TRUE, <<[With("p", <<a, b>>, "") EXCEPT !.neg = n]>>) :
                   a, b \in {L(1), L(2), L(3), Dollar, R("a"), R("a*")}, n \in BOOLEAN}
Matches(a, s, i) == CASE a.k = "line" -> i = a.v
                      [] a.k = "last" -> i = Len(s)
                      [] OTHER -> \E k \in 0 .. Len(s[i]) : MCEnds(a.v, s[i], k) # {}
RangeEnd(b, s, i) ==
    IF (b.k = "line" /\ b.v <= i) \/ (b.k = "last" /\ i = Len(s)) THEN i
    ELSE LET z == {j \in i + 1 .. Len(s) : Matches(b, s, j)}
         IN  IF z = {} THEN Len(s) ELSE CHOOSE j \in z : \A k \in z : j <= k
InRange(a, b, s) ==
    LET Begins[i \in 1 .. Len(s)] ==
          Matches(a, s, i) /\ \A j \in 1 .. i - 1 : Begins[j] => RangeEnd(b, s, j) < i
    IN  {k \in DOMAIN s : \E i \in 1 .. k : Begins[i] /\ k <= RangeEnd(b, s, i)}

(* s/a*/-/ with a number and g: a match is a whole run of a, or nothing     *)
(* between two characters neither of which is an a.                         *)
SubstScripts == {Sc(FALSE, <<With("s", <<>>, S("a*", <<"-", "&">>, n, g))>>) : n \in 1..3, g \in BOOLEAN}
Substituted(n, g, s) ==
    LET isA(i) == i \in DOMAIN s /\ s[i] = "a"
        starts == {i \in 0 .. Len(s) : ~isA(i)}
        taken == {i \in starts : LET k == Cardinality({j \in starts : j <= i}) IN k = n \/ (g /\ k > n)}
    IN  FlattenSeq([i \in 1 .. Len(s) + 1 |->
          (IF i - 1 \in taken THEN <<"-">> ELSE <<>>) \o (IF i <= Len(s) THEN <<s[i]>> ELSE <<>>)])

----------------------------------------------------------------------------
(* The pairs of commands.                                                  *)
Few == {With("a", <<>>, <<<<"x">>>>), With("r", <<Dollar>>, <<<<"f">>, <<"g">>>>), With("r", <<>>, <<>>),
        With("i", <<L(2)>>, <<"y">>), With("c", <<L(1), L(2)>>, <<"z">>), C0("n"), C0("N"),
        With("D", <<R("nl")>>, ""), With("t", <<>>, ""), With("b", <<Dollar>>, ""),
        With("s", <<R("a")>>, [S("", <<"&", "&">>, 1, TRUE) EXCEPT !.p = TRUE]), With("d", <<L(2), R("a")>>, "")}
Many == Few \union
       {Not(With("x", <<Dollar>>, "")), C0("G"), C0("H"), C0("g"), With("w", <<R("a"), Dollar>>, ""), C0("P"),
        With("y", <<>>, <<<<"a", "b">>, <<"b", "a">>>>), With("q", <<L(2)>>, ""), With("b", <<>>, "l"),
        With("s", <<>>, [S("a*", <<"b">>, 2, FALSE) EXCEPT !.w = TRUE]), With("q", <<L(1), L(2)>>, "")}
MCScripts == {Sc(FALSE, <<c, d>>) : c, d \in Many} \union {Idiom[i] : i \in DOMAIN Idiom} \union RangeScripts \union SubstScripts
             \union {Sc(TRUE, <<c>>) : c \in {C0("{"), C0("}"), With(":", <<>>, "")}}
             \union {Sc(FALSE, <<With(":", <<>>, "l"), With(":", <<>>, "l")>>)}

MCInputs == LET two == {<<"a">>, <<"b">>}
                s3 == UNION {[1..n -> two] : n \in 0..3} \union [1..1 -> UNION {[1..n -> {"a", "b"}] : n \in 0..4}] \union [1..4 -> {<<"a">>}]
            IN  {<<s>> : s \in s3} \union {<<>>}
                \union {<<SubSeq(s, 1, 1), f, SubSeq(s, 2, 2)>> : s \in [1..2 -> two], f \in {<<>>, Missing}}

INSTANCE Sed WITH Scripts <- MCScripts, Inputs <- MCInputs, Ends <- MCEnds, MaxSteps <- 40

----------------------------------------------------------------------------
(* Properties                                                              *)

(* A hold space that holds lines is written as one line with newlines.     *)
Split(s) == LET ends == {0, Len(s) + 1} \union NewLines(s)
                RECURSIVE From(_)
                From(b) == IF b > Len(s) THEN <<>>
                           ELSE LET e == CHOOSE x \in ends : x > b /\ \A y \in ends : y > b => x <= y
                                IN  <<SubSeq(s, b + 1, e - 1)>> \o From(e)
            IN  From(0)
Written == FlattenSeq([i \in DOMAIN Text |-> Split(Text[i])])

\* Every line of every file that can be opened is read once, in its order,
\* the line read ahead for "$" included; what is queued by a and r comes
\* after its own line and before all that belongs to the next (aq_flush);
\* no output is left queued at the end, and a file that cannot be opened
\* shows in the status once all is read.
Rest == FlattenSeq([i \in DOMAIN inp |-> IF inp[i] = Missing THEN <<>> ELSE inp[i]])
LinesKept == phase \notin {"start", "refused"} => look \o Rest = SubSeq(Lines, ln + 1, Len(Lines))
OutInOrder == /\ \A i \in 1 .. Len(out) - 1 : out[i].ln <= out[i + 1].ln
              /\ phase = "done" => aq = <<>>
StatusSeen == phase = "done" /\ lookDone => (status = 2) = (\E i \in DOMAIN files : files[i] = Missing)
NothingLost == LinesKept /\ OutInOrder /\ StatusSeen

\* The scripts of common use do what they are known for on every input, and
\* a two-address command takes the lines of its ranges, and s the matches it counts.
IdiomsWork == phase = "done" => \A i \in DOMAIN Idiom : prog = Idiom[i] => Written = Meant(i, Lines)
RangesRight == phase = "done" /\ prog \in RangeScripts =>
                 LET c == prog.cmds[1]
                     in == InRange(c.a[1], c.a[2], Lines)
                 IN  {out[i].ln : i \in DOMAIN out} = IF c.neg THEN DOMAIN Lines \ in ELSE in
SubstsRight == phase = "done" /\ prog \in SubstScripts /\ Len(Lines) = 1 =>
                 Text = <<Substituted(prog.cmds[1].x[2].nth, prog.cmds[1].x[2].g, Lines[1])>>
ScriptsMean == IdiomsWork /\ RangesRight /\ SubstsRight

=============================================================================
