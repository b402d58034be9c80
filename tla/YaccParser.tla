------------------------------- MODULE YaccParser -------------------------------
(***************************************************************************)
(* yacc: yyparse, the parser that yacc writes, on any input: shifts,       *)
(* reductions, and the recovery from errors.  The value of a symbol is its *)
(* parse tree; error recovery leaves out what it discards.                 *)
(***************************************************************************)
EXTENDS YaccTables

CONSTANTS
  Grammars,   \* the grammars, a sequence
  MaxInput    \* bound: tokens of the input

ASSUME ParserInput == MaxInput \in Nat

Tables == [k \in DOMAIN Grammars |-> build_actions(Grammars[k])]

Empty == -2
StartState == {<<1, 0>>}
Leaf(t) == <<"token", t>>
Node(r, subs) == <<"rule", r, subs>>

VARIABLES
  gr,         \* which grammar
  yyss, yyvs, \* the stacks of states and of values
  yychar,     \* the lookahead
  yyerrflag, yynerrs,
  yypc,       \* "loop", "error" (popping), or what yyparse has returned
  input,      \* history: the tokens read
  shifted,    \* history: how many of them had been shifted at the first error, and since the last report
  result      \* the value of the start symbol

yvars == <<gr, yyss, yyvs, yychar, yyerrflag, yynerrs, yypc, input, shifted, result>>

T == Tables[gr][Last(yyss)]
Action == IF T.acts.consistent THEN None ELSE T.acts.row[yychar]
Drop(seq, n) == SubSeq(seq, 1, Len(seq) - n)
Push(state, value) == yyss' = Append(yyss, state) /\ yyvs' = Append(yyvs, value)

--------------------------------------------------------------------------------

\* A state with nothing but its default does not read.
Read ==
  /\ yypc = "loop" /\ ~T.acts.consistent /\ yychar = Empty
  /\ \E t \in (Tokens(Grammars[gr]) \ {ErrorToken}) :
       /\ t # End => Len(input) < MaxInput
       /\ yychar' = t
       /\ input' = IF t # End THEN Append(input, t) ELSE input
  /\ UNCHANGED <<gr, yyss, yyvs, yyerrflag, yynerrs, yypc, shifted, result>>

Decides == yypc = "loop" /\ (yychar = Empty => T.acts.consistent)
Does(kind) == Decides /\ Action.kind = kind

ShiftToken ==
  /\ Does("shift")
  /\ Push(Action.state, Leaf(yychar))
  /\ yychar' = Empty
  /\ yyerrflag' = IF yyerrflag > 0 THEN yyerrflag - 1 ELSE 0
  /\ shifted' = [first |-> IF yynerrs = 0 THEN shifted.first + 1 ELSE shifted.first, since |-> shifted.since + 1]
  /\ UNCHANGED <<gr, yynerrs, yypc, input, result>>

AcceptInput ==
  /\ Does("accept")
  /\ yypc' = "accepted" /\ result' = Last(yyvs)
  /\ UNCHANGED <<gr, yyss, yyvs, yychar, yyerrflag, yynerrs, input, shifted>>

Defaults == Does("none")

ReduceBy(r) ==
  LET rule == Grammars[gr].rules[r]
      n == Len(rule.rhs)
      under == Drop(yyss, n)
  IN /\ yyss' = Append(under, Tables[gr][Last(under)].shifts[rule.lhs])
     /\ yyvs' = Append(Drop(yyvs, n), Node(r, SubSeq(yyvs, Len(yyvs) - n + 1, Len(yyvs))))
     /\ UNCHANGED <<gr, yychar, yyerrflag, yynerrs, yypc, input, shifted, result>>

ReduceRule ==
  \/ Does("reduce") /\ ReduceBy(Action.rule)
  \/ Defaults /\ T.acts.defred # 0 /\ ReduceBy(T.acts.defred)

--------------------------------------------------------------------------------
(* Errors. *)

SyntaxErrorKeeps ==
  /\ Does("error") \/ (Defaults /\ T.acts.defred = 0)
  /\ yypc' = "error" /\ yyerrflag' = 3
  /\ yynerrs' = IF yyerrflag = 0 THEN yynerrs + 1 ELSE yynerrs
  /\ UNCHANGED <<gr, yyss, yyvs, yychar, input, shifted, result>>
SyntaxError ==
  /\ \/ Does("error")
     \/ Defaults /\ T.acts.defred = 0
  /\ IF yyerrflag = 3
     THEN /\ yypc' = IF yychar = End THEN "aborted" ELSE "loop"
          /\ yychar' = IF yychar = End THEN yychar ELSE Empty
          /\ UNCHANGED <<yyerrflag, yynerrs, shifted>>
     ELSE /\ yypc' = "error" /\ yyerrflag' = 3
          /\ yynerrs' = IF yyerrflag = 0 THEN yynerrs + 1 ELSE yynerrs
          /\ shifted' = IF yyerrflag = 0 THEN [shifted EXCEPT !.since = 0] ELSE shifted
          /\ UNCHANGED yychar
  /\ UNCHANGED <<gr, yyss, yyvs, input, result>>

\* States are popped until one shifts error.
Pop ==
  /\ yypc = "error"
  /\ IF T.acts.row[ErrorToken].kind = "shift"
     THEN Push(T.acts.row[ErrorToken].state, Leaf(ErrorToken)) /\ yypc' = "loop"
     ELSE IF Len(yyss) = 1 THEN yypc' = "aborted" /\ UNCHANGED <<yyss, yyvs>>
     ELSE yyss' = Front(yyss) /\ yyvs' = Front(yyvs) /\ UNCHANGED yypc
  /\ UNCHANGED <<gr, yychar, yyerrflag, yynerrs, input, shifted, result>>

--------------------------------------------------------------------------------

YaccInit ==
  /\ gr \in DOMAIN Grammars
  /\ yyss = <<StartState>> /\ yyvs = <<Leaf(End)>> /\ yychar = Empty
  /\ yyerrflag = 0 /\ yynerrs = 0 /\ yypc = "loop" /\ input = <<>>
  /\ shifted = [first |-> 0, since |-> 3] /\ result = Leaf(End)

YaccNext == Read \/ ShiftToken \/ AcceptInput \/ ReduceRule \/ SyntaxError \/ Pop

--------------------------------------------------------------------------------
(* What the tables and the parser are compared with. *)

\* What each nonterminal derives, up to a length.
RECURSIVE Joined(_, _)
Joined(sets, n) ==
  IF sets = <<>> THEN {<<>>}
  ELSE {x \in {a \o b : a \in sets[1], b \in Joined(Tail(sets), n)} : Len(x) <= n}
RECURSIVE SentencesFrom(_, _, _)
SentencesFrom(G, n, S) ==
  LET Of(A) == UNION {Joined([i \in DOMAIN Rhs(G, r) |-> S[Rhs(G, r)[i]]], n) : r \in derives(G, A)}
      more == [X \in DOMAIN S |-> IF X \in Nonterminals(G) THEN S[X] \cup Of(X) ELSE S[X]]
  IN IF more = S THEN S ELSE SentencesFrom(G, n, more)
Sentences(G, n) ==
  SentencesFrom(G, n, [X \in 0..(G.nsyms - 1) |-> CASE X \in Nonterminals(G) -> {} [] X = End -> {<<>>}
                                                   [] X = ErrorToken -> {} [] OTHER -> {<<X>>}])

\* The canonical LR(1) automaton: items with a token that may follow.
RECURSIVE FirstsFrom(_, _, _)
FirstsFrom(G, nullable, F) ==
  LET Of(A) == UNION {UNION {F[Rhs(G, r)[i]] : i \in {j \in DOMAIN Rhs(G, r) :
                                Range(SubSeq(Rhs(G, r), 1, j - 1)) \subseteq nullable}} : r \in derives(G, A)}
      more == [X \in DOMAIN F |-> IF X \in Nonterminals(G) THEN F[X] \cup Of(X) ELSE F[X]]
  IN IF more = F THEN F ELSE FirstsFrom(G, nullable, more)
Erasing(G) == {A \in Nonterminals(G) : <<>> \in Sentences(G, 0)[A]}
Firsts(G) == FirstsFrom(G, Erasing(G), [X \in 0..(G.nsyms - 1) |-> IF X \in Tokens(G) THEN {X} ELSE {}])

FollowOf(F, nullable, rest, a) ==
  UNION {F[rest[i]] : i \in {j \in DOMAIN rest : Range(SubSeq(rest, 1, j - 1)) \subseteq nullable}}
    \cup (IF Range(rest) \subseteq nullable THEN {a} ELSE {})

RECURSIVE Closure1(_, _, _, _)
Closure1(G, F, nullable, items) ==
  LET open == {i \in items : i[2] < Len(Rhs(G, i[1])) /\ Rhs(G, i[1])[i[2] + 1] \in Nonterminals(G)}
      more == UNION {LET rest == SubSeq(Rhs(G, i[1]), i[2] + 2, Len(Rhs(G, i[1])))
                     IN {<<r, 0, a>> : r \in derives(G, Rhs(G, i[1])[i[2] + 1]), a \in FollowOf(F, nullable, rest, i[3])}
                     : i \in open}
  IN IF more \subseteq items THEN items ELSE Closure1(G, F, nullable, items \cup more)

Goto1(G, F, nullable, items, X) ==
  Closure1(G, F, nullable, {<<i[1], i[2] + 1, i[3]>> :
                              i \in {j \in items : j[2] < Len(Rhs(G, j[1])) /\ Rhs(G, j[1])[j[2] + 1] = X}})

RECURSIVE States1(_, _, _, _, _)
States1(G, F, nullable, known, todo) ==
  IF todo = {} THEN known
  ELSE LET next == {Goto1(G, F, nullable, s, X) : s \in todo, X \in 0..(G.nsyms - 1)} \ {{}}
       IN States1(G, F, nullable, known \cup todo, next \ (known \cup todo))

\* Items after the first symbol, or of rule 1: the kernel.
CoreOf(items) == {<<i[1], i[2]>> : i \in {j \in items : j[2] > 0 \/ j[1] = 1}}
Lookaheads1(G) ==
  LET F == Firsts(G)
      nullable == Erasing(G)
  IN States1(G, F, nullable, {}, {Closure1(G, F, nullable, {<<1, 0, End>>})})

LALR1 == [k \in DOMAIN Grammars |-> Lookaheads1(Grammars[k])]
Language == [k \in DOMAIN Grammars |-> Sentences(Grammars[k], MaxInput)[Grammars[k].ntokens]]
\* What begins a sentence, of those of one token more, and two.
Begins == [k \in DOMAIN Grammars |->
             UNION {{SubSeq(x, 1, n) : n \in 0..Len(x)} : x \in Sentences(Grammars[k], MaxInput + 2)[Grammars[k].ntokens]}]

\* The operator on top of an operand of a binary operator, 0 if it is none.
OpOf(tree) == IF tree[1] = "rule" /\ Len(tree[3]) = 3 /\ tree[3][2][1] = "token" THEN tree[3][2][2] ELSE 0
RECURSIVE Grouped(_, _)
Grouped(G, tree) ==
  IF tree[1] = "token" THEN TRUE
  ELSE LET op == OpOf(tree)
           Level(x) == G.prec[OpOf(x)].level
       IN /\ \A i \in DOMAIN tree[3] : Grouped(G, tree[3][i])
          /\ op # 0 /\ G.prec[op].level > 0 =>
               \A i \in {j \in {1, 3} : OpOf(tree[3][j]) # 0} :
                 \/ Level(tree[3][i]) > G.prec[op].level
                 \/ Level(tree[3][i]) = G.prec[op].level /\ G.prec[op].assoc = (IF i = 1 THEN "left" ELSE "right")

--------------------------------------------------------------------------------

\* The lookaheads of each state and rule are those of the canonical LR(1)
\* states that have the same kernel, merged: nothing more, and nothing less.
LookaheadsExact ==
  Len(yyss) = 1 /\ input = <<>> /\ yychar = Empty =>
    \A s \in DOMAIN Tables[gr] : \A r \in DOMAIN Tables[gr][s].la :
      r # 1 => Tables[gr][s].la[r] =
        {i[3] : i \in {j \in UNION {x \in LALR1[gr] : CoreOf(x) = s} : j[1] = r /\ j[2] = Len(Rhs(Grammars[gr], r))}}

\* Without a conflict, the parser accepts the sentences of the grammar and
\* nothing else, and never shifts a token that no sentence goes on with.
Sentence == Grammars[gr].exact =>
  /\ yypc = "accepted" /\ yynerrs = 0 => input \in Language[gr]
  /\ yynerrs > 0 \/ yypc = "aborted" => SubSeq(input, 1, shifted.first) \in Begins[gr]
  /\ yynerrs > 0 /\ yypc = "error" /\ shifted.first = Len(input) => input \notin Language[gr]
  /\ yynerrs > 0 /\ yypc = "error" /\ shifted.first < Len(input) =>
       SubSeq(input, 1, shifted.first + 1) \notin Begins[gr]

\* The parse tree keeps precedence and associativity, and a %nonassoc
\* operator has no operand with an operator of its level.
PrecedenceKept == yypc = "accepted" => Grouped(Grammars[gr], result)

\* Parsing ends, on every input: recovery gets on.
Ends == <>(yypc \in {"accepted", "aborted"})

Spec == YaccInit /\ [][YaccNext]_yvars /\ WF_yvars(YaccNext)

================================================================================
