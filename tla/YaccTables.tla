------------------------------- MODULE YaccTables -------------------------------
(***************************************************************************)
(* yacc: from a grammar to the actions of its parser.  The LR(0) automaton *)
(* with a state for each kernel, the lookaheads by the relations reads,    *)
(* includes and lookback and the digraph algorithm, conflicts resolved by  *)
(* precedence and by the default rules, and the default reductions.        *)
(*                                                                         *)
(* Symbols are numbers: the tokens first, $end (0) and error (1) among     *)
(* them, then the nonterminals.  Rule 1 is $accept: start $end.  An item   *)
(* is a rule and the symbols of it that are behind the dot.                *)
(***************************************************************************)
EXTENDS Integers, Sequences, FiniteSets, SequencesExt, FiniteSetsExt

End == 0
ErrorToken == 1

Tokens(G) == 0..(G.ntokens - 1)
Nonterminals(G) == G.ntokens..(G.nsyms - 1)
Rules(G) == DOMAIN G.rules
Rhs(G, r) == G.rules[r].rhs
derives(G, A) == {r \in Rules(G) : G.rules[r].lhs = A}

--------------------------------------------------------------------------------
(* What a nonterminal begins with, and whether it can be empty. *)

RECURSIVE NullableFrom(_, _)
NullableFrom(G, known) ==
  LET more == {A \in Nonterminals(G) : \E r \in derives(G, A) : Range(Rhs(G, r)) \subseteq known}
  IN IF more \subseteq known THEN known ELSE NullableFrom(G, known \cup more)
NullableOnce(G) == {A \in Nonterminals(G) : \E r \in derives(G, A) : Rhs(G, r) = <<>>}
compute_nullable(G) == NullableFrom(G, {})

RECURSIVE Effects(_, _)
Effects(G, As) ==
  LET more == {Rhs(G, r)[1] : r \in {q \in Rules(G) : G.rules[q].lhs \in As /\ Rhs(G, q) # <<>>}} \cap Nonterminals(G)
  IN IF more \subseteq As THEN As ELSE Effects(G, As \cup more)
first_derives(G) == [A \in Nonterminals(G) |-> UNION {derives(G, B) : B \in Effects(G, {A})}]

--------------------------------------------------------------------------------
(* The LR(0) automaton. *)

AtEnd(G, item) == item[2] = Len(Rhs(G, item[1]))
Next_(G, item) == Rhs(G, item[1])[item[2] + 1]

closure(G, first, kernel) ==
  kernel \cup {<<r, 0>> : r \in UNION {first[A] : A \in {Next_(G, i) : i \in {j \in kernel : ~AtEnd(G, j)}}
                                                      \cap Nonterminals(G)}}

GotoOf(G, first, s) ==
  LET items == {i \in closure(G, first, s) : ~AtEnd(G, i)}
  IN [X \in {Next_(G, i) : i \in items} |-> {<<i[1], i[2] + 1>> : i \in {j \in items : Next_(G, j) = X}}]

RECURSIVE StatesFrom(_, _, _, _)
StatesFrom(G, first, known, todo) ==
  IF todo = {} THEN known
  ELSE LET s == CHOOSE x \in todo : TRUE
           next == GotoOf(G, first, s)
       IN StatesFrom(G, first, known @@ (s :> next), (todo \cup {next[X] : X \in DOMAIN next}) \ (DOMAIN known \cup {s}))

\* The states with their shifts, by kernel.
build_lr0(G) == StatesFrom(G, first_derives(G), <<>>, {{<<1, 0>>}})

Reductions(G, first, s) == {i[1] : i \in {j \in closure(G, first, s) : AtEnd(G, j)}}

--------------------------------------------------------------------------------
(* The digraph algorithm: F(x) is what x has and what all have that it is  *)
(* related to; those of a cycle have the same.                             *)

Infinite == 99

\* The strongly connected component of x is on top of the stack.
Component(d, x, depth) ==
  LET top == Range(SubSeq(d.stack, depth, Len(d.stack)))
  IN [stack |-> SubSeq(d.stack, 1, depth - 1),
      n |-> [y \in DOMAIN d.n |-> IF y \in top THEN Infinite ELSE d.n[y]],
      f |-> [y \in DOMAIN d.f |-> IF y \in top THEN d.f[x] ELSE d.f[y]]]

RECURSIVE traverse(_, _, _), TraverseAll(_, _, _, _)
TraverseAll(R, d, x, ys) ==
  IF ys = {} THEN d
  ELSE LET y == CHOOSE z \in ys : TRUE
           v == IF d.n[y] = 0 THEN traverse(R, d, y) ELSE d
       IN TraverseAll(R, [v EXCEPT !.n[x] = IF v.n[y] < @ THEN v.n[y] ELSE @, !.f[x] = @ \cup v.f[y]], x, ys \ {y})
traverse(R, d, x) ==
  LET depth == Len(d.stack) + 1
      v == TraverseAll(R, [d EXCEPT !.stack = Append(@, x), !.n[x] = depth], x, R[x])
  IN IF v.n[x] = depth THEN Component(v, x, depth) ELSE v

digraph(R, F) ==
  LET Go[xs \in SUBSET DOMAIN R] ==
        IF xs = {} THEN [stack |-> <<>>, n |-> [x \in DOMAIN R |-> 0], f |-> F]
        ELSE LET x == CHOOSE y \in xs : TRUE
                 d == Go[xs \ {x}]
             IN IF d.n[x] = 0 THEN traverse(R, d, x) ELSE d
  IN Go[DOMAIN R].f

--------------------------------------------------------------------------------
(* The lookaheads. *)

\* A goto is a state and a nonterminal.
Gotos(G, A) == UNION {{<<s, B>> : B \in DOMAIN A[s] \cap Nonterminals(G)} : s \in DOMAIN A}
After(A, gt) == A[gt[1]][gt[2]]

DirectReads(G, A, gt) == DOMAIN A[After(A, gt)] \cap Tokens(G)
Reads(G, A, nullable, gt) == {<<After(A, gt), C>> : C \in DOMAIN A[After(A, gt)] \cap nullable}

\* The states along the right-hand side of a rule, from a state.
PathFrom(G, A, r, s) ==
  LET p[i \in 0..Len(Rhs(G, r))] == IF i = 0 THEN s ELSE A[p[i - 1]][Rhs(G, r)[i]] IN p

Lookback(G, A, s, r) ==
  {gt \in Gotos(G, A) : gt[2] = G.rules[r].lhs /\ PathFrom(G, A, r, gt[1])[Len(Rhs(G, r))] = s}

\* A goto includes that of a rule's left side when what follows it is nullable.
Includes(G, A, nullable, gt) ==
  {h \in Gotos(G, A) : \E r \in derives(G, h[2]) : \E i \in DOMAIN Rhs(G, r) :
     /\ Rhs(G, r)[i] = gt[2] /\ PathFrom(G, A, r, h[1])[i - 1] = gt[1]
     /\ \A j \in (i + 1)..Len(Rhs(G, r)) : Rhs(G, r)[j] \in nullable}

build_lalr(G, A) ==
  LET first == first_derives(G)
      nullable == compute_nullable(G)
      gotos == Gotos(G, A)
      read == digraph([gt \in gotos |-> Reads(G, A, nullable, gt)], [gt \in gotos |-> DirectReads(G, A, gt)])
      follow == digraph([gt \in gotos |-> Includes(G, A, nullable, gt)], read)
  IN [s \in DOMAIN A |-> [r \in Reductions(G, first, s) |-> UNION {follow[gt] : gt \in Lookback(G, A, s, r)}]]

--------------------------------------------------------------------------------
(* The actions of a state on a token. *)

Shift(to) == [kind |-> "shift", state |-> to, rule |-> 0]
Reduce(r) == [kind |-> "reduce", state |-> {}, rule |-> r]
Accept == [kind |-> "accept", state |-> {}, rule |-> 0]
None == [kind |-> "none", state |-> {}, rule |-> 0]
Error == [kind |-> "error", state |-> {}, rule |-> 0]

\* Precedence and associativity, for one reduction after the other.
Resolve(G, t, row, r) ==
  LET tp == G.prec[t]
  IN IF ~row.shift \/ r \notin row.reds \/ G.rules[r].prec = 0 \/ tp.level = 0 THEN row
     ELSE IF tp.level < G.rules[r].prec \/ (tp.level = G.rules[r].prec /\ tp.assoc = "left")
          THEN [row EXCEPT !.shift = FALSE]
     ELSE IF tp.level > G.rules[r].prec \/ tp.assoc = "right" THEN [row EXCEPT !.reds = @ \ {r}]
     ELSE [shift |-> FALSE, reds |-> row.reds \ {r}, error |-> TRUE]

Resolved(G, t, row) == FoldLeft(LAMBDA w, r : Resolve(G, t, w, r), row, SetToSortSeq(row.reds, <))

\* A shift wins, then the earliest rule.
ActionOf(G, shifts, la, t) ==
  LET row == Resolved(G, t, [shift |-> t \in DOMAIN shifts /\ t # End, error |-> FALSE,
                             reds |-> {r \in DOMAIN la : t \in la[r]}])
  IN IF row.error THEN Error
     ELSE IF t = End /\ t \in DOMAIN shifts THEN Accept
     ELSE IF row.shift THEN Shift(shifts[t])
     ELSE IF row.reds # {} THEN Reduce(Min(row.reds))
     ELSE None

\* The default reduction: the most frequent one, none where error is shifted.
DefaultOf(shifts, la, row, tokens) ==
  LET count(r) == Cardinality({t \in tokens : row[t] = Reduce(r)})
      most == {r \in DOMAIN la : count(r) > 0 /\ \A q \in DOMAIN la : count(q) <= count(r)}
  IN IF DOMAIN la \in {{}, {1}} \/ ErrorToken \in DOMAIN shifts THEN 0
     ELSE IF Cardinality(DOMAIN la) = 1 /\ DOMAIN shifts \cap tokens = {} THEN CHOOSE r \in DOMAIN la : TRUE
     ELSE IF most = {} THEN 0 ELSE Min(most)

\* What the default of the state does anyway is left out of its row.
WithDefault(row, defred) ==
  [t \in DOMAIN row |-> IF row[t] = (IF defred # 0 THEN Reduce(defred) ELSE Error) THEN None ELSE row[t]]
ActionsOf(row, defred) == [row |-> row, defred |-> defred, consistent |-> \A t \in DOMAIN row : row[t] = None]
WithDefaults(row, defred) == ActionsOf(WithDefault(row, defred), defred)
FromRow(G, shifts, la, row) == WithDefaults(row, DefaultOf(shifts, la, row, Tokens(G)))
StateActions(G, shifts, la) == FromRow(G, shifts, la, [t \in Tokens(G) |-> ActionOf(G, shifts, la, t)])

Rows(G, A, la) == [s \in DOMAIN A |-> [acts |-> StateActions(G, A[s], la[s]), la |-> la[s], shifts |-> A[s]]]
WithLookaheads(G, A) == Rows(G, A, build_lalr(G, A))
build_actions(G) == WithLookaheads(G, build_lr0(G))

================================================================================
