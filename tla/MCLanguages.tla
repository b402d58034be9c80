----------------------------- MODULE MCLanguages -----------------------------
(* Generated parsers and scanners for TLC.  A behaviour is about one of them; *)
(* the variables of the others stay as they are.                              *)
EXTENDS YaccParser, LexScanner

------------------------------------------------------------------------------
(* Grammars.  Tokens from 2, nonterminals after them.                       *)

Rule(lhs, rhs) == [lhs |-> lhs, rhs |-> rhs, prec |-> 0]
Of(lhs, rhs, prec) == [lhs |-> lhs, rhs |-> rhs, prec |-> prec]
NoPrec(n) == [t \in 0..(n - 1) |-> [level |-> 0, assoc |-> "none"]]
StartRule(n) == Rule(n, <<n + 1, End>>)

\* S: L = R | R.  L: * R | id.  R: L.
Assignments ==
  [ntokens |-> 5, nsyms |-> 9, prec |-> NoPrec(5), exact |-> TRUE,
   rules |-> <<StartRule(5), Rule(6, <<7, 2, 8>>), Rule(6, <<8>>), Rule(7, <<3, 8>>), Rule(7, <<4>>), Rule(8, <<7>>)>>]
\* S: C A B.  C: a.  A: D.  D: b | .  B: c S | .
Empties ==
  [ntokens |-> 5, nsyms |-> 11, prec |-> NoPrec(5), exact |-> TRUE,
   rules |-> <<StartRule(5), Rule(6, <<7, 8, 9>>), Rule(7, <<2>>), Rule(8, <<10>>), Rule(10, <<3>>), Rule(10, <<>>),
               Rule(9, <<4, 6>>), Rule(9, <<>>)>>]
\* S: A | c A d.  A: a B | a.  B: b A | b.
Mutual ==
  [ntokens |-> 6, nsyms |-> 10, prec |-> NoPrec(6), exact |-> TRUE,
   rules |-> <<StartRule(6), Rule(7, <<8>>), Rule(7, <<4, 8, 5>>), Rule(8, <<2, 9>>), Rule(8, <<2>>), Rule(9, <<3, 8>>),
               Rule(9, <<3>>)>>]
\* S: a E c | a F d | b F c | b E d.  E: e.  F: e.  LR(1), not LALR(1).
Merged ==
  [ntokens |-> 7, nsyms |-> 11, prec |-> NoPrec(7), exact |-> FALSE,
   rules |-> <<StartRule(7), Rule(8, <<2, 9, 4>>), Rule(8, <<2, 10, 5>>), Rule(8, <<3, 10, 4>>), Rule(8, <<3, 9, 5>>),
               Rule(9, <<6>>), Rule(10, <<6>>)>>]
\* E: E < E | E + E | E ^ E | n, with < nonassociative, + to the left, ^ to the right.
Operators ==
  [ntokens |-> 6, nsyms |-> 8, exact |-> FALSE,
   prec |-> [t \in 0..5 |-> CASE t = 2 -> [level |-> 1, assoc |-> "nonassoc"] [] t = 3 -> [level |-> 2, assoc |-> "left"]
                              [] t = 4 -> [level |-> 3, assoc |-> "right"] [] OTHER -> [level |-> 0, assoc |-> "none"]],
   rules |-> <<StartRule(6), Of(7, <<7, 2, 7>>, 1), Of(7, <<7, 3, 7>>, 2), Of(7, <<7, 4, 7>>, 3), Rule(7, <<5>>)>>]
\* P: P S | .  S: a ; | b a ; | error ;.
Recovering ==
  [ntokens |-> 5, nsyms |-> 8, prec |-> NoPrec(5), exact |-> TRUE,
   rules |-> <<StartRule(5), Rule(6, <<6, 7>>), Rule(6, <<>>), Rule(7, <<2, 4>>), Rule(7, <<3, 2, 4>>), Rule(7, <<ErrorToken, 4>>)>>]

MCGrammars == <<Assignments, Empties, Mutual, Merged, Operators, Recovering>>

------------------------------------------------------------------------------
(* Scanners: rules with everything a pattern can have.                       *)

A == SetNode({"a"})
B == SetNode({"b"})
Nl == SetNode({"nl"})
AorB == SetNode({"a", "b"})
LRule(re) == [r |-> re, x |-> <<>>, bol |-> FALSE, sc |-> {"INITIAL", "S"}]
Ctx(r, x) == [LRule(r) EXCEPT !.x = <<x>>]
Bol(rule) == [rule EXCEPT !.bol = TRUE]
In(rule, conds) == [rule EXCEPT !.sc = conds]

MCScanners == <<
  \* Overlapping rules, an interval, a start condition.
  <<LRule(Cat(A, Plus(B))), LRule(Star(Alt(Cat(A, B), A))), In(LRule(Rep(AorB, 2, 3)), {"S"}), Bol(LRule(Cat(Nl, Quest(A))))>>,
  \* A beginning of a line, an end of a line, intervals.
  <<Bol(Ctx(Plus(AorB), Nl)), Ctx(Rep(Cat(A, B), 1, NoMax), A), LRule(Plus(SetNode({"nl", "a"}))), LRule(Rep(A, 0, 0))>>,
  \* Trailing contexts of both kinds of lengths, and of none.
  <<Ctx(Plus(A), Cat(Star(A), B)), Ctx(Cat(A, B), Star(Nl)), Ctx(Plus(SetNode({"b", "nl"})), Alt(Nl, Cat(B, Star(A)))),
    In(LRule(A), {"INITIAL"})>>
  >>

------------------------------------------------------------------------------
(* One behaviour for each.                                                   *)

VARIABLE program

all == <<program, yvars, lvars>>

NoYacc == /\ gr = 1 /\ yyss = <<>> /\ yyvs = <<>> /\ yychar = 0 /\ yyerrflag = 0 /\ yynerrs = 0 /\ yypc = "idle"
          /\ input = <<>> /\ shifted = 0 /\ result = 0
NoLex == /\ which = 1 /\ yy_buf = 0 /\ yy_pos = 0 /\ yy_tok = 0 /\ yyleng = 0 /\ yy_lastc = 0 /\ yylineno = 0 /\ yy_start = 0
         /\ yy_more_flag = 0 /\ yy_hist = 0 /\ yy_scan = 0 /\ yy_scan_lastc = 0 /\ yy_len = 0 /\ yy_acc = 0 /\ yy_rule = 0
         /\ yy_mlen = 0 /\ lexpc = "idle" /\ lexcalls = 0 /\ rejects = 0 /\ touched = 0

AllInit == \/ program = "yacc" /\ YaccInit /\ NoLex
           \/ program = "lex" /\ LexInit /\ NoYacc
YaccStep == program = "yacc" /\ YaccNext /\ UNCHANGED <<program, lvars>>
AllNext == \/ YaccStep
           \/ program = "lex" /\ LexNext /\ UNCHANGED <<program, yvars>>

\* The fairness of YaccParser: yyparse goes on.
AllSpec == AllInit /\ [][AllNext]_all /\ WF_all(YaccStep)

\* The lookaheads are those of LALR(1), the parser accepts the sentences of the grammar
\* and groups them by the precedences (LookaheadsExact, Sentence and PrecedenceKept of
\* YaccParser).
ParserRight == program = "yacc" => LookaheadsExact /\ Sentence /\ PrecedenceKept

\* Three tokens are shifted between two reports of an error, and the parser ends
\* whatever it reads (ReportsApart and Ends of YaccParser).
Recovers == /\ [][program = "yacc" /\ yynerrs' > yynerrs => shifted.since >= 3]_all
            /\ program = "yacc" ~> yypc \in {"accepted", "aborted"}

\* The scanner takes the longest match and the first rule, REJECT the next of them in
\* that order, and yylineno counts the lines (ChoicesInOrder and LinesCounted of
\* LexScanner).
ScannerRight == program = "lex" => ChoicesInOrder /\ LinesCounted
==============================================================================
