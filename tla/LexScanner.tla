------------------------------- MODULE LexScanner -------------------------------
(***************************************************************************)
(* lex: yylex, the scanner that lex writes, on any text and with actions   *)
(* that use REJECT, yymore, yyless, input, unput and BEGIN.  The buffer is *)
(* the whole text; positions are from 0.                                   *)
(***************************************************************************)
EXTENDS LexDfa

CONSTANTS
  Scanners,    \* sequences of rules, a sequence
  Conditions,  \* start conditions
  Chars, Newline,
  MaxText,     \* bound: characters of the text
  MaxCalls     \* bound: calls by the actions

ASSUME ScannerInput == Newline \in Chars /\ MaxText \in Nat /\ MaxCalls \in Nat

Automata == Table([k \in DOMAIN Scanners |-> build_automata(Scanners[k], Conditions, Chars)])

VARIABLES
  which,       \* which scanner
  yy_buf, yy_pos, yy_tok, yyleng,
  yy_lastc, yylineno, yy_start, yy_more_flag,
  yy_hist,     \* the states of the scan: yy_hist[n + 1] after n characters
  yy_scan, yy_scan_lastc, yy_len, yy_acc, yy_rule, yy_mlen,
  lexpc,       \* "next", "action", "end"
  lexcalls, rejects, \* history: calls by actions; REJECTs of this scan
  touched      \* history: this action has moved the position

lvars == <<which, yy_buf, yy_pos, yy_tok, yyleng, yy_lastc, yylineno, yy_start, yy_more_flag, yy_hist, yy_scan,
           yy_scan_lastc, yy_len, yy_acc, yy_rule, yy_mlen, lexpc, lexcalls, rejects, touched>>

Dfa == Automata[which]
LexRules == Scanners[which]
Char(i) == yy_buf[i + 1]
Newlines(from, to) == Cardinality({i \in from..(to - 1) : Char(i) = Newline})
AccOf(dfa, d) == dfa.accept[d].acc

\* The states along the text from a position, until there is none.
Along(dfa, d, from) ==
  LET Go[n \in 0..(Len(yy_buf) - from)] ==
        IF n = 0 THEN d ELSE IF Go[n - 1] = {} THEN {} ELSE dfa.trans[Go[n - 1], Char(from + n - 1)]
  IN Go

EndsPart(dfa, d) == d # {} /\ dfa.accept[d].racc
EndsRest(dfa, d) == d # {} /\ dfa.accept[d].xacc
\* Where the text can be cut: an r ends there, and an x from there on.
CutsOf(dfa, rule, scan, len) ==
  {i \in 0..len : EndsPart(dfa, Along(dfa, dfa.tc_r[rule], scan)[i]) /\ EndsRest(dfa, Along(dfa, dfa.tc_x[rule], scan + i)[len - i])}
LastCut(cuts, len) == IF cuts = {} THEN len ELSE Max(cuts)
yy_tc_cut(dfa, rule, scan, len) ==
  LET r == LexRules[rule]
  IN IF ~Trailing(r) THEN len
     ELSE IF rlen(r) >= 0 THEN rlen(r)
     ELSE IF xlen(r) >= 0 THEN len - xlen(r)
     ELSE LastCut(CutsOf(dfa, rule, scan, len), len)

--------------------------------------------------------------------------------

\* yy_found: the rule, and how much of the text is its.
LastOf(tok, to, before) == IF to > tok THEN Char(to - 1) ELSE before
RuleOf(dfa, hist, len, acc) == IF len = 0 THEN NoState ELSE AccOf(dfa, hist[len + 1])[acc]
Matched(scan, tok, len, acc, rule, mlen, lineno) ==
  /\ yy_len' = len /\ yy_acc' = acc /\ yy_rule' = rule /\ yy_mlen' = mlen
  /\ yy_pos' = scan + mlen /\ yyleng' = scan + mlen - tok
  /\ yylineno' = lineno + Newlines(scan, scan + mlen)
  /\ lexpc' = "action" /\ touched' = FALSE
FoundRule(dfa, scan, tok, len, acc, rule, lineno) ==
  Matched(scan, tok, len, acc, rule, IF len = 0 THEN 1 ELSE yy_tc_cut(dfa, rule, scan, len), lineno)
Found(dfa, hist, scan, tok, len, acc, lineno) == FoundRule(dfa, scan, tok, len, acc, RuleOf(dfa, hist, len, acc), lineno)

\* The longest prefix below a length at which some rule matches, 0 if none.
LongestFrom(dfa, hist, len) == Max({n \in 1..len : AccOf(dfa, hist[n + 1]) # <<>>} \cup {0})

\* The states of a scan, the first after no character.
Until(go) == SelectSeq([k \in 1..Cardinality(DOMAIN go) |-> go[k - 1]], LAMBDA d : d # {})
ScanAlong(dfa, hist) ==
  LET tok == IF yy_more_flag THEN yy_tok ELSE yy_pos
  IN /\ yy_scan' = yy_pos /\ yy_scan_lastc' = yy_lastc /\ yy_hist' = hist /\ rejects' = 0
     /\ Found(dfa, hist, yy_pos, tok, LongestFrom(dfa, hist, Len(hist) - 1), 1, yylineno)
     /\ yy_lastc' = LastOf(tok, yy_pos', yy_lastc)
ScanWith(dfa) == ScanAlong(dfa, Until(Along(dfa, dfa.start[yy_start, yy_lastc = Newline], yy_pos)))

\* The end of the input is found after a token: nothing is left to match.
Scan ==
  /\ lexpc = "next"
  /\ yy_more_flag' = FALSE
  /\ yy_tok' = IF yy_more_flag THEN yy_tok ELSE yy_pos
  /\ IF yy_pos = Len(yy_buf)
     THEN /\ lexpc' = "end"
          /\ UNCHANGED <<yy_pos, yyleng, yy_lastc, yylineno, yy_hist, yy_scan, yy_scan_lastc, yy_len, yy_acc, yy_rule,
                         yy_mlen, rejects, touched>>
     ELSE ScanWith(Dfa)
  /\ UNCHANGED <<which, yy_buf, yy_start, lexcalls>>

Calls == lexpc = "action" /\ yy_rule # NoState /\ lexcalls < MaxCalls /\ lexcalls' = lexcalls + 1

Rejected(dfa, len, acc) ==
  /\ Found(dfa, yy_hist, yy_scan, yy_tok, len, acc, yylineno - Newlines(yy_scan, yy_pos))
  /\ yy_lastc' = LastOf(yy_tok, yy_pos', yy_scan_lastc) /\ rejects' = rejects + 1
  /\ UNCHANGED <<which, yy_buf, yy_tok, yy_start, yy_more_flag, yy_hist, yy_scan, yy_scan_lastc>>
\* The next rule for the same length, or the next shorter length.
NextRule(dfa) ==
  IF yy_acc < Len(AccOf(dfa, yy_hist[yy_len + 1])) THEN Rejected(dfa, yy_len, yy_acc + 1)
  ELSE Rejected(dfa, LongestFrom(dfa, yy_hist, yy_len - 1), 1)
Reject == Calls /\ ~touched /\ NextRule(Dfa)

\* What an action leaves alone that moves the position.
Moved == touched' = TRUE /\ UNCHANGED <<which, yy_buf, yy_start, yy_hist, yy_scan, yy_scan_lastc, yy_len, yy_acc, yy_rule,
                                        yy_mlen, lexpc, rejects>>

\* yyless is called before input and unput, which leave yyleng alone.
YyLess ==
  /\ Calls /\ yy_pos = yy_tok + yyleng
  /\ \E n \in 0..yyleng :
       /\ yy_pos' = yy_tok + n /\ yyleng' = n
       /\ yylineno' = yylineno - Newlines(yy_tok + n, yy_tok + yyleng)
  /\ Moved /\ UNCHANGED <<yy_tok, yy_lastc, yy_more_flag>>

YyMore ==
  /\ Calls /\ yy_more_flag' = TRUE
  /\ Moved /\ UNCHANGED <<yy_pos, yy_tok, yyleng, yy_lastc, yylineno>>

Input ==
  /\ Calls
  /\ IF yy_pos = Len(yy_buf) THEN UNCHANGED <<yy_pos, yy_lastc, yylineno>>
     ELSE /\ yy_pos' = yy_pos + 1 /\ yy_lastc' = Char(yy_pos)
          /\ yylineno' = yylineno + Newlines(yy_pos, yy_pos + 1)
  /\ Moved /\ UNCHANGED <<yy_tok, yyleng, yy_more_flag>>

\* A character is pushed back where it, or another, was read.
Unput ==
  /\ Calls /\ yy_pos > 0
  /\ yy_pos' = yy_pos - 1
  /\ yy_tok' = Min({yy_tok, yy_pos - 1})
  /\ yylineno' = yylineno - Newlines(yy_pos - 1, yy_pos)
  /\ Moved /\ UNCHANGED <<yyleng, yy_lastc, yy_more_flag>>

Begin ==
  /\ Calls /\ yy_start' \in Conditions \ {yy_start}
  /\ UNCHANGED <<which, yy_buf, yy_pos, yy_tok, yyleng, yy_lastc, yylineno, yy_more_flag, yy_hist, yy_scan, yy_scan_lastc,
                 yy_len, yy_acc, yy_rule, yy_mlen, lexpc, rejects, touched>>

ActionEnds ==
  /\ lexpc = "action" /\ lexpc' = "next"
  /\ UNCHANGED <<which, yy_buf, yy_pos, yy_tok, yyleng, yy_lastc, yylineno, yy_start, yy_more_flag, yy_hist, yy_scan,
                 yy_scan_lastc, yy_len, yy_acc, yy_rule, yy_mlen, lexcalls, rejects, touched>>

Texts == UNION {[1..n -> Chars] : n \in 0..MaxText}

LexInit ==
  /\ which \in DOMAIN Scanners /\ yy_buf \in Texts
  /\ yy_pos = 0 /\ yy_tok = 0 /\ yyleng = 0 /\ yy_lastc = Newline /\ yylineno = 1
  /\ yy_start \in Conditions /\ yy_more_flag = FALSE /\ yy_hist = <<>> /\ yy_scan = 0 /\ yy_scan_lastc = Newline
  /\ yy_len = 0 /\ yy_acc = 1 /\ yy_rule = NoState /\ yy_mlen = 0
  /\ lexpc = "next" /\ lexcalls = 0 /\ rejects = 0 /\ touched = FALSE

LexNext == Scan \/ Reject \/ YyLess \/ YyMore \/ Input \/ Unput \/ Begin \/ ActionEnds

--------------------------------------------------------------------------------
(* What the scanner is compared with: where a pattern that begins at a     *)
(* position can end.                                                       *)

RECURSIVE EndsAt(_, _), Repeated(_, _, _), Closed(_, _)
EndsOfAll(n, from) == UNION {EndsAt(n, i) : i \in from}
Repeated(n, from, k) == IF k = 0 THEN from ELSE Repeated(n, EndsOfAll(n, from), k - 1)
Closed(n, from) == LET more == from \cup EndsOfAll(n, from) IN IF more = from THEN from ELSE Closed(n, more)
EndsAt(n, i) ==
  CASE n.type = "empty" -> {i}
    [] n.type = "set" -> IF i < Len(yy_buf) /\ Char(i) \in n.set THEN {i + 1} ELSE {}
    [] n.type = "cat" -> EndsOfAll(n.subs[2], EndsAt(n.subs[1], i))
    [] n.type = "alt" -> EndsAt(n.subs[1], i) \cup EndsAt(n.subs[2], i)
    [] n.type = "star" -> Closed(n.subs[1], {i})
    [] n.type = "plus" -> Closed(n.subs[1], EndsAt(n.subs[1], i))
    [] n.type = "quest" -> {i} \cup EndsAt(n.subs[1], i)
    [] n.type = "rep" -> IF n.max = NoMax THEN Closed(n.subs[1], Repeated(n.subs[1], {i}, n.min))
                         ELSE UNION {Repeated(n.subs[1], {i}, k) : k \in n.min..n.max}

\* A choice: how much is matched, by which rule; the longest first, then the
\* earliest rule.  A match of nothing is none.
Candidates == {<<e - yy_scan, k>> : e \in (yy_scan + 1)..Len(yy_buf), k \in DOMAIN LexRules}
Matching ==
  {c \in Candidates :
     LET r == LexRules[c[2]]
     IN yy_start \in r.sc /\ (r.bol => yy_scan_lastc = Newline) /\ yy_scan + c[1] \in EndsAt(Whole(r), yy_scan)}
Before(c, d) == c[1] > d[1] \/ (c[1] = d[1] /\ c[2] < d[2])
\* Where the text of a rule with trailing context may end.
Cuts(r, len) == {i \in 0..len : yy_scan + i \in EndsAt(r.r, yy_scan) /\ yy_scan + len \in EndsAt(r.x[1], yy_scan + i)}

\* The longest match is taken, of the earliest rule; REJECT goes through all
\* others, each once; and the text is the longest r that an x follows, unless
\* the length of a part is fixed.
ChoicesInOrder ==
  lexpc = "action" /\ ~touched /\ lexcalls = rejects =>
    LET better == {c \in Matching : Before(c, <<yy_len, yy_rule>>)}
    IN /\ Cardinality(better) = (IF yy_rule = NoState THEN Cardinality(Matching) ELSE rejects)
       /\ yy_rule # NoState => <<yy_len, yy_rule>> \in Matching
       /\ yy_rule # NoState /\ Trailing(LexRules[yy_rule]) =>
            /\ yy_mlen \in Cuts(LexRules[yy_rule], yy_len)
            /\ GenericCut(LexRules[yy_rule]) => yy_mlen = Max(Cuts(LexRules[yy_rule], yy_len))

\* yylineno is the line of the next character, whatever has been put back.
LinesCounted == yylineno = 1 + Newlines(0, yy_pos)

================================================================================
