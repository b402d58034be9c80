----------------------------------- MODULE M4 -----------------------------------
(* src/m4/m4.c: the macro processor.  The stack of blocks is one sequence: the *)
(* text that is still to be read, what was pushed back in front of the rest of *)
(* the file.  A symbol is a character; a name of several letters that is never *)
(* taken apart (a built-in, say) counts as one; "lq" and "rq" are the quotes.   *)
EXTENDS Integers, Sequences, SequencesExt, M4Eval

CONSTANTS
  WordStart,  \* the letters
  MaxDiv,     \* the largest number of a diversion, 1023 in the code
  MaxInput    \* bound of the runs: so much may wait to be read

VARIABLES
  input,      \* stack: what is left to read
  operands,   \* the files to read after that
  calls,      \* the calls whose arguments are being collected, the innermost last
  defs,       \* table: the definitions of each name that has been given any, the last pushdef'd first
  lang,       \* lquote, rquote, bcomm, ecomm
  divnum, divs,
  out,        \* what has been written
  wraps,      \* the text of m4wrap
  m4status,   \* the status, or what ended m4 at once
  m4pc

meanings == <<defs, lang>>
output == <<divnum, divs, out>>
m4vars == <<input, operands, calls, meanings, output, wraps, m4status, m4pc>>

Digits == <<"0", "1", "2", "3", "4", "5", "6", "7", "8", "9">>
Blanks == {" ", "\n"}
Position(s, c) == SelectInSeq(s, LAMBDA x : x = c)
is_word(c) == c \in WordStart \union Range(Digits)

-------------------------------------------------------------------------------
(* Numbers.                                                                    *)

push_num(v) == Shown(v, 10, 1)

\* The value of an argument, if it is a number with a sign and blanks around it.
numeric(s) ==
  LET ink == {i \in DOMAIN s : s[i] \notin Blanks}
      from == CHOOSE i \in ink : \A j \in ink : i <= j
      to == CHOOSE i \in ink : \A j \in ink : i >= j
      first == IF s[from] \in {"-", "+"} THEN from + 1 ELSE from
      digits == SubSeq(s, first, to)
      value == FoldLeft(LAMBDA v, c : ((10 * v + Position(Digits, c)) - 1) % (2 * Limit), 0, digits)
  IN IF ink = {} \/ first > to \/ ~(Range(digits) \subseteq Range(Digits)) THEN {}
     ELSE {wrap32(IF s[from] = "-" THEN -value ELSE value)}

-------------------------------------------------------------------------------
(* Tokens.                                                                     *)

match(s, w) == w # <<>> /\ IsPrefix(w, s)
Rest(s, n) == SubSeq(s, n + 1, Len(s))
Found(kind, text, n) == [kind |-> kind, text |-> text, rest |-> Rest(input, n)]

Word == LET n == CHOOSE n \in 1..Len(input) : /\ \A i \in 1..n : is_word(input[i])
                                              /\ n = Len(input) \/ ~is_word(input[n + 1])
        IN Found("word", SubSeq(input, 1, n), n)

\* Copied as it is, with both ends.
Comment ==
  LET from == Len(lang.bcomm)
      ends == {i \in from..Len(input) : match(Rest(input, i), lang.ecomm)}
      end == CHOOSE i \in ends : \A j \in ends : i <= j
      n == IF ends = {} THEN Len(input) ELSE end + Len(lang.ecomm)
  IN [Found("comment", SubSeq(input, 1, n), n) EXCEPT !.kind = IF ends = {} THEN "unfinished" ELSE "comment"]

\* Without the outer quotes.
Quoted ==
  LET walk[i \in 0..Len(input), level \in 0..(Len(input) + 1)] ==
        \* the end of the string, from i on
        IF level = 0 THEN i
        ELSE IF i = Len(input) THEN -1
        ELSE IF match(Rest(input, i), lang.rquote) THEN walk[i + Len(lang.rquote), level - 1]
        ELSE IF match(Rest(input, i), lang.lquote) THEN walk[i + Len(lang.lquote), level + 1]
        ELSE walk[i + 1, level]
      end == walk[Len(lang.lquote), 1]
  IN IF end < 0 THEN Found("endless", <<>>, 0)
     ELSE Found("string", SubSeq(input, Len(lang.lquote) + 1, end - Len(lang.rquote)), end)

token ==
  IF input = <<>> THEN [kind |-> "eof", text |-> <<>>, rest |-> <<>>]
  ELSE IF match(input, lang.bcomm) THEN Comment
  ELSE IF Head(input) \in WordStart THEN Word
  ELSE IF match(input, lang.lquote) THEN Quoted
  ELSE Found("char", <<Head(input)>>, 1)

-------------------------------------------------------------------------------
(* The table of macros.                                                        *)

Blind == {"define", "pushdef", "popdef", "undefine", "defn", "ifdef", "ifelse", "shift", "substr", "len", "index",
          "incr", "decr", "eval", "translit", "m4wrap"}
Builtins == Blind \union {"changequote", "changecom", "divert", "divnum", "undivert", "dnl", "m4exit"}
BuiltinOf(text) == {b \in Builtins : text = <<"defn:" \o b>>}   \* token_builtin
Builtin(name) == IF name \in {<<b>> : b \in Builtins} THEN <<[builtin |-> Head(name), text |-> <<>>]>> ELSE <<>>
lookup(name) == IF name \in DOMAIN defs THEN defs[name] ELSE Builtin(name)
Definition(text) == IF BuiltinOf(text) = {} THEN [builtin |-> "", text |-> text]
                    ELSE [builtin |-> CHOOSE b \in BuiltinOf(text) : TRUE, text |-> <<>>]
With(d, name, ds) == [n \in DOMAIN d \union {name} |-> IF n = name THEN ds ELSE d[n]]
Below(ds) == IF ds = <<>> THEN <<>> ELSE Tail(ds)
define(name, text) == With(defs, name, <<Definition(text)>> \o Below(lookup(name)))
pushdef(name, text) == With(defs, name, <<Definition(text)>> \o lookup(name))
undefine(names) == [n \in DOMAIN defs \union Range(names) |-> IF n \in Range(names) THEN <<>> ELSE defs[n]]
popdef(names) == LET times(n) == Len(SelectSeq(names, LAMBDA m : m = n))
                 IN [n \in DOMAIN defs \union Range(names) |->
                       IF times(n) >= Len(lookup(n)) THEN <<>> ELSE Rest(lookup(n), times(n))]

-------------------------------------------------------------------------------
(* The text that a call is replaced by.                                        *)

QuotedNot(s) == s
quoted(s) == lang.lquote \o s \o lang.rquote
Listed(args) == FoldLeft(LAMBDA s, i : s \o (IF i > 1 THEN <<",">> ELSE <<>>) \o args[i], <<>>, [i \in DOMAIN args |-> i])
arg(a, i) == IF i <= Len(a) THEN a[i] ELSE <<>>

\* name is $0.
substitute(text, name, a) ==
  LET Value(c) == CASE c = "0" -> name
                    [] c \in Range(Digits) \ {"0"} -> arg(a, Position(Digits, c) - 1)
                    [] c = "#" -> push_num(Len(a))
                    [] c = "*" -> Listed(a)
                    [] c = "@" -> Listed([i \in DOMAIN a |-> quoted(a[i])])
      from[i \in 1..(Len(text) + 1)] ==
        IF i > Len(text) THEN <<>>
        ELSE IF text[i] = "$" /\ i < Len(text) /\ text[i + 1] \in Range(Digits) \union {"#", "*", "@"}
          THEN Value(text[i + 1]) \o from[i + 2]
        ELSE <<text[i]>> \o from[i + 1]
  IN from[1]

ifelse(a) ==
  LET from[i \in 1..(Len(a) + 3)] ==
        IF Len(a) - i + 1 < 3 THEN <<>>
        ELSE IF a[i] = a[i + 1] THEN a[i + 2]
        ELSE IF Len(a) - i + 1 <= 5 THEN arg(a, i + 3)
        ELSE from[i + 3]
  IN from[1]

index(s, t) == LET at == {i \in 0..Len(s) : IsPrefix(t, Rest(s, i))}
               IN IF at = {} THEN -1 ELSE CHOOSE i \in at : \A j \in at : i <= j

substr(a) ==
  LET s == a[1]
      v == numeric(arg(a, 2))
      w == IF Len(a) >= 3 THEN numeric(a[3]) ELSE {Len(s)}
  IN IF Len(a) < 2 THEN s
     ELSE IF v = {} \/ w = {} THEN <<>>
     ELSE LET from == CHOOSE x \in v : TRUE  n == CHOOSE x \in w : TRUE
          IN IF from < 0 \/ from >= Len(s) \/ n <= 0 THEN <<>> ELSE SubSeq(s, from + 1, IF n > Len(s) - from THEN Len(s) ELSE from + n)

\* The sets have no ranges.
translit(s, f, t) ==
  LET to(c) == IF c \notin Range(f) THEN <<c>>
               ELSE IF Position(f, c) > Len(t) THEN <<>> ELSE <<t[Position(f, c)]>>
  IN FoldLeft(LAMBDA r, c : r \o to(c), <<>>, s)

Number(vs, op(_)) == IF vs = {} THEN <<>> ELSE push_num(wrap32(op(CHOOSE v \in vs : TRUE)))

\* eval, with a radix and a width.
Radix(a) == IF arg(a, 2) = <<>> THEN {10} ELSE numeric(a[2]) \cap 2..36
Width(a) == IF Len(a) < 3 THEN {1} ELSE numeric(a[3]) \cap Nat
Valued(a) == Radix(a) # {} /\ Width(a) # {} /\ do_eval(arg(a, 1)) # {}
eval(a) == IF ~Valued(a) THEN <<>>
           ELSE Shown(CHOOSE v \in do_eval(arg(a, 1)) : TRUE, CHOOSE r \in Radix(a) : TRUE, CHOOSE w \in Width(a) : TRUE)

\* What defn gives: the quoted text, or the token of a built-in.
defn(a) == FoldLeft(LAMBDA s, n : s \o (IF lookup(n) = <<>> THEN <<>>
                                       ELSE LET d == Head(lookup(n))
                                            IN IF d.builtin = "" THEN quoted(d.text) ELSE <<"defn:" \o d.builtin>>), <<>>, a)

\* The built-ins that only push text.
Text(b, a) ==
  CASE b = "ifdef" -> IF lookup(arg(a, 1)) # <<>> THEN arg(a, 2) ELSE arg(a, 3)
    [] b = "ifelse" -> ifelse(a)
    [] b = "shift" -> Listed([i \in 1..(Len(a) - 1) |-> quoted(a[i + 1])])
    [] b = "substr" -> substr(a)
    [] b = "len" -> push_num(Len(arg(a, 1)))
    [] b = "index" -> push_num(index(arg(a, 1), arg(a, 2)))
    [] b = "incr" -> Number(numeric(arg(a, 1)), LAMBDA v : v + 1)
    [] b = "decr" -> Number(numeric(arg(a, 1)), LAMBDA v : v - 1)
    [] b = "translit" -> translit(arg(a, 1), arg(a, 2), arg(a, 3))
    [] b = "defn" -> defn(a)
    [] b = "eval" -> eval(a)
    [] b = "divnum" -> push_num(divnum)
TextOnly == {"ifdef", "ifelse", "shift", "substr", "len", "index", "incr", "decr", "translit", "defn", "eval", "divnum"}

-------------------------------------------------------------------------------
(* The output.                                                                 *)

\* Built-in tokens are not written.
Plain(s) == SelectSeq(s, LAMBDA c : BuiltinOf(<<c>>) = {})
\* Where the output of a piece of text goes; a diversion keeps the tokens out, too.
out_text(s) == /\ out' = IF divnum = 0 THEN out \o Plain(s) ELSE out
               /\ divs' = IF divnum > 0 THEN [divs EXCEPT ![divnum] = @ \o Plain(s)] ELSE divs
               /\ UNCHANGED divnum

\* Diversion n is brought to where the output goes now; it is lost when that is nowhere.
Undivert(o, n, to) ==
  IF n \notin 1..MaxDiv \/ n = to THEN o
  ELSE [out |-> IF to = 0 THEN o.out \o o.divs[n] ELSE o.out,
        divs |-> [k \in DOMAIN o.divs |-> IF k = n THEN <<>> ELSE IF k = to THEN o.divs[k] \o o.divs[n] ELSE o.divs[k]]]
Undiverted(ns, to) == FoldLeft(LAMBDA o, n : Undivert(o, n, to), [out |-> out, divs |-> divs], ns)
AllDivs == [n \in 1..MaxDiv |-> n]

-------------------------------------------------------------------------------
(* Calls.                                                                      *)

Collecting(name) == [name |-> name, args |-> <<>>, arg |-> <<>>, skip |-> TRUE, paren |-> 0]
Top == Last(calls)
Expanding == m4pc = "expand" /\ Len(input) <= MaxInput

\* give: to the call around, or to the output.
Give(s) == IF calls = <<>> THEN out_text(s) /\ UNCHANGED calls
           ELSE calls' = [calls EXCEPT ![Len(calls)].arg = @ \o s] /\ UNCHANGED output

\* define, pushdef, undefine, popdef
Redefine(b, a) ==
  /\ b \in {"define", "pushdef", "undefine", "popdef"}
  /\ defs' = CASE b = "undefine" -> undefine(a)
               [] b = "popdef" -> popdef(a)
               [] a = <<>> -> defs
               [] b = "define" -> define(a[1], arg(a, 2))
               [] b = "pushdef" -> pushdef(a[1], arg(a, 2))
  /\ UNCHANGED <<lang, output, wraps>>

\* changequote, changecom: an empty beginning has no end.
Relanguage(b, a) ==
  LET begin == IF a # <<>> THEN a[1] ELSE IF b = "changequote" THEN <<"lq">> ELSE <<>>
      given == IF Len(a) > 1 THEN a[2] ELSE IF b = "changequote" THEN <<"rq">> ELSE <<"\n">>
      end == IF begin = <<>> THEN <<>> ELSE given
  IN /\ b \in {"changequote", "changecom"}
     /\ lang' = IF b = "changequote" THEN [lang EXCEPT !.lquote = begin, !.rquote = end]
                ELSE [lang EXCEPT !.bcomm = begin, !.ecomm = end]
     /\ UNCHANGED <<defs, output, wraps>>

\* divert and undivert; a diversion that is too far is -1.
Divert(b, a) ==
  /\ UNCHANGED <<meanings, wraps>>
  /\ \/ /\ b = "divert"
        /\ divnum' = IF arg(a, 1) = <<>> THEN 0
                     ELSE IF numeric(a[1]) = {} THEN divnum
                     ELSE LET n == CHOOSE v \in numeric(a[1]) : TRUE IN IF n > MaxDiv THEN -1 ELSE n
        /\ UNCHANGED <<divs, out>>
     \/ /\ b = "undivert"
        /\ LET given == SelectSeq(a, LAMBDA s : numeric(s) # {})
               o == Undiverted(IF a = <<>> THEN AllDivs ELSE [i \in DOMAIN given |-> CHOOSE v \in numeric(given[i]) : TRUE], divnum)
           IN out' = o.out /\ divs' = o.divs
        /\ UNCHANGED divnum

Complains(b, a) ==
  \/ b \in {"incr", "decr"} /\ numeric(arg(a, 1)) = {}
  \/ b = "eval" /\ ~Valued(a)
  \/ b = "substr" /\ \E i \in {2, 3} \cap DOMAIN a : numeric(a[i]) = {}
  \/ b = "divert" /\ arg(a, 1) # <<>> /\ (numeric(a[1]) = {} \/ \E n \in numeric(a[1]) : n > MaxDiv)
  \/ b = "undivert" /\ \E i \in DOMAIN a : numeric(a[i]) = {} \* no such file

ExitStatus(a) == IF arg(a, 1) = <<>> THEN m4status
                 ELSE IF numeric(a[1]) = {} THEN 1
                 ELSE LET v == CHOOSE v \in numeric(a[1]) : TRUE IN IF v = 0 THEN m4status ELSE v % 256

\* The definition that counts is the one of after the arguments.
Meaning(name) == IF lookup(name) = <<>> THEN [builtin |-> "", text |-> <<>>] ELSE Head(lookup(name))

Apply(name, a, rest, outer) ==
  LET b == Meaning(name).builtin
      eol == SelectInSeq(rest, LAMBDA c : c = "\n")
  IN /\ calls' = outer /\ UNCHANGED operands
     /\ m4status' = IF b = "m4exit" THEN ExitStatus(a) ELSE IF Complains(b, a) THEN 1 ELSE m4status
     /\ m4pc' = IF b = "m4exit" THEN "exit" ELSE m4pc
     /\ input' = CASE b = "" -> substitute(Meaning(name).text, name, a) \o rest
                   [] b \in TextOnly -> Text(b, a) \o rest
                   [] b = "dnl" -> IF eol = 0 THEN <<>> ELSE Rest(rest, eol)
                   [] OTHER -> rest
     /\ \/ b \in TextOnly \union {"", "dnl", "m4exit"} /\ UNCHANGED <<meanings, output, wraps>>
        \/ Redefine(b, a)
        \/ Relanguage(b, a)
        \/ Divert(b, a)
        \/ b = "m4wrap" /\ wraps' = wraps \o arg(a, 1) /\ UNCHANGED <<meanings, output>>

\* A name that is a macro: its arguments follow at once, or it has none; some
\* built-ins are not called then.
Expand ==
  LET t == token
      open == t.rest # <<>> /\ Head(t.rest) = "("
  IN /\ Expanding /\ t.kind = "word" /\ lookup(t.text) # <<>>
     /\ \/ /\ open
           /\ calls' = Append(calls, Collecting(t.text)) /\ input' = Tail(t.rest)
           /\ UNCHANGED <<operands, meanings, output, wraps, m4status, m4pc>>
        \/ /\ ~open /\ Meaning(t.text).builtin \in Blind
           /\ Give(t.text) /\ input' = t.rest
           /\ UNCHANGED <<operands, meanings, wraps, m4status, m4pc>>
        \/ ~open /\ Meaning(t.text).builtin \notin Blind /\ Apply(t.text, <<>>, t.rest, calls)

\* Any other token outside of calls.
Copy ==
  LET t == token
  IN /\ Expanding /\ calls = <<>> /\ t.kind \notin {"eof", "endless"}
     /\ t.kind = "word" => lookup(t.text) = <<>>
     /\ input' = t.rest /\ out_text(t.text)
     /\ m4status' = IF t.kind = "unfinished" THEN 1 ELSE m4status
     /\ UNCHANGED <<operands, calls, meanings, wraps, m4pc>>

\* Any other token in an argument.
Ends(t) == t.kind = "char" /\ Top.paren = 0 /\ t.text \in {<<",">>, <<")">>}
Skipped(t) == t.kind = "char" /\ Top.skip /\ Head(t.text) \in Blanks
Depth(t) == IF t.kind # "char" THEN 0 ELSE IF t.text = <<"(">> THEN 1 ELSE IF t.text = <<")">> THEN -1 ELSE 0
Collect ==
  LET t == token
  IN /\ Expanding /\ calls # <<>> /\ t.kind \notin {"eof", "endless"} /\ ~Ends(t)
     /\ t.kind = "word" => lookup(t.text) = <<>>
     /\ input' = t.rest
     /\ calls' = IF Skipped(t) THEN calls
                 ELSE [calls EXCEPT ![Len(calls)] =
                         [@ EXCEPT !.arg = @ \o t.text, !.skip = FALSE, !.paren = @ + Depth(t)]]
     /\ m4status' = IF t.kind = "unfinished" THEN 1 ELSE m4status
     /\ UNCHANGED <<operands, meanings, output, wraps, m4pc>>

ArgEnds ==
  LET t == token
  IN /\ Expanding /\ calls # <<>> /\ Ends(t)
     /\ IF t.text = <<",">>
        THEN /\ calls' = [calls EXCEPT ![Len(calls)] = [Collecting(@.name) EXCEPT !.args = Append(Top.args, Top.arg)]]
             /\ input' = t.rest
             /\ UNCHANGED <<operands, meanings, output, wraps, m4status, m4pc>>
        ELSE Apply(Top.name, Append(Top.args, Top.arg), t.rest, Front(calls))

\* The end of a file, in a quoted string or in arguments the end of m4.
Stop ==
  /\ Expanding /\ (token.kind = "endless" \/ (token.kind = "eof" /\ calls # <<>>))
  /\ m4pc' = "exit" /\ m4status' = 1
  /\ UNCHANGED <<input, operands, calls, meanings, output, wraps>>

NextInput ==
  /\ Expanding /\ token.kind = "eof" /\ calls = <<>>
  /\ \/ operands # <<>> /\ input' = Head(operands) /\ operands' = Tail(operands) /\ UNCHANGED wraps
     \/ operands = <<>> /\ wraps # <<>> /\ input' = wraps /\ wraps' = <<>> /\ UNCHANGED operands
  /\ UNCHANGED <<calls, meanings, output, m4status, m4pc>>

flush_all ==
  /\ Expanding /\ token.kind = "eof" /\ calls = <<>> /\ operands = <<>> /\ wraps = <<>>
  /\ divnum' = 0
  /\ LET o == Undiverted(AllDivs, 0) IN out' = o.out /\ divs' = o.divs
  /\ m4pc' = "exit"
  /\ UNCHANGED <<input, operands, calls, meanings, wraps, m4status>>

\* m4 begins with the files fs, and d for the -D.
Start(fs, d) ==
  /\ input = Head(fs) /\ operands = Tail(fs)
  /\ defs = d
  /\ lang = [lquote |-> <<"lq">>, rquote |-> <<"rq">>, bcomm |-> <<"#">>, ecomm |-> <<"\n">>]
  /\ calls = <<>> /\ divnum = 0 /\ divs = [n \in 1..MaxDiv |-> <<>>] /\ out = <<>> /\ wraps = <<>>
  /\ m4status = 0 /\ m4pc = "expand"

M4Next == Expand \/ Copy \/ Collect \/ ArgEnds \/ Stop \/ NextInput \/ flush_all
===============================================================================
