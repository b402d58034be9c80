---------------------------------- MODULE Patch ---------------------------------
(* patch: hunks found and applied to files that may have changed since the      *)
(* patch was made. A patch is a record of the names of its header and of its    *)
(* hunks, in the order of the patch file; a step handles one hunk.              *)
EXTENDS Diff

CONSTANTS
  Names,          \* of the files
  NoName,         \* no such header line
  DevNull         \* /dev/null in a header line

VARIABLES
  files,          \* the files there are: their text
  orig,           \* and the files saved by -b
  queue,          \* the patches still to be done
  cur,            \* the patch being done, Idle between two
  rejects,        \* the rejected hunks
  opt,            \* the options; -R may be set by an answer
  applied_any, status
vars == <<files, orig, queue, cur, rejects, opt, applied_any, status>>

Idle == [name |-> NoName]
AtLeast(s) == status' = Larger(status, s)

-----------------------------------------------------------------------------
(* Hunks, as the parser leaves them.                                            *)

Keeping(l, type) == SelectSeq(l, LAMBDA x : x.type # type)
OldLines(l) == Keeping(l, "+")
NewLines(l) == Keeping(l, "-")
Retyped(l, type) == [i \in DOMAIN l |-> [l[i] EXCEPT !.type = type]]
\* A half that was left out is the context of the other.
Filled(part, other, changed) ==
  IF part # <<>> THEN part ELSE SelectSeq(other, LAMBDA x : x.type # changed)
RECURSIVE Merged(_, _)
Merged(o, n) ==
  LET bangs(l) == Max({k \in 0..Len(l) : \A i \in 1..k : l[i].type = "!"})
      from(l, k) == SubSeq(l, k, Len(l))
      ob == bangs(o)
      nb == bangs(n)
  IN IF o = <<>> /\ n = <<>> THEN <<>>
     ELSE IF o # <<>> /\ o[1].type = "-" THEN <<o[1]>> \o Merged(Tail(o), n)
     ELSE IF n # <<>> /\ n[1].type = "+" THEN <<n[1]>> \o Merged(o, Tail(n))
     ELSE IF ob + nb > 0
          THEN Retyped(SubSeq(o, 1, ob), "-") \o Retyped(SubSeq(n, 1, nb), "+")
               \o Merged(from(o, ob + 1), from(n, nb + 1))
     ELSE IF n = <<>> THEN <<o[1]>> \o Merged(Tail(o), n)
     ELSE IF o = <<>> THEN <<n[1]>> \o Merged(o, Tail(n))
     ELSE <<[o[1] EXCEPT !.noeol = n[1].noeol]>> \o Merged(Tail(o), Tail(n))

Counted(kind, start, nstart, l) ==
  [kind |-> kind, old_start |-> start, old_n |-> Len(OldLines(l)),
   new_start |-> nstart, new_n |-> Len(NewLines(l)), l |-> l]
parse_normal(h) == Counted("n", h.a, h.c, h.old \o h.new)
parse_unified(h) == Counted("u", h.old[1], h.new[1], h.l)
\* A half has as many lines as its range says, or none.
parse_context(h) ==
  LET lines(r) == IF r = <<0, 0>> THEN 0 ELSE r[2] - r[1] + 1
      o == SubSeq(h.old, 1, Smaller(lines(h.oldrange), Len(h.old)))
      n == SubSeq(h.new, 1, Smaller(lines(h.newrange), Len(h.new)))
  IN Counted("c", h.oldrange[1], h.newrange[1], Merged(Filled(o, n, "+"), Filled(n, o, "-")))
Parsed(h) == CASE h.kind = "n" -> parse_normal(h) [] h.kind = "u" -> parse_unified(h) [] h.kind = "c" -> parse_context(h)
reverse(h) ==
  [h EXCEPT !.old_start = h.new_start, !.old_n = h.new_n, !.new_start = h.old_start, !.new_n = h.old_n,
            !.l = [i \in DOMAIN h.l |->
                     [h.l[i] EXCEPT !.type = IF @ = "-" THEN "+" ELSE IF @ = "+" THEN "-" ELSE @]]]

-----------------------------------------------------------------------------
(* Where a hunk goes.                                                           *)

\* Do the old lines of h, less some context at the front and the back, match
\* t at pos?
matches(t, h, pos, skip_front, skip_back) ==
  LET old == OldLines(SubSeq(h.l, skip_front + 1, Len(h.l) - skip_back))
  IN \A i \in DOMAIN old : pos + i <= Len(t) /\ t[pos + i].t = old[i].s

context_ends(h) ==
  LET same(i) == h.l[i].type = " "
      front == Max({k \in 0..Len(h.l) : \A i \in 1..k : same(i)})
  IN <<front, Max({k \in 0..(Len(h.l) - front) : \A i \in 0..(k - 1) : same(Len(h.l) - i)})>>

\* The places for h at a given fuzz: the end of the file that the end with
\* less context says, else the place nearest to the expected one.
Places(t, h, expect, from, fuzz) ==
  LET ends == context_ends(h)
      context == Larger(ends[1], ends[2])
      pfz == fuzz + ends[1] - context
      sfz == fuzz + ends[2] - context
      skf == Smaller(Larger(pfz, 0), ends[1])
      skb == Smaller(Larger(sfz, 0), ends[2])
      total == Len(OldLines(h.l))
      border == IF pfz < 0 THEN 0 ELSE Len(t) - total
      last == Len(t) - Len(OldLines(SubSeq(h.l, 1, Len(h.l) - skb)))
      fits == {p \in from..last : matches(t, h, p + skf, skf, skb)}
      away(p) == IF p > expect THEN p - expect ELSE expect - p
  IN IF pfz < 0 \/ sfz < 0
     THEN {p \in {border} : /\ pfz < 0 /\ sfz < 0 => total = Len(t)
                            /\ p >= from /\ p + total <= Len(t)
                            /\ matches(t, h, p + skf, skf, skb)}
     ELSE {p \in fits : \A q \in fits : away(p) < away(q) \/ (away(p) = away(q) /\ p <= q)}
MaxFuzz(h) == IF h.kind = "n" THEN 0 ELSE 2
locate(t, h, expect, from) ==
  LET found == {f \in 0..MaxFuzz(h) : Places(t, h, expect, from, f) # {}}
  IN IF found = {} THEN {} ELSE Places(t, h, expect, from, Min(found))

-----------------------------------------------------------------------------
(* Applying a hunk.                                                             *)

Line(s) == [t |-> s, nl |-> TRUE]
Texts(l) == [i \in DOMAIN l |-> Line(l[i].s)]
\* With -D, a group of deleted and added lines under the marks.
Defined(del, add) ==
  <<Line(IF del = <<>> THEN "#ifdef" ELSE "#ifndef")>> \o del
  \o (IF del # <<>> /\ add # <<>> THEN <<Line("#else")>> ELSE <<>>) \o Texts(add) \o <<Line("#endif")>>
RECURSIVE Applied(_, _, _, _)
Applied(t, l, k, d) ==
  LET x == l[1]
      group == Max({n \in 0..Len(l) : \A i \in 1..n : l[i].type # " "})
      minus == Len(OldLines(SubSeq(l, 1, group)))
      del == [i \in 1..minus |-> Line(t[k + i].t)]
  IN IF l = <<>> THEN SubSeq(t, k + 1, Len(t))
     ELSE IF x.type = " "
          THEN (IF k < Len(t) THEN <<[t[k + 1] EXCEPT !.nl = ~x.noeol]>> ELSE <<>>) \o Applied(t, Tail(l), k + 1, d)
     ELSE IF d
          THEN Defined(del, NewLines(SubSeq(l, 1, group)))
               \o Applied(t, SubSeq(l, group + 1, Len(l)), k + minus, d)
     ELSE IF x.type = "-" THEN Applied(t, Tail(l), k + 1, d)
     ELSE <<[t |-> x.s, nl |-> ~x.noeol]>> \o Applied(t, Tail(l), k, d)
\* A newline after every line but the last.
Newlines(t) == [i \in DOMAIN t |-> IF i < Len(t) THEN Line(t[i].t) ELSE t[i]]
apply(t, h, at, d) == Newlines(SubSeq(t, 1, at) \o Applied(t, h.l, at, d))

\* The lines of h up to its last change: where the next hunk may begin.
Used(h) ==
  LET changed == {i \in DOMAIN h.l : h.l[i].type # " "}
  IN IF changed = {} THEN 0 ELSE Len(NewLines(SubSeq(h.l, 1, Max(changed))))

-----------------------------------------------------------------------------
(* ed scripts: the commands that have line numbers, "s/.//" on the current      *)
(* line, and nothing else: at anything else the script ends.                    *)

Numbered == {"a", "c", "d"}
RECURSIVE run_ed(_, _, _)
run_ed(t, script, line) ==
  LET x == script[1]
      end == Min({i \in DOMAIN script : i > 1 /\ script[i].cmd = "end"})
      text == [i \in 1..(end - 2) |-> Line(script[i + 1].s)]
      gone == IF x.cmd = "a" THEN t ELSE SubSeq(t, 1, x.a - 1) \o SubSeq(t, x.b + 1, Len(t))
      after == IF x.cmd = "a" THEN x.b ELSE x.a - 1
  IN IF script = <<>> \/ x.cmd \notin Numbered \union {"undot"} THEN [t |-> t, ok |-> TRUE, rest |-> script]
     ELSE IF x.cmd = "undot"
          THEN IF line < 1 THEN [t |-> t, ok |-> FALSE, rest |-> Tail(script)]
               ELSE run_ed([t EXCEPT ![line].t = IF @ = Undotted THEN Dot ELSE @], Tail(script), line)
     ELSE IF x.b < x.a \/ x.b > Len(t) \/ (x.a = 0 /\ x.cmd # "a") THEN [t |-> t, ok |-> FALSE, rest |-> Tail(script)]
     ELSE IF x.cmd = "d" THEN run_ed(gone, Tail(script), Smaller(x.a, Len(gone)))
     ELSE run_ed(SubSeq(gone, 1, after) \o text \o SubSeq(gone, after + 1, Len(gone)),
                 SubSeq(script, end + 1, Len(script)), after + Len(text))
\* The lines up to the next command are taken for the text of a header.
Sought(script) ==
  LET starts == {i \in DOMAIN script : script[i].cmd \in Numbered}
  IN IF starts = {} THEN <<>> ELSE SubSeq(script, Min(starts), Len(script))

-----------------------------------------------------------------------------
(* A patch.                                                                     *)

EmptyOld(p) == p.kind \in {"u", "c"} /\ \A i \in DOMAIN p.hunks : Parsed(p.hunks[i]).old_n = 0
FirstOf(s) == LET is == {i \in DOMAIN s : s[i] \notin {NoName, DevNull}} IN IF is = {} THEN NoName ELSE s[Min(is)]
\* The file of a patch: the first of its names there is; for a patch that makes
\* a file, its new name; else the answer to "File to patch:".
Chosen(p, answer) ==
  LET there == SelectSeq(<<p.old, p.new, p.index>>, LAMBDA n : n \in DOMAIN files)
  IN IF opt.operand # NoName THEN [name |-> opt.operand, creating |-> FALSE]
     ELSE IF there # <<>> THEN [name |-> there[1], creating |-> FALSE]
     ELSE IF EmptyOld(p) /\ FirstOf(<<p.new, p.old, p.index>>) # NoName
          THEN [name |-> FirstOf(<<p.new, p.old, p.index>>), creating |-> TRUE]
     ELSE [name |-> answer, creating |-> FALSE]

Begin == /\ cur = Idle /\ queue # <<>>
         /\ \E answer \in Names \union {NoName} :
              LET p == queue[1]
                  c == Chosen(p, answer)
                  there == c.name \in DOMAIN files
                  t == IF there THEN files[c.name] ELSE <<>>
              IN IF c.name = NoName \/ ~(there \/ c.creating)
                 THEN AtLeast(2) /\ queue' = Tail(queue) /\ UNCHANGED <<cur, orig>>
                 ELSE /\ cur' = [name |-> c.name, kind |-> p.kind, hunks |-> p.hunks, t |-> t,
                                 deleting |-> opt.operand = NoName /\ p.new = DevNull,
                                 delta |-> 0, offset |-> 0, from |-> 0, failed |-> 0, asked |-> FALSE]
                      /\ orig' = IF opt.b /\ c.name \notin DOMAIN orig THEN (c.name :> t) @@ orig ELSE orig
                      /\ queue' = Tail(queue)
                      /\ UNCHANGED status
         /\ UNCHANGED <<files, rejects, opt, applied_any>>

Expected(h) == (IF h.old_n = 0 THEN h.old_start ELSE h.old_start - 1) + cur.delta + cur.offset
Where(h) == locate(cur.t, h, Expected(h), cur.from)
Take(h, at, R) ==
  /\ cur' = [cur EXCEPT !.t = apply(cur.t, h, at, opt.D), !.hunks = Tail(@), !.offset = @ + at - Expected(h),
                        !.delta = @ + Len(NewLines(h.l)) - Len(OldLines(h.l)), !.from = at + Used(h)]
  /\ opt' = [opt EXCEPT !.R = R]
  /\ applied_any' = TRUE
  /\ UNCHANGED rejects
Reject(h, asked) ==
  /\ rejects' = Append(rejects, [name |-> cur.name, h |-> h, at |-> Expected(h) + 1])
  /\ cur' = [cur EXCEPT !.hunks = Tail(@), !.failed = @ + 1, !.asked = asked]
  /\ UNCHANGED <<opt, applied_any>>

Hunk == /\ cur # Idle /\ cur.kind # "e" /\ cur.hunks # <<>>
        /\ LET h0 == Parsed(cur.hunks[1])
               h == IF opt.R THEN reverse(h0) ELSE h0
               rev == reverse(h)
               fitsReversed == rev.old_n > 0 /\ Where(rev) # {}
           IN IF Where(h) # {} THEN \E at \in Where(h) : Take(h, at, opt.R)
              ELSE IF opt.R \/ applied_any \/ cur.asked \/ ~fitsReversed THEN Reject(h, cur.asked)
              ELSE IF opt.N THEN cur' = Idle /\ UNCHANGED <<rejects, opt, applied_any>>
              ELSE \/ \E at \in Where(rev) : Take(rev, at, TRUE)
                   \/ Reject(h, TRUE)
        /\ AtLeast(IF cur'.name = NoName /\ cur.failed > 0 THEN 1 ELSE 0)
        /\ UNCHANGED <<files, orig, queue>>

Ed == /\ cur # Idle /\ cur.kind = "e" /\ cur.hunks # <<>>
      /\ LET t == IF opt.R THEN <<>> ELSE cur.t
             r == run_ed(t, cur.hunks, Len(t))
             rest == Sought(r.rest)
         IN /\ queue' = IF rest = <<>> THEN queue
                        ELSE <<[kind |-> "e", old |-> NoName, new |-> NoName, index |-> NoName, hunks |-> rest]>> \o queue
            /\ IF opt.R THEN AtLeast(2) /\ cur' = [cur EXCEPT !.hunks = <<>>]
               ELSE IF r.ok THEN cur' = [cur EXCEPT !.hunks = <<>>, !.t = Newlines(r.t)] /\ UNCHANGED status
               ELSE AtLeast(2) /\ cur' = Idle
      /\ UNCHANGED <<files, orig, rejects, opt, applied_any>>

\* The result: a new file renamed into place, which may fail; a file with
\* nothing left is removed when the patch says so.
Finish == /\ cur # Idle /\ cur.hunks = <<>>
          /\ \/ /\ files' = IF cur.deleting /\ cur.t = <<>> THEN [n \in DOMAIN files \ {cur.name} |-> files[n]]
                            ELSE (cur.name :> cur.t) @@ files
                /\ AtLeast(IF cur.failed > 0 THEN 1 ELSE 0)
             \/ files' = files /\ opt.full /\ AtLeast(2)
          /\ cur' = Idle
          /\ UNCHANGED <<orig, queue, rejects, opt, applied_any>>

PatchNext == Begin \/ Hunk \/ Ed \/ Finish
Done == queue = <<>> /\ cur = Idle
================================================================================
