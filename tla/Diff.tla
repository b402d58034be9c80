---------------------------------- MODULE Diff ----------------------------------
(* diff: the edit script that Myers' algorithm finds in linear space, and the   *)
(* script written in each format. A file is a sequence of lines, a line its     *)
(* text and whether a newline ends it; lines are counted from 0 as the code     *)
(* counts them, so line i is f[i + 1].                                          *)
EXTENDS Integers, Sequences, FiniteSets, SequencesExt, FiniteSetsExt

CONSTANTS Dot, Undotted          \* the texts "." and ".."

Larger(m, n) == IF m > n THEN m ELSE n
Smaller(m, n) == IF m < n THEN m ELSE n

-----------------------------------------------------------------------------
(* The search for the middle of an optimal path from (xoff, yoff) to           *)
(* (xlim, ylim): forward from the start on the diagonals f.lo..f.hi, and        *)
(* backward from the end on b.lo..b.hi, each diagonal d as far as x = at[d].    *)

\* Mutant: one line at most.
StepFrom(X, Y, box, x, y) ==
  Max({k \in 0..Smaller(1, Larger(0, box.xlim - x)) :
         k = 0 \/ (y + k <= box.ylim /\ \A j \in 1..k : X[x + j] = Y[y + j])})
SnakeFrom(X, Y, box, x, y) ==
  Max({k \in 0..Larger(0, box.xlim - x) :
         k = 0 \/ (y + k <= box.ylim /\ \A j \in 1..k : X[x + j] = Y[y + j])})
SnakeTo(X, Y, box, x, y) ==
  Max({k \in 0..Larger(0, x - box.xoff) :
         k = 0 \/ (y - k >= box.yoff /\ \A j \in 0..(k - 1) : X[x - j] = Y[y - j])})

\* The diagonals of the next pass: one more at each end, or one fewer at the
\* border; a new one's outer neighbour has not been reached (none).
Widen(s, dmin, dmax, none) ==
  LET lo == IF s.lo > dmin THEN s.lo - 1 ELSE s.lo + 1
      hi == IF s.hi < dmax THEN s.hi + 1 ELSE s.hi - 1
  IN [lo |-> lo, hi |-> hi,
      at |-> [d \in DOMAIN s.at |->
                IF (lo < s.lo /\ d = lo - 1) \/ (hi > s.hi /\ d = hi + 1) THEN none ELSE s.at[d]]]
Swept(s) == {d \in s.lo..s.hi : (s.hi - d) % 2 = 0}
Forward(X, Y, box, s) ==
  LET start(d) == IF s.at[d - 1] >= s.at[d + 1] THEN s.at[d - 1] + 1 ELSE s.at[d + 1]
  IN [s EXCEPT !.at = [d \in DOMAIN s.at |->
        IF d \in Swept(s) THEN start(d) + SnakeFrom(X, Y, box, start(d), start(d) - d) ELSE s.at[d]]]
Backward(X, Y, box, s) ==
  LET start(d) == IF s.at[d - 1] < s.at[d + 1] THEN s.at[d - 1] ELSE s.at[d + 1] - 1
  IN [s EXCEPT !.at = [d \in DOMAIN s.at |->
        IF d \in Swept(s) THEN start(d) - SnakeTo(X, Y, box, start(d), start(d) - d) ELSE s.at[d]]]

\* The point that has gone furthest, forward or backward.
CutOff(box, f, b) ==
  LET fx(d) == Smaller(Smaller(f.at[d], box.xlim), box.ylim + d)
      bx(d) == Larger(Larger(b.at[d], box.xoff), box.yoff + d)
      fbest == Max({2 * fx(d) - d : d \in Swept(f)})
      bbest == Min({2 * bx(d) - d : d \in Swept(b)})
      fd == Max({d \in Swept(f) : 2 * fx(d) - d = fbest})
      bd == Max({d \in Swept(b) : 2 * bx(d) - d = bbest})
  IN IF (box.xlim + box.ylim) - bbest < fbest - (box.xoff + box.yoff)
     THEN [x |-> fx(fd), y |-> fx(fd) - fd] ELSE [x |-> bx(bd), y |-> bx(bd) - bd]

Odd(box) == ((box.xoff - box.yoff) - (box.xlim - box.ylim)) % 2 = 1
\* The diagonals of a pass that have met those of the other search.
MeetF(box, f, b0) == {d \in Swept(f) : Odd(box) /\ d \in b0.lo..b0.hi /\ b0.at[d] <= f.at[d]}
MeetB(box, f, b) == {d \in Swept(b) : ~Odd(box) /\ d \in f.lo..f.hi /\ b.at[d] <= f.at[d]}
PointOn(s, d) == [x |-> s.at[d], y |-> s.at[d] - d]
RECURSIVE Search(_, _, _, _, _, _)
Met(X, Y, box, passes, b0, f, b) ==
  IF MeetF(box, f, b0) # {} THEN PointOn(f, Max(MeetF(box, f, b0)))
  ELSE IF MeetB(box, f, b) # {} THEN PointOn(b, Max(MeetB(box, f, b)))
  ELSE IF passes = 1 THEN CutOff(box, f, b)
  ELSE Search(X, Y, box, passes - 1, f, b)
Search(X, Y, box, passes, f0, b0) ==
  Met(X, Y, box, passes, b0, Forward(X, Y, box, Widen(f0, box.xoff - box.ylim, box.xlim - box.yoff, -1)),
      Backward(X, Y, box, Widen(b0, box.xoff - box.ylim, box.xlim - box.yoff, box.xlim + box.ylim + 1)))

Only(box, d, x) == [lo |-> d, hi |-> d,
                    at |-> [e \in (box.xoff - box.ylim - 2)..(box.xlim - box.yoff + 2) |-> x]]
diag(X, Y, box, too_expensive) ==
  Search(X, Y, box, too_expensive, Only(box, box.xoff - box.yoff, box.xoff), Only(box, box.xlim - box.ylim, box.xlim))

\* The deleted lines of X and the inserted ones of Y between the two corners.
RECURSIVE compareseq(_, _, _, _)
FromStart(box, k) == [box EXCEPT !.xoff = @ + k, !.yoff = @ + k]
FromEnd(box, k) == [box EXCEPT !.xlim = @ - k, !.ylim = @ - k]
WithoutHead(X, Y, box) == FromStart(box, SnakeFrom(X, Y, box, box.xoff, box.yoff))
WithoutTail(X, Y, box) == FromEnd(box, SnakeTo(X, Y, box, box.xlim, box.ylim))
BothOf(l, r) == [x |-> l.x \union r.x, y |-> l.y \union r.y]
Split(X, Y, box, mid, too_expensive) ==
  BothOf(compareseq(X, Y, [box EXCEPT !.xlim = mid.x, !.ylim = mid.y], too_expensive),
         compareseq(X, Y, [box EXCEPT !.xoff = mid.x, !.yoff = mid.y], too_expensive))
Compared(X, Y, box, too_expensive) ==
  IF box.xoff = box.xlim \/ box.yoff = box.ylim
  THEN [x |-> box.xoff..(box.xlim - 1), y |-> box.yoff..(box.ylim - 1)]
  ELSE Split(X, Y, box, diag(X, Y, box, too_expensive), too_expensive)
compareseq(X, Y, box, too_expensive) == Compared(X, Y, WithoutTail(X, Y, WithoutHead(X, Y, box)), too_expensive)

-----------------------------------------------------------------------------
(* The changes: na lines from a on deleted, nb lines from b on inserted.        *)

RunOf(S, i) == Max({k \in 0..Cardinality(S) : i..(i + k - 1) \subseteq S})
RECURSIVE Changes(_, _, _, _, _, _)
Changes(chg, m, n, i, j, found) ==
  IF i >= m /\ j >= n THEN found
  ELSE LET c == [a |-> i, na |-> RunOf(chg.x, i), b |-> j, nb |-> RunOf(chg.y, j)]
       IN IF c.na = 0 /\ c.nb = 0 THEN Changes(chg, m, n, i + 1, j + 1, found)
          ELSE Changes(chg, m, n, i + c.na, j + c.nb, Append(found, c))
find_changes(a, b, too_expensive) ==
  LET box == [xoff |-> 0, xlim |-> Len(a), yoff |-> 0, ylim |-> Len(b)]
  IN Changes(compareseq(a, b, box, too_expensive), Len(a), Len(b), 0, 0, <<>>)

\* Lines i .. j - 1 of a file, each with a mark.
Marked(f, i, j, mark) == [k \in 1..Larger(0, j - i) |-> [type |-> mark, s |-> f[i + k].t, noeol |-> ~f[i + k].nl]]

-----------------------------------------------------------------------------
(* The formats. A hunk of a patch file is a record of what its lines say.       *)

normal_format(a, b, chgs) ==
  [k \in DOMAIN chgs |->
     LET c == chgs[k]
     IN [kind |-> "n",
         cmd |-> IF c.na = 0 THEN "a" ELSE IF c.nb = 0 THEN "d" ELSE "c",
         a |-> IF c.na = 0 THEN c.a ELSE c.a + 1, b |-> c.a + c.na,
         c |-> IF c.nb = 0 THEN c.b ELSE c.b + 1, d |-> c.b + c.nb,
         old |-> Marked(a, c.a, c.a + c.na, "-"), new |-> Marked(b, c.b, c.b + c.nb, "+")]]

\* The runs of changes no more than 2 * context unchanged lines apart.
RECURSIVE Hunks(_, _)
Hunks(chgs, context) ==
  IF chgs = <<>> THEN <<>>
  ELSE LET far(k) == chgs[k + 1].a - (chgs[k].a + chgs[k].na) > 2 * context
           e == Min({k \in DOMAIN chgs : k = Len(chgs) \/ far(k)})
       IN <<SubSeq(chgs, 1, e)>> \o Hunks(SubSeq(chgs, e + 1, Len(chgs)), context)
Extent(a, b, run, context) ==
  LET last == run[Len(run)]
  IN [a0 |-> Larger(0, run[1].a - context), a1 |-> Smaller(Len(a), last.a + last.na + context),
      b0 |-> Larger(0, run[1].b - context), b1 |-> Smaller(Len(b), last.b + last.nb + context)]

\* One file's half of a copied context hunk, none when nothing changed in it.
Half(f, from, to, chgs, side) ==
  LET at(c) == IF side = "-" THEN c.a ELSE c.b
      n(c) == IF side = "-" THEN c.na ELSE c.nb
      mark(c) == IF c.na > 0 /\ c.nb > 0 THEN "!" ELSE side
      in(i) == {k \in DOMAIN chgs : i \in at(chgs[k])..(at(chgs[k]) + n(chgs[k]) - 1)}
  IN IF \A k \in DOMAIN chgs : n(chgs[k]) = 0 THEN <<>>
     ELSE [k \in 1..(to - from) |->
             Marked(f, from + k - 1, from + k, IF in(from + k - 1) = {} THEN " " ELSE mark(chgs[Min(in(from + k - 1))]))[1]]
Printed(from, to) == IF to - from >= 2 THEN <<from + 1, to>> ELSE <<to, to>>
context_format(a, b, chgs, context) ==
  LET runs == Hunks(chgs, context)
  IN [k \in DOMAIN runs |->
        LET e == Extent(a, b, runs[k], context)
        IN [kind |-> "c", oldrange |-> Printed(e.a0, e.a1), old |-> Half(a, e.a0, e.a1, runs[k], "-"),
            newrange |-> Printed(e.b0, e.b1), new |-> Half(b, e.b0, e.b1, runs[k], "+")]]

\* Mutant: an empty range is not after the line before.
UrangeAt(first0, count) == <<first0 + 1, count>>
urange(first0, count) == IF count = 0 THEN <<first0, 0>> ELSE <<first0 + 1, count>>
unified_format(a, b, chgs, context) ==
  LET runs == Hunks(chgs, context)
  IN [k \in DOMAIN runs |->
        LET e == Extent(a, b, runs[k], context)
            run == runs[k]
            before(c) == IF c = 1 THEN e.a0 ELSE run[c - 1].a + run[c - 1].na
            part(c) == Marked(a, before(c), run[c].a, " ") \o Marked(a, run[c].a, run[c].a + run[c].na, "-")
                       \o Marked(b, run[c].b, run[c].b + run[c].nb, "+")
        IN [kind |-> "u", old |-> urange(e.a0, e.a1 - e.a0), new |-> urange(e.b0, e.b1 - e.b0),
            l |-> FlattenSeq([c \in DOMAIN run |-> part(c)])
                  \o Marked(a, before(Len(run) + 1), e.a1, " ")]]

\* -e: the changes from the last to the first. A line that is "." is written
\* as "..", the text is ended there, and the line put right.
Command(cmd, a, b) == [cmd |-> cmd, a |-> a, b |-> b, s |-> Dot]
TextLine(s) == [cmd |-> "text", a |-> 0, b |-> 0, s |-> s]
EndText == Command("end", 0, 0)
RECURSIVE ed_text(_)
ed_text(new) ==
  IF new = <<>> THEN <<EndText>>
  ELSE IF new[1].t # Dot THEN <<TextLine(new[1].t)>> \o ed_text(Tail(new))
  ELSE <<TextLine(Undotted), EndText, Command("undot", 0, 0)>>
       \o (IF Len(new) > 1 THEN <<Command("append", 0, 0)>> \o ed_text(Tail(new)) ELSE <<>>)
ed_format(b, chgs) ==
  LET one(c) ==
        <<IF c.na = 0 THEN Command("a", c.a, c.a)
          ELSE Command(IF c.nb > 0 THEN "c" ELSE "d", c.a + 1, c.a + c.na)>>
        \o (IF c.nb > 0 THEN ed_text(SubSeq(b, c.b + 1, c.b + c.nb)) ELSE <<>>)
  IN FlattenSeq([k \in DOMAIN chgs |-> one(chgs[Len(chgs) + 1 - k])])

\* diff of two files: what it writes in a format.
Written(a, b, format, context, too_expensive) ==
  LET chgs == find_changes(a, b, too_expensive)
  IN CASE format = "n" -> normal_format(a, b, chgs)
       [] format = "c" -> context_format(a, b, chgs, context)
       [] format = "u" -> unified_format(a, b, chgs, context)
       [] format = "e" -> ed_format(b, chgs)
================================================================================
