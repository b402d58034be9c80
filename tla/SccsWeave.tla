------------------------------- MODULE SccsWeave -------------------------------
(***************************************************************************)
(* The body of an SCCS file: the weave of all versions of a text, in which *)
(* ^AI n, ^AD n and ^AE n stand around the lines that delta n inserted or  *)
(* deleted.  delta adds to it, rmdel takes out of it, get reads a version  *)
(* from it.                                                                *)
(*                                                                         *)
(* One file, one command at a time (SccsLock has the commands of several   *)
(* users).  A delta is known by its serial number; the lists of -i and -x  *)
(* are sets of serials, what sid_list makes of them; the list of -g, which     *)
(* takes deltas out as -x does, is left out.                               *)
(***************************************************************************)
EXTENDS Naturals, Sequences, FiniteSets, SequencesExt

CONSTANTS
  Lines,       \* the lines texts are made of
  MaxLines,    \* bound: lines of a text,
  MaxTotal,    \* and of all texts together
  MaxDeltas,   \* bound: deltas of the file
  MaxLists     \* bound: deltas made with -i or -x

WeaveBounds == {MaxLines, MaxTotal, MaxDeltas, MaxLists} \subseteq Nat

VARIABLES
  d,      \* the delta table, by serial
  body    \* the weave

vars == <<d, body>>

Texts == UNION {[1..n -> Lines] : n \in 0..MaxLines}
Serials == DOMAIN d

\* A control line ^Ac v; a line of text.
Ctl(c, v) == [c |-> c, v |-> v]
Line(s) == [c |-> "text", s |-> s]

--------------------------------------------------------------------------------
(* The deltas that are applied. *)

Path[s \in Nat] == IF s = 0 THEN {} ELSE {s} \cup Path[d[s].pred]

\* What the lists of delta s change, in the set that is applied so far; the
\* user's own lists are not touched.
WithLists(applied, s, user) ==
  IF s \notin applied THEN applied
  ELSE (applied \cup (d[s].inc \ user)) \ (d[s].exc \ user)

applied_set(target, ilist, xlist) ==
  LET asked == (Path[target] \ xlist) \cup ilist
      lists == FoldLeft(LAMBDA a, i : WithLists(a, Len(d) + 1 - i, ilist \cup xlist),
                        asked, [i \in 1..Len(d) |-> i])
  IN {s \in lists : d[s].type = "D"}

--------------------------------------------------------------------------------
(* Reading the weave: the ^AI blocks that are open, and of each delta the
   number of its ^AD blocks. *)

Closed == [open |-> <<>>, dcount |-> [s \in 1..MaxDeltas |-> 0]]

InnermostOpen(open, v) == SelectLastInSeq(open, LAMBDA x : x = v)

AfterCtl(at, x) ==
  LET v == x.v  j == InnermostOpen(at.open, v)
  IN CASE x.c = "I" -> [at EXCEPT !.open = Append(@, v)]
       [] x.c = "D" -> [at EXCEPT !.dcount[v] = @ + 1]
       [] x.c = "E" /\ j > 0 -> [at EXCEPT !.open = RemoveAt(@, j)]
       [] OTHER -> [at EXCEPT !.dcount[v] = IF @ > 0 THEN @ - 1 ELSE 0]

\* Mutant: only the deletions of the delta that inserted the line count.
VisibleByOwn(at, applied) == at.open # <<>> /\ Last(at.open) \in applied /\ at.dcount[Last(at.open)] = 0

Visible(at, applied) ==
  /\ at.open # <<>>
  /\ Last(at.open) \in applied
  /\ \A s \in applied : at.dcount[s] = 0

retrieve(applied) ==
  LET step(t, x) == IF x.c # "text" THEN [t EXCEPT !.at = AfterCtl(@, x)]
                    ELSE IF Visible(t.at, applied) THEN [t EXCEPT !.lines = Append(@, x.s)]
                    ELSE t
  IN FoldLeft(step, [at |-> Closed, lines |-> <<>>], body).lines

\* get -r s, without lists of the user's.
Version(s) == retrieve(applied_set(s, {}, {}))

--------------------------------------------------------------------------------
(* delta: the differences are put into the weave. *)

\* The differences between two texts, as ldiff promises them: the lines of
\* old that are kept and the lines of neu that are not new are the same, in
\* the same order.
Kept(text, marks) == [k \in 1..Cardinality(marks) |->
                        text[CHOOSE i \in marks : Cardinality({j \in marks : j <= i}) = k]]
Differences(old, neu) ==
  {m \in (SUBSET DOMAIN old) \X (SUBSET DOMAIN neu) :
     Cardinality(m[1]) = Cardinality(m[2]) /\ Kept(old, m[1]) = Kept(neu, m[2])}

\* The new lines in groups: those that come when k lines of old are through
\* (the deleted ones first).
Groups(old, neu, keep, same) ==
  LET walk[i \in 0..Len(old), j \in 0..Len(neu)] ==
        \* the groups of what comes after i lines of old and j of neu
        IF i < Len(old) /\ i + 1 \notin keep THEN walk[i + 1, j]
        ELSE IF j < Len(neu) /\ j + 1 \notin same
          THEN [walk[i, j + 1] EXCEPT ![i] = <<neu[j + 1]>> \o @]
        ELSE IF i < Len(old) /\ j < Len(neu) THEN walk[i + 1, j + 1]
        ELSE [k \in 0..Len(old) |-> <<>>]
  IN walk[0, 0]

\* delta's pass over the weave.  w.k lines of the old version are through,
\* w.done counts the groups up to the last one put in, w.dopen says whether a
\* ^AD block of the new delta is open.
End == [c |-> "end"]

WeaveStep(w, x, n, applied, keep, groups) ==
  IF x.c \in {"I", "D", "E"} THEN [w EXCEPT !.at = AfterCtl(@, x), !.body = Append(@, x)]
  ELSE IF x.c = "text" /\ ~Visible(w.at, applied) THEN [w EXCEPT !.body = Append(@, x)]
  ELSE
    LET deleting == x.c = "text" /\ w.k + 1 \notin keep
        closes == w.dopen /\ ~deleting
        inserts == w.done <= w.k /\ groups[w.k] # <<>> /\ ~deleting
        opens == deleting /\ ~w.dopen
    IN [w EXCEPT
          !.body = @ \o (IF closes THEN <<Ctl("E", n)>> ELSE <<>>)
                     \o (IF inserts THEN <<Ctl("I", n)>> \o [i \in DOMAIN groups[w.k] |-> Line(groups[w.k][i])]
                                         \o <<Ctl("E", n)>> ELSE <<>>)
                     \o (IF opens THEN <<Ctl("D", n)>> ELSE <<>>)
                     \o (IF x.c = "text" THEN <<x>> ELSE <<>>),
          !.k = IF x.c = "text" THEN @ + 1 ELSE @,
          !.done = IF inserts THEN w.k + 1 ELSE @,
          !.dopen = deleting]

Woven(n, applied, old, keep, groups) ==
  FoldLeft(LAMBDA w, x : WeaveStep(w, x, n, applied, keep, groups),
           [at |-> Closed, k |-> 0, done |-> 0, dopen |-> FALSE, body |-> <<>>],
           Append(body, End)).body

Delta(got, ilist, xlist, neu) ==
  /\ Len(d) < MaxDeltas
  /\ FoldSeq(LAMBDA x, n : n + Len(x.text), Len(neu), d) <= MaxTotal
  /\ ilist # {} \/ xlist # {} =>
       Cardinality({s \in Serials : d[s].inc # {} \/ d[s].exc # {}}) < MaxLists
  /\ \A s \in {got} \cup ilist \cup xlist : d[s].type = "D"
  /\ LET applied == applied_set(got, ilist, xlist)
         old == retrieve(applied)
         n == Len(d) + 1
     IN \E m \in Differences(old, neu) :
          /\ body' = Woven(n, applied, old, m[1], Groups(old, neu, m[1], m[2]))
          /\ d' = Append(d, [type |-> "D", pred |-> got, inc |-> ilist, exc |-> xlist, text |-> neu])

--------------------------------------------------------------------------------
(* rmdel: what the delta did goes from the weave. *)

Stripped(v) ==
  LET step(t, x) ==
        CASE x.c = "text" -> IF t.open # <<>> /\ Last(t.open) = v THEN t ELSE [t EXCEPT !.body = Append(@, x)]
          [] x.c = "I" -> [open |-> Append(t.open, x.v), body |-> IF x.v = v THEN t.body ELSE Append(t.body, x)]
          [] x.c = "D" -> [t EXCEPT !.body = IF x.v = v THEN @ ELSE Append(@, x)]
          [] x.c = "E" -> LET j == InnermostOpen(t.open, x.v)
                          IN [open |-> IF j > 0 THEN RemoveAt(t.open, j) ELSE t.open,
                              body |-> IF x.v = v THEN t.body ELSE Append(t.body, x)]
  IN FoldLeft(step, [open |-> <<>>, body |-> <<>>], body).body

Leaf(v) == \A s \in Serials : d[s].type = "D" => d[s].pred # v

Rmdel(v) ==
  /\ d[v].type = "D" /\ Leaf(v)
  /\ d' = [d EXCEPT ![v].type = "R"]
  /\ body' = Stripped(v)

--------------------------------------------------------------------------------

\* admin -i
Init ==
  \E text \in Texts :
    /\ d = <<[type |-> "D", pred |-> 0, inc |-> {}, exc |-> {}, text |-> text]>>
    /\ body = <<Ctl("I", 1)>> \o [i \in DOMAIN text |-> Line(text[i])] \o <<Ctl("E", 1)>>

Lists == {{}} \cup {{s} : s \in Serials}

Next ==
  \/ \E got \in Serials, ilist \in Lists, xlist \in Lists, neu \in Texts : Delta(got, ilist, xlist, neu)
  \/ \E v \in Serials : Rmdel(v)

Spec == Init /\ [][Next]_vars

--------------------------------------------------------------------------------

\* The deltas on the way to s and those they include, with theirs; what their
\* lists include, and exclude.
RECURSIVE Met(_)
Met(S) == LET T == S \cup UNION {d[x].inc : x \in S} IN IF T = S THEN S ELSE Met(T)
Included(s) == UNION {d[x].inc : x \in Met(Path[s])}
Excluded(s) == UNION {d[x].exc : x \in Met(Path[s])}
Disputed(s) == Included(s) \cap Excluded(s) # {}
Undone(s) == \E x \in Included(s) : d[x].type = "R"

\* Every version that was checked in is got back as it was, whatever deltas
\* were made or removed after it, on its branch and on others.
VersionsKept ==
  \A s \in Serials : d[s].type = "D" /\ ~Disputed(s) /\ ~Undone(s) => Version(s) = d[s].text

================================================================================
