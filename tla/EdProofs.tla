------------------------------- MODULE EdProofs -------------------------------
(***************************************************************************)
(* Proofs about ed, for any bounds on the lines and the commands.          *)
(***************************************************************************)
EXTENDS Ed, FiniteSetTheorems, SequenceTheorems, WellFoundedInduction, TLAPS

-----------------------------------------------------------------------------
(* The inductive invariant.                                                *)

\* A global command knows its lines, counts those it has still to come to, and knows when
\* it has changed something.
GlobalInv ==
  /\ g.matched \subseteq g.gmark \cup g.done
  /\ pc = "global" => Cardinality(g.gmark) + (IF g.ran THEN 0 ELSE 1) <= g.count
  /\ pc \in {"global", "ending"} /\ ~cut.odd /\ lines # g.lines => g.touched
  /\ cut.change \/ g.cur <= Len(g.lines)

\* What "modified" says of the buffer.
KeptInv ==
  /\ modified = 0 => lines = saved
  /\ modified = 2 => lines = warned

EdInv == EdTypeOK /\ CurInRange /\ UndoReverses /\ NothingDiscarded /\ GlobalInv /\ KeptInv

-----------------------------------------------------------------------------
(* Sequences and sets of numbers.                                          *)

\* A part of a buffer, and two of them together.
LEMMA Part ==
  ASSUME NEW T, NEW s \in Seq(T), NEW m \in Nat \ {0}, NEW n \in Nat, n <= Len(s)
  PROVE  SubSeq(s, m, n) \in Seq(T) /\ Len(SubSeq(s, m, n)) = IF m <= n THEN n - m + 1 ELSE 0
  <1>1. \A i \in m .. n : s[i] \in T
    OBVIOUS
  <1> QED
    BY <1>1, SubSeqProperties

LEMMA InsertedType ==
  ASSUME NEW T, NEW s \in Seq(T), NEW v \in Seq(T), NEW after \in 0 .. Len(s)
  PROVE  Inserted(s, after, v) \in Seq(T) /\ Len(Inserted(s, after, v)) = Len(s) + Len(v)
  <1> DEFINE a == SubSeq(s, 1, after)
             b == SubSeq(s, after + 1, Len(s))
  <1>1. a \in Seq(T) /\ Len(a) = after
    BY Part, Len(s) \in Nat
  <1>2. b \in Seq(T) /\ Len(b) = Len(s) - after
    BY Part, Len(s) \in Nat
  <1>3. a \o v \in Seq(T) /\ Len(a \o v) = after + Len(v)
    BY <1>1, ConcatProperties
  <1>4. (a \o v) \o b \in Seq(T) /\ Len((a \o v) \o b) = Len(a \o v) + Len(b)
    BY <1>2, <1>3, ConcatProperties
  <1>5. Inserted(s, after, v) = (a \o v) \o b
    BY DEF Inserted
  <1>7. after \in Nat
    OBVIOUS
  <1>6. Len(s) \in Nat /\ Len(v) \in Nat
    OBVIOUS
  <1> DEFINE w == a \o v
  <1> HIDE DEF w
  <1>8. w \o b \in Seq(T) /\ Len(w \o b) = Len(s) + Len(v)
    <2>1. w \o b \in Seq(T) /\ Len(w \o b) = Len(w) + Len(b) /\ Len(w) = after + Len(v)
      BY <1>3, <1>4 DEF w
    <2> HIDE DEF b
    <2> QED
      BY <1>2, <1>6, <1>7, <2>1
  <1> QED
    BY <1>5, <1>8, Zenon DEF w

LEMMA WithoutType ==
  ASSUME NEW T, NEW s \in Seq(T), NEW r \in (1 .. Len(s)) \X (1 .. Len(s)), r[1] <= r[2]
  PROVE  Without(s, r) \in Seq(T) /\ Len(Without(s, r)) = Len(s) - (r[2] - r[1] + 1)
  <1> DEFINE a == SubSeq(s, 1, r[1] - 1)
             b == SubSeq(s, r[2] + 1, Len(s))
  <1>1. a \in Seq(T) /\ Len(a) = r[1] - 1
    BY Part, Len(s) \in Nat
  <1>2. b \in Seq(T) /\ Len(b) = Len(s) - r[2]
    BY Part, Len(s) \in Nat
  <1>3. Without(s, r) = a \o b
    BY DEF Without
  <1> HIDE DEF a, b
  <1> QED
    BY <1>1, <1>2, <1>3, ConcatProperties

\* A finite set of numbers that is not empty has a least and a greatest one: those below,
\* and those above, an element would be smaller sets still.
LEMMA Extremes ==
  ASSUME NEW n \in Nat, NEW S \in SUBSET (0 .. n), S # {}
  PROVE  /\ \E i \in S : \A j \in S : i <= j
         /\ \E i \in S : \A j \in S : j <= i
  <1>0. IsFiniteSet(S)
    <2>1. IsFiniteSet(0 .. n)
      BY FS_Interval
    <2> QED
      BY <2>1, FS_Subset
  <1>1. IsWellFoundedOn(StrictSubsetOrdering(S), FiniteSubsetsOf(S))
    BY FS_StrictSubsetOrderingWellFounded
  <1>2. ASSUME NEW P, P # {}, P \subseteq SUBSET S
        PROVE  \E x \in P : \A y \in P : <<y, x>> \notin StrictSubsetOrdering(S)
    <2>1. P \subseteq FiniteSubsetsOf(S)
      BY <1>0, <1>2, FS_Subset DEF FiniteSubsetsOf
    <2> QED
      BY <1>1, <1>2, <2>1, WFMin
  <1>3. \E i \in S : \A j \in S : i <= j
    <2> DEFINE Below(t) == {y \in S : y < t}
               Sets == {Below(t) : t \in S}
    <2>1. Sets # {} /\ Sets \subseteq SUBSET S
      OBVIOUS
    <2>2. PICK x \in Sets : \A y \in Sets : <<y, x>> \notin StrictSubsetOrdering(S)
      BY <1>2, <2>1
    <2>3. PICK i \in S : x = Below(i)
      BY <2>2
    <2>4. ASSUME NEW j \in Below(i) PROVE FALSE
      <3>0. j \in S /\ Below(j) \in Sets
        BY <2>4
      <3>3. S \subseteq Int /\ i \in Int /\ j \in Int /\ j < i
        BY <2>4
      <3>1. Below(j) \subseteq Below(i) /\ j \notin Below(j)
        <4>1. ASSUME NEW k \in Below(j) PROVE k \in Below(i)
          <5>1. k \in S /\ k \in Int /\ k < j
            BY <3>3, <4>1
          <5> QED
            BY <3>3, <5>1
        <4>2. j \notin Below(j)
          BY <3>3
        <4> QED
          BY <4>1, <4>2
      <3>2. <<Below(j), Below(i)>> \in StrictSubsetOrdering(S)
        BY <2>4, <3>0, <3>1 DEF StrictSubsetOrdering
      <3> QED
        BY <2>2, <2>3, <3>0, <3>2
    <2>5. \A j \in S : i <= j
      BY <2>4
    <2> QED
      BY <2>5
  <1>4. \E i \in S : \A j \in S : j <= i
    <2> DEFINE Above(t) == {y \in S : t < y}
               Sets == {Above(t) : t \in S}
    <2>1. Sets # {} /\ Sets \subseteq SUBSET S
      OBVIOUS
    <2>2. PICK x \in Sets : \A y \in Sets : <<y, x>> \notin StrictSubsetOrdering(S)
      BY <1>2, <2>1
    <2>3. PICK i \in S : x = Above(i)
      BY <2>2
    <2>4. ASSUME NEW j \in Above(i) PROVE FALSE
      <3>0. j \in S /\ Above(j) \in Sets
        BY <2>4
      <3>3. S \subseteq Int /\ i \in Int /\ j \in Int /\ i < j
        BY <2>4
      <3>1. Above(j) \subseteq Above(i) /\ j \notin Above(j)
        <4>1. ASSUME NEW k \in Above(j) PROVE k \in Above(i)
          <5>1. k \in S /\ k \in Int /\ j < k
            BY <3>3, <4>1
          <5> QED
            BY <3>3, <5>1
        <4>2. j \notin Above(j)
          BY <3>3
        <4> QED
          BY <4>1, <4>2
      <3>2. <<Above(j), Above(i)>> \in StrictSubsetOrdering(S)
        BY <2>4, <3>0, <3>1 DEF StrictSubsetOrdering
      <3> QED
        BY <2>2, <2>3, <3>0, <3>2
    <2>5. \A j \in S : j <= i
      BY <2>4
    <2> QED
      BY <2>5
  <1> QED
    BY <1>3, <1>4

LEMMA LeastProp ==
  ASSUME NEW n \in Nat, NEW S \in SUBSET (0 .. n), S # {}
  PROVE  Least(S) \in S /\ \A j \in S : Least(S) <= j
  <1>1. \E i \in S : \A j \in S : i <= j
    BY Extremes
  <1> QED
    BY <1>1 DEF Least

-----------------------------------------------------------------------------
(* The outcome of a command.                                               *)

\* An outcome is a buffer, a current line in it unless the command failed, and
\* whether it is a change to be undone: a buffer that is not touched is the same.
Sane(o) ==
  /\ o.lines \in Seq(Line) /\ o.cur \in Nat /\ o.made \in 0..MaxLines
  /\ o.touched \in BOOLEAN /\ o.ok \in BOOLEAN
  /\ ~o.touched => o.lines = lines
  /\ o.ok /\ cur <= nlines => o.cur <= Len(o.lines)

LEMMA OutcomeSane ==
  ASSUME EdTypeOK, NEW ls \in Seq(Line), NEW c \in Nat, NEW new \in Nat, made + new <= MaxLines,
         NEW touched \in BOOLEAN, NEW ok \in BOOLEAN, ~touched => ls = lines,
         ok /\ cur <= nlines => c <= Len(ls)
  PROVE  Sane(Outcome(ls, c, new, touched, ok))
  <1> DEFINE o == Outcome(ls, c, new, touched, ok)
  <1>1. o.lines = ls /\ o.cur = c /\ o.made = made + new /\ o.touched = touched /\ o.ok = ok
    BY DEF Outcome
  <1>2. made + new \in 0..MaxLines
    BY EdBounds DEF EdTypeOK
  <1> HIDE DEF o
  <1> QED
    BY <1>1, <1>2 DEF Sane, o

LEMMA ChangedSane ==
  ASSUME EdTypeOK, NEW ls \in Seq(Line), NEW new \in Nat, made + new <= MaxLines, NEW c \in 0 .. Len(ls)
  PROVE  Sane(Changed(ls, c, new))
  <1>1. c \in Nat /\ c <= Len(ls)
    BY Len(ls) \in Nat
  <1> QED
    BY <1>1, OutcomeSane DEF Changed

LEMMA SameSane ==
  ASSUME EdTypeOK, NEW c \in Nat, cur <= nlines => c <= nlines
  PROVE  Sane(Same(c)) /\ Sane(Failed)
  <1>1. lines \in Seq(Line) /\ cur \in Nat /\ made + 0 <= MaxLines
    BY EdBounds DEF EdTypeOK
  <1>2. Sane(Same(c))
    BY <1>1, OutcomeSane DEF Same, nlines
  <1>3. Sane(Failed)
    BY <1>1, OutcomeSane DEF Failed
  <1> QED
    BY <1>2, <1>3

LEMMA FunctionSeq ==
  ASSUME NEW T, NEW n \in Nat, NEW f \in [1 .. n -> T]
  PROVE  f \in Seq(T) /\ Len(f) = n
  <1>1. f \in Seq(T)
    BY SeqDef
  <1>2. DOMAIN f = 1 .. n /\ DOMAIN f = 1 .. Len(f) /\ Len(f) \in Nat
    BY <1>1
  <1> QED
    BY <1>1, <1>2

\* Lines that are made have new numbers, below the bound.
LEMMA MadeType ==
  ASSUME EdTypeOK, NEW n \in Nat, made + n <= MaxLines, NEW v \in Made(n)
  PROVE  v \in Seq(Line) /\ Len(v) = n
  <1>1. PICK f \in [1 .. n -> BOOLEAN] : v = [k \in 1 .. n |-> [id |-> made + k, match |-> f[k]]]
    BY DEF Made
  <1>2. ASSUME NEW k \in 1 .. n PROVE [id |-> made + k, match |-> f[k]] \in Line
    <2>1. made + k \in 1 .. MaxLines
      BY EdBounds DEF EdTypeOK
    <2> QED
      BY <2>1 DEF Line
  <1>3. v \in [1 .. n -> Line]
    BY <1>1, <1>2
  <1> QED
    BY <1>3, FunctionSeq

LEMMA TextType ==
  ASSUME EdTypeOK, NEW v \in Text
  PROVE  v \in Seq(Line) /\ Len(v) \in Nat /\ made + Len(v) <= MaxLines
  <1>1. PICK n \in {m \in 0..1 : made + m <= MaxLines} : v \in Made(n)
    BY DEF Text
  <1>2. n \in Nat /\ made + n <= MaxLines
    BY <1>1
  <1> QED
    BY <1>1, <1>2, MadeType

-----------------------------------------------------------------------------
(* Each command has sane outcomes.                                         *)

LEMMA BufInsertSane ==
  ASSUME EdTypeOK, NEW at \in 0 .. nlines, NEW v \in Text
  PROVE  Sane(buf_insert(at, v))
  <1>1. v \in Seq(Line) /\ Len(v) \in Nat /\ made + Len(v) <= MaxLines
    BY TextType
  <1>2. lines \in Seq(Line) /\ nlines = Len(lines) /\ Len(lines) \in Nat /\ at \in Nat /\ at <= Len(lines)
    BY DEF EdTypeOK, nlines
  <1>3. CASE v = <<>>
    <2>1. buf_insert(at, v) = Same(at)
      BY <1>3 DEF buf_insert
    <2> QED
      BY <1>2, <2>1, SameSane
  <1>4. CASE v # <<>>
    <2> DEFINE ls == Inserted(lines, at, v)
    <2>1. ls \in Seq(Line) /\ Len(ls) = Len(lines) + Len(v)
      BY <1>1, <1>2, InsertedType
    <2>2. at + Len(v) \in 0 .. Len(ls)
      BY <1>1, <1>2, <2>1
    <2>3. buf_insert(at, v) = Changed(ls, at + Len(v), Len(v))
      BY <1>4 DEF buf_insert
    <2> HIDE DEF ls
    <2> QED
      BY <1>1, <2>1, <2>2, <2>3, ChangedSane
  <1> QED
    BY <1>3, <1>4

LEMMA InsertSane ==
  ASSUME EdTypeOK, NEW at \in 0 .. nlines, NEW o \in Append_(at) \cup Insert(at) \cup ReadIn(at)
  PROVE  Sane(o)
  <1>0. nlines \in Nat /\ at \in Nat /\ at <= nlines /\ at - 0 = at
    BY DEF EdTypeOK, nlines
  <1>1. Sane(Same(at)) /\ Sane(Failed)
    BY <1>0, SameSane
  <1>2. ASSUME NEW v \in Text PROVE Sane(buf_insert(IF at > 0 THEN at - 1 ELSE 0, v))
    <2>1. (IF at > 0 THEN at - 1 ELSE 0) \in 0 .. nlines
      BY <1>0
    <2> QED
      BY <2>1, BufInsertSane
  <1>3. ASSUME NEW v \in Text PROVE Sane(buf_insert(at, v))
    BY BufInsertSane
  <1>4. CASE o \in Append_(at) \cup ReadIn(at)
    BY <1>1, <1>3, <1>4 DEF Append_, ReadIn
  <1>5. CASE o \in Insert(at)
    BY <1>1, <1>2, <1>5 DEF Insert
  <1> QED
    BY <1>4, <1>5

\* The lines of an address, in the buffer.
LEMMA RangeType ==
  ASSUME EdTypeOK, NEW r \in Range1
  PROVE  /\ lines \in Seq(Line) /\ nlines = Len(lines) /\ nlines \in Nat /\ made \in Nat /\ cur \in Nat
         /\ r \in (1 .. Len(lines)) \X (1 .. Len(lines))
         /\ r[1] \in Nat \ {0} /\ r[2] \in Nat \ {0} /\ r[1] <= r[2] /\ r[2] <= nlines
         /\ Without(lines, r) \in Seq(Line)
         /\ Len(Without(lines, r)) = nlines - (r[2] - r[1] + 1)
  <1>1. lines \in Seq(Line) /\ nlines = Len(lines) /\ nlines \in Nat
    BY DEF EdTypeOK, nlines
  <1>2. r \in (1 .. Len(lines)) \X (1 .. Len(lines)) /\ r[1] <= r[2]
    BY <1>1 DEF Range1
  <1>3. r[1] \in Nat \ {0} /\ r[2] \in Nat \ {0} /\ r[2] <= nlines
    BY <1>1, <1>2
  <1>4. Without(lines, r) \in Seq(Line) /\ Len(Without(lines, r)) = nlines - (r[2] - r[1] + 1)
    BY <1>1, <1>2, WithoutType
  <1>5. made \in Nat /\ cur \in Nat
    BY EdBounds DEF EdTypeOK
  <1> QED
    BY <1>1, <1>2, <1>3, <1>4, <1>5

LEMMA ChangeSane ==
  ASSUME EdTypeOK, NEW r \in Range1, NEW o \in Change(r)
  PROVE  Sane(o)
  <1> DEFINE rest == Without(lines, r)
             a == r[1]
             b == r[2]
             AfterNone == IF b < nlines THEN a ELSE Len(rest)
  <1>1. /\ nlines \in Nat /\ a \in Nat \ {0} /\ b \in Nat \ {0} /\ a <= b /\ b <= nlines /\ cur \in Nat
        /\ rest \in Seq(Line) /\ Len(rest) = nlines - (b - a + 1) /\ made + 0 <= MaxLines
    BY RangeType, EdBounds DEF EdTypeOK
  <1>2. Sane(Failed)
    BY SameSane, <1>1
  <1>3. Sane(Outcome(rest, cur, 0, TRUE, FALSE))
    BY <1>1, OutcomeSane
  <1>4. ASSUME NEW v \in Text
        PROVE  Sane(Changed(Inserted(rest, a - 1, v), IF v = <<>> THEN AfterNone ELSE a - 1 + Len(v), Len(v)))
    <2> DEFINE ls == Inserted(rest, a - 1, v)
               c == IF v = <<>> THEN AfterNone ELSE a - 1 + Len(v)
    <2>1. v \in Seq(Line) /\ Len(v) \in Nat /\ made + Len(v) <= MaxLines
      BY TextType
    <2> HIDE DEF rest, a, b
    <2>2. a - 1 \in 0 .. Len(rest)
      BY <1>1
    <2>3. ls \in Seq(Line) /\ Len(ls) = Len(rest) + Len(v)
      BY <1>1, <2>1, <2>2, InsertedType
    <2> HIDE DEF ls
    <2>4. c \in 0 .. Len(ls)
      <3>1. Len(rest) \in Nat /\ AfterNone \in 0 .. Len(rest)
        BY <1>1
      <3>2. AfterNone \in 0 .. Len(ls) /\ a - 1 + Len(v) \in 0 .. Len(ls)
        BY <1>1, <2>1, <2>2, <2>3, <3>1
      <3> QED
        BY <3>2
    <2> HIDE DEF c
    <2>5. Sane(Changed(ls, c, Len(v)))
      BY <2>1, <2>3, <2>4, ChangedSane
    <2> QED
      BY <2>5 DEF ls, c
  <1>5. \/ \E v \in Text : o = Changed(Inserted(rest, a - 1, v), IF v = <<>> THEN AfterNone ELSE a - 1 + Len(v), Len(v))
        \/ o = Outcome(rest, cur, 0, TRUE, FALSE)
        \/ o = Failed
    BY DEF Change
  <1> HIDE DEF rest, a, b, AfterNone
  <1> QED
    BY <1>2, <1>3, <1>4, <1>5

LEMMA DeleteSane ==
  ASSUME EdTypeOK, NEW r \in Range1, NEW o \in Delete(r)
  PROVE  Sane(o)
  <1> DEFINE rest == Without(lines, r)
             a == r[1]
             b == r[2]
             c == IF a <= Len(rest) THEN a ELSE Len(rest)
  <1>1. /\ nlines \in Nat /\ a \in Nat \ {0} /\ b \in Nat \ {0} /\ a <= b /\ b <= nlines
        /\ rest \in Seq(Line) /\ Len(rest) = nlines - (b - a + 1) /\ made + 0 <= MaxLines
    BY RangeType, EdBounds DEF EdTypeOK
  <1>2. o = Changed(rest, c, 0)
    BY DEF Delete
  <1> HIDE DEF rest, a, b
  <1>3. c \in 0 .. Len(rest)
    BY <1>1
  <1> HIDE DEF c
  <1> QED
    BY <1>1, <1>2, <1>3, ChangedSane

LEMMA JoinSane ==
  ASSUME EdTypeOK, NEW r \in Range1, NEW o \in Join(r)
  PROVE  Sane(o)
  <1> DEFINE a == r[1]
             b == r[2]
             x == SubSeq(lines, 1, a - 1)
             y == SubSeq(lines, b + 1, nlines)
  <1>1. /\ lines \in Seq(Line) /\ nlines = Len(lines) /\ nlines \in Nat /\ made \in Nat
        /\ a \in Nat \ {0} /\ b \in Nat \ {0} /\ a <= b /\ b <= nlines
    BY RangeType
  <1>2. PICK v \in Made(1) : made < MaxLines /\ o = Changed(x \o v \o y, a, 1)
    BY DEF Join
  <1>3. made + 1 <= MaxLines
    BY <1>1, <1>2, EdBounds
  <1>4. v \in Seq(Line) /\ Len(v) = 1
    BY <1>2, <1>3, MadeType
  <1> HIDE DEF a, b
  <1>5. x \in Seq(Line) /\ Len(x) = a - 1
    BY <1>1, Part
  <1>6. y \in Seq(Line) /\ Len(y) \in Nat
    BY <1>1, Part
  <1> HIDE DEF x, y
  <1> DEFINE w == x \o v
  <1>7. w \in Seq(Line) /\ Len(w) = a
    <2>1. w \in Seq(Line) /\ Len(w) = Len(x) + Len(v)
      BY <1>4, <1>5, ConcatProperties
    <2> HIDE DEF w
    <2> QED
      BY <1>1, <1>4, <1>5, <2>1
  <1> HIDE DEF w
  <1>8. w \o y \in Seq(Line) /\ Len(w \o y) = Len(w) + Len(y)
    BY <1>6, <1>7, ConcatProperties
  <1> DEFINE z == w \o y
  <1> HIDE DEF z
  <1>9. z \in Seq(Line) /\ a \in 0 .. Len(z)
    <2>1. z \in Seq(Line) /\ Len(z) = a + Len(y)
      BY <1>7, <1>8 DEF z
    <2> QED
      BY <1>1, <1>6, <2>1
  <1>10. Sane(Changed(z, a, 1))
    BY <1>3, <1>9, ChangedSane
  <1> QED
    BY <1>2, <1>10, Zenon DEF z, w

LEMMA MoveSane ==
  ASSUME EdTypeOK, NEW r \in Range1, NEW dest \in 0 .. nlines, NEW o \in Move(r, dest)
  PROVE  Sane(o)
  <1> DEFINE a == r[1]
             b == r[2]
             n == b - a + 1
             to == IF dest > b THEN dest - n ELSE dest
             rest == Without(lines, r)
             v == SubSeq(lines, a, b)
             ls == Inserted(rest, to, v)
  <1>1. /\ lines \in Seq(Line) /\ nlines = Len(lines) /\ nlines \in Nat /\ made + 0 <= MaxLines
        /\ a \in Nat \ {0} /\ b \in Nat \ {0} /\ a <= b /\ b <= nlines
        /\ rest \in Seq(Line) /\ Len(rest) = nlines - n /\ dest \in Nat /\ dest <= nlines
    BY RangeType, EdBounds DEF EdTypeOK
  <1>2. \/ o = Failed
        \/ o = Changed(lines, b, 0)
        \/ ~(dest >= a /\ dest < b) /\ dest \notin {b, a - 1} /\ o = Changed(ls, to + n, 0)
    BY DEF Move
  <1> HIDE DEF a, b, rest
  <1>3. n \in Nat \ {0} /\ v \in Seq(Line) /\ Len(v) = n
    BY <1>1, Part
  <1> HIDE DEF v
  <1>4. CASE o = Failed
    BY <1>1, <1>4, SameSane
  <1>5. CASE o = Changed(lines, b, 0)
    <2>1. b \in 0 .. Len(lines)
      BY <1>1
    <2> QED
      BY <1>1, <1>5, <2>1, ChangedSane
  <1>6. CASE ~(dest >= a /\ dest < b) /\ dest \notin {b, a - 1} /\ o = Changed(ls, to + n, 0)
    <2>1. dest < a - 1 \/ dest > b
      BY <1>1, <1>6
    <2>2. to \in 0 .. Len(rest)
      BY <1>1, <2>1
    <2> HIDE DEF to, n
    <2>3. ls \in Seq(Line) /\ Len(ls) = Len(rest) + Len(v)
      BY <1>1, <1>3, <2>2, InsertedType
    <2> HIDE DEF ls
    <2>4. to + n \in 0 .. Len(ls)
      BY <1>1, <1>3, <2>2, <2>3
    <2> QED
      BY <1>1, <1>6, <2>3, <2>4, ChangedSane
  <1> QED
    BY <1>2, <1>4, <1>5, <1>6

LEMMA CopySane ==
  ASSUME EdTypeOK, NEW r \in Range1, NEW dest \in 0 .. nlines, NEW o \in Copy(r, dest)
  PROVE  Sane(o)
  <1> DEFINE a == r[1]
             b == r[2]
             n == b - a + 1
             v == [k \in 1..n |-> [id |-> made + k, match |-> lines[a + k - 1].match]]
             ls == Inserted(lines, dest, v)
  <1>1. /\ lines \in Seq(Line) /\ nlines = Len(lines) /\ nlines \in Nat /\ made \in Nat
        /\ a \in Nat \ {0} /\ b \in Nat \ {0} /\ a <= b /\ b <= nlines
        /\ dest \in Nat /\ dest <= nlines /\ dest \in 0 .. Len(lines)
    BY RangeType
  <1>2. made + n <= MaxLines /\ o = Changed(ls, dest + n, n)
    BY DEF Copy
  <1> HIDE DEF a, b
  <1>3. n \in Nat \ {0}
    BY <1>1
  <1>4. ASSUME NEW k \in 1 .. n PROVE [id |-> made + k, match |-> lines[a + k - 1].match] \in Line
    <2>1. made + k \in 1 .. MaxLines
      BY <1>1, <1>2, <1>3, EdBounds
    <2>2. a + k - 1 \in 1 .. Len(lines)
      BY <1>1
    <2>3. lines[a + k - 1] \in Line
      BY <1>1, <2>2
    <2> QED
      BY <2>1, <2>3 DEF Line
  <1> HIDE DEF n
  <1>5. v \in [1 .. n -> Line]
    BY <1>4
  <1>6. v \in Seq(Line) /\ Len(v) = n
    BY <1>3, <1>5, FunctionSeq
  <1> HIDE DEF v
  <1>7. ls \in Seq(Line) /\ Len(ls) = Len(lines) + Len(v)
    BY <1>1, <1>6, InsertedType
  <1> HIDE DEF ls
  <1>8. dest + n \in 0 .. Len(ls)
    BY <1>1, <1>3, <1>6, <1>7
  <1> QED
    BY <1>2, <1>3, <1>7, <1>8, ChangedSane

LEMMA SubstitutedType ==
  ASSUME EdTypeOK, NEW r, NEW f, NEW n \in Nat, made + n <= MaxLines, DOMAIN f \subseteq 1 .. nlines,
         \A i \in DOMAIN f : f[i].k \in 1 .. n /\ f[i].match \in BOOLEAN
  PROVE  /\ Substituted(r, f) \in Seq(Line) /\ Len(Substituted(r, f)) = nlines
         /\ DOMAIN f = {} => Substituted(r, f) = lines
  <1>1. lines \in Seq(Line) /\ nlines = Len(lines) /\ nlines \in Nat /\ made \in Nat
    BY EdBounds DEF EdTypeOK, nlines
  <1>2. ASSUME NEW i \in 1 .. nlines
        PROVE  (IF i \in DOMAIN f THEN [id |-> made + f[i].k, match |-> f[i].match] ELSE lines[i]) \in Line
    <2>1. CASE i \in DOMAIN f
      <3>1. made + f[i].k \in 1 .. MaxLines
        BY <1>1, <2>1, EdBounds
      <3> QED
        BY <2>1, <3>1 DEF Line
    <2>2. CASE i \notin DOMAIN f
      BY <1>1, <2>2
    <2> QED
      BY <2>1, <2>2
  <1>3. Substituted(r, f) \in [1 .. nlines -> Line]
    BY <1>2 DEF Substituted
  <1>4. Substituted(r, f) \in Seq(Line) /\ Len(Substituted(r, f)) = nlines
    BY <1>1, <1>3, FunctionSeq
  <1>5. ASSUME DOMAIN f = {} PROVE Substituted(r, f) = lines
    <2>1. \A i \in 1 .. Len(Substituted(r, f)) : Substituted(r, f)[i] = lines[i]
      BY <1>4, <1>5 DEF Substituted
    <2> QED
      BY <1>1, <1>4, <2>1, SeqEqual
  <1> QED
    BY <1>4, <1>5

LEMMA substituteSane ==
  ASSUME EdTypeOK, NEW r \in Range1, NEW o \in substitute(r)
  PROVE  Sane(o)
  <1> DEFINE hit == {i \in r[1]..r[2] : lines[i].match}
             Upto(t) == {x \in hit : x <= t}
             New(t) == {[y \in Upto(t) |-> [k |-> Cardinality(Upto(y)), match |-> z]] : z \in BOOLEAN}
             last == CHOOSE y \in hit : \A x \in hit : x <= y
             n(h) == Cardinality(DOMAIN h)
  <1>1. /\ lines \in Seq(Line) /\ nlines = Len(lines) /\ nlines \in Nat /\ made \in Nat /\ cur \in Nat
        /\ r[1] \in Nat \ {0} /\ r[2] \in Nat \ {0} /\ r[1] <= r[2] /\ r[2] <= nlines
    BY RangeType
  <1>2. hit \in SUBSET (1 .. nlines) /\ hit \in SUBSET Int
    BY <1>1
  <1>3. \/ o \in {Same(cur), Failed}
        \/ /\ hit # {}
           /\ \E f \in New(r[2]) : made + n(f) <= MaxLines /\ o = Changed(Substituted(r, f), last, n(f))
        \/ \E to \in (r[1] - 1) .. (r[2] - 1) : \E f \in New(to) :
              made + n(f) <= MaxLines /\ o = Outcome(Substituted(r, f), cur, n(f), n(f) > 0, FALSE)
    BY DEF substitute
  <1> HIDE DEF hit
  <1>4. ASSUME NEW to \in Int PROVE IsFiniteSet(Upto(to)) /\ Upto(to) \subseteq 1 .. nlines
    <2>1. IsFiniteSet(1 .. nlines)
      BY <1>1, FS_Interval
    <2>2. Upto(to) \in SUBSET (1 .. nlines)
      BY <1>2
    <2> QED
      BY <2>1, <2>2, FS_Subset
  <1>5. ASSUME NEW to \in Int, NEW f \in New(to), made + n(f) <= MaxLines
        PROVE  /\ n(f) \in Nat /\ Substituted(r, f) \in Seq(Line) /\ Len(Substituted(r, f)) = nlines
               /\ n(f) = 0 => Substituted(r, f) = lines
    <2>1. PICK b \in BOOLEAN : f = [i \in Upto(to) |-> [k |-> Cardinality(Upto(i)), match |-> b]]
      BY <1>5
    <2>2. DOMAIN f = Upto(to)
      BY <2>1
    <2>3. IsFiniteSet(DOMAIN f) /\ DOMAIN f \subseteq 1 .. nlines
      BY <1>4, <2>2
    <2>4. n(f) \in Nat /\ (n(f) = 0 => DOMAIN f = {})
      BY <2>3, FS_CardinalityType, FS_EmptySet
    <2>5. ASSUME NEW i \in DOMAIN f PROVE f[i].k \in 1 .. n(f) /\ f[i].match \in BOOLEAN
      <3>1. f[i].k = Cardinality(Upto(i)) /\ f[i].match = b
        BY <2>1, <2>5
      <3> HIDE DEF New, n, last
      <3>6. i \in Upto(to)
        BY <2>2, <2>5, Zenon
      <3>7. i \in hit /\ i <= to
        BY <3>6
      <3>8. i \in Int
        BY <1>2, <3>7
      <3>9. i <= i
        BY <3>8
      <3>2. i \in Int /\ i <= to /\ i \in Upto(i)
        BY <3>7, <3>8, <3>9
      <3>3. Upto(i) \in SUBSET DOMAIN f
        <4>1. ASSUME NEW j \in Upto(i) PROVE j \in Upto(to)
          <5>1. j \in hit /\ j <= i /\ j \in Int
            BY <1>2, <4>1
          <5> QED
            BY <1>5, <3>2, <5>1
        <4> QED
          BY <2>2, <4>1
      <3>4. IsFiniteSet(Upto(i)) /\ Cardinality(Upto(i)) <= n(f)
        BY <2>3, <3>3, FS_Subset DEF n
      <3>5. Cardinality(Upto(i)) \in Nat /\ Cardinality(Upto(i)) # 0
        BY <3>2, <3>4, FS_CardinalityType, FS_EmptySet
      <3> QED
        BY <2>4, <3>1, <3>4, <3>5
    <2> HIDE DEF n
    <2> QED
      BY <1>5, <2>3, <2>4, <2>5, SubstitutedType
  <1>6. CASE o \in {Same(cur), Failed}
    BY <1>1, <1>6, SameSane
  <1>7. ASSUME hit # {},
               NEW f \in New(r[2]), made + n(f) <= MaxLines, o = Changed(Substituted(r, f), last, n(f))
        PROVE  Sane(o)
    <2>1. \E i \in hit : \A j \in hit : j <= i
      <3>1. hit \in SUBSET (0 .. nlines)
        BY <1>1, <1>2
      <3> QED
        BY <1>1, <1>7, <3>1, Extremes
    <2>2. last \in hit
      BY <2>1
    <2> HIDE DEF last, New, n
    <2>3. r[2] \in Int
      BY <1>1
    <2>4. n(f) \in Nat /\ Substituted(r, f) \in Seq(Line) /\ Len(Substituted(r, f)) = nlines
      BY <1>5, <1>7, <2>3
    <2>5. last \in 0 .. Len(Substituted(r, f))
      BY <1>1, <1>2, <2>2, <2>4
    <2> QED
      BY <1>7, <2>4, <2>5, ChangedSane
  <1>8. ASSUME NEW to \in (r[1] - 1) .. (r[2] - 1), NEW f \in New(to), made + n(f) <= MaxLines,
               o = Outcome(Substituted(r, f), cur, n(f), n(f) > 0, FALSE)
        PROVE  Sane(o)
    <2> HIDE DEF New, n
    <2>1. to \in Int
      BY <1>1
    <2>2. n(f) \in Nat /\ Substituted(r, f) \in Seq(Line) /\ (n(f) = 0 => Substituted(r, f) = lines)
      BY <1>5, <1>8, <2>1
    <2>3. (n(f) > 0) \in BOOLEAN /\ (~(n(f) > 0) => Substituted(r, f) = lines)
      BY <2>2
    <2> QED
      BY <1>1, <1>8, <2>2, <2>3, OutcomeSane
  <1> QED
    BY <1>3, <1>6, <1>7, <1>8

\* Whatever the command and its addresses.
LEMMA OutcomesSane ==
  ASSUME EdTypeOK, NEW o \in Outcomes
  PROVE  Sane(o)
  <1>1. CASE \E at \in 0..nlines : o \in Append_(at) \cup Insert(at) \cup ReadIn(at)
    BY <1>1, InsertSane
  <1>2. CASE \E r \in Range1 : o \in Change(r) \cup Delete(r) \cup Join(r) \cup substitute(r)
    BY <1>2, ChangeSane, DeleteSane, JoinSane, substituteSane
  <1>3. CASE \E r \in Range1, dest \in 0..nlines : o \in Move(r, dest) \cup Copy(r, dest)
    BY <1>3, MoveSane, CopySane
  <1>4. CASE \E at \in 1..nlines : o \in Address(at)
    <2>1. PICK at \in 1 .. nlines : o \in {Same(at), Failed}
      BY <1>4 DEF Address
    <2>2. at \in Nat /\ at <= nlines
      BY DEF EdTypeOK, nlines
    <2> QED
      BY <2>1, <2>2, SameSane
  <1>5. \/ \E at \in 0..nlines : o \in Append_(at) \cup Insert(at) \cup ReadIn(at)
        \/ \E r \in Range1 : o \in Change(r) \cup Delete(r) \cup Join(r) \cup substitute(r)
        \/ \E r \in Range1, dest \in 0..nlines : o \in Move(r, dest) \cup Copy(r, dest)
        \/ \E at \in 1..nlines : o \in Address(at)
    BY DEF Outcomes
  <1> QED
    BY <1>1, <1>2, <1>3, <1>4, <1>5

-----------------------------------------------------------------------------
(* The parts of the state.                                                 *)

LEMMA Parts ==
  ASSUME EdTypeOK
  PROVE  /\ lines \in Seq(Line) /\ hup \in Seq(Line) /\ saved \in Seq(Line) /\ warned \in Seq(Line)
         /\ nlines = Len(lines) /\ nlines \in Nat /\ cur \in Nat /\ made \in Nat
         /\ u \in Undo /\ before \in Undo /\ u.lines \in Seq(Line) /\ u.cur \in Nat
         /\ g.gmark \subseteq Numbers /\ g.count \in Nat /\ g.ran \in BOOLEAN /\ g.touched \in BOOLEAN
         /\ g.lines \in Seq(Line) /\ g.cur \in Nat /\ cut.change \in BOOLEAN /\ cut.odd \in BOOLEAN
         /\ IsFiniteSet(g.gmark) /\ Cardinality(g.gmark) \in Nat
  <1>1. /\ lines \in Seq(Line) /\ hup \in Seq(Line) /\ saved \in Seq(Line) /\ warned \in Seq(Line)
        /\ nlines = Len(lines) /\ nlines \in Nat /\ cur \in Nat
    BY DEF EdTypeOK, nlines
  <1>2. made \in Nat
    BY EdBounds DEF EdTypeOK
  <1>3. u \in Undo /\ before \in Undo /\ u.lines \in Seq(Line) /\ u.cur \in Nat
    BY DEF EdTypeOK, Undo
  <1>4. /\ g.gmark \subseteq Numbers /\ g.count \in Nat /\ g.ran \in BOOLEAN /\ g.touched \in BOOLEAN
        /\ g.lines \in Seq(Line) /\ g.cur \in Nat
    BY DEF EdTypeOK, Global
  <1>5. cut.change \in BOOLEAN /\ cut.odd \in BOOLEAN
    BY DEF EdTypeOK
  <1>6. IsFiniteSet(g.gmark) /\ Cardinality(g.gmark) \in Nat
    <2>1. IsFiniteSet(1 .. MaxLines)
      BY EdBounds, FS_Interval
    <2>2. g.gmark \in SUBSET (1 .. MaxLines)
      BY <1>4 DEF Numbers
    <2> QED
      BY <2>1, <2>2, FS_Subset, FS_CardinalityType
  <1> QED
    BY <1>1, <1>2, <1>3, <1>4, <1>5, <1>6

LEMMA StateType ==
  ASSUME NEW ls \in Seq(Line), NEW c \in Nat
  PROVE  State(ls, c) \in Undo /\ State(ls, c).lines = ls /\ State(ls, c).cur = c
  BY DEF State, Undo

LEMMA NoneType ==
  /\ NoUndo \in Undo /\ NoUndo.cur <= Len(NoUndo.lines)
  /\ NoGlobal \in Global
  /\ NoGlobal.matched = {} /\ NoGlobal.cur <= Len(NoGlobal.lines)
  <1>1. <<>> \in Seq(Line) /\ Len(<<>>) = 0
    OBVIOUS
  <1>2. NoUndo \in Undo /\ NoUndo.cur <= Len(NoUndo.lines)
    BY <1>1 DEF NoUndo, Undo
  <1>3. NoGlobal \in Global
    BY <1>1 DEF NoGlobal, Global
  <1>4. NoGlobal.matched = {} /\ NoGlobal.cur <= Len(NoGlobal.lines)
    BY <1>1 DEF NoGlobal
  <1> QED
    BY <1>2, <1>3, <1>4

\* A line of a global command is counted once, and not below the lines still to come to.
LEMMA CountedType ==
  ASSUME EdTypeOK, GlobalInv, pc = "global"
  PROVE  /\ Counted \in Global /\ Counted.ran = TRUE /\ Cardinality(g.gmark) <= Counted.count
         /\ Counted.gmark = g.gmark /\ Counted.matched = g.matched /\ Counted.done = g.done
         /\ Counted.lines = g.lines /\ Counted.cur = g.cur /\ Counted.touched = g.touched
         /\ Counted.pos = g.pos
  <1> DEFINE c == IF g.ran THEN g.count ELSE g.count - 1
  <1>1. g \in Global
    BY DEF EdTypeOK
  <1>2. g.count \in Nat /\ g.ran \in BOOLEAN /\ Cardinality(g.gmark) \in Nat
    BY Parts
  <1>3. Cardinality(g.gmark) + (IF g.ran THEN 0 ELSE 1) <= g.count
    BY DEF GlobalInv
  <1>4. c \in Nat /\ Cardinality(g.gmark) <= c
    <2>1. CASE g.ran
      BY <1>2, <1>3, <2>1
    <2>2. CASE ~g.ran
      BY <1>2, <1>3, <2>2
    <2> QED
      BY <2>1, <2>2
  <1>5. Counted = [g EXCEPT !.ran = TRUE, !.count = c]
    BY DEF Counted
  <1> HIDE DEF c
  <1> QED
    BY <1>1, <1>4, <1>5 DEF Global

-----------------------------------------------------------------------------
(* The invariant is inductive.                                             *)

LEMMA EdInitInv ==
  ASSUME EdInit
  PROVE  EdInv
  <1>1. PICK n \in 0..2 : \E f \in [1..n -> BOOLEAN] : lines = [k \in 1..n |-> [id |-> k, match |-> f[k]]]
    BY DEF EdInit
  <1>2. PICK f \in [1..n -> BOOLEAN] : lines = [k \in 1..n |-> [id |-> k, match |-> f[k]]]
    BY <1>1
  <1>3. n \in Nat /\ n <= MaxLines
    BY EdBounds
  <1>4. lines \in [1 .. n -> Line]
    <2>1. ASSUME NEW k \in 1 .. n PROVE [id |-> k, match |-> f[k]] \in Line
      <3>1. k \in 1 .. MaxLines
        BY <1>3, EdBounds
      <3> QED
        BY <3>1 DEF Line
    <2> QED
      BY <1>2, <2>1
  <1>5. lines \in Seq(Line) /\ Len(lines) = n
    BY <1>3, <1>4, FunctionSeq
  <1>6. /\ cur = n /\ made = n /\ saved = lines /\ modified = 0 /\ u = NoUndo /\ pc = "command"
        /\ g = NoGlobal /\ hup = <<>> /\ commands = 0 /\ err = FALSE /\ warned = <<>> /\ before = NoUndo
        /\ cut = Uncut
    BY <1>5 DEF EdInit, nlines
  <1>7. EdTypeOK
    <2>1. hup \in Seq(Line) /\ warned \in Seq(Line)
      BY <1>6
    <2>2. cut \in [change : BOOLEAN, odd : BOOLEAN]
      BY <1>6 DEF Uncut
    <2>3. made \in 0..MaxLines /\ commands \in 0..MaxCommands /\ cur \in Nat /\ modified \in 0..2
      BY <1>3, <1>6, EdBounds
    <2> QED
      BY <1>5, <1>6, <2>1, <2>2, <2>3, NoneType DEF EdTypeOK
  <1>8. CurInRange /\ UndoReverses /\ NothingDiscarded /\ KeptInv
    BY <1>3, <1>5, <1>6, NoneType DEF CurInRange, UndoReverses, NothingDiscarded, KeptInv, nlines
  <1>9. GlobalInv
    BY <1>6, NoneType DEF GlobalInv
  <1> QED
    BY <1>7, <1>8, <1>9 DEF EdInv

LEMMA ExecInv ==
  ASSUME EdInv, exec_command
  PROVE  EdInv'
  <1>0. EdTypeOK /\ CurInRange /\ UndoReverses /\ NothingDiscarded /\ GlobalInv /\ KeptInv
    BY DEF EdInv
  <1>1. PICK o \in Outcomes :
           /\ lines' = o.lines /\ cur' = o.cur /\ made' = o.made /\ err' = ~o.ok
           /\ modified' = IF o.touched THEN 1 ELSE modified
           /\ pc' = IF Fails(o) THEN "ending" ELSE pc
           /\ cut' = [change |-> cut.change \/ (~o.ok /\ o.cur > Len(o.lines)),
                      odd |-> cut.odd /\ (pc = "global" \/ ~o.touched)]
           /\ Done(o)
    BY DEF exec_command
  <1>2. UNCHANGED <<hup, saved, warned>> /\ commands' \in 0..MaxCommands /\ pc \in {"command", "global"}
    BY <1>0, EdBounds DEF exec_command, Given, MayRun, EdTypeOK
  <1>3. /\ o.lines \in Seq(Line) /\ o.cur \in Nat /\ o.made \in 0..MaxLines
        /\ o.touched \in BOOLEAN /\ o.ok \in BOOLEAN
        /\ ~o.touched => o.lines = lines
        /\ o.ok /\ cur <= nlines => o.cur <= Len(o.lines)
    BY <1>0, OutcomesSane DEF Sane
  <1>4. /\ lines \in Seq(Line) /\ nlines = Len(lines) /\ cur \in Nat /\ u \in Undo /\ before \in Undo
        /\ g.touched \in BOOLEAN /\ cut.change \in BOOLEAN /\ cut.odd \in BOOLEAN /\ g \in Global
    BY <1>0, Parts DEF EdTypeOK
  <1>5. /\ cut'.change = (cut.change \/ (~o.ok /\ o.cur > Len(o.lines)))
        /\ cut'.odd = (cut.odd /\ (pc = "global" \/ ~o.touched))
        /\ cut' \in [change : BOOLEAN, odd : BOOLEAN]
    BY <1>1, <1>3, <1>4
  <1>6. pc' \in {"command", "global", "ending"} /\ (pc' = "command" <=> pc = "command")
    BY <1>1, <1>2 DEF Fails
  <1>7. pc = "command" =>
          /\ g' = g
          /\ u' = IF o.touched THEN State(lines, cur) ELSE u
          /\ before' = IF o.touched \/ o.lines # lines THEN State(lines, cur) ELSE before
    BY <1>1 DEF Done
  <1>8. pc = "global" => u' = u /\ before' = before /\ g' = [Counted EXCEPT !.touched = @ \/ o.touched]
    BY <1>1 DEF Done
  <1>9. u' \in Undo /\ before' \in Undo /\ u' \in {u, State(lines, cur)}
    BY <1>2, <1>4, <1>7, <1>8, StateType
  <1>10. pc = "global" =>
           /\ g' \in Global /\ Cardinality(g'.gmark) <= g'.count /\ g'.ran = TRUE
           /\ g'.gmark = g.gmark /\ g'.matched = g.matched /\ g'.done = g.done /\ g'.lines = g.lines /\ g'.cur = g.cur
           /\ g'.touched = (g.touched \/ o.touched)
    <2>1. ASSUME pc = "global"
          PROVE  /\ Counted \in Global /\ Counted.ran = TRUE /\ Cardinality(g.gmark) <= Counted.count
                 /\ Counted.gmark = g.gmark /\ Counted.matched = g.matched /\ Counted.done = g.done
                 /\ Counted.lines = g.lines /\ Counted.cur = g.cur /\ Counted.touched = g.touched
      BY <1>0, <2>1, CountedType
    <2> HIDE DEF Counted
    <2> QED
      BY <1>3, <1>4, <1>8, <2>1 DEF Global
  <1>11. EdTypeOK'
    <2>1. g' \in Global
      BY <1>2, <1>4, <1>7, <1>10
    <2>2. modified' \in 0..2 /\ err' \in BOOLEAN
      BY <1>0, <1>1, <1>3 DEF EdTypeOK
    <2>3. hup' \in Seq(Line) /\ saved' \in Seq(Line) /\ warned' \in Seq(Line)
      BY <1>0, <1>2, Parts
    <2> QED
      BY <1>1, <1>2, <1>3, <1>5, <1>6, <1>9, <2>1, <2>2, <2>3 DEF EdTypeOK
  <1>12. CurInRange'
    <2>1. (u'.cur = u.cur /\ u'.lines = u.lines) \/ (u'.cur = cur /\ u'.lines = lines)
      BY <1>4, <1>9, StateType
    <2>2. cut.change \/ (cur <= Len(lines) /\ u.cur <= Len(u.lines))
      BY <1>0 DEF CurInRange, nlines
    <2>3. cut'.change \/ o.cur <= Len(o.lines)
      <3>1. Len(o.lines) \in Nat
        BY <1>3
      <3> QED
        BY <1>3, <1>4, <1>5, <2>2, <3>1
    <2>4. cut'.change \/ (cur' <= Len(lines') /\ u'.cur <= Len(u'.lines))
      BY <1>1, <1>5, <2>1, <2>2, <2>3
    <2> QED
      BY <2>4 DEF CurInRange, nlines
  <1>13. UndoReverses'
    <2>1. ASSUME pc = "command", ~cut'.odd PROVE u' = before'
      <3>1. CASE o.touched
        BY <1>7, <2>1, <3>1
      <3>2. CASE ~o.touched
        BY <1>0, <1>3, <1>4, <1>5, <1>7, <2>1, <3>2 DEF UndoReverses
      <3> QED
        BY <3>1, <3>2
    <2> QED
      BY <1>6, <2>1 DEF UndoReverses
  <1>14. NothingDiscarded'
    BY <1>6 DEF NothingDiscarded
  <1>15. GlobalInv'
    <2>1. CASE pc = "command"
      BY <1>0, <1>4, <1>5, <1>6, <1>7, <2>1 DEF GlobalInv
    <2>2. CASE pc = "global"
      <3>1. g'.matched \subseteq g'.gmark \cup g'.done
        BY <1>0, <1>10, <2>2 DEF GlobalInv
      <3>2. Cardinality(g'.gmark) + (IF g'.ran THEN 0 ELSE 1) <= g'.count
        <4>1. Cardinality(g.gmark) \in Nat
          BY <1>0, Parts
        <4> QED
          BY <1>10, <2>2, <4>1
      <3>3. ~cut'.odd /\ lines' # g'.lines => g'.touched
        BY <1>0, <1>1, <1>3, <1>4, <1>5, <1>10, <2>2 DEF GlobalInv
      <3>4. cut'.change \/ g'.cur <= Len(g'.lines)
        BY <1>0, <1>5, <1>10, <2>2 DEF GlobalInv
      <3> QED
        BY <3>1, <3>2, <3>3, <3>4 DEF GlobalInv
    <2> QED
      BY <1>2, <2>1, <2>2
  <1>16. KeptInv'
    BY <1>0, <1>1, <1>2, <1>3 DEF KeptInv
  <1> QED
    BY <1>11, <1>12, <1>13, <1>14, <1>15, <1>16 DEF EdInv

LEMMA UndoInv ==
  ASSUME EdInv, undo
  PROVE  EdInv'
  <1>0. EdTypeOK /\ CurInRange /\ UndoReverses /\ NothingDiscarded /\ GlobalInv /\ KeptInv
    BY DEF EdInv
  <1>1. /\ lines' = u.lines /\ cur' = u.cur /\ modified' = 1 /\ err' = FALSE /\ u' = State(lines, cur)
        /\ commands' \in 0..MaxCommands /\ pc \in {"command", "global"}
        /\ made' = made /\ pc' = pc /\ hup' = hup /\ saved' = saved /\ warned' = warned
    BY <1>0, EdBounds DEF undo, Given, MayRun, EdTypeOK
  <1>2. /\ lines \in Seq(Line) /\ nlines = Len(lines) /\ cur \in Nat /\ u \in Undo /\ before \in Undo
        /\ u.lines \in Seq(Line) /\ u.cur \in Nat /\ g \in Global
        /\ hup \in Seq(Line) /\ saved \in Seq(Line) /\ warned \in Seq(Line)
        /\ cut \in [change : BOOLEAN, odd : BOOLEAN]
    BY <1>0, Parts DEF EdTypeOK
  <1>3. pc = "command" =>
          before' = State(lines, cur) /\ g' = g /\ cut'.change = cut.change /\ cut' \in [change : BOOLEAN, odd : BOOLEAN]
    BY <1>2 DEF undo
  <1>4. pc = "global" =>
          /\ before' = before /\ g' = Counted
          /\ cut'.odd /\ cut'.change = cut.change /\ cut' \in [change : BOOLEAN, odd : BOOLEAN]
    BY <1>2 DEF undo
  <1>5. u' \in Undo /\ u'.lines = lines /\ u'.cur = cur /\ before' \in Undo
    BY <1>1, <1>2, <1>3, <1>4, StateType
  <1>6. EdTypeOK'
    <2>1. g' \in Global
      BY <1>0, <1>1, <1>2, <1>3, <1>4, CountedType
    <2>2. made' \in 0..MaxLines /\ modified' \in 0..2 /\ cut' \in [change : BOOLEAN, odd : BOOLEAN]
      BY <1>0, <1>1, <1>3, <1>4 DEF EdTypeOK
    <2> QED
      BY <1>1, <1>2, <1>5, <2>1, <2>2 DEF EdTypeOK
  <1>7. CurInRange'
    BY <1>0, <1>1, <1>2, <1>3, <1>4, <1>5 DEF CurInRange, nlines
  <1>8. UndoReverses' /\ NothingDiscarded' /\ KeptInv'
    BY <1>1, <1>3 DEF UndoReverses, NothingDiscarded, KeptInv
  <1>9. GlobalInv'
    <2>1. CASE pc = "command"
      BY <1>0, <1>1, <1>3, <2>1 DEF GlobalInv
    <2>2. CASE pc = "global"
      <3>1. /\ g'.ran = TRUE /\ Cardinality(g.gmark) <= g'.count /\ g'.gmark = g.gmark /\ g'.matched = g.matched
            /\ g'.done = g.done /\ g'.lines = g.lines /\ g'.cur = g.cur
        BY <1>0, <1>4, <2>2, CountedType
      <3>2. Cardinality(g'.gmark) + (IF g'.ran THEN 0 ELSE 1) <= g'.count
        <4>1. Cardinality(g.gmark) \in Nat
          BY <1>0, Parts
        <4> QED
          BY <3>1, <4>1
      <3>3. g'.matched \subseteq g'.gmark \cup g'.done /\ (cut'.change \/ g'.cur <= Len(g'.lines))
        BY <1>0, <1>4, <2>2, <3>1 DEF GlobalInv
      <3> QED
        BY <1>4, <2>2, <3>2, <3>3 DEF GlobalInv
    <2> QED
      BY <1>1, <2>1, <2>2
  <1> QED
    BY <1>6, <1>7, <1>8, <1>9 DEF EdInv

LEMMA WriteInv ==
  ASSUME EdInv, write_file
  PROVE  EdInv'
  <1>0. EdTypeOK /\ CurInRange /\ UndoReverses /\ NothingDiscarded /\ GlobalInv /\ KeptInv
    BY DEF EdInv
  <1>1. /\ modified' = 0 /\ saved' = lines /\ err' = FALSE
        /\ g' = (IF pc = "global" THEN Counted ELSE g)
        /\ commands' \in 0..MaxCommands /\ pc \in {"command", "global"}
        /\ UNCHANGED <<lines, cur, made, u, pc, hup, warned, before, cut>>
    BY <1>0, EdBounds DEF write_file, Given, MayRun, EdTypeOK
  <1>2. EdTypeOK'
    <2>1. g' \in Global
      BY <1>0, <1>1, CountedType DEF EdTypeOK
    <2>2. lines \in Seq(Line) /\ modified' \in 0..2
      BY <1>0, <1>1, Parts
    <2> QED
      BY <1>0, <1>1, <2>1, <2>2 DEF EdTypeOK
  <1>3. CurInRange' /\ UndoReverses' /\ NothingDiscarded' /\ KeptInv'
    BY <1>0, <1>1 DEF CurInRange, UndoReverses, NothingDiscarded, KeptInv, nlines
  <1>4. GlobalInv'
    <2>1. CASE pc = "command"
      BY <1>0, <1>1, <2>1 DEF GlobalInv
    <2>2. CASE pc = "global"
      <3>1. /\ g'.ran = TRUE /\ Cardinality(g.gmark) <= g'.count /\ g'.gmark = g.gmark /\ g'.matched = g.matched
            /\ g'.done = g.done /\ g'.lines = g.lines /\ g'.cur = g.cur /\ g'.touched = g.touched
        BY <1>0, <1>1, <2>2, CountedType
      <3>2. Cardinality(g'.gmark) + (IF g'.ran THEN 0 ELSE 1) <= g'.count
        <4>1. Cardinality(g.gmark) \in Nat
          BY <1>0, Parts
        <4> QED
          BY <3>1, <4>1
      <3> QED
        BY <1>0, <1>1, <2>2, <3>1, <3>2 DEF GlobalInv
    <2> QED
      BY <1>1, <2>1, <2>2
  <1> QED
    BY <1>2, <1>3, <1>4 DEF EdInv

LEMMA WarnsInv ==
  ASSUME EdInv, MayRun, Given, Warns
  PROVE  EdInv'
  <1>0. EdTypeOK /\ CurInRange /\ UndoReverses /\ NothingDiscarded /\ GlobalInv /\ KeptInv
    BY DEF EdInv
  <1>1. /\ modified = 1 /\ modified' = 2 /\ warned' = lines /\ err' = TRUE
        /\ pc' = (IF pc = "global" THEN "ending" ELSE pc)
        /\ commands' \in 0..MaxCommands /\ pc \in {"command", "global"}
        /\ UNCHANGED <<lines, cur, made, u, g, hup, saved, before, cut>>
    BY <1>0, EdBounds DEF Warns, Given, MayRun, EdTypeOK
  <1>2. EdTypeOK'
    <2>1. lines \in Seq(Line) /\ modified' \in 0..2
      BY <1>0, <1>1, Parts
    <2> QED
      BY <1>0, <1>1, <2>1 DEF EdTypeOK
  <1>3. CurInRange' /\ UndoReverses' /\ NothingDiscarded' /\ KeptInv' /\ GlobalInv'
    BY <1>0, <1>1 DEF CurInRange, UndoReverses, NothingDiscarded, KeptInv, GlobalInv, nlines
  <1> QED
    BY <1>2, <1>3 DEF EdInv

LEMMA EditInv ==
  ASSUME EdInv, MayRun, Given, EditNow
  PROVE  EdInv'
  <1>0. EdTypeOK /\ CurInRange /\ UndoReverses /\ NothingDiscarded /\ GlobalInv /\ KeptInv
    BY DEF EdInv
  <1>1. PICK v \in Text :
          /\ lines' = v /\ cur' = Len(v) /\ made' = made + Len(v) /\ saved' = v
          /\ g' = IF pc = "global" THEN [Counted EXCEPT !.touched = @ \/ v # <<>>] ELSE g
    BY DEF EditNow
  <1>2. /\ modified' = 0 /\ u' = NoUndo /\ before' = NoUndo /\ err' = FALSE
        /\ cut' = [cut EXCEPT !.odd = pc = "global"]
        /\ commands' \in 0..MaxCommands /\ pc \in {"command", "global"}
        /\ UNCHANGED <<pc, hup, warned>>
    BY <1>0, EdBounds DEF EditNow, Given, MayRun, EdTypeOK
  <1>3. v \in Seq(Line) /\ Len(v) \in Nat /\ made + Len(v) <= MaxLines
    BY <1>0, TextType
  <1>4. /\ cut \in [change : BOOLEAN, odd : BOOLEAN] /\ made \in Nat /\ g \in Global /\ g.touched \in BOOLEAN
        /\ hup \in Seq(Line) /\ warned \in Seq(Line) /\ Cardinality(g.gmark) \in Nat
    BY <1>0, Parts DEF EdTypeOK
  <1>5. cut' \in [change : BOOLEAN, odd : BOOLEAN] /\ cut'.change = cut.change /\ cut'.odd = (pc = "global")
    BY <1>2, <1>4
  <1>6. pc = "global" =>
           /\ g' \in Global /\ Cardinality(g'.gmark) <= g'.count /\ g'.ran = TRUE
           /\ g'.gmark = g.gmark /\ g'.matched = g.matched /\ g'.done = g.done /\ g'.lines = g.lines /\ g'.cur = g.cur
    <2>1. ASSUME pc = "global"
          PROVE  /\ Counted \in Global /\ Counted.ran = TRUE /\ Cardinality(g.gmark) <= Counted.count
                 /\ Counted.gmark = g.gmark /\ Counted.matched = g.matched /\ Counted.done = g.done
                 /\ Counted.lines = g.lines /\ Counted.cur = g.cur /\ Counted.touched = g.touched
      BY <1>0, <2>1, CountedType
    <2>2. (g.touched \/ v # <<>>) \in BOOLEAN
      BY <1>4
    <2> QED
      BY <1>1, <1>4, <2>1, <2>2 DEF Global
  <1>7. EdTypeOK'
    <2>1. g' \in Global
      BY <1>1, <1>2, <1>4, <1>6
    <2>2. made' \in 0..MaxLines /\ modified' \in 0..2
      BY <1>1, <1>2, <1>3, <1>4, EdBounds
    <2>3. pc' \in {"command", "global"} /\ err' \in BOOLEAN
      BY <1>2
    <2>4. lines' \in Seq(Line) /\ saved' \in Seq(Line) /\ hup' \in Seq(Line) /\ warned' \in Seq(Line) /\ cur' \in Nat
      BY <1>1, <1>2, <1>3, <1>4
    <2>5. u' \in Undo /\ before' \in Undo
      BY <1>2, NoneType
    <2> QED
      BY <1>2, <1>5, <2>1, <2>2, <2>3, <2>4, <2>5 DEF EdTypeOK
  <1>8. CurInRange'
    <2>1. cur' <= Len(lines') /\ u'.cur <= Len(u'.lines)
      BY <1>1, <1>2, <1>3, NoneType
    <2> QED
      BY <2>1 DEF CurInRange, nlines
  <1>9. UndoReverses' /\ NothingDiscarded' /\ KeptInv'
    BY <1>1, <1>2 DEF UndoReverses, NothingDiscarded, KeptInv
  <1>10. GlobalInv'
    <2>1. CASE pc = "command"
      BY <1>0, <1>1, <1>2, <1>5, <2>1 DEF GlobalInv
    <2>2. CASE pc = "global"
      <3>1. Cardinality(g'.gmark) + (IF g'.ran THEN 0 ELSE 1) <= g'.count
        BY <1>4, <1>6, <2>2
      <3>2. g'.matched \subseteq g'.gmark \cup g'.done /\ (cut'.change \/ g'.cur <= Len(g'.lines))
        BY <1>0, <1>5, <1>6, <2>2 DEF GlobalInv
      <3> QED
        BY <1>5, <2>2, <3>1, <3>2 DEF GlobalInv
    <2> QED
      BY <1>2, <2>1, <2>2
  <1> QED
    BY <1>7, <1>8, <1>9, <1>10 DEF EdInv

LEMMA QuitInv ==
  ASSUME EdInv, MayRun, Given, modified # 1, QuitNow
  PROVE  EdInv'
  <1>0. EdTypeOK /\ CurInRange /\ UndoReverses /\ NothingDiscarded /\ GlobalInv /\ KeptInv
    BY DEF EdInv
  <1>1. /\ pc' = "quit" /\ commands' \in 0..MaxCommands
        /\ UNCHANGED <<lines, cur, modified, made, u, g, hup, err, saved, warned, before, cut>>
    BY <1>0, EdBounds DEF QuitNow, Given, EdTypeOK
  <1>2. EdTypeOK'
    BY <1>0, <1>1 DEF EdTypeOK
  <1>3. modified \in {0, 2}
    BY <1>0 DEF EdTypeOK
  <1>4. CurInRange' /\ UndoReverses' /\ NothingDiscarded' /\ KeptInv' /\ GlobalInv'
    BY <1>0, <1>1, <1>3 DEF CurInRange, UndoReverses, NothingDiscarded, KeptInv, GlobalInv, nlines
  <1> QED
    BY <1>2, <1>4 DEF EdInv

LEMMA GlobalStartInv ==
  ASSUME EdInv, global
  PROVE  EdInv'
  <1>0. EdTypeOK /\ CurInRange /\ UndoReverses /\ NothingDiscarded /\ GlobalInv /\ KeptInv
    BY DEF EdInv
  <1>1. PICK r \in Range1, invert \in BOOLEAN :
          g' = [NoGlobal EXCEPT !.gmark = {lines[i].id : i \in {j \in r[1]..r[2] : lines[j].match # invert}},
                                !.matched = {lines[i].id : i \in {j \in r[1]..r[2] : lines[j].match # invert}},
                                !.count = Cardinality({lines[i].id : i \in {j \in r[1]..r[2] : lines[j].match # invert}}),
                                !.lines = lines, !.cur = cur]
    BY DEF global
  <1> DEFINE hit == {lines[i].id : i \in {j \in r[1]..r[2] : lines[j].match # invert}}
  <1>2. g' = [NoGlobal EXCEPT !.gmark = hit, !.matched = hit, !.count = Cardinality(hit), !.lines = lines, !.cur = cur]
    BY <1>1
  <1>3. /\ pc = "command" /\ pc' = "global" /\ err' = FALSE /\ commands' \in 0..MaxCommands
        /\ cut' = [cut EXCEPT !.odd = FALSE]
        /\ UNCHANGED <<lines, cur, modified, made, u, hup, saved, warned, before>>
    BY <1>0, EdBounds DEF global, Given, EdTypeOK
  <1>4. hit \in SUBSET Numbers
    <2>1. /\ lines \in Seq(Line) /\ r[1] \in Nat \ {0} /\ r[2] \in Nat \ {0} /\ r[2] <= Len(lines) /\ Len(lines) \in Nat
      BY <1>0, RangeType
    <2>2. ASSUME NEW i \in r[1] .. r[2] PROVE lines[i].id \in Numbers
      <3>1. i \in 1 .. Len(lines)
        BY <2>1
      <3>2. lines[i] \in Line
        BY <2>1, <3>1
      <3> QED
        BY <3>2 DEF Line, Numbers
    <2> QED
      BY <2>2
  <1> HIDE DEF hit
  <1>5. Cardinality(hit) \in Nat
    <2>1. IsFiniteSet(1 .. MaxLines)
      BY EdBounds, FS_Interval
    <2>2. IsFiniteSet(hit)
      BY <1>4, <2>1, FS_Subset DEF Numbers
    <2> QED
      BY <2>2, FS_CardinalityType
  <1>6. lines \in Seq(Line) /\ cur \in Nat
    BY <1>0, Parts
  <1>7. /\ g' \in Global /\ g'.gmark = hit /\ g'.matched = hit /\ g'.count = Cardinality(hit) /\ g'.ran = TRUE
        /\ g'.lines = lines /\ g'.cur = cur
    <2>1. g' = [gmark |-> hit, pos |-> 0, count |-> Cardinality(hit), ran |-> TRUE, lines |-> lines, cur |-> cur,
                touched |-> FALSE, matched |-> hit, done |-> {}]
      BY <1>2 DEF NoGlobal
    <2> QED
      BY <1>4, <1>5, <1>6, <2>1 DEF Global
  <1>8. cut' \in [change : BOOLEAN, odd : BOOLEAN] /\ cut'.change = cut.change
    BY <1>0, <1>3 DEF EdTypeOK
  <1>9. EdTypeOK'
    BY <1>0, <1>3, <1>7, <1>8 DEF EdTypeOK
  <1>10. CurInRange' /\ UndoReverses' /\ NothingDiscarded' /\ KeptInv'
    BY <1>0, <1>3, <1>8 DEF CurInRange, UndoReverses, NothingDiscarded, KeptInv, nlines
  <1>11. GlobalInv'
    <2>1. Cardinality(g'.gmark) + (IF g'.ran THEN 0 ELSE 1) <= g'.count
      BY <1>5, <1>7
    <2>2. cut'.change \/ g'.cur <= Len(g'.lines)
      BY <1>0, <1>7, <1>8 DEF CurInRange, nlines
    <2> QED
      BY <1>3, <1>7, <2>1, <2>2 DEF GlobalInv
  <1> QED
    BY <1>9, <1>10, <1>11 DEF EdInv

\* The line that a global command comes to next is a line of the buffer that is marked.
LEMMA NextMarkedProp ==
  ASSUME EdTypeOK
  PROVE  /\ Marked = {} => next_marked = 0
         /\ Marked # {} => next_marked \in Marked
         /\ Marked \subseteq 1 .. nlines
  <1>1. nlines \in Nat /\ Marked \in SUBSET (0 .. nlines) /\ Marked \subseteq 1 .. nlines
    BY Parts DEF Marked
  <1>2. Marked = {} => next_marked = 0
    BY DEF next_marked
  <1>3. ASSUME Marked # {} PROVE next_marked \in Marked
    <2> DEFINE further == {i \in Marked : i >= g.pos}
    <2>1. next_marked = Least(IF further # {} THEN further ELSE Marked)
      BY <1>3 DEF next_marked
    <2>2. further \in SUBSET (0 .. nlines) /\ further \subseteq Marked
      BY <1>1
    <2> HIDE DEF further
    <2> QED
      BY <1>1, <1>3, <2>1, <2>2, LeastProp
  <1> QED
    BY <1>1, <1>2, <1>3

LEMMA NextLineInv ==
  ASSUME EdInv, NextLine
  PROVE  EdInv'
  <1>0. EdTypeOK /\ CurInRange /\ UndoReverses /\ NothingDiscarded /\ GlobalInv /\ KeptInv
    BY DEF EdInv
  <1> DEFINE n == next_marked
             id == lines[n].id
  <1>1. /\ pc = "global" /\ n > 0 /\ cur' = n
        /\ g' = [g EXCEPT !.gmark = @ \ {id}, !.pos = n, !.ran = FALSE, !.done = @ \cup {id}]
        /\ UNCHANGED <<lines, modified, made, u, pc, hup, commands, err, saved, warned, before, cut>>
    BY DEF NextLine
  <1>2. n \in 1 .. nlines /\ id \in g.gmark
    BY <1>0, <1>1, NextMarkedProp DEF Marked
  <1>3. nlines \in Nat /\ g.gmark \subseteq Numbers /\ IsFiniteSet(g.gmark) /\ Cardinality(g.gmark) \in Nat /\ g \in Global
    BY <1>0, Parts DEF EdTypeOK
  <1> HIDE DEF n, id
  <1>4. Cardinality(g.gmark \ {id}) = Cardinality(g.gmark) - 1
    BY <1>2, <1>3, FS_RemoveElement
  <1>5. /\ g' \in Global /\ g'.gmark = g.gmark \ {id} /\ g'.ran = FALSE /\ g'.done = g.done \cup {id}
        /\ g'.count = g.count /\ g'.matched = g.matched /\ g'.lines = g.lines /\ g'.cur = g.cur /\ g'.touched = g.touched
    <2> DEFINE rest == g.gmark \ {id}
               done == g.done \cup {id}
    <2>1. rest \in SUBSET Numbers /\ done \in SUBSET Numbers /\ n \in Nat
      BY <1>2, <1>3 DEF Global
    <2>2. g' = [g EXCEPT !.gmark = rest, !.pos = n, !.ran = FALSE, !.done = done]
      BY <1>1
    <2> HIDE DEF rest, done
    <2>3. /\ g' \in Global /\ g'.gmark = rest /\ g'.ran = FALSE /\ g'.done = done
          /\ g'.count = g.count /\ g'.matched = g.matched /\ g'.lines = g.lines /\ g'.cur = g.cur
          /\ g'.touched = g.touched
      BY <1>3, <2>1, <2>2 DEF Global
    <2> QED
      BY <2>3 DEF rest, done
  <1>6. n \in Nat /\ n <= nlines
    BY <1>2, <1>3
  <1>7. EdTypeOK'
    BY <1>0, <1>1, <1>5, <1>6 DEF EdTypeOK
  <1>8. CurInRange' /\ UndoReverses' /\ NothingDiscarded' /\ KeptInv'
    BY <1>0, <1>1, <1>6 DEF CurInRange, UndoReverses, NothingDiscarded, KeptInv, nlines
  <1>9. GlobalInv'
    <2>1. Cardinality(g'.gmark) + (IF g'.ran THEN 0 ELSE 1) <= g'.count
      <3>1. Cardinality(g.gmark) + (IF g.ran THEN 0 ELSE 1) <= g.count /\ g.count \in Nat /\ g.ran \in BOOLEAN
        BY <1>0, <1>1, Parts DEF GlobalInv
      <3>2. Cardinality(g.gmark) <= g.count
        BY <1>3, <3>1
      <3> QED
        BY <1>3, <1>4, <1>5, <3>1, <3>2
    <2>2. g'.matched \subseteq g'.gmark \cup g'.done
      BY <1>0, <1>5 DEF GlobalInv
    <2> QED
      BY <1>0, <1>1, <1>5, <2>1, <2>2 DEF GlobalInv
  <1> QED
    BY <1>7, <1>8, <1>9 DEF EdInv

LEMMA EndGlobalInv ==
  ASSUME EdInv, EndGlobal
  PROVE  EdInv'
  <1>0. EdTypeOK /\ CurInRange /\ UndoReverses /\ NothingDiscarded /\ GlobalInv /\ KeptInv
    BY DEF EdInv
  <1>1. /\ pc \in {"global", "ending"} /\ pc' = "command" /\ g' = NoGlobal
        /\ u' = (IF g.touched THEN State(g.lines, g.cur) ELSE NoUndo)
        /\ before' = (IF g.touched \/ lines # g.lines THEN State(g.lines, g.cur) ELSE NoUndo)
        /\ UNCHANGED <<lines, cur, modified, made, hup, commands, saved, warned, cut>>
    BY DEF EndGlobal, undo_end_global
  <1>2. err' \in BOOLEAN
    BY <1>0 DEF EndGlobal, EdTypeOK
  <1>3. g.lines \in Seq(Line) /\ g.cur \in Nat /\ g.touched \in BOOLEAN
    BY <1>0, Parts
  <1>4. u' \in Undo /\ before' \in Undo /\ (cut.change \/ u'.cur <= Len(u'.lines))
    BY <1>0, <1>1, <1>3, StateType, NoneType DEF GlobalInv
  <1>5. EdTypeOK'
    BY <1>0, <1>1, <1>2, <1>4, NoneType DEF EdTypeOK
  <1>6. CurInRange'
    BY <1>0, <1>1, <1>4 DEF CurInRange, nlines
  <1>7. UndoReverses'
    BY <1>0, <1>1, <1>3 DEF UndoReverses, GlobalInv
  <1>8. NothingDiscarded' /\ KeptInv'
    BY <1>0, <1>1 DEF NothingDiscarded, KeptInv
  <1>9. GlobalInv'
    BY <1>1, NoneType DEF GlobalInv
  <1> QED
    BY <1>5, <1>6, <1>7, <1>8, <1>9 DEF EdInv

LEMMA HangupInv ==
  ASSUME EdInv, save_hup
  PROVE  EdInv'
  <1>0. EdTypeOK /\ CurInRange /\ UndoReverses /\ NothingDiscarded /\ GlobalInv /\ KeptInv
    BY DEF EdInv
  <1>1. /\ pc = "command" /\ pc' = "hangup"
        /\ hup' = (IF nlines > 0 /\ modified # 0 THEN lines ELSE hup)
        /\ UNCHANGED <<lines, cur, modified, made, u, g, commands, err, saved, warned, before, cut>>
    BY DEF save_hup
  <1>2. lines \in Seq(Line) /\ hup \in Seq(Line) /\ nlines = Len(lines) /\ nlines \in Nat
    BY <1>0, Parts
  <1>3. EdTypeOK'
    BY <1>0, <1>1, <1>2 DEF EdTypeOK
  <1>4. lines \in {saved, hup', <<>>}
    <2>1. CASE nlines = 0
      BY <1>2, <2>1, EmptySeq
    <2>2. CASE modified = 0
      BY <1>0, <2>2 DEF KeptInv
    <2>3. CASE nlines > 0 /\ modified # 0
      BY <1>1, <2>3
    <2> QED
      BY <1>2, <2>1, <2>2, <2>3
  <1>5. CurInRange' /\ UndoReverses' /\ NothingDiscarded' /\ KeptInv' /\ GlobalInv'
    BY <1>0, <1>1, <1>4 DEF CurInRange, UndoReverses, NothingDiscarded, KeptInv, GlobalInv, nlines
  <1> QED
    BY <1>3, <1>5 DEF EdInv

LEMMA StutterInv ==
  ASSUME EdInv, UNCHANGED edVars
  PROVE  EdInv'
  <1>1. EdTypeOK'
    BY DEF edVars, EdInv, EdTypeOK
  <1>2. CurInRange' /\ UndoReverses' /\ NothingDiscarded' /\ KeptInv' /\ GlobalInv'
    BY DEF edVars, EdInv, CurInRange, UndoReverses, NothingDiscarded, KeptInv, GlobalInv, nlines
  <1> QED
    BY <1>1, <1>2 DEF EdInv

LEMMA EdStepInv ==
  ASSUME EdInv, [EdNext]_edVars
  PROVE  EdInv'
  <1>1. CASE exec_command
    BY <1>1, ExecInv
  <1>2. CASE undo
    BY <1>2, UndoInv
  <1>3. CASE write_file
    BY <1>3, WriteInv
  <1>4. CASE Edit
    BY <1>4, WarnsInv, EditInv DEF Edit
  <1>5. CASE EditAnyway
    BY <1>5, EditInv DEF EditAnyway
  <1>6. CASE Quit
    BY <1>6, WarnsInv, QuitInv DEF Quit
  <1>7. CASE global
    BY <1>7, GlobalStartInv
  <1>8. CASE NextLine
    BY <1>8, NextLineInv
  <1>9. CASE EndGlobal
    BY <1>9, EndGlobalInv
  <1>10. CASE save_hup
    BY <1>10, HangupInv
  <1>11. CASE UNCHANGED edVars
    BY <1>11, StutterInv
  <1> QED
    BY <1>1, <1>2, <1>3, <1>4, <1>5, <1>6, <1>7, <1>8, <1>9, <1>10, <1>11 DEF EdNext

\* A global command that ends without an error has no marked line left in the buffer.
LEMMA CompletesStep ==
  ASSUME EdInv, [EdNext]_edVars
  PROVE  Completes
  <1>0. EdTypeOK /\ GlobalInv
    BY DEF EdInv
  <1>1. SUFFICES ASSUME pc = "global", pc' = "command", ~err'
                 PROVE  Ids(lines) \cap g.matched \subseteq g.done
    BY DEF Completes
  <1>2. EndGlobal
    BY <1>1 DEF EdNext, exec_command, Fails, undo, write_file, Edit, EditAnyway, Quit, Warns, EditNow, QuitNow,
                global, NextLine, save_hup, edVars
  <1>3. g.count = 0 \/ next_marked = 0
    BY <1>1, <1>2 DEF EndGlobal
  <1>4. g.matched \subseteq g.gmark \cup g.done
    BY <1>0 DEF GlobalInv
  <1>5. CASE g.count = 0
    <2>1. Cardinality(g.gmark) + (IF g.ran THEN 0 ELSE 1) <= 0 /\ g.ran \in BOOLEAN
      BY <1>0, <1>1, <1>5, Parts DEF GlobalInv
    <2>2. IsFiniteSet(g.gmark) /\ Cardinality(g.gmark) \in Nat
      BY <1>0, Parts
    <2>3. Cardinality(g.gmark) = 0
      BY <2>1, <2>2
    <2>4. g.gmark = {}
      BY <2>2, <2>3, FS_EmptySet
    <2> QED
      BY <1>4, <2>4
  <1>6. CASE next_marked = 0
    <2>1. Marked = {}
      <3>1. 0 \notin 1 .. nlines
        OBVIOUS
      <3> QED
        BY <1>0, <1>6, <3>1, NextMarkedProp
    <2>2. nlines = Len(lines) /\ lines \in Seq(Line)
      BY <1>0, Parts
    <2>3. Ids(lines) \cap g.gmark = {}
      BY <2>1, <2>2 DEF Marked, Ids
    <2> QED
      BY <1>4, <2>3
  <1> QED
    BY <1>3, <1>5, <1>6

-----------------------------------------------------------------------------
(* The theorems.                                                           *)

THEOREM EdInvTheorem == EdSpec => []EdInv
  <1>1. EdInit => EdInv
    BY EdInitInv
  <1>2. EdInv /\ [EdNext]_edVars => EdInv'
    BY EdStepInv
  <1> QED
    BY <1>1, <1>2, PTL DEF EdSpec

\* For every number of lines and of commands, whatever the commands, their addresses, and
\* the interrupts and hangups between them: the current line is in the buffer, u takes
\* back the last change, and a changed buffer is not left without a warning or a file.
THEOREM EdTheorem == EdSpec => []EdUndoes
  <1>1. EdInv => EdUndoes
    BY DEF EdInv, EdUndoes
  <1> QED
    BY <1>1, EdInvTheorem, PTL

\* A global command that neither fails nor is cut short has come to every line that
\* matched when it began and is still in the buffer, whatever its commands did to them.
THEOREM GlobalTheorem == EdSpec => GlobalComplete
  <1>1. EdInv /\ [EdNext]_edVars => [Completes]_edVars
    BY CompletesStep
  <1>2. []EdInv /\ [][EdNext]_edVars => [][Completes]_edVars
    BY <1>1, PTL
  <1> QED
    BY <1>2, EdInvTheorem DEF EdSpec, GlobalComplete
===============================================================================
