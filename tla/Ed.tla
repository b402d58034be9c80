----------------------------------- MODULE Ed -----------------------------------
(***************************************************************************)
(* ed: the buffer, the current line, undo, the "modified" state, and the   *)
(* global commands, which run other commands on lines that those commands  *)
(* move, change and delete; interrupts and hangups at the points where ed  *)
(* looks for them.                                                         *)
(*                                                                         *)
(* A line is a number and whether the regular expression of the moment     *)
(* matches it.  A command is its outcomes; addresses are line numbers.     *)
(***************************************************************************)
EXTENDS Naturals, Sequences, FiniteSets

CONSTANTS
  MaxLines,     \* bound: lines ever made
  MaxCommands   \* bound: commands given

ASSUME EdBounds == MaxLines \in Nat \ {0, 1} /\ MaxCommands \in Nat

VARIABLES
  lines, cur, modified,
  made,       \* lines made so far
  u,          \* u_lines, u_cur and u_valid
  pc,         \* "command", "global", "quit" or "hangup"
  g,          \* the global command: gmark, pos and count; p_lines, p_cur and p_touched
  hup,        \* what ed.hup has
  commands,
  err,        \* history: the last command failed, or was cut short
  saved,      \* history: the buffer when a file was last read or written whole
  warned,     \* history: the buffer when ed last warned of it
  before,     \* history: the buffer before the last change, since e
  cut         \* history: the text of a c was cut short; u or e was in a global command

edVars == <<lines, cur, modified, made, u, pc, g, hup, commands, err, saved, warned, before, cut>>

Line == [id : 1..MaxLines, match : BOOLEAN]
Ids(ls) == {ls[i].id : i \in DOMAIN ls}
nlines == Len(lines)
Range1 == {r \in (1..nlines) \X (1..nlines) : r[1] <= r[2]}

NoUndo == [valid |-> FALSE, lines |-> <<>>, cur |-> 0]
State(ls, c) == [valid |-> TRUE, lines |-> ls, cur |-> c]
NoGlobal == [gmark |-> {}, pos |-> 0, count |-> 0, ran |-> TRUE, lines |-> <<>>, cur |-> 0,
             touched |-> FALSE, matched |-> {}, done |-> {}]
Uncut == [change |-> FALSE, odd |-> FALSE]

--------------------------------------------------------------------------------
(* The outcomes of the commands that edit. *)

Outcome(ls, c, new, touched, ok) ==
  [lines |-> ls, cur |-> c, made |-> made + new, touched |-> touched, ok |-> ok]
Changed(ls, c, new) == Outcome(ls, c, new, TRUE, TRUE)
Same(c) == Outcome(lines, c, 0, FALSE, TRUE)
Failed == Outcome(lines, cur, 0, FALSE, FALSE)

Inserted(ls, after, v) == SubSeq(ls, 1, after) \o v \o SubSeq(ls, after + 1, Len(ls))
Without(ls, r) == SubSeq(ls, 1, r[1] - 1) \o SubSeq(ls, r[2] + 1, Len(ls))

Made(n) == {[k \in 1..n |-> [id |-> made + k, match |-> f[k]]] : f \in [1..n -> BOOLEAN]}
Text == UNION {Made(n) : n \in {m \in 0..1 : made + m <= MaxLines}}

buf_insert(after, v) == IF v = <<>> THEN Same(after) ELSE Changed(Inserted(lines, after, v), after + Len(v), Len(v))

Append_(at) == {buf_insert(at, v) : v \in Text} \cup {Failed}
Insert(at) == {IF v = <<>> THEN Same(at) ELSE buf_insert(IF at > 0 THEN at - 1 ELSE 0, v) : v \in Text} \cup {Failed}

\* Interrupted in its text, c has deleted the lines and leaves the current line.
Change(r) ==
  LET rest == Without(lines, r)
      AfterNone == IF r[2] < nlines THEN r[1] ELSE Len(rest)
  IN {Changed(Inserted(rest, r[1] - 1, v), IF v = <<>> THEN AfterNone ELSE r[1] - 1 + Len(v), Len(v)) : v \in Text}
       \cup {IF pc = "command" THEN Outcome(rest, cur, 0, TRUE, FALSE) ELSE Failed}

Delete(r) ==
  LET rest == Without(lines, r)
  IN {Changed(rest, IF r[1] <= Len(rest) THEN r[1] ELSE Len(rest), 0)}

Join(r) ==
  {Changed(SubSeq(lines, 1, r[1] - 1) \o v \o SubSeq(lines, r[2] + 1, nlines), r[1], 1) :
     v \in {w \in Made(1) : r[1] < r[2] /\ made < MaxLines /\ w[1].match = (\E i \in r[1]..r[2] : lines[i].match)}}

Move(r, dest) ==
  LET n == r[2] - r[1] + 1
      to == IF dest > r[2] THEN dest - n ELSE dest
  IN IF dest >= r[1] /\ dest < r[2] THEN {Failed}
     ELSE IF dest \in {r[2], r[1] - 1} THEN {Changed(lines, r[2], 0)}
     ELSE {Changed(Inserted(Without(lines, r), to, SubSeq(lines, r[1], r[2])), to + n, 0)}

Copy(r, dest) ==
  LET n == r[2] - r[1] + 1
      v == [k \in 1..n |-> [id |-> made + k, match |-> lines[r[1] + k - 1].match]]
  IN IF made + n <= MaxLines THEN {Changed(Inserted(lines, dest, v), dest + n, n)} ELSE {}

\* The lines that match get new text; an interrupt leaves those not yet
\* reached, and the current line, as they were.
Substituted(r, f) == [i \in 1..nlines |-> IF i \in DOMAIN f THEN [id |-> made + f[i].k, match |-> f[i].match] ELSE lines[i]]
substitute(r) ==
  LET hit == {i \in r[1]..r[2] : lines[i].match}
      New(to) == {[i \in {j \in hit : j <= to} |-> [k |-> Cardinality({j \in hit : j <= i}), match |-> b]] : b \in BOOLEAN}
      n(f) == Cardinality(DOMAIN f)
  IN IF hit = {} THEN {IF pc = "global" THEN Same(cur) ELSE Failed}
     ELSE {Changed(Substituted(r, f), CHOOSE i \in hit : \A j \in hit : j <= i, n(f)) :
             f \in {e \in New(r[2]) : made + n(e) <= MaxLines}}
          \cup {Outcome(Substituted(r, f), cur, n(f), n(f) > 0, FALSE) :
             f \in {e \in UNION {New(to) : to \in (r[1] - 1)..(r[2] - 1)} : made + n(e) <= MaxLines}}

ReadIn(at) == {buf_insert(at, v) : v \in Text} \cup {Failed}

\* p, l, n, k, = and the null command; an address before ; stays set.
Address(at) == {Same(at), Failed}

Outcomes ==
  (UNION {Append_(at) \cup Insert(at) \cup ReadIn(at) : at \in 0..nlines})
    \cup (UNION {Change(r) \cup Delete(r) \cup Join(r) \cup substitute(r) : r \in Range1})
    \cup (UNION {UNION {Move(r, dest) \cup Copy(r, dest) : dest \in 0..nlines} : r \in Range1})
    \cup (UNION {Address(at) : at \in 1..nlines})

--------------------------------------------------------------------------------
(* A command, at the prompt or in the list of a global command. *)

MayRun == pc = "command" \/ (pc = "global" /\ g.pos > 0)
Given == commands < MaxCommands /\ commands' = commands + 1

\* Lines of a G for which no command is given are not counted.
Counted == [g EXCEPT !.ran = TRUE, !.count = IF g.ran THEN @ ELSE @ - 1]

\* undo_begin and undo_end.
Done(o) ==
  IF pc = "global"
  THEN /\ g' = [Counted EXCEPT !.touched = @ \/ o.touched]
       /\ UNCHANGED <<u, before>>
  ELSE /\ u' = IF o.touched THEN State(lines, cur) ELSE u
       /\ before' = IF o.touched \/ o.lines # lines THEN State(lines, cur) ELSE before
       /\ UNCHANGED g

\* What fails in a global command ends it.
Fails(o) == pc = "global" /\ ~o.ok

exec_command ==
  /\ MayRun /\ Given
  /\ \E o \in Outcomes :
       /\ lines' = o.lines /\ cur' = o.cur /\ made' = o.made /\ err' = ~o.ok
       /\ modified' = IF o.touched THEN 1 ELSE modified
       /\ pc' = IF Fails(o) THEN "ending" ELSE pc
       /\ cut' = [change |-> cut.change \/ (~o.ok /\ o.cur > Len(o.lines)),
                  odd |-> cut.odd /\ (pc = "global" \/ ~o.touched)]
       /\ Done(o)
  /\ UNCHANGED <<hup, saved, warned>>

\* u: the buffer and what u would restore change places.
undo ==
  /\ MayRun /\ Given /\ u.valid
  /\ lines' = u.lines /\ cur' = u.cur /\ modified' = 1 /\ err' = FALSE
  /\ u' = State(lines, cur)
  /\ IF pc = "global"
       THEN /\ g' = Counted
            /\ cut' = [cut EXCEPT !.odd = TRUE]
            /\ UNCHANGED before
       ELSE /\ before' = State(lines, cur)
            /\ cut' = [cut EXCEPT !.odd = FALSE] /\ UNCHANGED g
  /\ UNCHANGED <<made, pc, hup, saved, warned>>

\* w of the whole buffer; of a part of it, or a write that fails, changes nothing.
write_file ==
  /\ MayRun /\ Given
  /\ modified' = 0 /\ saved' = lines /\ err' = FALSE
  /\ g' = IF pc = "global" THEN Counted ELSE g
  /\ UNCHANGED <<lines, cur, made, u, pc, hup, warned, before, cut>>

Warns ==
  /\ modified = 1
  /\ modified' = 2 /\ warned' = lines /\ err' = TRUE
  /\ pc' = IF pc = "global" THEN "ending" ELSE pc
  /\ UNCHANGED <<lines, cur, made, u, g, hup, saved, before, cut>>

\* e, and E, which does not warn; the file may have nothing, or not be readable.
EditNow ==
  /\ \E v \in Text :
       /\ lines' = v /\ cur' = Len(v) /\ made' = made + Len(v) /\ saved' = v
       /\ g' = IF pc = "global" THEN [Counted EXCEPT !.touched = @ \/ v # <<>>] ELSE g
  /\ modified' = 0 /\ u' = NoUndo /\ before' = NoUndo /\ err' = FALSE
  /\ cut' = [cut EXCEPT !.odd = pc = "global"]
  /\ UNCHANGED <<pc, hup, warned>>
Edit == MayRun /\ Given /\ (Warns \/ (modified # 1 /\ EditNow))
EditAnyway == MayRun /\ Given /\ EditNow

QuitNow ==
  /\ pc' = "quit"
  /\ UNCHANGED <<lines, cur, modified, made, u, g, hup, err, saved, warned, before, cut>>
\* q, wq after a write of a part, and the end of the input.
Quit == MayRun /\ Given /\ (Warns \/ (modified # 1 /\ QuitNow))

--------------------------------------------------------------------------------
(* Global commands. *)

global ==
  /\ pc = "command" /\ Given /\ lines # <<>>
  /\ \E r \in Range1, invert \in BOOLEAN :
       LET hit == {lines[i].id : i \in {j \in r[1]..r[2] : lines[j].match # invert}}
       IN g' = [NoGlobal EXCEPT !.gmark = hit, !.matched = hit, !.count = Cardinality(hit),
                                !.lines = lines, !.cur = cur]
  /\ pc' = "global"
  /\ cut' = [cut EXCEPT !.odd = FALSE] /\ err' = FALSE
  /\ UNCHANGED <<lines, cur, modified, made, u, hup, saved, warned, before>>

Marked == {i \in 1..nlines : lines[i].id \in g.gmark}
Least(S) == CHOOSE i \in S : \A j \in S : i <= j
NextForward == IF \E i \in Marked : i >= g.pos THEN Least({i \in Marked : i >= g.pos}) ELSE 0
next_marked ==
  IF Marked = {} THEN 0
  ELSE LET further == {i \in Marked : i >= g.pos} IN Least(IF further # {} THEN further ELSE Marked)

NextLine ==
  /\ pc = "global" /\ g.count > 0 /\ next_marked > 0
  /\ cur' = next_marked
  /\ g' = [g EXCEPT !.gmark = @ \ {lines[next_marked].id}, !.pos = next_marked, !.ran = FALSE,
                    !.done = @ \cup {lines[next_marked].id}]
  /\ UNCHANGED <<lines, modified, made, u, pc, hup, commands, err, saved, warned, before, cut>>

UndoEndCur == u' = IF g.touched THEN State(g.lines, cur) ELSE NoUndo
undo_end_global == u' = IF g.touched THEN State(g.lines, g.cur) ELSE NoUndo

EndGlobal ==
  /\ \/ pc = "ending" /\ UNCHANGED err
     \/ pc = "global" /\ (g.count = 0 \/ next_marked = 0) /\ UNCHANGED err
     \/ pc = "global" /\ err' = TRUE     \* an interrupt, or the input of a G has ended
  /\ pc' = "command"
  /\ g' = NoGlobal
  /\ undo_end_global
  /\ before' = IF g.touched \/ lines # g.lines THEN State(g.lines, g.cur) ELSE NoUndo
  /\ UNCHANGED <<lines, cur, modified, made, hup, commands, saved, warned, cut>>

--------------------------------------------------------------------------------

\* Between commands: a changed buffer that has lines goes to ed.hup.
save_hup ==
  /\ pc = "command"
  /\ hup' = IF nlines > 0 /\ modified # 0 THEN lines ELSE hup
  /\ pc' = "hangup"
  /\ UNCHANGED <<lines, cur, modified, made, u, g, commands, err, saved, warned, before, cut>>

\* The file operand, of at most two lines.
EdInit ==
  /\ \E n \in 0..2 : \E f \in [1..n -> BOOLEAN] : lines = [k \in 1..n |-> [id |-> k, match |-> f[k]]]
  /\ cur = nlines /\ made = nlines /\ saved = lines
  /\ modified = 0 /\ u = NoUndo /\ pc = "command" /\ g = NoGlobal /\ hup = <<>>
  /\ commands = 0 /\ err = FALSE /\ warned = <<>> /\ before = NoUndo /\ cut = Uncut

EdNext ==
  \/ exec_command \/ undo \/ write_file \/ Edit \/ EditAnyway \/ Quit
  \/ global \/ NextLine \/ EndGlobal
  \/ save_hup

EdSpec == EdInit /\ [][EdNext]_edVars

--------------------------------------------------------------------------------

Numbers == 1..MaxLines
Undo == [valid : BOOLEAN, lines : Seq(Line), cur : Nat]
Global == [gmark : SUBSET Numbers, pos : Nat, count : Nat, ran : BOOLEAN, lines : Seq(Line), cur : Nat,
           touched : BOOLEAN, matched : SUBSET Numbers, done : SUBSET Numbers]

\* The type invariant.
EdTypeOK ==
  /\ {lines, hup, saved, warned} \subseteq Seq(Line) /\ cur \in Nat /\ modified \in 0..2 /\ made \in 0..MaxLines
  /\ {u, before} \subseteq Undo /\ g \in Global
  /\ pc \in {"command", "global", "ending", "quit", "hangup"}
  /\ commands \in 0..MaxCommands /\ err \in BOOLEAN /\ cut \in [change : BOOLEAN, odd : BOOLEAN]

\* The current line is a line of the buffer, or 0, also the one that u goes
\* back to: whatever was deleted, and wherever a command failed.  Only after a
\* c whose text was interrupted it may lie beyond the last line.
CurInRange == cut.change \/ (cur <= nlines /\ u.cur <= Len(u.lines))

\* u reverses the most recent change, another u included, with the current
\* line; a global command is one change, and after e, or a global command
\* that changed nothing, there is nothing to undo.  An e or a u in the list of
\* a global command is excepted.
UndoReverses == pc = "command" /\ ~cut.odd => u = before

\* A global command that is not cut short and does not fail has come to
\* every line that matched when it began and is still in the buffer, wherever
\* its commands have moved it.
Completes == pc = "global" /\ pc' = "command" /\ ~err' => Ids(lines) \cap g.matched \subseteq g.done
GlobalComplete == [][Completes]_edVars

\* What ed leaves behind at q, or when the line hangs up, is in a file, or ed
\* has warned of that very buffer.
NothingDiscarded ==
  /\ pc = "quit" => lines \in {saved, warned}
  /\ pc = "hangup" => lines \in {saved, hup, <<>>}

\* The current line exists; u takes the last change back, and a second u brings it
\* again; a changed buffer is not left without a warning.
EdUndoes == EdTypeOK /\ CurInRange /\ UndoReverses /\ NothingDiscarded

================================================================================
