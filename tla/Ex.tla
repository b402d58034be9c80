----------------------------------- MODULE Ex -----------------------------------
(***************************************************************************)
(* ex: the edit buffer and the log that undo runs backwards; the current   *)
(* path and the checks before a buffer is replaced, written or left; the   *)
(* recovery files, over several sessions, hangups and full disks.  A line  *)
(* has an identity, which marks and global follow, and a text; blanks that *)
(* j adds, patterns other than a letter and messages are left out.         *)
(***************************************************************************)
EXTENDS Integers, SequencesExt

CONSTANTS
  Files,       \* the argument list, a sequence of names
  Contents,    \* what the files can hold at the beginning: sequences of texts
  MaxCommands, \* bound: commands, of all sessions together
  MaxEdits,    \* bound: commands, where only lines are edited
  MaxSessions, \* bound
  MaxFull,     \* bound: writes that fail because the disk is full
  MaxLines     \* bound: lines of the buffer

ExBounds == {MaxCommands, MaxEdits, MaxSessions, MaxFull, MaxLines} \subseteq Nat

VARIABLES
  buf,       \* lines, cur, the registers, the log of undo (ops, fresh: need_new), modified, the next line's identity
  ses,       \* the session: current path, recovery files, options
  disk,      \* the files
  recs,      \* the recovery files
  expc,      \* "command", "text" or "gone"
  textat,    \* in "text": the line to append after, and whether one was added
  got_hup,
  did, sessions, fulls, focus,  \* commands, sessions, full disks; what this behaviour is about
  undone,    \* history: the lines before the last group of changes
  saved,     \* history: the texts last loaded or written as a whole, and the file that has them or "lost"
  preserved  \* history: what has been preserved and not been written since

nlines(b) == Len(b.lines)
TextsOf(lines) == [i \in DOMAIN lines |-> lines[i].t]
Range1(b) == {r \in (1..nlines(b)) \X (1..nlines(b)) : r[1] <= r[2]}
Spliced(lines, after, new) == SubSeq(lines, 1, after) \o new \o SubSeq(lines, after + 1, Len(lines))
Without(lines, from, to) == SubSeq(lines, 1, from - 1) \o SubSeq(lines, to + 1, Len(lines))

--------------------------------------------------------------------------------
(* buf.c.  The log records each operation; a group begins when the first   *)
(* change of a command finds fresh set.                                    *)

Logged(b, type, at, n, lines) ==
  LET op == [type |-> type, at |-> at, n |-> n, lines |-> lines]
  IN [b EXCEPT !.ops = IF b.fresh THEN <<op>> ELSE Append(@, op), !.fresh = FALSE, !.modified = TRUE]

buf_insert(b, after, texts) ==
  LET new == [i \in DOMAIN texts |-> [id |-> b.next + i, t |-> texts[i]]]
  IN IF texts = <<>> THEN b
     ELSE Logged([b EXCEPT !.lines = Spliced(@, after, new), !.next = @ + Len(texts)], "ins", after, Len(texts), <<>>)

buf_delete(b, from, to) ==
  IF to < from THEN b
  ELSE Logged([b EXCEPT !.lines = Without(@, from, to)], "del", from - 1, to - from + 1, SubSeq(b.lines, from, to))

buf_move(b, a1, a2, dest) ==
  LET moved == SubSeq(b.lines, a1, a2)
      after == IF dest < a1 THEN dest ELSE dest - Len(moved)
      cut == Logged([b EXCEPT !.lines = Without(@, a1, a2)], "del", a1 - 1, Len(moved), moved)
  IN Logged([cut EXCEPT !.lines = Spliced(@, after, moved)], "ins", after, Len(moved), <<>>)

\* A line that the last operation of the group has changed is in the log already.
SavedAlreadyAny(b, i) == ~b.fresh /\ b.ops # <<>> /\ Last(b.ops).type = "chg" \* mutant: whichever line that was
SavedAlready(b, i) == ~b.fresh /\ b.ops # <<>> /\ Last(b.ops).type = "chg" /\ Last(b.ops).at = i
buf_change(b, i, text) ==
  LET new == [b EXCEPT !.lines[i].t = text, !.modified = TRUE]
  IN IF SavedAlready(b, i) THEN new ELSE Logged(new, "chg", i, 1, <<b.lines[i]>>)

\* One operation undone; what undoes it is logged.
Reversed(b, op) ==
  CASE op.type = "ins" -> buf_delete(b, op.at + 1, op.at + op.n)
    [] op.type = "del" -> Logged([b EXCEPT !.lines = Spliced(@, op.at, op.lines)], "ins", op.at, op.n, <<>>)
    [] op.type = "chg" -> Logged([b EXCEPT !.lines[op.at].t = op.lines[1].t], "chg", op.at, 1, <<b.lines[op.at]>>)

do_undo(b) ==
  LET touched == {op.at + (IF op.type = "del" THEN 1 ELSE 0) : op \in {o \in ToSet(b.ops) : o.type # "ins"}}
      deleted == {op.at : op \in {o \in ToSet(b.ops) : o.type = "ins"}}
      Least(S) == CHOOSE x \in S : \A y \in S : x <= y
      r == [FoldRight(LAMBDA op, acc : Reversed(acc, op), b.ops, [b EXCEPT !.ops = <<>>, !.fresh = FALSE]) EXCEPT !.fresh = TRUE]
      At(S) == S # {} /\ Least(S) \in 1..nlines(r)
  IN [r EXCEPT !.cur = IF At(touched) THEN Least(touched) ELSE IF At(deleted) THEN Least(deleted)
                       ELSE IF nlines(r) > 0 THEN 1 ELSE 0]

line_of_id(b, id) == IF \E i \in DOMAIN b.lines : b.lines[i].id = id THEN CHOOSE i \in DOMAIN b.lines : b.lines[i].id = id ELSE 0

\* The unnamed buffer has what was stored last; "A" appends to "a".
reg_store_lines(b, reg, from, to) ==
  LET new == TextsOf(SubSeq(b.lines, from, to))
      named == IF reg = "A" THEN b.a \o new ELSE new
  IN IF reg = "" THEN [b EXCEPT !.unnamed = new] ELSE [b EXCEPT !.a = named, !.unnamed = named]

--------------------------------------------------------------------------------
(* cmds.c.  Each command gives the buffer, or Err.                         *)

Err == [err |-> TRUE]
Failed(b) == "err" \in DOMAIN b
AtLine(b, l) == [b EXCEPT !.cur = l]

c_delete(b, a1, a2, reg) ==
  LET r == buf_delete(reg_store_lines(b, reg, a1, a2), a1, a2) IN AtLine(r, IF a1 <= nlines(r) THEN a1 ELSE nlines(r))
c_put(b, a1, reg) ==
  LET text == IF reg = "a" THEN b.a ELSE b.unnamed IN IF text = <<>> THEN Err ELSE AtLine(buf_insert(b, a1, text), a1 + Len(text))
c_copy(b, a1, a2, dest) == AtLine(buf_insert(b, dest, TextsOf(SubSeq(b.lines, a1, a2))), dest + a2 - a1 + 1)
c_move(b, a1, a2, dest) ==
  IF dest \in a1..a2 THEN Err ELSE AtLine(buf_move(b, a1, a2, dest), IF dest < a1 THEN dest + a2 - a1 + 1 ELSE dest)
join_lines(b, a, z) == buf_delete(buf_change(b, a, FlattenSeq(TextsOf(SubSeq(b.lines, a, z)))), a + 1, z)
c_join(b, a1, a2) ==
  LET last == IF a1 = a2 THEN a2 + 1 ELSE a2 IN IF last > nlines(b) THEN Err ELSE AtLine(join_lines(b, a1, last), a1)

\* Each line with an x is changed; a newline in the replacement splits it, and the lines that follow move down.
Pieces(t, repl) ==
  LET i == CHOOSE k \in DOMAIN t : t[k] = "x" /\ \A j \in 1..(k - 1) : t[j] # "x"
      head == SubSeq(t, 1, i - 1)  rest == SubSeq(t, i + 1, Len(t))
  IN IF repl = "nl" THEN <<head, rest>> ELSE <<head \o <<repl>> \o rest>>
Matches(t) == \E i \in DOMAIN t : t[i] = "x"
Substituted(acc, repl) ==
  LET l == acc.l
      p == Pieces(acc.b.lines[l].t, repl)
  IN IF ~Matches(acc.b.lines[l].t) THEN [acc EXCEPT !.l = l + 1]
     ELSE [b |-> buf_insert(buf_change(acc.b, l, p[1]), l, Tail(p)), l |-> l + Len(p), last |-> l + Len(p) - 1]
subst(b, a1, a2, repl, in_global) ==
  LET r == FoldLeft(LAMBDA acc, i : Substituted(acc, repl), [b |-> b, l |-> a1, last |-> 0], [i \in 1..(a2 - a1 + 1) |-> i])
  IN IF r.last = 0 THEN IF in_global THEN b ELSE Err ELSE AtLine(r.b, r.last)

c_undo(b, in_global) == IF in_global \/ b.ops = <<>> THEN Err ELSE do_undo(b)
c_read(b, after, file) ==
  IF ~file.there THEN Err
  ELSE LET r == FoldLeft(LAMBDA acc, i : buf_insert(acc, after + i - 1, <<file.lines[i]>>), b, [i \in DOMAIN file.lines |-> i])
       IN IF file.lines = <<>> THEN b ELSE AtLine(r, after + Len(file.lines))
\* The command the lines go through puts the last one first.
filter_lines(b, a1, a2) ==
  LET out == Reverse(TextsOf(SubSeq(b.lines, a1, a2)))
      cut == buf_delete(reg_store_lines(b, "", a1, a2), a1, a2)
  IN AtLine(FoldLeft(LAMBDA acc, i : buf_insert(acc, a1 + i - 2, <<out[i]>>), cut, [i \in DOMAIN out |-> i]), a2)

Sub(b, cmd) ==
  CASE cmd = "d" -> c_delete(b, b.cur, b.cur, "")
    [] cmd = "dA" -> c_delete(b, b.cur, b.cur, "A")
    [] cmd = "-d" -> IF b.cur = 1 THEN Err ELSE c_delete(b, b.cur - 1, b.cur - 1, "")
    [] cmd = "m0" -> c_move(b, b.cur, b.cur, 0)
    [] cmd = "t$" -> c_copy(b, b.cur, b.cur, nlines(b))
    [] cmd = "j" -> c_join(b, b.cur, b.cur)
    [] cmd = "s" -> subst(b, b.cur, b.cur, "nl", TRUE)
    [] cmd = "u" -> c_undo(b, TRUE)
SubCommands == {"d", "dA", "-d", "m0", "t$", "j", "s", "u"}

\* The lines are marked first; the command runs on each that is still there, until one fails.
Marked(b, inverse) == SelectSeq(b.lines, LAMBDA line : Matches(line.t) # inverse)
GlobalStep(acc, id, cmd) ==
  LET l == line_of_id(acc.b, id)
      r == Sub(AtLine(acc.b, l), cmd)
  IN IF acc.stop \/ l = 0 THEN acc ELSE IF Failed(r) THEN [b |-> AtLine(acc.b, l), stop |-> TRUE] ELSE [b |-> r, stop |-> FALSE]
c_global(b, inverse, cmd) ==
  FoldLeft(LAMBDA acc, line : GlobalStep(acc, line.id, cmd), [b |-> b, stop |-> FALSE], Marked(b, inverse)).b

--------------------------------------------------------------------------------
(* exfile.c: files and recovery files.                                     *)

Empty == [lines |-> <<>>, cur |-> 0, unnamed |-> <<>>, a |-> <<>>, ops |-> <<>>, fresh |-> TRUE, modified |-> FALSE, next |-> 0]
LinesOf(texts) == [i \in DOMAIN texts |-> [id |-> i, t |-> texts[i]]]
\* buf_reset and buf_load_line, with the registers kept.
Loaded(b, texts) ==
  [Empty EXCEPT !.lines = LinesOf(texts), !.cur = Len(texts), !.next = Len(texts), !.unnamed = b.unnamed, !.a = b.a]
Truncated(texts) == {SubSeq(texts, 1, k) : k \in 0..(Len(texts) - 1)}

\* The most recent of a path; of several of one second, the greatest name.
Best(path) ==
  LET of == {r \in recs : r.path = path}
  IN CHOOSE r \in of : \A o \in of : r.when > o.when \/ (r.when = o.when /\ r.name >= o.name)
recover_available(path) == \E r \in recs : r.path = path

\* edit_file: the buffer is replaced; -r recovers a file the first time it is edited.
OnRequest(path, s) == s.r /\ path \notin s.edited /\ recover_available(path)
edit_file(path, s, d, rec) ==
  LET texts == IF rec THEN Best(path).lines ELSE IF d[path].there THEN d[path].lines ELSE <<>>
  IN /\ buf' = [Loaded(buf, texts) EXCEPT !.modified = rec]
     /\ ses' = [s EXCEPT !.path = path, !.renamed = FALSE, !.edited = @ \cup {path},
                         !.rec = IF rec THEN Best(path).name ELSE @,
                         !.moved = @ \/ (path # s.path /\ (s.pres # 0 \/ s.rec # 0))]
     /\ saved' = [texts |-> texts, where |-> path]
     /\ undone' = <<>>

\* file_write when all of it is written: the recovery files of a whole buffer are obsolete.
Written(path, texts, append, whole, d) ==
  [d EXCEPT ![path] = [there |-> TRUE, lines |-> IF append THEN @.lines \o texts ELSE texts]]
ObsoleteSoon(path, append, whole) == ~append /\ path = ses.path \* mutant: after a part, too
Obsolete(path, append, whole) == whole /\ ~append /\ path = ses.path
recover_cleanup(path, append, whole) ==
  IF Obsolete(path, append, whole) THEN {r \in recs : r.name \notin {ses.pres, ses.rec}} ELSE recs
AfterWrite(path, append, whole) ==
  IF Obsolete(path, append, whole) THEN [ses EXCEPT !.pres = 0, !.rec = 0, !.renamed = FALSE] ELSE ses
StillPreserved(path, append, whole) ==
  IF whole /\ ~append /\ path = ses.path THEN {p \in preserved : (p.path # path /\ ~ses.moved) \/ p.name \notin {ses.pres, ses.rec}} ELSE preserved
Complete(append, whole) == whole /\ ~append

Overwritten(path) == [saved EXCEPT !.where = IF @ = path THEN "lost" ELSE @]

file_write(path, a1, a2, append, whole) ==
  LET texts == TextsOf(SubSeq(buf.lines, a1, a2))
  IN \/ /\ disk' = Written(path, texts, append, whole, disk)
        /\ recs' = recover_cleanup(path, append, whole)
        /\ buf' = IF Complete(append, whole) THEN [buf EXCEPT !.modified = FALSE] ELSE buf
        /\ ses' = AfterWrite(path, append, whole)
        /\ saved' = IF Complete(append, whole) THEN [texts |-> texts, where |-> path] ELSE Overwritten(path)
        /\ preserved' = StillPreserved(path, append, whole)
        /\ UNCHANGED fulls
     \/ \* The disk is full; the file has been truncated.
        /\ fulls < MaxFull /\ texts # <<>> /\ fulls' = fulls + 1
        /\ \E part \in Truncated(texts) : disk' = Written(path, part, append, whole, disk)
        /\ saved' = Overwritten(path)
        /\ UNCHANGED <<recs, buf, ses, preserved>>

--------------------------------------------------------------------------------
(* The session.                                                            *)

Command == expc = "command" /\ ~got_hup /\ did < (IF focus = "lines" THEN MaxEdits ELSE MaxCommands) /\ did' = did + 1
Quiet == UNCHANGED <<expc, textat, got_hup, sessions, focus>>
FilesSame == UNCHANGED <<disk, recs, fulls, saved, preserved>>
NotQuitting(s) == [s EXCEPT !.quitting = FALSE]

\* exec_one: the first change of the command begins a group.
Changes(r) ==
  /\ ~Failed(r) => nlines(r) <= MaxLines
  /\ buf' = IF Failed(r) THEN buf ELSE r
  /\ undone' = IF Failed(r) \/ r.fresh THEN undone ELSE buf.lines
  /\ ses' = NotQuitting(ses) /\ FilesSame /\ Quiet
undo_open(b) == [b EXCEPT !.fresh = TRUE]

EditLines ==
  /\ Command
  /\ LET b == undo_open(buf) IN
     \/ \E r \in Range1(buf) :
          \/ \E reg \in {"", "a", "A"} : Changes(c_delete(b, r[1], r[2], reg))
          \/ r[1] = 1 /\ \E dest \in 0..nlines(b) : Changes(c_copy(b, r[1], r[2], dest))
          \/ \E dest \in 0..nlines(b) : Changes(c_move(b, r[1], r[2], dest))
          \/ Changes(c_join(b, r[1], r[2]))
          \/ r[2] = nlines(b) /\ \E repl \in {"nl", "y"} : Changes(subst(b, r[1], r[2], repl, FALSE))
          \/ Changes(filter_lines(b, r[1], r[2]))
     \/ \E a \in 0..nlines(b), reg \in {"", "a"} : Changes(c_put(b, a, reg))
     \/ \E a \in 0..nlines(b), f \in DOMAIN disk : Changes(c_read(b, a, disk[f]))
     \/ \E inverse \in BOOLEAN, cmd \in SubCommands : nlines(b) > 0 /\ Changes(c_global(b, inverse, cmd))

Undo ==
  /\ Command
  /\ LET r == c_undo(buf, FALSE) IN buf' = (IF Failed(r) THEN buf ELSE r) /\ undone' = IF Failed(r) THEN undone ELSE buf.lines
  /\ ses' = NotQuitting(ses) /\ FilesSame /\ Quiet

Places == IF focus = "lines" THEN 0..nlines(buf) ELSE {nlines(buf)}
Replaced == IF focus = "lines" THEN Range1(buf) ELSE {r \in Range1(buf) : r = <<1, nlines(buf)>>}
\* append and change: the lines follow one by one.
BeginText ==
  /\ Command /\ expc' = "text"
  /\ \/ \E a \in Places : buf' = undo_open(buf) /\ textat' = [after |-> a, added |-> FALSE]
     \/ \E r \in Replaced : /\ buf' = buf_delete(reg_store_lines(undo_open(buf), "", r[1], r[2]), r[1], r[2])
                               /\ textat' = [after |-> r[1] - 1, added |-> FALSE]
  /\ undone' = IF buf'.lines # buf.lines THEN buf.lines ELSE undone
  /\ ses' = NotQuitting(ses) /\ FilesSame /\ UNCHANGED <<got_hup, sessions, focus>>
TextLine ==
  /\ expc = "text" /\ ~got_hup /\ nlines(buf) < MaxLines
  /\ buf' = AtLine(buf_insert(buf, textat.after, <<<<"y">>>>), textat.after + 1)
  /\ textat' = [after |-> textat.after + 1, added |-> TRUE]
  /\ undone' = IF buf.fresh THEN buf.lines ELSE undone
  /\ UNCHANGED <<ses, expc, did, got_hup, sessions, focus>> /\ FilesSame
\* A dot, an interrupt; the end of the input, which is what a hangup looks like when no terminal reads on.
TextEnd ==
  /\ expc = "text" /\ (got_hup => ~ses.interactive)
  /\ expc' = "command"
  /\ LET after == textat.after IN
     buf' = IF textat.added THEN buf ELSE AtLine(buf, IF after >= 1 THEN after ELSE IF nlines(buf) > 0 THEN 1 ELSE 0)
  /\ UNCHANGED <<ses, textat, got_hup, did, sessions, focus, undone>> /\ FilesSame

Edit ==
  /\ Command
  /\ \E path \in DOMAIN disk, bang \in BOOLEAN :
       IF ~bang /\ buf.modified THEN UNCHANGED <<buf, saved, undone>> /\ ses' = NotQuitting(ses) ELSE edit_file(path, NotQuitting(ses), disk, OnRequest(path, ses))
  /\ UNCHANGED <<disk, recs, fulls, preserved>> /\ Quiet

\* next, with autowrite.
Writable == ~(ses.renamed /\ disk[ses.path].there)
NextFile ==
  /\ Command /\ ses.arg < Len(Files)
  /\ LET s == [NotQuitting(ses) EXCEPT !.arg = @ + 1]
         written == Written(ses.path, TextsOf(buf.lines), FALSE, TRUE, disk)
     IN IF ~buf.modified THEN edit_file(Files[s.arg], s, disk, OnRequest(Files[s.arg], s)) /\ UNCHANGED <<disk, recs, preserved>>
        ELSE IF ses.autowrite /\ Writable
        THEN LET after == [AfterWrite(ses.path, FALSE, TRUE) EXCEPT !.arg = s.arg, !.quitting = FALSE] IN
             /\ disk' = written /\ recs' = recover_cleanup(ses.path, FALSE, TRUE)
             /\ preserved' = StillPreserved(ses.path, FALSE, TRUE)
             /\ edit_file(Files[s.arg], after, written, OnRequest(Files[s.arg], s))
        ELSE UNCHANGED <<buf, disk, recs, preserved, saved, undone>> /\ ses' = NotQuitting(ses)
  /\ UNCHANGED fulls /\ Quiet

c_file ==
  /\ Command /\ \E path \in DOMAIN disk : ses' = [NotQuitting(ses) EXCEPT !.path = path, !.renamed = TRUE,
                                                      !.moved = @ \/ (path # ses.path /\ (ses.pres # 0 \/ ses.rec # 0))]
  /\ UNCHANGED <<buf, undone>> /\ FilesSame /\ Quiet

\* do_write: the checks, unless the file is new, appended to, or forced.
Refused(path, specified, append, bang, whole) ==
  /\ ~append /\ ~bang /\ disk[path].there
  /\ \/ specified /\ path # ses.path
     \/ path = ses.path /\ ses.renamed
     \/ ~whole
Write ==
  /\ Command
  /\ \E path \in DOMAIN disk, a1 \in {1, 2}, append \in BOOLEAN, bang \in BOOLEAN :
       LET whole == nlines(buf) = 0 \/ a1 <= 1 IN
       /\ a1 = 1 \/ nlines(buf) >= 2
       /\ IF Refused(path, path # ses.path, append, bang, whole) THEN UNCHANGED <<buf, ses, disk, recs, fulls, saved, preserved>>
          ELSE file_write(path, a1, nlines(buf), append, whole)
  /\ UNCHANGED undone /\ Quiet

Gone == expc' = "gone" /\ UNCHANGED <<textat, sessions, focus, disk, fulls, saved, undone, buf>>
Quit ==
  /\ Command
  /\ \E bang \in BOOLEAN :
       IF ~bang /\ (buf.modified \/ (ses.arg < Len(Files) /\ ~ses.quitting))
       THEN ses' = [ses EXCEPT !.quitting = TRUE] /\ UNCHANGED <<buf, undone>> /\ FilesSame /\ Quiet
       ELSE Gone /\ ses' = [ses EXCEPT !.forced = bang] /\ UNCHANGED <<recs, preserved, got_hup>>

\* preserve_buffer: the session's one recovery file is made, or written again.
preserve_buffer(new, when) ==
  LET name == IF ses.pres = 0 THEN new ELSE ses.pres
      others == {r \in recs : r.name # name}
      texts == TextsOf(buf.lines)
      File(part) == [name |-> name, path |-> ses.path, when |-> when, lines |-> part]
  IN /\ ses' = [ses EXCEPT !.pres = name, !.quitting = FALSE]
     /\ \/ /\ recs' = others \cup {File(texts)} /\ UNCHANGED fulls
           /\ preserved' = {p \in preserved : p.name # name} \cup {[name |-> name, path |-> ses.path, lines |-> texts]}
        \/ \* Nobody looks at what write returns.
           /\ fulls < MaxFull /\ texts # <<>> /\ fulls' = fulls + 1
           /\ \E part \in Truncated(texts) : recs' = others \cup {File(part)}
           /\ preserved' = {p \in preserved : p.name # name}
Unused == 1..(MaxSessions + 1) \ {r.name : r \in recs}

Preserve ==
  /\ Command /\ \E name \in Unused, when \in 1..2 : (\A r \in recs : when >= r.when) /\ preserve_buffer(name, when)
  /\ UNCHANGED <<buf, disk, saved, undone>> /\ Quiet

Recover ==
  /\ Command
  /\ \E path \in DOMAIN disk, bang \in BOOLEAN :
       IF ~bang /\ buf.modified THEN UNCHANGED <<buf, saved, undone>> /\ ses' = NotQuitting(ses)
       ELSE edit_file(path, NotQuitting(ses), disk, recover_available(path))
  /\ UNCHANGED <<disk, recs, fulls, preserved>> /\ Quiet

--------------------------------------------------------------------------------

\* SIGHUP or SIGTERM, at any time: the loop looks at it before it reads a command.
Hangup == expc # "gone" /\ ~got_hup /\ got_hup' = TRUE /\ UNCHANGED <<buf, ses, disk, recs, expc, textat, did, sessions, fulls, focus,
                                                                     undone, saved, preserved>>
hup_exit ==
  /\ expc = "command" /\ got_hup
  /\ IF buf.modified THEN \E name \in Unused, when \in 1..2 : (\A r \in recs : when >= r.when) /\ preserve_buffer(name, when)
     ELSE UNCHANGED <<ses, recs, preserved, fulls>>
  /\ expc' = "gone" /\ UNCHANGED <<buf, disk, got_hup, textat, did, sessions, focus, saved, undone>>

Opened(path, r) ==
  [path |-> path, renamed |-> FALSE, pres |-> 0, rec |-> 0, r |-> r, edited |-> {}, arg |-> 1, quitting |-> FALSE,
   autowrite |-> FALSE, interactive |-> TRUE, moved |-> FALSE, forced |-> FALSE]
Reopen ==
  /\ expc = "gone" /\ sessions < MaxSessions /\ sessions' = sessions + 1
  /\ \E r \in BOOLEAN, tty \in BOOLEAN :
       LET s == [Opened(Files[1], r) EXCEPT !.autowrite = tty, !.interactive = tty]
           rec == r /\ recover_available(Files[1])
           texts == IF rec THEN Best(Files[1]).lines ELSE IF disk[Files[1]].there THEN disk[Files[1]].lines ELSE <<>>
       IN /\ buf' = [Loaded(Empty, texts) EXCEPT !.modified = rec]
          /\ ses' = [s EXCEPT !.edited = {Files[1]}, !.rec = IF rec THEN Best(Files[1]).name ELSE 0]
          /\ saved' = [texts |-> texts, where |-> Files[1]]
  /\ expc' = "command" /\ got_hup' = FALSE /\ undone' = <<>>
  /\ UNCHANGED <<did, disk, recs, textat, fulls, focus, preserved>>

ExInit ==
  /\ focus \in {"lines", "files"}
  /\ disk \in [ToSet(Files) -> [there : {TRUE}, lines : Contents]]
  /\ focus = "files" => \A f \in DOMAIN disk : Len(disk[f].lines) = 2
  /\ recs = {} /\ preserved = {} /\ fulls = 0 /\ sessions = 1 /\ did = 0 /\ got_hup = FALSE
  /\ expc = "command" /\ textat = [after |-> 0, added |-> FALSE]
  /\ \E tty \in BOOLEAN : /\ tty => focus = "files"
                          /\ ses = [Opened(Files[1], FALSE) EXCEPT !.autowrite = tty, !.interactive = tty, !.edited = {Files[1]}]
  /\ buf = Loaded(Empty, disk[Files[1]].lines)
  /\ saved = [texts |-> disk[Files[1]].lines, where |-> Files[1]] /\ undone = <<>>

exvars == <<buf, ses, disk, recs, expc, textat, got_hup, did, sessions, fulls, focus, undone, saved, preserved>>

Session == Edit \/ NextFile \/ c_file \/ Write \/ Quit \/ Preserve \/ Recover \/ Hangup \/ hup_exit \/ Reopen
OneLine == Command /\ nlines(buf) > 0 /\ Changes(c_delete(undo_open(buf), 1, 1, ""))
ExNext ==
  \/ Undo \/ BeginText \/ TextLine \/ TextEnd
  \/ focus = "lines" /\ EditLines
  \/ focus = "files" /\ (OneLine \/ Session)

\* The editor goes on by itself when it has been hung up.
ExSpec == ExInit /\ [][ExNext]_exvars /\ WF_exvars(hup_exit) /\ WF_exvars(TextEnd /\ got_hup)

--------------------------------------------------------------------------------
(* Properties.                                                             *)

\* Undo gives back the lines, with their identities, as they were before the last command that changed any, whatever
\* that command was, and a second undo gives back the others (buf.c: do_undo).
UndoExact ==
  (expc = "command" /\ buf.ops # <<>>) =>
    LET r == do_undo(buf) IN r.lines = undone /\ do_undo(r).lines = buf.lines

\* Between commands the current line is a line of the buffer (cmds.c sets cur in every command).
CurInRange == expc = "command" => IF nlines(buf) > 0 THEN buf.cur \in 1..nlines(buf) ELSE buf.cur = 0

\* A buffer that can be left without ! is in a file, as long as that file is not written over in part by force or by a
\* write that failed (exfile.c: modified).
NothingDiscarded ==
  /\ ~buf.modified => TextsOf(buf.lines) = saved.texts /\ (saved.where # "lost" => disk[saved.where].lines = saved.texts)
  /\ expc = "gone" /\ ~ses.forced /\ ~got_hup => ~buf.modified

\* What has been preserved can be recovered until the file it belongs to has been written, when the session that holds
\* it stays with that file (exfile.c: preserve_buffer, recover_cleanup).
Recoverable == \A p \in preserved : p \in {[name |-> r.name, path |-> r.path, lines |-> r.lines] : r \in recs}

\* vi/README.md: SIGHUP and SIGTERM preserve a modified buffer (and end the editor).  In text that is typed at a terminal
\* they do not: what src_tty_get makes of the end of the input is a control-D, and text_input asks again.
HangupEnds == got_hup ~> (expc = "gone")
================================================================================
