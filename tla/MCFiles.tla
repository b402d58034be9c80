------------------------------- MODULE MCFiles -------------------------------
(* diff and patch on their files, and the walks of rm, mv and cp, for TLC.  A *)
(* behaviour is about one of them; the other's variables stay as they are.    *)
EXTENDS Patch

------------------------------------------------------------------------------
(* A patch is made of two files and applied to a third one, which is the old *)
(* file, the new one, or the old one changed meanwhile.                      *)

Elems(s) == {s[i] : i \in DOMAIN s}

CONSTANTS
  TooExpensive,   \* the passes of the search after which it is cut off, in two cases
  File            \* the name of the file that is patched

VARIABLES task, made

\* Short files, also without the last newline; and files whose lines differ.
Whole(s) == [i \in DOMAIN s |-> [t |-> s[i], nl |-> TRUE]]
Cut(f) == [f EXCEPT ![Len(f)].nl = FALSE]
Short(S, n) == {Whole(s) : s \in SeqOf(S, n)}
Dotted == LET fs == Short({"a", "."}, 3) IN fs \union {Cut(f) : f \in fs \ {<<>>}}
Pairs == (Short({"a", "b"}, 4) \X Short({"a", "b"}, 4)) \union (Dotted \X Dotted)
Formats == {<<"n", 0>>, <<"e", 0>>, <<"u", 0>>, <<"u", 1>>, <<"u", 3>>, <<"c", 1>>, <<"c", 3>>}
Plain == [operand |-> NoName, b |-> FALSE, R |-> FALSE, N |-> FALSE, D |-> FALSE, full |-> FALSE]

Headed(format) == format \in {"u", "c"}
Task(mode, p, f, cut, start, o) ==
  [mode |-> mode, old |-> p[1], new |-> p[2], format |-> f[1], context |-> f[2], cut |-> cut, start |-> start,
   opt |-> IF Headed(f[1]) THEN o ELSE [o EXCEPT !.operand = File]]
Made == {Task("new", p, f, cut, p[1], [Plain EXCEPT !.b = TRUE]) : p \in Pairs, f \in Formats, cut \in TooExpensive}
Back == {Task("back", p, f, 99, p[2], [Plain EXCEPT !.operand = File, !.R = TRUE]) :
           p \in Pairs, f \in {x \in Formats : x[1] # "e"}}
Both == {Task("both", p, f, 99, p[1], [Plain EXCEPT !.operand = File, !.D = TRUE]) :
           p \in Short({"a", "b"}, 3) \X Short({"a", "b"}, 3), f \in {<<"n", 0>>, <<"u", 1>>, <<"c", 1>>}}

\* Eight lines, of which one or two were replaced, deleted, or added before.
Eight == [i \in 1..8 |-> ToString(i)]
Edit(s, i, how) == CASE how = "d" -> SubSeq(s, 1, i - 1) \o SubSeq(s, i + 1, Len(s))
                     [] how = "c" -> [s EXCEPT ![i] = "new" \o @]
                     [] how = "a" -> SubSeq(s, 1, i - 1) \o <<"new" \o s[i]>> \o SubSeq(s, i, Len(s))
News == {Edit(Edit(Eight, j, g), i, h) : i \in {1, 2, 4}, j \in {6, 7, 8}, g \in {"d", "c", "a"}, h \in {"d", "c", "a"}}
Drifts == {<<>>} \union {<<i, h>> : i \in 1..8, h \in {"d", "c", "a"}}
Drifted(s, d) == IF d = <<>> THEN s ELSE CASE d[2] = "d" -> Edit(s, d[1], "d") [] d[2] = "c" -> [s EXCEPT ![d[1]] = "own"]
                                            [] d[2] = "a" -> SubSeq(s, 1, d[1] - 1) \o <<"own">> \o SubSeq(s, d[1], 8)
Wide == {<<"u", 3>>, <<"c", 3>>}
Apart == {[Task("apart", <<Whole(Eight), Whole(n)>>, f, 99, Whole(Drifted(Eight, d)), [Plain EXCEPT !.full = TRUE])
             EXCEPT !.mode = IF d = <<>> THEN "new" ELSE "apart"] : n \in News, d \in Drifts, f \in Wide}
\* Changes with three lines of context at each end: fuzz leaves one of them.
Inner == {Edit(Edit(Eight, 5, g), 4, h) : g \in {"d", "c", "a"}, h \in {"d", "c", "a"}}
Again == {Task("again", <<Whole(Eight), Whole(n)>>, f, 99, Whole(n), [Plain EXCEPT !.N = skip]) :
            n \in Inner, f \in {<<"u", 3>>, <<"c", 3>>}, skip \in BOOLEAN}

Tasks == {t \in Made \union Back \union Both \union Apart \union Again : t.old # t.new}
Missing == task.mode = "new" /\ task.old = <<>> /\ Headed(task.format)
Gone == task.mode = "new" /\ task.new = <<>> /\ Headed(task.format)

MCInit == /\ task \in Tasks
          /\ made = FALSE
          /\ files = IF Missing THEN <<>> ELSE File :> task.start
          /\ orig = <<>> /\ queue = <<>> /\ cur = Idle /\ rejects = <<>>
          /\ opt = task.opt /\ applied_any = FALSE /\ status = 0
Make == /\ ~made /\ made' = TRUE
        /\ queue' = <<[kind |-> task.format,
                       old |-> IF ~Headed(task.format) THEN NoName ELSE IF Missing THEN DevNull ELSE File,
                       new |-> IF ~Headed(task.format) THEN NoName ELSE IF Gone THEN DevNull ELSE File,
                       index |-> NoName,
                       hunks |-> Written(task.old, task.new, task.format, task.context, task.cut)]>>
        /\ UNCHANGED <<files, orig, cur, rejects, opt, applied_any, status, task>>
MCNext == Make \/ (PatchNext /\ UNCHANGED <<task, made>>)
MCSpec == MCInit /\ [][MCNext]_<<vars, task, made>>

-----------------------------------------------------------------------------
Over == made /\ Done
Result == files[File]
TextOf(f) == [i \in DOMAIN f |-> f[i].t]

\* diff.c: the edit script is minimal, unless the search was cut off.
LengthLCS(x, y) ==
  LET L[i \in 0..Len(x), j \in 0..Len(y)] ==
        IF i = 0 \/ j = 0 THEN 0
        ELSE IF x[i] = y[j] THEN L[i - 1, j - 1] + 1
        ELSE Larger(L[i - 1, j], L[i, j - 1])
  IN L[Len(x), Len(y)]
ScriptMinimal ==
  made /\ cur = Idle /\ queue # <<>> /\ task.cut = 99 =>
    LET c == find_changes(task.old, task.new, task.cut)
    IN FoldLeft(LAMBDA n, x : n + x.na + x.nb, 0, c)
         = Len(task.old) + Len(task.new) - 2 * LengthLCS(task.old, task.new)

\* patch.c: a patch made of two files turns the one into the other, whatever
\* the format, and with -R the other into the one; a file is made and removed.
\* An ed script has lost the missing newline, and what follows a line "." of
\* an addition.
OfEd == task.format = "e"
DotThenMore(x) == \E c \in Elems(find_changes(task.old, task.new, task.cut)) :
                    \E i \in (c.b + 1)..(c.b + c.nb - 1) : x[i].t = Dot
Reproduces ==
  /\ Over /\ task.mode = "new" /\ status < 2 /\ ~(OfEd /\ DotThenMore(task.new)) =>
       IF Gone THEN files = <<>>
       ELSE IF OfEd THEN TextOf(Result) = TextOf(task.new) ELSE Result = task.new
  /\ Over /\ task.mode = "new" => status \in {0, 2} /\ rejects = <<>>
  /\ Over /\ task.mode = "back" => Result = task.old /\ status = 0
  /\ Over /\ task.opt.b /\ ~Missing => orig = File :> task.start

\* patch.c, -D: the text with the name undefined is the old one, with it the new.
RECURSIVE Preprocessed(_, _, _)
Preprocessed(l, on, keep) ==
  IF l = <<>> THEN <<>>
  ELSE CASE l[1] = "#ifdef" -> Preprocessed(Tail(l), on, on)
         [] l[1] = "#ifndef" -> Preprocessed(Tail(l), on, ~on)
         [] l[1] = "#else" -> Preprocessed(Tail(l), on, ~keep)
         [] l[1] = "#endif" -> Preprocessed(Tail(l), on, TRUE)
         [] OTHER -> (IF keep THEN <<l[1]>> ELSE <<>>) \o Preprocessed(Tail(l), on, keep)
Versions == /\ Preprocessed(TextOf(Result), FALSE, TRUE) = TextOf(task.old)
            /\ Preprocessed(TextOf(Result), TRUE, TRUE) = TextOf(task.new)
OneChangeBoth == Over /\ task.mode = "both" /\ Len(find_changes(task.old, task.new, 99)) = 1 => Versions

\* A patch on the files it was made of, in each way.
OnItsFiles == Reproduces /\ OneChangeBoth

\* patch.c: on a file that was changed elsewhere, a patch that is not rejected
\* makes its changes and leaves that one.
Without(s, x) == SelectSeq(s, LAMBDA l : l # x)
Merges ==
  Over /\ task.mode = "apart" /\ rejects = <<>> /\ status = 0 /\ ~opt.R =>
    LET own == Without(TextOf(task.start), "own")
        lost == {x \in Elems(TextOf(task.old)) : x \notin Elems(own)}
    IN Without(TextOf(Result), "own") = SelectSeq(TextOf(task.new), LAMBDA l : l \notin lost)
       /\ ("own" \in Elems(TextOf(task.start)) => "own" \in Elems(TextOf(Result)))
\* A patch that was applied before changes nothing with -N, nor when the
\* question is answered with no; else it is taken back.
AppliedOnce ==
  Over /\ task.mode = "again" =>
    \/ Result = task.new /\ (opt.N \/ rejects # <<>>)
    \/ Result = task.old /\ opt.R

\* A patch on a file that is not the one it was made of.
OnOtherFiles == Merges /\ AppliedOnce

------------------------------------------------------------------------------
(* One behaviour for each.                                                   *)

VARIABLES part, tool, kind, ents, data, phase, stk, nopen, looked, res, moves, full, below, into, old

W == INSTANCE MCTreeWalk WITH Nodes <- 1..35, Source <- "t", Dest <- "c", MaxOpen <- 2, Partial <- 99, MaxMoves <- 1,
                              MaxFull <- 1

patchOnly == <<files, orig, queue, cur, rejects, applied_any, task>>
treeOnly == <<tool, kind, ents, data, phase, stk, nopen, looked, res, moves, full, below, into, old>>
all == <<part, opt, status, made, patchOnly, treeOnly>>

NoTree == /\ tool = 0 /\ kind = 0 /\ ents = 0 /\ data = 0 /\ phase = 0 /\ stk = 0 /\ nopen = 0 /\ looked = 0 /\ res = 0
          /\ moves = 0 /\ full = 0 /\ below = 0 /\ into = 0 /\ old = 0
NoPatch == files = 0 /\ orig = 0 /\ queue = 0 /\ cur = 0 /\ rejects = 0 /\ applied_any = 0 /\ task = 0

AllInit == (part = "patch" /\ MCInit /\ NoTree) \/ (part = "tree" /\ W!MCInit /\ NoPatch)
AllNext == \/ part = "patch" /\ MCNext /\ UNCHANGED <<part, treeOnly>>
           \/ part = "tree" /\ W!MCNext /\ UNCHANGED <<part, patchOnly>>
AllSpec == AllInit /\ [][AllNext]_all

\* No shorter script leads from the one file to the other than what diff finds.
Minimal == part = "patch" => ScriptMinimal

\* A patch leads from each of its files to the other, in every format; on a file that
\* was changed elsewhere its changes are made and those kept; it is applied once.
Patches == part = "patch" => OnItsFiles /\ OnOtherFiles

\* rm, mv and cp lose nothing that was not to be removed, and with status 0 have done
\* all of it (NothingLost and AllDone of MCTreeWalk: rm.c, mv.c, cp.c).
TreeKept == part = "tree" => W!NothingLost /\ W!AllDone

\* rm removes only what lies in the hierarchy, whoever moves it (Inside of MCTreeWalk).
OnlyInside == [][part = "tree" => W!Inside]_all
==============================================================================
