-------------------------------- MODULE Sed --------------------------------
(***************************************************************************)
(* sed (src/sed/sed.c): the script, the cycle, the two spaces, the queue   *)
(* of a and r, and the input with its one line of lookahead.               *)
(*                                                                         *)
(* A line is a sequence of characters, the pattern space too: NL is the    *)
(* newline in it.  A script is the sequence of its commands after the      *)
(* parsing of their words:                                                 *)
(*   [t |-> verb, a |-> addresses, neg |-> "!" given, x |-> <<t, argument>>]. *)
(* A file is a sequence of lines, or Missing when it cannot be opened.     *)
(* What is printed keeps the number of the line it belongs to (`ln`), for  *)
(* the properties.                                                         *)
(***************************************************************************)
EXTENDS Integers, Sequences, FiniteSets, SequencesExt

CONSTANTS Scripts,      \* the [n |-> -n given, cmds |-> commands] that are run
          Inputs,       \* the sequences of files they are run on
          Ends(_, _, _),\* Ends(re, s, i): where a match of re that starts after i ends
          MaxSteps,     \* the commands one run executes at most
          NL, Missing   \* the newline in the pattern space; a file that cannot be opened

VARIABLES prog, files,  \* what this run was given
          inp,          \* in_files[in_cur ..], the first without the lines read
          look, lookDone, status,
          ln, ps, hold, sub, lastre,
          rng,          \* in_range of each command
          aq, out, wout,\* the append queue, stdout, the w file
          pc, phase, steps

given == <<prog, files>>
input == <<inp, look, lookDone, status>>
vars == <<prog, files, inp, look, lookDone, status, ln, ps, hold, sub, lastre, rng, aq, out, wout, pc, phase, steps>>

----------------------------------------------------------------------------
(* The parser: what it refuses, and the jumps it resolves.                 *)

cmds == prog.cmds
MaxAddr(v) == CASE v \in {":", "}"} -> 0 [] v \in {"a", "i", "q", "r", "="} -> 1 [] OTHER -> 2
Depth(s, i) == Cardinality({j \in 1..i : s[j].t = "{"}) - Cardinality({j \in 1..i : s[j].t = "}"})
Labels(s, l) == {j \in DOMAIN s : s[j].t = ":" /\ s[j].x[2] = l}

(* parse_commands, parse_one_command and resolve: braces in pairs, no more *)
(* addresses than the verb takes, each label once, each jump to a label.   *)
Accepted(s) ==
    /\ \A i \in DOMAIN s : Len(s[i].a) <= MaxAddr(s[i].t) /\ Depth(s, i) \in Nat
    /\ s = <<>> \/ Depth(s, Len(s)) = 0
    /\ \A i \in DOMAIN s :
         /\ s[i].t = ":" => s[i].x[2] # "" /\ Labels(s, s[i].x[2]) = {i}
         /\ s[i].t \in {"b", "t"} /\ s[i].x[2] # "" => Labels(s, s[i].x[2]) # {}
         /\ s[i].t = "y" => \A j, k \in DOMAIN s[i].x[2] : s[i].x[2][j][1] = s[i].x[2][k][1] => j = k

EndBrace(s, i) == CHOOSE j \in i + 1 .. Len(s) : /\ Depth(s, j) = Depth(s, i) - 1
                                                 /\ \A k \in i .. j - 1 : Depth(s, k) >= Depth(s, i)
Target(s, l) == CHOOSE j \in Labels(s, l) : TRUE

----------------------------------------------------------------------------
(* The input.                                                              *)

(* read_raw: the first file that can be opened and has a line left.        *)
Readable(fs) == {i \in DOMAIN fs : fs[i] # Missing /\ fs[i] # <<>>}
FirstOf(fs) == CHOOSE i \in Readable(fs) : \A j \in Readable(fs) : i <= j
RawLine(fs) == fs[FirstOf(fs)][1]
RawRest(fs) == IF Readable(fs) = {} THEN <<>>
               ELSE <<Tail(fs[FirstOf(fs)])>> \o SubSeq(fs, FirstOf(fs) + 1, Len(fs))
(* The status after it: 2 when a file it came by cannot be opened.         *)
RawStatus(fs) == LET z == IF Readable(fs) = {} THEN Len(fs) ELSE FirstOf(fs)
                 IN  IF \E i \in 1..z : fs[i] = Missing THEN 2 ELSE status

NoMore == look = <<>> /\ (lookDone \/ Readable(inp) = {})
NextText == IF look # <<>> THEN look[1] ELSE RawLine(inp)

(* is_last_line: reads the line ahead when that was not done yet.          *)
is_last_line == NoMore
Peek == IF look # <<>> \/ lookDone THEN UNCHANGED input
        ELSE /\ look' = IF Readable(inp) = {} THEN <<>> ELSE <<RawLine(inp)>>
             /\ lookDone' = (Readable(inp) = {})
             /\ inp' = RawRest(inp) /\ status' = RawStatus(inp)

(* next_line, there being one, and its end.                                *)
Take == /\ IF look # <<>> THEN UNCHANGED <<inp, status>>
           ELSE inp' = RawRest(inp) /\ status' = RawStatus(inp)
        /\ look' = <<>> /\ ln' = ln + 1 /\ sub' = FALSE /\ UNCHANGED lookDone
NoLine == /\ lookDone' = TRUE /\ UNCHANGED look
          /\ IF lookDone THEN UNCHANGED <<inp, status>> ELSE inp' = <<>> /\ status' = RawStatus(inp)

----------------------------------------------------------------------------
(* Addresses.  An empty RE is the last one used.                           *)

Re(r) == IF r = "" THEN lastre ELSE r
Found(r, s, from) == {i \in from .. Len(s) : Ends(r, s, i) # {}}
addr_match(a) == CASE a.k = "line" -> ln = a.v
                   [] a.k = "last" -> is_last_line
                   [] a.k = "re"   -> Found(Re(a.v), ps, 0) # {}

(* cmd_selected: [sel |-> .., rng |-> in_range after it].                  *)
Range2Late(c, on) ==
    LET z == c.a[2] IN
    IF on THEN [sel |-> TRUE, rng |-> IF z.k = "line" THEN ln < z.v ELSE ~addr_match(z)]
    ELSE [sel |-> addr_match(c.a[1]), rng |-> addr_match(c.a[1])]
Range2(c, on) ==
    LET z == c.a[2] IN
    IF on THEN [sel |-> TRUE, rng |-> IF z.k = "line" THEN ln < z.v ELSE ~addr_match(z)]
    ELSE IF addr_match(c.a[1])
    THEN [sel |-> TRUE, rng |-> ~(z.k = "line" /\ z.v <= ln) /\ ~(z.k = "last" /\ is_last_line)]
    ELSE [sel |-> FALSE, rng |-> FALSE]
Selection(c, on) ==
    CASE Len(c.a) = 0 -> [sel |-> TRUE, rng |-> on]
      [] Len(c.a) = 1 -> [sel |-> addr_match(c.a[1]), rng |-> on]
      [] OTHER        -> Range2(c, on)

(* The addresses that are looked at, in their order; what this uses of the *)
(* input and which RE is the last one used after it.                       *)
Looked(c, on) == CASE Len(c.a) < 2 -> c.a
                   [] on -> <<c.a[2]>>
                   [] addr_match(c.a[1]) /\ c.a[2].k = "last" -> c.a
                   [] OTHER -> <<c.a[1]>>
Peeks(c, on) == \E i \in DOMAIN Looked(c, on) : Looked(c, on)[i].k = "last"
LastRe(c, on) == LET r == SelectSeq(Looked(c, on), LAMBDA a : a.k = "re" /\ a.v # "")
                 IN  IF r = <<>> THEN lastre ELSE Last(r).v

----------------------------------------------------------------------------
(* s and y.                                                                *)

LongestEnd(r, s, i) == CHOOSE e \in Ends(r, s, i) : \A f \in Ends(r, s, i) : f <= e
FirstMatch(r, s, from) == CHOOSE i \in Found(r, s, from) : \A j \in Found(r, s, from) : i <= j

(* append_repl: "&" stands for what was matched.                           *)
Replaced(x, m) == FlattenSeq([k \in DOMAIN x.repl |-> IF x.repl[k] = "&" THEN m ELSE <<x.repl[k]>>])

(* do_subst: res holds the result for s[1..copied].                        *)
Subst(x, r, s) ==
    LET Walk[st \in [pos : 0 .. Len(s) + 1, copied : 0 .. Len(s), prev : -1 .. Len(s),
                     occur : 0 .. 2 * Len(s) + 2, res : Seq(STRING), done : BOOLEAN]] ==
          LET so == FirstMatch(r, s, st.pos)
              eo == LongestEnd(r, s, so)
              apply == IF x.g THEN st.occur + 1 >= x.nth ELSE st.occur + 1 = x.nth
              now == IF apply
                     THEN [st EXCEPT !.res = @ \o SubSeq(s, st.copied + 1, so)
                                               \o Replaced(x, SubSeq(s, so + 1, eo)),
                                     !.copied = eo, !.done = TRUE]
                     ELSE st
          IN  IF st.pos > Len(s) \/ Found(r, s, st.pos) = {} THEN st
              ELSE IF so = eo /\ so = st.prev
              THEN (IF so >= Len(s) THEN st ELSE Walk[[st EXCEPT !.pos = so + 1]])
              ELSE IF (so = eo /\ eo >= Len(s)) \/ (apply /\ ~x.g) THEN now
              ELSE Walk[[now EXCEPT !.occur = @ + 1, !.prev = eo,
                                    !.pos = IF so = eo THEN eo + 1 ELSE eo]]
        z == Walk[[pos |-> 0, copied |-> 0, prev |-> -1, occur |-> 0, res |-> <<>>, done |-> FALSE]]
    IN  [changed |-> z.done, s |-> IF z.done THEN z.res \o SubSeq(s, z.copied + 1, Len(s)) ELSE s]

Mapped(x, s) == [i \in DOMAIN s |-> IF \E p \in DOMAIN x : x[p][1] = s[i]
                                    THEN x[CHOOSE p \in DOMAIN x : x[p][1] = s[i]][2] ELSE s[i]]

----------------------------------------------------------------------------
(* The commands.                                                           *)

Cur == cmds[pc]
Pick == Selection(Cur, rng[pc])
Line(s) == [ln |-> ln, s |-> s]
NewLines(s) == {i \in DOMAIN s : s[i] = NL}
FirstNL(s) == CHOOSE i \in NewLines(s) : \A j \in NewLines(s) : i <= j
FirstPart(s) == IF NewLines(s) = {} THEN s ELSE SubSeq(s, 1, FirstNL(s) - 1)

(* A command is reached and selected: its in_range is set, and the input   *)
(* is read ahead when its addresses ask for the last line.                 *)
At(v) == /\ phase = "run" /\ pc <= Len(cmds) /\ Cur.t = v /\ Pick.sel # Cur.neg
         /\ steps < MaxSteps /\ steps' = steps + 1 /\ rng' = [rng EXCEPT ![pc] = Pick.rng]
Addressed == IF Peeks(Cur, rng[pc]) THEN Peek ELSE UNCHANGED input
Used == lastre' = LastRe(Cur, rng[pc])
Plain(v) == At(v) /\ Addressed /\ Used /\ UNCHANGED <<given, ln>>
Goto(l) == IF l = "" THEN phase' = "end" /\ UNCHANGED pc
                 ELSE pc' = Target(cmds, l) /\ UNCHANGED phase
Step == pc' = pc + 1 /\ UNCHANGED phase
Leave(how) == phase' = how /\ UNCHANGED pc

Skip == /\ phase = "run" /\ pc <= Len(cmds)
        /\ steps < MaxSteps /\ steps' = steps + 1
        /\ Cur.t = "}" \/ Pick.sel = Cur.neg
        /\ IF Cur.t = "}" THEN UNCHANGED <<rng, input, lastre>>
           ELSE rng' = [rng EXCEPT ![pc] = Pick.rng] /\ Addressed /\ Used
        /\ pc' = IF Cur.t = "{" THEN EndBrace(cmds, pc) + 1 ELSE pc + 1
        /\ UNCHANGED <<given, ln, ps, hold, sub, aq, out, wout, phase>>

Open  == \E v \in {"{", ":"} : Plain(v) /\ Step /\ UNCHANGED <<ps, hold, sub, aq, out, wout>>
CmdA  == \E v \in {"a", "r"} : /\ Plain(v) /\ Step /\ aq' = Append(aq, [ln |-> ln, s |-> Cur.x[2]])
                               /\ UNCHANGED <<ps, hold, sub, out, wout>>
CmdB  == Plain("b") /\ Goto(Cur.x[2]) /\ UNCHANGED <<ps, hold, sub, aq, out, wout>>
CmdT  == /\ Plain("t") /\ sub' = FALSE
         /\ IF sub THEN Goto(Cur.x[2]) ELSE Step
         /\ UNCHANGED <<ps, hold, aq, out, wout>>
CmdC  == /\ Plain("c") /\ Leave("new")
         /\ out' = IF Len(Cur.a) < 2 \/ Cur.neg \/ ~Pick.rng THEN Append(out, Line(Cur.x[2])) ELSE out
         /\ UNCHANGED <<ps, hold, sub, aq, wout>>
CmdD  == Plain("d") /\ Leave("new") /\ UNCHANGED <<ps, hold, sub, aq, out, wout>>
CmdDD == /\ Plain("D")
         /\ IF NewLines(ps) = {} THEN Leave("new") /\ UNCHANGED ps
            ELSE Leave("restart") /\ ps' = SubSeq(ps, FirstNL(ps) + 1, Len(ps))
         /\ UNCHANGED <<hold, sub, aq, out, wout>>
Spaces == /\ \/ Plain("g") /\ ps' = hold /\ UNCHANGED hold
             \/ Plain("G") /\ ps' = ps \o <<NL>> \o hold /\ UNCHANGED hold
             \/ Plain("h") /\ hold' = ps /\ UNCHANGED ps
             \/ Plain("H") /\ hold' = hold \o <<NL>> \o ps /\ UNCHANGED ps
             \/ Plain("x") /\ ps' = hold /\ hold' = ps
             \/ Plain("y") /\ ps' = Mapped(Cur.x[2], ps) /\ UNCHANGED hold
          /\ Step /\ UNCHANGED <<sub, aq, out, wout>>
Prints == /\ \/ Plain("i") /\ out' = Append(out, Line(Cur.x[2]))
             \/ Plain("p") /\ out' = Append(out, Line(ps))
             \/ Plain("P") /\ out' = Append(out, Line(FirstPart(ps)))
          /\ Step /\ UNCHANGED <<ps, hold, sub, aq, wout>>
CmdW  == Plain("w") /\ Step /\ wout' = Append(wout, ps) /\ UNCHANGED <<ps, hold, sub, aq, out>>
CmdQ  == Plain("q") /\ Leave("quit") /\ UNCHANGED <<ps, hold, sub, aq, out, wout>>

(* s: the empty RE is the last one used, the one of an address included.   *)
CmdS == LET x == Cur.x[2]
            r == IF x.re = "" THEN LastRe(Cur, rng[pc]) ELSE x.re
            z == Subst(x, r, ps)
        IN  /\ At("s") /\ Addressed /\ lastre' = r
            /\ ps' = z.s /\ sub' = (sub \/ z.changed)
            /\ out' = IF z.changed /\ x.p THEN Append(out, Line(z.s)) ELSE out
            /\ wout' = IF z.changed /\ x.w THEN Append(wout, z.s) ELSE wout
            /\ Step /\ UNCHANGED <<given, ln, hold, aq>>

(* aq_flush: the lines of a text or a file, none if it cannot be read.     *)
aq_flush == FlattenSeq([i \in DOMAIN aq |-> [k \in DOMAIN aq[i].s |-> [ln |-> aq[i].ln, s |-> aq[i].s[k]]]])

CmdN == /\ At("n") /\ Used
        /\ IF is_last_line THEN Peek /\ Leave("quit") /\ UNCHANGED <<ln, sub, ps, aq, out>>
           ELSE /\ Take /\ ps' = NextText /\ aq' = <<>> /\ Step
                /\ out' = (IF prog.n THEN out ELSE Append(out, Line(ps))) \o aq_flush
        /\ UNCHANGED <<given, hold, wout>>
CmdNN == /\ At("N") /\ Used
         /\ IF is_last_line THEN Peek /\ Leave("silent") /\ UNCHANGED <<ln, sub, ps, aq, out>>
            ELSE Take /\ ps' = ps \o <<NL>> \o NextText /\ aq' = <<>> /\ out' = out \o aq_flush /\ Step
         /\ UNCHANGED <<given, hold, wout>>

Falls == /\ phase = "run" /\ pc > Len(cmds) /\ phase' = "end"
         /\ UNCHANGED <<given, input, ln, ps, hold, sub, lastre, rng, aq, out, wout, pc, steps>>

Command == \/ Skip \/ Open \/ CmdA \/ CmdB \/ CmdT \/ CmdC \/ CmdD \/ CmdDD \/ Spaces
           \/ Prints \/ CmdW \/ CmdQ \/ CmdS \/ CmdN \/ CmdNN \/ Falls

----------------------------------------------------------------------------
(* main and process.                                                       *)

Start == /\ phase = "start"
         /\ IF ~Accepted(cmds) THEN phase' = "refused" /\ UNCHANGED <<input, ln, ps, sub>>
            ELSE IF NoMore THEN NoLine /\ phase' = "done" /\ UNCHANGED <<ln, ps, sub>>
            ELSE Take /\ ps' = NextText /\ phase' = "run"
         /\ UNCHANGED <<given, hold, lastre, rng, aq, out, wout, pc, steps>>

(* The end of a cycle: the pattern space is written unless -n or d, then   *)
(* the queue; D starts again with what is left of the pattern space.       *)
Printed == IF phase \in {"end", "quit"} /\ ~prog.n THEN Append(out, Line(ps)) ELSE out
Cycle == /\ phase \in {"end", "new", "restart", "quit", "silent"}
         /\ out' = Printed \o aq_flush /\ aq' = <<>> /\ pc' = 1
         /\ CASE phase \in {"quit", "silent"} -> phase' = "done" /\ UNCHANGED <<input, ln, ps, sub>>
              [] phase = "restart" -> phase' = "run" /\ UNCHANGED <<input, ln, ps, sub>>
              [] OTHER -> IF NoMore THEN NoLine /\ phase' = "done" /\ UNCHANGED <<ln, ps, sub>>
                          ELSE Take /\ ps' = NextText /\ phase' = "run"
         /\ UNCHANGED <<given, hold, lastre, rng, wout, steps>>

Init == /\ prog \in Scripts /\ files \in Inputs
        /\ inp = files /\ look = <<>> /\ lookDone = FALSE /\ status = 0
        /\ ln = 0 /\ ps = <<>> /\ hold = <<>> /\ sub = FALSE /\ lastre = ""
        /\ rng = [i \in DOMAIN prog.cmds |-> FALSE]
        /\ aq = <<>> /\ out = <<>> /\ wout = <<>> /\ pc = 1 /\ phase = "start" /\ steps = 0

Next == Start \/ Command \/ Cycle
Spec == Init /\ [][Next]_vars
=============================================================================
