----------------------------- MODULE MakeBuild -----------------------------
(***************************************************************************)
(* The build engine of make (make/build.c): build_goals walks the graph of *)
(* targets with update(), starts the commands of the targets that are out  *)
(* of date, and waits for an event -- a child that exits, a token, or a    *)
(* signal -- before it walks again.                                        *)
(*                                                                         *)
(* make itself is one sequential process.  It runs concurrently with the   *)
(* commands it started, with the other makes that share its token pool and *)
(* with whoever sends it a signal.  The recursion of update() is spelled   *)
(* out: an active call is a frame of its node (a node has at most one, see *)
(* visiting), cur is the innermost call and caller the call it returns to. *)
(***************************************************************************)
EXTENDS Integers, Sequences, FiniteSets

CONSTANTS
  Node,        \* the targets and prerequisites
  Wait,        \* wait_node, the special prerequisite .WAIT
  NoNode,      \* a null Node pointer
  Token,       \* the max_jobs - 1 bytes of the jobserver pipe; {} without -j
  NoToken,     \* has_token = 0
  Makefiles,   \* the makefiles considered: functions from Node to rules
  Goals,       \* the goals of the command line, a sequence of nodes
  Options,     \* the options considered: records [k, notpar, mode]
  Start,       \* the time at which make starts; files are as old as 1 .. Start
  MaxTime,     \* bound on the clock; the time 0 says "no such file"
  Signals,     \* may a signal arrive?
  ForkFails    \* may fork() fail?

Modes == {"run", "n", "q", "t"}
Lines == SUBSET {"-", "+", "MAKE"}        \* the prefixes of a command line; MAKE: uses $(MAKE)

(***************************************************************************)
(* What parsing and prepare() leave of a target: its prerequisites in      *)
(* order, and the rules with commands it may run -- one for a target rule  *)
(* (explicit, inferred, .DEFAULT or SCCS), any number for a "::" target.   *)
(***************************************************************************)
Rule == [all : Seq(Node \cup {Wait}), dcolon : BOOLEAN,
         rules : Seq([pre : SUBSET Node, cmds : Seq(Lines)]),
         is_target : BOOLEAN, phony : BOOLEAN, precious : BOOLEAN]

ASSUME NodeAssumption == Wait \notin Node /\ NoNode \notin Node
ASSUME TokenAssumption == NoToken \notin Token
ASSUME MakefileAssumption == Makefiles \subseteq [Node -> Rule]
ASSUME GoalAssumption == Goals \in Seq(Node)
ASSUME OptionAssumption == Options \subseteq [k : BOOLEAN, notpar : BOOLEAN, mode : Modes]
ASSUME TimeAssumption == Start \in Nat \ {0} /\ MaxTime \in Nat /\ Start <= MaxTime
ASSUME SwitchAssumption == Signals \in BOOLEAN /\ ForkFails \in BOOLEAN

VARIABLES
  mk, opt,                                    \* the makefile and the options
  state, ok, visiting, known, newer, made,    \* the fields of a Node
  frame, cur, ret,                            \* the active calls of update()
  dropped,                                    \* the "Circular ... dropped" diagnostics
  pc, gi, done, draining, status,             \* build_goals and wait_event
  jobs, job, child,                           \* the list of jobs and their processes
  pool, others,                               \* tokens in the pipe, tokens of other makes
  stop_starting, any_error, question_outdated,
  caught_signal, sigpipe,                     \* set by the signal handlers
  mtime, clock                                \* the file system

params == <<mk, opt>>
nodes  == <<state, ok, visiting, known, newer, made>>
calls  == <<frame, cur, ret, dropped>>
loop   == <<pc, gi, done, draining, status>>
procs  == <<jobs, job, child>>
tokens == <<pool, others>>
flags  == <<stop_starting, any_error, question_outdated>>
sigs   == <<caught_signal, sigpipe>>
files  == <<mtime, clock>>
vars   == <<params, nodes, calls, loop, procs, tokens, flags, sigs, files>>

-----------------------------------------------------------------------------
(* The makefile and the options.                                           *)

All(n)    == mk[n].all
Prereqs(n) == {All(n)[i] : i \in DOMAIN All(n)} \ {Wait}
Precious(n) == mk[n].phony \/ mk[n].precious

\* max_jobs <= 1 || not_parallel
Serial == Token = {} \/ opt.notpar

\* does job_next run this line, or only print it or skip it?
Run(l) ==
  CASE opt.mode = "run" -> TRUE
    [] opt.mode = "q"   -> "+" \in l
    [] OTHER            -> l \cap {"+", "MAKE"} # {}

\* the lines of the given rules that the job of n will run, as <<rule, line>>
ToRun(n, segs) ==
  UNION {{<<d, l>> : l \in {i \in DOMAIN mk[n].rules[d].cmds : Run(mk[n].rules[d].cmds[i])}} :
           d \in segs}

FirstLine(left) ==
  CHOOSE x \in left : \A y \in left : x[1] < y[1] \/ (x[1] = y[1] /\ x[2] <= y[2])

-----------------------------------------------------------------------------
(* Times.                                                                  *)

Unknown == -1           \* stat_done = 0

\* is_newer: is prerequisite p newer than target n?
IsNewer(p, n) == newer[p] \/ known[p] = 0 \/ known[n] = 0 \/ known[p] >= known[n]

Outdated(n) == mk[n].phony \/ known[n] = 0 \/ \E p \in Prereqs(n) : IsNewer(p, n)

\* the rules whose commands update() hands to a job
Segs(n) ==
  IF mk[n].dcolon
  THEN {d \in DOMAIN mk[n].rules :
          \/ mk[n].phony \/ known[n] = 0 \/ mk[n].rules[d].pre = {}
          \/ \E p \in mk[n].rules[d].pre : IsNewer(p, n)}
  ELSE {d \in DOMAIN mk[n].rules : d = 1 /\ Outdated(n)}

\* a file written now gets the current time or, when the clock ticks, a later one
Now == {clock, clock + 1} \cap 1 .. MaxTime

-----------------------------------------------------------------------------
NewFrame(c) == [at |-> 1, pending |-> FALSE, failed |-> FALSE, caller |-> c]
NewJob(left, t, start) == [left |-> left, ignore |-> FALSE, token |-> t,
                           executed |-> FALSE, failed |-> FALSE, start |-> start]
NoJob == NewJob({}, NoToken, 0)

Init ==
  /\ mk \in Makefiles
  /\ opt \in Options
  /\ state = [n \in Node |-> "NEW"]
  /\ ok = [n \in Node |-> FALSE]
  /\ visiting = [n \in Node |-> FALSE]
  /\ known = [n \in Node |-> Unknown]
  /\ newer = [n \in Node |-> FALSE]
  /\ made = [n \in Node |-> FALSE]
  /\ frame = [n \in Node |-> NewFrame(NoNode)]
  /\ cur = NoNode
  /\ ret = "none"
  /\ dropped = {}
  /\ pc = "goals"
  /\ gi = 1
  /\ done = TRUE
  /\ draining = FALSE
  /\ status = 0
  /\ jobs = {}
  /\ job = [n \in Node |-> NoJob]
  /\ child = [n \in Node |-> "none"]
  /\ pool = Token
  /\ others = {}
  /\ stop_starting = FALSE
  /\ any_error = FALSE
  /\ question_outdated = FALSE
  /\ caught_signal = FALSE
  /\ sigpipe = FALSE
  /\ mtime \in [Node -> 0 .. Start]
  /\ clock = Start

-----------------------------------------------------------------------------
(* Jobs.                                                                   *)

\* an error that is not ignored: without -k no further target is started
ErrorAlone == any_error' = TRUE /\ UNCHANGED stop_starting
NoteError == any_error' = TRUE /\ stop_starting' = (stop_starting \/ ~opt.k)

\* release_token
ReleasedAlways(j, pl) == pl \cup {j.token}
ReleasedIfMade(j, pl) == IF j.failed THEN pl ELSE pl \cup ({j.token} \ {NoToken})
Released(j, pl) == pl \cup ({j.token} \ {NoToken})

(***************************************************************************)
(* finish_node: a node that was made is stat'ed again (t is its time), and *)
(* counts as newer than anything if it is no file or if no command ran.    *)
(***************************************************************************)
FinishUnstated(n, good, executed, t) ==
  /\ state' = [state EXCEPT ![n] = "DONE"]
  /\ ok' = [ok EXCEPT ![n] = good]
  /\ made' = [made EXCEPT ![n] = @ \/ good]
  /\ newer' = [newer EXCEPT ![n] = @ \/ (good /\ (t = 0 \/ ~executed \/ mk[n].phony))]
  /\ UNCHANGED known
FinishNode(n, good, executed, t) ==
  /\ state' = [state EXCEPT ![n] = "DONE"]
  /\ ok' = [ok EXCEPT ![n] = good]
  /\ made' = [made EXCEPT ![n] = @ \/ good]
  /\ known' = [known EXCEPT ![n] = IF good THEN t ELSE @]
  /\ newer' = [newer EXCEPT ![n] =
                 @ \/ (good /\ (t = 0 \/ ~executed \/ mk[n].phony))]

\* job_done: the job j of n is over; its token goes back to the pool pl
JobDone(n, j, pl) ==
  /\ jobs' = jobs \ {n}
  /\ job' = [job EXCEPT ![n] = NoJob]
  /\ child' = [child EXCEPT ![n] = "none"]
  /\ pool' = Released(j, pl)
  /\ question_outdated' = (question_outdated \/ opt.mode = "q")
  /\ IF ~j.failed /\ opt.mode = "t" /\ ~mk[n].phony
     THEN \E t \in Now :
            /\ mtime' = [mtime EXCEPT ![n] = t]          \* touch_target
            /\ clock' = t
            /\ FinishNode(n, TRUE, j.executed, t)
     ELSE /\ UNCHANGED files
          /\ FinishNode(n, ~j.failed, j.executed, mtime[n])

(***************************************************************************)
(* job_next, and job_done when no process runs after it: start the next    *)
(* line that is to run, unless fork() fails or no line is left.            *)
(***************************************************************************)
JobNext(n, j, pl) ==
  \/ /\ j.left # {}
     /\ LET x == FirstLine(j.left)
            line == mk[n].rules[x[1]].cmds[x[2]]
        IN job' = [job EXCEPT ![n] = [j EXCEPT !.left = @ \ {x},
                                                !.ignore = "-" \in line,
                                                !.executed = TRUE]]
     /\ jobs' = jobs \cup {n}
     /\ child' = [child EXCEPT ![n] = "running"]
     /\ state' = [state EXCEPT ![n] = "RUN"]
     /\ pool' = pl
     /\ UNCHANGED <<ok, made, known, newer, question_outdated, files>>
  \/ /\ j.left # {} /\ ForkFails
     /\ JobDone(n, [j EXCEPT !.failed = TRUE], pl)
  \/ /\ j.left = {}
     /\ JobDone(n, j, pl)

-----------------------------------------------------------------------------
(* update()                                                                *)

\* the call update(n, parent): answered at once, or a frame is opened
Call(n, parent) ==
  \/ /\ visiting[n] \/ state[n] \in {"RUN", "DONE"}
     /\ ret' = CASE state[n] = "DONE" -> IF ok[n] THEN "OK" ELSE "FAIL"
                 [] state[n] = "RUN"  -> "PENDING"
                 [] OTHER             -> "OK"
     /\ dropped' = IF visiting[n] THEN dropped \cup {<<parent, n>>} ELSE dropped
     /\ UNCHANGED <<cur, frame, state, visiting, known>>
  \/ /\ ~visiting[n] /\ state[n] \in {"NEW", "SCAN"}
     /\ known' = [known EXCEPT ![n] = IF @ = Unknown THEN mtime[n] ELSE @]
     /\ state' = [state EXCEPT ![n] = "SCAN"]
     /\ visiting' = [visiting EXCEPT ![n] = TRUE]
     /\ frame' = [frame EXCEPT ![n] = NewFrame(parent)]
     /\ cur' = n
     /\ UNCHANGED <<ret, dropped>>

\* return r from the innermost call
Return(r) ==
  /\ visiting' = [visiting EXCEPT ![cur] = FALSE]
  /\ cur' = frame[cur].caller
  /\ ret' = r

StopHere == stop_starting /\ ~opt.k

Scanning == pc = "goals" /\ cur # NoNode /\ ret = "none"
AtEnd == frame[cur].at > Len(All(cur))

\* break leaves the loop over the prerequisites
Break == Len(All(cur)) + 1

\* .WAIT: go on only if nothing to its left is pending
WaitIgnored == frame[cur].at + 1
AfterWait == IF frame[cur].pending THEN Break ELSE frame[cur].at + 1

ScanWait ==
  /\ Scanning /\ ~AtEnd
  /\ All(cur)[frame[cur].at] = Wait
  /\ frame' = [frame EXCEPT ![cur].at = AfterWait]
  /\ UNCHANGED <<params, nodes, cur, ret, dropped, loop, procs, tokens, flags, sigs, files>>

ScanCall ==
  /\ Scanning /\ ~AtEnd
  /\ All(cur)[frame[cur].at] # Wait
  /\ Call(All(cur)[frame[cur].at], cur)
  /\ UNCHANGED <<params, ok, newer, made, loop, procs, tokens, flags, sigs, files>>

\* does the result of a prerequisite end the loop?
Leaves == (ret = "PENDING" /\ Serial) \/ (ret = "FAIL" /\ ~opt.k) \/ StopHere

\* the result of the call for the prerequisite at position "at"
ScanReturn ==
  /\ pc = "goals" /\ cur # NoNode /\ ret # "none"
  /\ frame' = [frame EXCEPT ![cur] =
                 [at |-> IF Leaves THEN Break ELSE @.at + 1,
                  pending |-> @.pending \/ ret = "PENDING",
                  failed |-> @.failed \/ ret = "FAIL",
                  caller |-> @.caller]]
  /\ ret' = "none"
  /\ UNCHANGED <<params, nodes, cur, dropped, loop, procs, tokens, flags, sigs, files>>

\* after the loop over the prerequisites: wait for one of them, or give up
ScanPending ==
  /\ Scanning /\ AtEnd
  /\ frame[cur].pending
  /\ Return("PENDING")
  /\ UNCHANGED <<params, state, ok, known, newer, made, frame, dropped, loop, procs,
                 tokens, flags, sigs, files>>

ScanFailed ==
  /\ Scanning /\ AtEnd
  /\ ~frame[cur].pending
  /\ frame[cur].failed \/ StopHere
  /\ state' = [state EXCEPT ![cur] = "DONE"]
  /\ ok' = [ok EXCEPT ![cur] = FALSE]
  /\ Return("FAIL")
  /\ UNCHANGED <<params, known, newer, made, frame, dropped, loop, procs,
                 tokens, flags, sigs, files>>

\* every prerequisite is up to date, so n is decided in this call (stop_starting is
\* clear: only without -k is it ever set)
DecidePending(n) == Scanning /\ AtEnd /\ cur = n /\ ~frame[n].failed /\ ~StopHere
Decide(n) ==
  /\ Scanning /\ AtEnd /\ cur = n
  /\ ~frame[n].pending /\ ~frame[n].failed /\ ~StopHere

\* a "::" target none of whose rules is out of date: finish_node(n, 1, 1)
DcolonUpToDate(n) ==
  /\ Decide(n)
  /\ mk[n].dcolon /\ Segs(n) = {}
  /\ state' = [state EXCEPT ![n] = "DONE"]
  /\ ok' = [ok EXCEPT ![n] = TRUE]
  /\ made' = [made EXCEPT ![n] = Outdated(n)]
  /\ known' = [known EXCEPT ![n] = mtime[n]]
  /\ newer' = [newer EXCEPT ![n] = @ \/ mtime[n] = 0 \/ mk[n].phony]
  /\ Return("OK")
  /\ UNCHANGED <<params, frame, dropped, loop, procs, tokens, flags, sigs, files>>

UpToDate(n) ==
  /\ Decide(n)
  /\ ~mk[n].dcolon /\ ~Outdated(n)
  /\ state' = [state EXCEPT ![n] = "DONE"]
  /\ ok' = [ok EXCEPT ![n] = TRUE]
  /\ Return("OK")
  /\ UNCHANGED <<params, known, newer, made, frame, dropped, loop, procs,
                 tokens, flags, sigs, files>>

\* out of date, but there are no commands: made, and newer than anything
NoCommands(n) ==
  /\ Decide(n)
  /\ ~mk[n].dcolon /\ Outdated(n) /\ Segs(n) = {}
  /\ known[n] # 0 \/ mk[n].is_target \/ All(n) # <<>>
  /\ state' = [state EXCEPT ![n] = "DONE"]
  /\ ok' = [ok EXCEPT ![n] = TRUE]
  /\ made' = [made EXCEPT ![n] = TRUE]
  /\ newer' = [newer EXCEPT ![n] = TRUE]
  /\ Return("OK")
  /\ UNCHANGED <<params, known, frame, dropped, loop, procs, tokens, flags, sigs, files>>

NoRule(n) ==
  /\ Decide(n)
  /\ ~mk[n].dcolon /\ Outdated(n) /\ Segs(n) = {}
  /\ known[n] = 0 /\ ~mk[n].is_target /\ All(n) = <<>>
  /\ state' = [state EXCEPT ![n] = "DONE"]
  /\ ok' = [ok EXCEPT ![n] = FALSE]
  /\ NoteError
  /\ Return("FAIL")
  /\ UNCHANGED <<params, known, newer, made, frame, dropped, loop, procs, tokens,
                 question_outdated, sigs, files>>

SlotOffByOne(t) ==
  \/ Cardinality(jobs) <= 1 /\ t = NoToken
  \/ jobs # {} /\ ~Serial /\ t \in pool

\* take_slot: the first job needs no token, the others need one each
Slot(t) ==
  \/ jobs = {} /\ t = NoToken
  \/ jobs # {} /\ ~Serial /\ t \in pool

NoSlot(n) ==
  /\ Decide(n)
  /\ Segs(n) # {}
  /\ ~\E t \in pool \cup {NoToken} : Slot(t)
  /\ Return("PENDING")
  /\ UNCHANGED <<params, state, ok, known, newer, made, frame, dropped, loop, procs,
                 tokens, flags, sigs, files>>

StartJob(n, t) ==
  /\ Decide(n)
  /\ Segs(n) # {}
  /\ Slot(t)
  /\ JobNext(n, NewJob(ToRun(n, Segs(n)), t, mtime[n]), pool \ {t})
  /\ Return(IF state'[n] # "DONE" THEN "PENDING" ELSE IF ok'[n] THEN "OK" ELSE "FAIL")
  /\ UNCHANGED <<params, frame, dropped, loop, others, stop_starting, any_error, sigs>>

-----------------------------------------------------------------------------
(* build_goals                                                             *)

InGoals == pc = "goals" /\ cur = NoNode

GoalCall ==
  /\ InGoals /\ ret = "none" /\ gi <= Len(Goals)
  /\ Call(Goals[gi], NoNode)
  /\ UNCHANGED <<params, ok, newer, made, loop, procs, tokens, flags, sigs, files>>

\* one goal at a time: wait until it is done, stop at the first that fails
GoalReturnSerial ==
  /\ InGoals /\ ret # "none" /\ Serial
  /\ ret' = "none"
  /\ CASE ret = "PENDING"           -> pc' = "wait" /\ UNCHANGED <<gi, draining>>
       [] ret = "FAIL" /\ ~opt.k    -> pc' = "drain" /\ draining' = TRUE /\ UNCHANGED gi
       [] OTHER                     -> gi' = gi + 1 /\ UNCHANGED <<pc, draining>>
  /\ UNCHANGED <<params, nodes, frame, cur, dropped, done, status, procs, tokens,
                 flags, sigs, files>>

\* with -j every goal is visited in each pass
GoalReturnParallel ==
  /\ InGoals /\ ret # "none" /\ ~Serial
  /\ ret' = "none"
  /\ done' = (done /\ ret # "PENDING")
  /\ gi' = gi + 1
  /\ UNCHANGED <<params, nodes, frame, cur, dropped, pc, draining, status, procs, tokens,
                 flags, sigs, files>>

PassEnd ==
  /\ InGoals /\ ret = "none" /\ gi > Len(Goals)
  /\ IF done
     THEN pc' = "drain" /\ draining' = TRUE /\ UNCHANGED <<gi, done>>
     ELSE pc' = "wait" /\ gi' = 1 /\ done' = TRUE /\ UNCHANGED draining
  /\ UNCHANGED <<params, nodes, calls, status, procs, tokens, flags, sigs, files>>

Drain ==
  /\ pc = "drain"
  /\ IF jobs # {}
     THEN pc' = "wait" /\ UNCHANGED status
     ELSE /\ pc' = "exit"
          /\ status' = IF any_error THEN 2
                       ELSE IF opt.mode = "q" /\ question_outdated THEN 1 ELSE 0
  /\ UNCHANGED <<params, nodes, calls, gi, done, draining, procs, tokens, flags, sigs, files>>

-----------------------------------------------------------------------------
(* wait_event                                                              *)

WantToken == ~draining /\ ~Serial /\ jobs # {}

\* where build_goals goes on when wait_event returns
WaitReturns ==
  pc' = IF draining \/ (~Serial /\ stop_starting' /\ jobs' = {}) THEN "drain" ELSE "goals"

WaitSignal ==
  /\ pc = "wait"
  /\ pc' = IF caught_signal THEN "killing" ELSE "reap"
  /\ UNCHANGED <<params, nodes, calls, gi, done, draining, status, procs, tokens, flags,
                 sigs, files>>

\* leaving the loop of build_goals
LoopExit == draining' = (pc' = "drain" \/ draining)

ReapOk(n) ==
  /\ pc = "reap" /\ n \in jobs
  /\ child[n] = "ok" \/ (child[n] = "bad" /\ job[n].ignore)
  /\ JobNext(n, job[n], pool)
  /\ UNCHANGED <<any_error, stop_starting>>
  /\ WaitReturns /\ LoopExit
  /\ UNCHANGED <<params, visiting, calls, gi, done, status, others, sigs>>

ReapBad(n) ==
  /\ pc = "reap" /\ n \in jobs
  /\ child[n] = "bad" /\ ~job[n].ignore
  /\ NoteError
  /\ JobDone(n, [job[n] EXCEPT !.failed = TRUE], pool)
  /\ WaitReturns /\ LoopExit
  /\ UNCHANGED <<params, visiting, calls, gi, done, status, others, sigs>>

NoZombie ==
  /\ pc = "reap"
  /\ \A n \in jobs : child[n] \notin {"ok", "bad"}
  /\ pc' = IF jobs # {} THEN "poll" ELSE IF draining THEN "drain" ELSE "goals"
  /\ UNCHANGED <<params, nodes, calls, gi, done, draining, status, procs, tokens, flags,
                 sigs, files>>

\* poll: woken through the pipe of the handlers, or by a token that may be taken
WakeupOne == IF WantToken THEN pool # {} ELSE sigpipe
Wakeup == sigpipe \/ (WantToken /\ pool # {})

Poll ==
  /\ pc = "poll"
  /\ Wakeup
  /\ sigpipe' = FALSE
  /\ IF WantToken /\ pool # {}
     THEN /\ UNCHANGED <<stop_starting, jobs>>
          /\ WaitReturns /\ LoopExit
     ELSE pc' = "wait" /\ UNCHANGED <<stop_starting, jobs, draining>>
  /\ UNCHANGED <<params, nodes, calls, gi, done, status, job, child, tokens, any_error,
                 question_outdated, caught_signal, files>>

GoneAtOnce == TRUE
ChildrenGone == \A n \in jobs : child[n] \in {"ok", "bad"}

(***************************************************************************)
(* handle_signal: the commands have been sent the signal; once they are    *)
(* gone, the targets they changed are removed and make dies of the signal. *)
(***************************************************************************)
HandleSignal ==
  /\ pc = "killing"
  /\ ChildrenGone
  /\ mtime' = [n \in Node |->
                 IF n \in jobs /\ ~Precious(n) /\ mtime[n] # job[n].start
                 THEN 0 ELSE mtime[n]]
  /\ pc' = "dead"
  /\ UNCHANGED <<params, nodes, calls, gi, done, draining, status, procs, tokens, flags,
                 sigs, clock>>

-----------------------------------------------------------------------------
(* The rest of the system.                                                 *)

\* a command writes or removes its target, once per command line
ChildWrites(n) ==
  /\ child[n] = "running"
  /\ child' = [child EXCEPT ![n] = "wrote"]
  /\ \E t \in Now \cup {0} :
       /\ mtime' = [mtime EXCEPT ![n] = t]
       /\ clock' = IF t = 0 THEN clock ELSE t
  /\ UNCHANGED <<params, nodes, calls, loop, jobs, job, tokens, flags, sigs>>

\* on_chld puts a byte into the pipe
ChildExits(n) ==
  /\ child[n] \in {"running", "wrote"}
  /\ \E r \in {"ok", "bad"} : child' = [child EXCEPT ![n] = r]
  /\ sigpipe' = TRUE
  /\ UNCHANGED <<params, nodes, calls, loop, jobs, job, tokens, flags, caught_signal, files>>

\* on_signal; with -n and -q, and while no job runs, the signal kills make
Signal ==
  /\ Signals /\ ~caught_signal
  /\ pc \notin {"exit", "dead"}
  /\ IF jobs = {} \/ opt.mode \in {"n", "q"}
     THEN pc' = "dead" /\ UNCHANGED sigs
     ELSE caught_signal' = TRUE /\ sigpipe' = TRUE /\ UNCHANGED pc
  /\ UNCHANGED <<params, nodes, calls, gi, done, draining, status, procs, tokens, flags, files>>

\* the makes that share the pool; one that dies of a signal keeps its tokens
OtherTakes(t) ==
  /\ t \in pool
  /\ pool' = pool \ {t}
  /\ others' = others \cup {t}
  /\ UNCHANGED <<params, nodes, calls, loop, procs, flags, sigs, files>>

OtherReturns(t) ==
  /\ t \in others
  /\ pool' = pool \cup {t}
  /\ others' = others \ {t}
  /\ UNCHANGED <<params, nodes, calls, loop, procs, flags, sigs, files>>

Terminated == pc \in {"exit", "dead"} /\ UNCHANGED vars

-----------------------------------------------------------------------------
Update ==
  \/ ScanWait \/ ScanCall \/ ScanReturn \/ ScanPending \/ ScanFailed
  \/ \E n \in Node :
       \/ DcolonUpToDate(n) \/ UpToDate(n) \/ NoCommands(n) \/ NoRule(n) \/ NoSlot(n)
       \/ \E t \in pool \cup {NoToken} : StartJob(n, t)

BuildGoals == GoalCall \/ GoalReturnSerial \/ GoalReturnParallel \/ PassEnd \/ Drain

WaitEvent ==
  \/ WaitSignal \/ NoZombie \/ Poll \/ HandleSignal
  \/ \E n \in Node : ReapOk(n) \/ ReapBad(n)

Make == Update \/ BuildGoals \/ WaitEvent

Environment ==
  \/ \E n \in Node : ChildWrites(n) \/ ChildExits(n)
  \/ \E t \in Token : OtherTakes(t) \/ OtherReturns(t)
  \/ Signal

Next == Make \/ Environment \/ Terminated

\* make is scheduled, and every command comes to an end
Fairness == WF_vars(Make) /\ \A n \in Node : WF_vars(ChildExits(n))

Spec == Init /\ [][Next]_vars /\ Fairness
-----------------------------------------------------------------------------
(* Properties.                                                             *)

Jobs == [left : SUBSET (Nat \X Nat), ignore : BOOLEAN, token : Token \cup {NoToken},
         executed : BOOLEAN, failed : BOOLEAN, start : Nat]

\* The type invariant: every variable of the engine has a value its C type and
\* the enumerations of make.h allow; in particular the pipe holds nothing but the tokens it was filled with.
TypeOK ==
  /\ mk \in Makefiles /\ opt \in Options
  /\ state \in [Node -> {"NEW", "SCAN", "RUN", "DONE"}]
  /\ ok \in [Node -> BOOLEAN] /\ visiting \in [Node -> BOOLEAN]
  /\ newer \in [Node -> BOOLEAN] /\ made \in [Node -> BOOLEAN]
  /\ known \in [Node -> Nat \cup {Unknown}]
  /\ frame \in [Node -> [at : Nat \ {0}, pending : BOOLEAN, failed : BOOLEAN,
                         caller : Node \cup {NoNode}]]
  /\ cur \in Node \cup {NoNode}
  /\ ret \in {"none", "OK", "FAIL", "PENDING"}
  /\ dropped \subseteq (Node \cup {NoNode}) \X Node
  /\ pc \in {"goals", "wait", "reap", "poll", "killing", "drain", "exit", "dead"}
  /\ gi \in Nat \ {0} /\ done \in BOOLEAN /\ draining \in BOOLEAN /\ status \in 0 .. 2
  /\ jobs \subseteq Node
  /\ job \in [Node -> Jobs]
  /\ child \in [Node -> {"none", "running", "wrote", "ok", "bad"}]
  /\ pool \subseteq Token /\ others \subseteq Token
  /\ stop_starting \in BOOLEAN /\ any_error \in BOOLEAN /\ question_outdated \in BOOLEAN
  /\ caught_signal \in BOOLEAN /\ sigpipe \in BOOLEAN
  /\ mtime \in [Node -> Nat] /\ clock \in Nat

\* p is made, or its edge from n was given up as circular
Settled(n, p) == (state[p] = "DONE" /\ ok[p]) \/ <<n, p>> \in dropped

\* A target's commands are in progress only when each of its prerequisites has been
\* made successfully, apart from those the "Circular" diagnostic named.
PrereqsDone == \A n \in jobs : \A p \in Prereqs(n) : Settled(n, p)

\* A call of update() that has passed a .WAIT left nothing to its left unfinished:
\* what stands to the right of .WAIT is first visited when the left is over.
WaitBarrier ==
  \A n \in Node :
    visiting[n] /\ frame[n].at <= Len(All(n)) =>
      \A i, j \in DOMAIN All(n) :
        i < j /\ j < frame[n].at /\ All(n)[j] = Wait /\ All(n)[i] # Wait =>
          state[All(n)[i]] = "DONE" \/ <<n, All(n)[i]>> \in dropped

\* The token pool: a token is in the pipe, with another make, or with exactly one job of
\* this make, and none is lost or made up by job_done, failing commands or errors of fork.
TokensConserved ==
  /\ Token = pool \cup others \cup ({job[n].token : n \in jobs} \ {NoToken})
  /\ pool \cap others = {}
  /\ \A n \in jobs : job[n].token \notin pool \cup others

\* Two jobs never run on the same slot: at most one job goes without a token, and
\* so this make and the others together run at most max_jobs jobs at once.
OneSlotEach == \A m, n \in jobs : job[m].token = job[n].token => m = n

\* make waits only while a job is running, so that something will wake it: a walk that
\* ends with a pending goal has left a job behind (take_slot refuses no first job).
NoStall == pc \in {"wait", "reap", "poll"} => jobs # {}

\* After the first error without -k no further target is started, whatever is still
\* visited, running or pending.
StopOnError == [][any_error /\ ~opt.k => jobs' \subseteq jobs]_vars

\* With -k nothing is left undecided: when make exits, the goals and all that they
\* depend on have been tried, or given up because a prerequisite failed.
KeepGoing ==
  pc = "exit" /\ opt.k =>
    /\ \A g \in DOMAIN Goals : state[Goals[g]] = "DONE"
    /\ \A n \in Node : state[n] = "DONE" => \A p \in Prereqs(n) : state[p] = "DONE"

\* build_goals reports an error (2) exactly if some goal was not made.
ExitStatus ==
  pc = "exit" =>
    (status = 2 <=> \E g \in DOMAIN Goals : ~(state[Goals[g]] = "DONE" /\ ok[Goals[g]]))

\* When make says that all is well, it is: every target with commands was made by this
\* run or is younger than each of its prerequisites.  With -q, the answer 0 is only
\* given when nothing at all was out of date.
UpToDateAtExit ==
  pc = "exit" /\ status = 0 /\ opt.mode # "n" /\ dropped = {} =>
    \A n \in Node :
      state[n] = "DONE" /\ Len(mk[n].rules) = 1 /\ ~mk[n].dcolon =>
        \/ made[n] /\ opt.mode # "q"
        \/ mtime[n] > 0 /\ \A p \in Prereqs(n) : 0 < mtime[p] /\ mtime[p] < mtime[n]

\* The walk and its waits as a whole: .WAIT is kept, make waits only for jobs that run,
\* and with -k everything is tried.
Orderly == WaitBarrier /\ NoStall /\ KeepGoing

\* What make says at its exit is so, of the goals and of every target.
VerdictTrue == ExitStatus /\ UpToDateAtExit

\* When make has died of a caught signal, no target of a job in progress is left
\* half-made, now or later: it is gone or as it was when its job started, and none of
\* the commands is still running.
SignalCleanup ==
  pc = "dead" /\ caught_signal =>
    \A n \in jobs : Precious(n) \/ mtime[n] \in {0, job[n].start}

\* make comes to an end: no wake-up is lost between waitpid and poll, no target waits
\* for a job or a token that never comes.
Termination == <>(pc \in {"exit", "dead"})
=============================================================================
