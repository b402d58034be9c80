------------------------------- MODULE ShellJobs -------------------------------
(***************************************************************************)
(* sh's table of jobs: how processes are entered into it by fork, brought  *)
(* up to date from waitpid, and asked for by wait, jobs, fg, bg and kill,  *)
(* while they end and stop and a trapped signal arrives at any time.       *)
(*                                                                         *)
(* One shell, without subshells of its own.  A process is known by its ID, *)
(* and the system gives an ID out again when its process has been waited   *)
(* for.                                                                    *)
(***************************************************************************)
EXTENDS Naturals, Sequences, FiniteSets, FiniteSetsExt

CONSTANTS
  MaxPid,          \* bound: process IDs are numbers up to this one
  PruneAt,         \* so many finished background jobs are too many (1000),
  PruneTo,         \* and so many of them are kept then (500)
  MaxCmds,         \* bound: commands read
  MaxEvents        \* bound: processes stopped, trapped signals and failing forks

ASSUME PruneAssumption == PruneTo \in Nat /\ PruneAt \in Nat /\ PruneTo <= PruneAt
ASSUME BoundsAssumption == {MaxPid, MaxCmds, MaxEvents} \subseteq Nat

Pids == 1..MaxPid
\* Every command's processes end with a status of their own.
Codes == 0..MaxCmds
None == 0
Stopped == MaxCmds + 1
Unknown == MaxCmds + 2   \* 127
Trapped == MaxCmds + 3   \* 128 and the number of the signal
All == MaxCmds + 4       \* the 0 of a wait without operands
NoPid == 0
NoJob == 0      \* -1 in the source, which counts slots from 0

VARIABLES
  mode,      \* how sh was started: "script", "monitor" (set -m) or "interactive"
  jobtab,    \* the slots of the table
  curjob, prevjob,
  pc,        \* where the shell is
  asked,     \* the job that is waited for, and the operand, if it is a process ID
  pending,   \* pending_sig of the trapped signal, and gotsig
  child,     \* what the system knows of each process
  code,      \* with what a process ends
  cmds, events,
  owed,      \* history: what has become of the status of each background process
  answer     \* history: what the last wait has returned, and of what

vars == <<mode, jobtab, curjob, prevjob, pc, asked, pending, child, code,
          cmds, events, owed, answer>>
table == <<jobtab, curjob, prevjob>>

--------------------------------------------------------------------------------
(* The table. *)

Proc == [pid : Pids, state : {"running", "stopped", "done"}, status : Codes \cup {Stopped}]

Unused == [used |-> FALSE, bg |-> FALSE, num |-> 0, procs |-> <<>>, state |-> "done", changed |-> FALSE]

jobctl == mode # "script"
Slots == DOMAIN jobtab
PidsOf(j) == {j.procs[k].pid : k \in DOMAIN j.procs}
Holds(tab, p) == {i \in DOMAIN tab : p \in PidsOf(tab[i])}

alloc_jobnum(tab) ==
  Min({n \in 1..(Len(tab) + 1) : \A i \in DOMAIN tab : ~(tab[i].used /\ tab[i].num = n)})

\* The state that its processes' states give a job (update_job_state).
StateOf(procs) ==
  LET states == {procs[k].state : k \in DOMAIN procs}
  IN IF "running" \in states THEN "running"
     ELSE IF "stopped" \in states THEN "stopped" ELSE "done"

WithProcs(j, procs) ==
  [j EXCEPT !.procs = procs, !.state = StateOf(procs), !.changed = @ \/ StateOf(procs) # j.state]

\* job_free for each slot of S, in their order: the table, and the current and
\* the previous job then.
Freed(tab, S) == [i \in DOMAIN tab |-> IF i \in S THEN Unused ELSE tab[i]]
Unfinished(tab) == {i \in DOMAIN tab : tab[i].used /\ tab[i].bg /\ tab[i].state # "done"}
Heir(S) == IF curjob \notin S THEN curjob ELSE IF prevjob \notin S THEN prevjob ELSE NoJob
\* Without the search for another unfinished job.
CurAfter(tab, S) ==
  IF S = {} \/ Heir(S) # NoJob \/ Unfinished(Freed(tab, S)) = {} THEN Heir(S)
  ELSE Max(Unfinished(Freed(tab, S)))
PrevAfter(S) == IF {curjob, prevjob} \cap S # {} THEN NoJob ELSE prevjob

job_free(tab, S) ==
  /\ jobtab' = Freed(tab, S)
  /\ curjob' = CurAfter(tab, S)
  /\ prevjob' = PrevAfter(S)

job_set_current(i) ==
  /\ curjob' = i
  /\ prevjob' = IF curjob = i THEN prevjob ELSE curjob

\* Stopped jobs count as finished.
FinishedOrStopped(tab) == {i \in DOMAIN tab : tab[i].used /\ tab[i].bg /\ tab[i].state # "running"}
Finished(tab) == {i \in DOMAIN tab : tab[i].used /\ tab[i].bg /\ tab[i].state = "done"}

\* What prune_done frees: finished background jobs, from the beginning of the
\* table, until PruneTo are left.
Pruned ==
  LET done == Finished(jobtab)
      Before(i) == Cardinality({k \in done : k < i})
  IN IF Cardinality(done) < PruneAt THEN {}
     ELSE {i \in done : Before(i) < Cardinality(done) - PruneTo}

Kept == Freed(jobtab, Pruned)

\* job_new takes the first slot that is not in use, or adds one.
NewSlot ==
  LET free == {i \in DOMAIN Kept : ~Kept[i].used}
  IN IF free = {} THEN Len(Kept) + 1 ELSE Min(free)

\* The table with a job of these new processes (job_new, job_add_proc).
WithJob(bg, pids) ==
  LET job == [used |-> TRUE, bg |-> bg, num |-> IF bg THEN alloc_jobnum(Kept) ELSE 0,
              procs |-> [k \in DOMAIN pids |-> [pid |-> pids[k], state |-> "running", status |-> None]],
              state |-> "running", changed |-> FALSE]
  IN [i \in DOMAIN Kept \cup {NewSlot} |-> IF i = NewSlot THEN job ELSE Kept[i]]

--------------------------------------------------------------------------------
(* The system: processes and what waitpid tells of them.                   *)
(*   running, zombie                                                       *)
(*   halted      stopped, and nobody has been told                         *)
(*   stopped     stopped, and the shell has been told                      *)
(*   continued   running again, and nobody has been told                   *)

Alive == {"running", "halted", "stopped", "continued"}
Children == {p \in Pids : child[p] # "none"}

\* waitpid(-1) with WNOHANG, WUNTRACED and WCONTINUED, until it returns 0.
\* Without WCONTINUED.
Reportable == {p \in Pids : child[p] \in {"halted", "zombie", "continued"}}
\* waitpid(-1) with WUNTRACED alone.
Waitable == {p \in Pids : child[p] \in {"halted", "zombie"}}

Told(p) == CASE child[p] = "zombie" -> "none"
             [] child[p] = "halted" -> "stopped"
             [] OTHER -> "running"

ProcState(p) == CASE child[p] = "zombie" -> "done"
                  [] child[p] = "halted" -> "stopped"
                  [] OTHER -> "running"

ProcStatus(p) == IF child[p] = "zombie" THEN code[p] ELSE IF child[p] = "halted" THEN Stopped ELSE None

\* The first status of a process is the one that is kept.
NotedOnce(proc) ==
  [proc EXCEPT !.state = ProcState(proc.pid), !.status = IF @ = None THEN ProcStatus(proc.pid) ELSE @]
Noted(proc) == [proc EXCEPT !.state = ProcState(proc.pid), !.status = ProcStatus(proc.pid)]

\* record_status enters a status with the first job that has the process ID.
Owner(p) == Min(Holds(jobtab, p))
Reaped ==
  [i \in Slots |->
     LET j == jobtab[i]
         Mine(k) == j.procs[k].pid \in Reportable /\ Owner(j.procs[k].pid) = i
     IN IF \E k \in DOMAIN j.procs : Mine(k)
        THEN WithProcs(j, [k \in DOMAIN j.procs |-> IF Mine(k) THEN Noted(j.procs[k]) ELSE j.procs[k]])
        ELSE j]

\* jobs_reap(0).  The table is read only after its last call of waitpid.
ReapChildren == child' = [p \in Pids |-> IF p \in Reportable THEN Told(p) ELSE child[p]]

\* An ID that was never used, the least one, or one that is free again.
NewPids(n) ==
  LET free == {p \in Pids : child[p] = "none"}
      fresh == {p \in free : owed[p] = "fresh"}
  IN {s \in [1..n -> free] :
        /\ \A k, l \in 1..n : s[k] = s[l] => k = l
        /\ \A k \in 1..n : s[k] \in fresh =>
              \A q \in fresh : q < s[k] => \E l \in 1..(k - 1) : s[l] = q}

\* What becomes of the statuses that are owed when slots are freed: of processes
\* that the table says have ended.
EndedIn(tab, S) == {p \in Pids : \E i \in S : \E k \in DOMAIN tab[i].procs :
                                   tab[i].procs[k].pid = p /\ tab[i].procs[k].state = "done"}
Forget(tab, S, how) ==
  [p \in Pids |-> IF owed[p] = "owed" /\ p \in EndedIn(tab, S) THEN how ELSE owed[p]]

\* An ID that a job of the table has already stands for two processes from now on.
Entered(pids, bg) ==
  [p \in Pids |->
     IF \E k \in DOMAIN pids : pids[k] = p
     THEN IF Holds(Kept, p) # {} THEN "shared" ELSE IF bg THEN "owed" ELSE "fg"
     ELSE Forget(jobtab, Pruned, "pruned")[p]]

--------------------------------------------------------------------------------
Nobody == [job |-> NoJob, pid |-> NoPid]
NoAnswer == [of |-> NoPid, due |-> "fresh", status |-> Unknown]

Init ==
  /\ mode \in {"script", "monitor", "interactive"}
  /\ jobtab = <<>> /\ curjob = NoJob /\ prevjob = NoJob
  /\ pc = "top" /\ asked = Nobody
  /\ pending = FALSE
  /\ child = [p \in Pids |-> "none"] /\ code = [p \in Pids |-> None]
  /\ cmds = 0 /\ events = 0
  /\ owed = [p \in Pids |-> "fresh"]
  /\ answer = NoAnswer

\* main_loop, before it reads: a pending trap is run, and the loop goes round.
TrapAtTop ==
  /\ pc = "top" /\ pending
  /\ pending' = FALSE /\ pc' = "trap"
  /\ UNCHANGED <<mode, table, asked, child, code, cmds, events, owed, answer>>

TrapEnds ==
  /\ pc = "trap"
  /\ pc' = "top"
  /\ UNCHANGED <<mode, table, asked, pending, child, code, cmds, events, owed, answer>>

\* The next command is read; an interactive shell reports first which background
\* jobs have stopped or ended, and frees those that have ended (jobs_notify).
Changed == {i \in Slots : Reaped[i].used /\ Reaped[i].bg /\ Reaped[i].changed}
Prompt ==
  /\ pc = "top" /\ ~pending
  /\ pc' = "read"
  /\ IF mode = "interactive"
     THEN LET over == {i \in Changed : Reaped[i].state = "done"}
              seen == [i \in Slots |-> IF i \in Changed THEN [Reaped[i] EXCEPT !.changed = FALSE]
                                       ELSE Reaped[i]]
          IN /\ job_free(seen, over)
             /\ ReapChildren
             /\ owed' = Forget(seen, over, "told")
     ELSE UNCHANGED <<table, child, owed>>
  /\ UNCHANGED <<mode, asked, pending, code, cmds, events, answer>>

\* read() is interrupted, and the traps are run before it is repeated.
TrapInRead ==
  /\ pc = "read" /\ pending
  /\ pending' = FALSE /\ pc' = "trap"
  /\ UNCHANGED <<mode, table, asked, child, code, cmds, events, owed, answer>>

ReadCommand ==
  /\ pc = "read" /\ cmds < MaxCmds
  /\ cmds' = cmds + 1
  /\ answer' = NoAnswer

Forked(pids) ==
  LET new == {pids[k] : k \in DOMAIN pids}
  IN /\ child' = [p \in Pids |-> IF p \in new THEN "running" ELSE child[p]]
     /\ code' = [p \in Pids |-> IF p \in new THEN cmds' ELSE code[p]]

\* "command &".
eval_async ==
  /\ ReadCommand
  /\ \E pids \in NewPids(1) :
       /\ jobtab' = WithJob(TRUE, pids)
       /\ curjob' = NewSlot
       /\ prevjob' = IF CurAfter(jobtab, Pruned) = NewSlot THEN PrevAfter(Pruned)
                     ELSE CurAfter(jobtab, Pruned)
       /\ Forked(pids)
       /\ owed' = Entered(pids, TRUE)
  /\ pc' = "top"
  /\ UNCHANGED <<mode, asked, pending, events>>

\* A command or a pipeline in the foreground: forks, then job_wait.
eval_pipe ==
  /\ ReadCommand
  /\ \E n \in 1..2 : \E pids \in NewPids(n) :
       /\ jobtab' = WithJob(FALSE, pids)
       /\ curjob' = CurAfter(jobtab, Pruned) /\ prevjob' = PrevAfter(Pruned)
       /\ Forked(pids)
       /\ owed' = Entered(pids, FALSE)
  /\ asked' = [job |-> NewSlot, pid |-> NoPid]
  /\ pc' = "job_wait"
  /\ UNCHANGED <<mode, pending, events>>

\* A fork fails: the job stays with the processes it has, and the shell reports an
\* error, of which one that is not interactive dies.
do_fork_fails ==
  /\ ReadCommand /\ events < MaxEvents
  /\ \E bg \in BOOLEAN, n \in 0..1 : \E pids \in NewPids(n) :
       /\ bg => n = 0
       /\ jobtab' = WithJob(bg, pids)
       /\ Forked(pids)
       /\ owed' = Entered(pids, FALSE)
  /\ curjob' = CurAfter(jobtab, Pruned) /\ prevjob' = PrevAfter(Pruned)
  /\ events' = events + 1
  /\ pc' = IF mode = "interactive" THEN "top" ELSE "exit"
  /\ UNCHANGED <<mode, asked, pending>>

--------------------------------------------------------------------------------
(* job_wait: the processes of a foreground job, one after the other. *)

Fg == jobtab[asked.job]
FirstRunning == Min({k \in DOMAIN Fg.procs : Fg.procs[k].state = "running"})

Gone(proc) == [proc EXCEPT !.state = "done", !.status = None]

\* waitpid(pid) returns, or fails as the process is no longer the shell's to wait for.
WaitProc ==
  /\ pc = "job_wait"
  /\ StateOf(Fg.procs) = "running"
  /\ LET p == Fg.procs[FirstRunning].pid
     IN \/ /\ child[p] = "zombie" \/ (child[p] = "halted" /\ jobctl)
           /\ jobtab' = [jobtab EXCEPT ![asked.job].procs[FirstRunning] = Noted(@)]
           /\ child' = [child EXCEPT ![p] = Told(p)]
        \/ /\ child[p] = "none"
           /\ jobtab' = [jobtab EXCEPT ![asked.job].procs[FirstRunning] = Gone(@)]
           /\ UNCHANGED child
  /\ UNCHANGED <<mode, curjob, prevjob, pc, asked, pending, code, cmds, events, owed, answer>>

PutBack(j) ==
  [WithProcs(j, j.procs) EXCEPT !.bg = TRUE, !.changed = FALSE, !.num = alloc_jobnum(jobtab)]

\* A stopped job goes to the background, under a new number; one that has ended is
\* freed.
JobWaited ==
  /\ pc = "job_wait"
  /\ StateOf(Fg.procs) # "running"
  /\ IF StateOf(Fg.procs) = "stopped"
     THEN /\ jobtab' = [jobtab EXCEPT ![asked.job] = PutBack(@)]
          /\ job_set_current(asked.job)
          /\ UNCHANGED owed
     ELSE /\ job_free(jobtab, {asked.job})
          /\ owed' = Forget(jobtab, {asked.job}, "told")
  /\ pc' = "top" /\ asked' = Nobody
  /\ UNCHANGED <<mode, pending, child, code, cmds, events, answer>>

--------------------------------------------------------------------------------
(* wait. *)

Reply(p, status) == [of |-> p, due |-> IF p = NoPid THEN "fresh" ELSE owed[p], status |-> status]
LastPid(j) == IF j.procs = <<>> THEN NoPid ELSE j.procs[Len(j.procs)].pid
OperandPid(tab) == IF asked.pid # NoPid THEN asked.pid ELSE LastPid(tab[asked.job])

WaitAll ==
  /\ ReadCommand
  /\ asked' = Nobody
  /\ pc' = "wait"
  /\ UNCHANGED <<mode, table, pending, child, code, events, owed>>

\* Of the jobs with a process ID the first that begins with it, if there is one.
job_by_pid(p) ==
  LET first == {i \in Holds(jobtab, p) : jobtab[i].procs[1].pid = p}
  IN Min(IF first # {} THEN first ELSE Holds(jobtab, p))

\* "wait pid" for an ID that the shell does not know answers 127 at once.
WaitPid ==
  /\ pc = "read" /\ cmds < MaxCmds /\ cmds' = cmds + 1
  /\ \E p \in {q \in Pids : owed[q] # "fresh"} :
       IF Holds(jobtab, p) = {}
       THEN /\ pc' = "top" /\ answer' = Reply(p, Unknown)
            /\ UNCHANGED asked
       ELSE /\ pc' = "wait" /\ answer' = NoAnswer
            /\ asked' = [job |-> job_by_pid(p), pid |-> p]
  /\ UNCHANGED <<mode, table, pending, child, code, events, owed>>

\* Jobs that %n or %+ can name.
Named(tab) == {i \in DOMAIN tab : tab[i].used /\ (tab[i].bg \/ i = curjob)}

WaitJob ==
  /\ ReadCommand
  /\ \E i \in Named(jobtab) : asked' = [job |-> i, pid |-> NoPid]
  /\ pc' = "wait"
  /\ UNCHANGED <<mode, table, pending, child, code, events, owed>>

\* By a process ID that does not name its process group a single process is asked for.
ByProc(j) == asked.pid # NoPid /\ ~(jobctl /\ j.procs[1].pid = asked.pid)
Over(j) == {k \in DOMAIN j.procs : j.procs[k].pid = asked.pid /\ j.procs[k].state # "running"}
Answers(j) == IF ByProc(j) THEN Over(j) # {} ELSE j.state # "running"
job_status(j) == IF j.procs = <<>> THEN None
                 ELSE j.procs[IF ByProc(j) THEN Max(Over(j)) ELSE Len(j.procs)].status

AnyRunning(tab) == \E i \in DOMAIN tab : tab[i].used /\ tab[i].bg /\ tab[i].state = "running"

\* The end of wait: what has been waited for and is over is freed.
EndWait(tab, status) ==
  LET over == IF asked.job = NoJob THEN Finished(tab)
              ELSE {i \in {asked.job} : tab[i].state = "done"}
  IN /\ job_free(tab, over)
     /\ owed' = Forget(tab, over, "told")
     /\ answer' = IF asked.job = NoJob THEN [NoAnswer EXCEPT !.status = status]
                  ELSE Reply(OperandPid(tab), status)
     /\ pc' = "top" /\ asked' = Nobody

\* The head of both loops of wait.
WaitLoop ==
  /\ pc = "wait"
  /\ ReapChildren
  /\ IF asked.job = NoJob
     THEN IF AnyRunning(Reaped)
          THEN /\ pc' = "wait_one" /\ jobtab' = Reaped
               /\ UNCHANGED <<curjob, prevjob, asked, owed, answer>>
          ELSE EndWait(Reaped, All)
     ELSE IF ~Answers(Reaped[asked.job])
          THEN /\ pc' = "wait_one" /\ jobtab' = Reaped
               /\ UNCHANGED <<curjob, prevjob, asked, owed, answer>>
          ELSE EndWait(Reaped, job_status(Reaped[asked.job]))
  /\ UNCHANGED <<mode, pending, code, cmds, events>>

\* A trapped signal ends wait; nothing is freed.
WaitTrapped ==
  /\ pc = "wait_one" /\ pending
  /\ pc' = "top" /\ asked' = Nobody
  /\ answer' = IF asked.job = NoJob THEN [NoAnswer EXCEPT !.status = Trapped]
               ELSE Reply(OperandPid(jobtab), Trapped)
  /\ UNCHANGED <<mode, table, pending, child, code, cmds, events, owed>>

\* After the test of pending_sig; a signal from now on does not keep waitpid from
\* waiting until it sleeps.
WaitUntrapped ==
  /\ pc = "wait_one" /\ ~pending
  /\ pc' = "waitpid"
  /\ UNCHANGED <<mode, table, asked, pending, child, code, cmds, events, owed, answer>>

WaitSleeps ==
  /\ pc = "waitpid" /\ Waitable = {} /\ Children # {}
  /\ pc' = "sleep"
  /\ UNCHANGED <<mode, table, asked, pending, child, code, cmds, events, owed, answer>>

\* wait_one enters the status wherever the process ID is found.
WaitReturns ==
  /\ pc \in {"waitpid", "sleep"}
  /\ \E p \in Waitable :
       /\ jobtab' = [i \in Slots |->
            IF i \notin Holds(jobtab, p) THEN jobtab[i]
            ELSE LET j == jobtab[i]
                 IN [WithProcs(j, [k \in DOMAIN j.procs |->
                                     IF j.procs[k].pid = p THEN Noted(j.procs[k]) ELSE j.procs[k]])
                       EXCEPT !.changed = TRUE]]
       /\ child' = [child EXCEPT ![p] = Told(p)]
  /\ pc' = "wait"
  /\ UNCHANGED <<mode, curjob, prevjob, asked, pending, code, cmds, events, owed, answer>>

\* ECHILD: whatever the table says, there is nothing left to wait for.
\* As after EINTR.
WaitNoChildAgain ==
  /\ pc = "waitpid" /\ Children = {}
  /\ pc' = "wait"
  /\ UNCHANGED <<mode, table, asked, pending, child, code, cmds, events, owed, answer>>
WaitNoChild ==
  /\ pc = "waitpid" /\ Children = {}
  /\ EndWait(jobtab, IF asked.job = NoJob THEN All ELSE Unknown)
  /\ UNCHANGED <<mode, pending, child, code, cmds, events>>

--------------------------------------------------------------------------------
(* jobs, fg, bg, kill. *)

bi_jobs ==
  /\ ReadCommand
  /\ LET over == Finished(Reaped)
         seen == [i \in Slots |-> IF Reaped[i].bg THEN [Reaped[i] EXCEPT !.changed = FALSE] ELSE Reaped[i]]
     IN /\ job_free(seen, over)
        /\ owed' = Forget(seen, over, "told")
  /\ ReapChildren
  /\ pc' = "top"
  /\ UNCHANGED <<mode, asked, pending, code, events>>

Continued(j) ==
  [j EXCEPT !.state = "running",
            !.procs = [k \in DOMAIN @ |-> IF @[k].state = "stopped" THEN [@[k] EXCEPT !.state = "running"]
                                          ELSE @[k]]]
\* SIGCONT for the processes of ps.
Cont(ch, ps) == [p \in Pids |-> IF p \in ps /\ ch[p] \in {"halted", "stopped"} THEN "continued" ELSE ch[p]]

\* A job that has ended counts as running again, and never ends: its status is lost.
Revived(j) ==
  [p \in Pids |-> IF owed[p] \in {"owed", "fg"} /\ p \in PidsOf(j) /\ StateOf(j.procs) = "done"
                  THEN "revived" ELSE owed[p]]

Resumed(j, fg) == [Continued(j) EXCEPT !.bg = j.bg /\ ~fg]

\* fg and bg, with job control only.
job_continue ==
  /\ ReadCommand /\ jobctl
  /\ \E i \in Named(Reaped), fg \in BOOLEAN :
       /\ jobtab' = [Reaped EXCEPT ![i] = Resumed(@, fg)]
       /\ child' = Cont([p \in Pids |-> IF p \in Reportable THEN Told(p) ELSE child[p]], PidsOf(Reaped[i]))
       /\ asked' = IF fg THEN [job |-> i, pid |-> NoPid] ELSE asked
       /\ pc' = IF fg THEN "job_wait" ELSE "top"
       /\ owed' = IF fg THEN owed ELSE Revived(Reaped[i])
  /\ UNCHANGED <<mode, curjob, prevjob, pending, code, events>>

\* kill -s CONT %n
KillJob ==
  /\ ReadCommand
  /\ \E i \in Named(jobtab) :
       /\ jobtab' = [jobtab EXCEPT ![i] = Continued(@)]
       /\ child' = Cont(child, PidsOf(jobtab[i]))
       /\ owed' = Revived(jobtab[i])
  /\ pc' = "top"
  /\ UNCHANGED <<mode, curjob, prevjob, asked, pending, code, events>>

\* kill -s CONT pid: the table learns of it from waitpid.
KillPid ==
  /\ ReadCommand
  /\ \E p \in Pids : child' = Cont(child, {p}) /\ child' # child
  /\ pc' = "top"
  /\ UNCHANGED <<mode, table, asked, pending, code, events, owed>>

--------------------------------------------------------------------------------
(* Processes and signals. *)

ChildEnds(p) ==
  /\ child[p] \in {"running", "continued"}
  /\ child' = [child EXCEPT ![p] = "zombie"]
  /\ UNCHANGED <<mode, table, pc, asked, pending, code, cmds, events, owed, answer>>

\* In a script only background processes are stopped: nobody continues another one.
ChildStops(p) ==
  /\ child[p] \in {"running", "continued"} /\ events < MaxEvents
  /\ ~jobctl /\ pc = "job_wait" => p \notin PidsOf(Fg)
  /\ child' = [child EXCEPT ![p] = "halted"] /\ events' = events + 1
  /\ UNCHANGED <<mode, table, pc, asked, pending, code, cmds, owed, answer>>

\* on_sig; a waitpid that sleeps in wait returns EINTR.
Signal ==
  /\ events < MaxEvents /\ pc # "exit"
  /\ pending' = TRUE /\ events' = events + 1
  /\ pc' = IF pc = "sleep" THEN "wait_one" ELSE pc
  /\ UNCHANGED <<mode, table, asked, child, code, cmds, owed, answer>>

Wait == WaitLoop \/ WaitTrapped \/ WaitUntrapped \/ WaitSleeps \/ WaitReturns \/ WaitNoChild
Shell == TrapAtTop \/ TrapEnds \/ Prompt \/ TrapInRead \/ WaitProc \/ JobWaited \/ Wait
Command == eval_async \/ eval_pipe \/ do_fork_fails \/ WaitAll \/ WaitPid \/ WaitJob
           \/ bi_jobs \/ job_continue \/ KillJob \/ KillPid

Next == Shell \/ Command \/ Signal \/ \E p \in Pids : ChildEnds(p) \/ ChildStops(p)

\* The shell goes on, and a process that is not stopped ends.
Fairness == WF_vars(Shell) /\ \A p \in Pids : WF_vars(ChildEnds(p))
Spec == Init /\ [][Next]_vars /\ Fairness

--------------------------------------------------------------------------------
TypeOK ==
  /\ mode \in {"script", "monitor", "interactive"}
  /\ \A i \in Slots :
       /\ jobtab[i].used \in BOOLEAN /\ jobtab[i].bg \in BOOLEAN /\ jobtab[i].num \in Nat
       /\ jobtab[i].state \in {"running", "stopped", "done"} /\ jobtab[i].changed \in BOOLEAN
       /\ \A k \in DOMAIN jobtab[i].procs : jobtab[i].procs[k] \in Proc
  /\ {curjob, prevjob, asked.job} \subseteq Slots \cup {NoJob}
  /\ pc \in {"top", "trap", "read", "job_wait", "wait", "wait_one", "waitpid", "sleep", "exit"}
  /\ pending \in BOOLEAN
  /\ child \in [Pids -> {"none", "zombie"} \cup Alive]
  /\ code \in [Pids -> Codes]
  /\ owed \in [Pids -> {"fresh", "fg", "owed", "told", "pruned", "shared", "revived"}]

\* wait answers for a background process with the status of that process, and
\* never that it does not know it, as long as its status was not told before, not
\* dropped from a long table, its ID not given to another job's process, and the
\* job not continued after its end.
StatusTrue ==
  answer.due = "owed" =>
    \/ answer.status = Trapped
    \/ answer.status = Stopped /\ child[answer.of] = "stopped"
    \/ answer.status = code[answer.of] /\ child[answer.of] = "none"

\* A background process whose status was not told has not ended without a trace:
\* the system or the table keeps its status.
NothingLost ==
  \A p \in Pids : owed[p] = "owed" /\ child[p] = "none" =>
    \E i \in Slots : \E k \in DOMAIN jobtab[i].procs :
      jobtab[i].procs[k] = [pid |-> p, state |-> "done", status |-> code[p]]

\* When wait without operands returns, no background process runs, also if the
\* shell has only been told that it stopped, and not that it was continued.
WaitComplete ==
  answer.status = All =>
    \A p \in Pids : owed[p] = "owed" => child[p] \notin {"running", "continued"}

\* Numbers name background jobs one to one, and %+ names one of the unfinished jobs
\* with a process as long as there is any, or a job that has ended since; but a job is
\* not found again when it was continued after its end, or takes a later process for its own.
JobIDs ==
  /\ TypeOK
  /\ \A i, k \in Slots : jobtab[i].used /\ jobtab[k].used /\ jobtab[i].bg /\ jobtab[k].bg /\ i # k =>
       jobtab[i].num # jobtab[k].num
  /\ curjob # NoJob => jobtab[curjob].used /\ curjob # prevjob
  /\ prevjob # NoJob => curjob # NoJob /\ jobtab[prevjob].used
  /\ curjob = NoJob => \A i \in Unfinished(jobtab) :
       jobtab[i].procs = <<>> \/ \E p \in PidsOf(jobtab[i]) : owed[p] \in {"revived", "shared"}

\* What the table says and the shell answers is so: the status, the numbers, the
\* current and the previous job.
TableTrue == StatusTrue /\ JobIDs

\* No background process is forgotten before its status was told.
ChildrenKept == NothingLost /\ WaitComplete

\* wait returns, whatever the table says of jobs that have no process any more:
\* unless a process is stopped.
WaitEnds == pc \in {"wait", "wait_one", "waitpid", "sleep"} ~>
              (pc \in {"top", "exit"} \/ \E p \in Pids : child[p] = "stopped")
================================================================================
