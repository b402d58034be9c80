------------------------------- MODULE Crond -------------------------------
(***************************************************************************)
(* crond (crontab/crond.c), the commands it runs and mailx, beside the     *)
(* crontab commands (crontab/crontab.c) that install, edit and remove the  *)
(* entries in the spool directory, and the clock.  Time is counted in      *)
(* minutes.  A crontab is a text: its lines, and whether each is valid.    *)
(*                                                                         *)
(* Not here: which minutes a line matches (cron.c; a line says so), the    *)
(* users' IDs, cron.allow and cron.deny, and the formats of the files.     *)
(***************************************************************************)
EXTENDS Integers, Sequences, Functions

CONSTANTS
  Users,
  Texts,        \* the crontabs there are, and that are given to crontab: [lines, valid]
  Table,        \* the text each user starts with, or NoText
  NoText,
  Crontab,      \* the crontab commands
  Requests,     \* what each can be asked: [user, op]
  OptS,         \* is crond started with -s? (a set of BOOLEANs)
  CatchUp,      \* the most minutes that are run late (an hour in the code)
  LastMinute,   \* bound on the clock
  MayKill,      \* who can be killed (once): of "crond" and Crontab
  MaxFail,      \* bound on how often open, write, pipe, fork or realloc fails
  MayJump       \* can the clock be set back (once)?

\* a line: the minutes it matches, its input (a pipe holds a short one), does its command
\* write anything
Minutes == 0 .. LastMinute
Line == [at : SUBSET Minutes, input : {"short", "long"}, mails : BOOLEAN]

ASSUME CronTexts ==
  /\ \A x \in Texts : x.lines \in Seq(Line) /\ IsInjective(x.lines) /\ x.valid \in BOOLEAN
  /\ NoText \notin Texts
  /\ Table \in [Users -> {x \in Texts : x.valid} \cup {NoText}]
  /\ Requests \subseteq [user : Users, op : {"install", "edit", "remove"}]
ASSUME CronBounds ==
  /\ CatchUp \in Nat \ {0} /\ LastMinute \in Nat /\ "crond" \notin Crontab /\ MayKill \subseteq Crontab \cup {"crond"}
  /\ Users # {} /\ OptS \subseteq BOOLEAN /\ MaxFail \in Nat /\ MayJump \in BOOLEAN

VARIABLES
  wallclock, jumped,    \* the time, and whether the clock was set back
  spool,                \* [Users -> a text or NoText]: the directory
  cmd,                  \* [Crontab -> [asked, pc, copy]]: what it is asked, where it is,
                        \* what it read or has to install
  opt_s, pc,            \* crond: its option, where it is
  last,                 \* the last minute it has run
  t, upto,              \* the minute being run, and the last to be run
  entries,              \* users whose crontab is still to be read in it
  user, lines,          \* the crontab being read: whose, and the lines left that match, numbered
  skipped,              \* the minutes of which it could not read the directory or a crontab
  jobs,                 \* the commands, in order of their start
  killed,               \* who has been killed
  failures              \* how often something failed

time   == <<wallclock, jumped>>
minute == <<t, upto, entries, user, lines, skipped>>
crond  == <<opt_s, pc, last, minute>>
cronVars   == <<time, spool, cmd, crond, jobs, killed, failures>>

\* a command: its line, user and minute; has it ended; has it read its input; who waits
\* for it; the mail
Job(u, l, m) ==
  [user |-> u, line |-> l, minute |-> m, state |-> "running", read |-> FALSE,
   parent |-> "crond", mail |-> "none"]

CronInit ==
  /\ wallclock = 0 /\ jumped = FALSE
  /\ spool = Table
  /\ cmd \in [Crontab -> [asked : Requests, pc : {"start"}, copy : {NoText}]]
  /\ opt_s \in OptS /\ pc = IF opt_s THEN "minute" ELSE "sleep"
  /\ last = 0 /\ t \in (IF opt_s THEN Minutes ELSE {0}) /\ upto = t    \* -T: any minute
  /\ entries = {} /\ user = (CHOOSE u \in Users : TRUE) /\ lines = {} /\ skipped = {}
  /\ jobs = <<>> /\ killed = {} /\ failures = 0

-----------------------------------------------------------------------------
(* crontab.                                                                *)

Fail == failures < MaxFail /\ failures' = failures + 1
NoFail == UNCHANGED failures

SetCmd(c, p, x) == cmd' = [cmd EXCEPT ![c].pc = p, ![c].copy = x]
Wants(c, o) == cmd[c].pc = "start" /\ cmd[c].asked.op = o

Remove(c) ==
  /\ Wants(c, "remove")
  /\ spool' = [spool EXCEPT ![cmd[c].asked.user] = NoText]
  /\ SetCmd(c, "done", NoText)
  /\ UNCHANGED <<time, crond, jobs, killed, failures>>

\* read_entry: what the editor gets
ReadEntry(c) ==
  /\ Wants(c, "edit")
  /\ SetCmd(c, "editor", spool[cmd[c].asked.user])
  /\ UNCHANGED <<time, spool, crond, jobs, killed, failures>>

\* the file is read, or the editor done: what is unchanged or not valid is not installed
Check(c) ==
  /\ Wants(c, "install") \/ cmd[c].pc = "editor"
  /\ \E x \in Texts : IF x.valid /\ x # cmd[c].copy THEN SetCmd(c, "write", x)
                                                     ELSE SetCmd(c, "done", NoText)
  /\ UNCHANGED <<time, spool, crond, jobs, killed, failures>>

\* a new file is written, which crond does not read: its name begins with a dot
InPlace(u, x) == [spool EXCEPT ![u] = [x EXCEPT !.lines = SubSeq(@, 1, 1)]]
Aside(u, x) == spool
Write(c) ==
  /\ cmd[c].pc = "write"
  /\ spool' = Aside(cmd[c].asked.user, cmd[c].copy)
  /\ \/ SetCmd(c, "rename", cmd[c].copy) /\ NoFail
     \/ Fail /\ SetCmd(c, "done", NoText)
  /\ UNCHANGED <<time, crond, jobs, killed>>

Install(c) ==
  /\ cmd[c].pc = "rename"
  /\ spool' = [spool EXCEPT ![cmd[c].asked.user] = cmd[c].copy]
  /\ SetCmd(c, "done", NoText)
  /\ UNCHANGED <<time, crond, jobs, killed, failures>>

KillCrontab(c) ==
  /\ c \in MayKill \ killed /\ cmd[c].pc \notin {"start", "done"}
  /\ killed' = killed \cup {c}
  /\ SetCmd(c, "done", NoText)
  /\ UNCHANGED <<time, spool, crond, jobs, failures>>

CrontabStep == \E c \in Crontab : Remove(c) \/ ReadEntry(c) \/ Check(c) \/ Write(c) \/ Install(c)

-----------------------------------------------------------------------------
(* crond: reap and mail_output.                                            *)

SetState(i, s) == jobs' = [jobs EXCEPT ![i].state = s]
Zombies == {i \in DOMAIN jobs : jobs[i].state = "ended" /\ jobs[i].parent # "init"}
Runs == {i \in DOMAIN jobs : jobs[i].parent = "crond" /\ jobs[i].state \notin {"failed", "reaped"}}

Wake ==
  /\ pc = "sleep"
  /\ pc' = "reap"
  /\ UNCHANGED <<time, spool, cmd, opt_s, last, minute, jobs, killed, failures>>

\* a command has ended: its output is mailed if there is any, and removed
ReapCommand ==
  /\ pc = "reap" /\ Runs # {}
  /\ \E i \in Zombies :
       IF jobs[i].parent = "crond" /\ jobs[i].line.mails
       THEN \/ pc' = "mail" /\ SetState(i, "mailing") /\ NoFail
            \/ /\ Fail
               /\ jobs' = [jobs EXCEPT ![i].state = "reaped", ![i].mail = "lost"]
               /\ UNCHANGED pc
       ELSE SetState(i, "reaped") /\ UNCHANGED pc /\ NoFail
  /\ UNCHANGED <<time, spool, cmd, opt_s, last, minute, killed>>

\* mailx has ended: crond waits for it
Mailed ==
  /\ pc = "mail"
  /\ \E i \in DOMAIN jobs :
       /\ jobs[i].state = "mailing"
       /\ jobs' = [jobs EXCEPT ![i].state = "reaped", ![i].mail = "sent"]
  /\ pc' = "reap"
  /\ UNCHANGED <<time, spool, cmd, opt_s, last, minute, killed, failures>>

\* without -s nobody is waited for
AllReaped == IF opt_s THEN Runs = {} ELSE Runs = {} \/ Zombies = {}
EndReap ==
  /\ pc = "reap" /\ AllReaped
  /\ pc' = IF opt_s THEN "exit" ELSE "check"
  /\ UNCHANGED <<time, spool, cmd, opt_s, last, minute, jobs, killed, failures>>

-----------------------------------------------------------------------------
(* crond: main's loop, and minute.                                         *)

\* each minute since the last one, at most an hour of them
From == IF wallclock - last > CatchUp THEN wallclock - CatchUp + 1 ELSE last + 1
Later == wallclock > last

CheckTime ==
  /\ pc = "check"
  /\ IF Later
     THEN pc' = "minute" /\ t' = From /\ upto' = wallclock
     ELSE pc' = "sleep" /\ UNCHANGED <<t, upto>>
  /\ UNCHANGED <<time, spool, cmd, opt_s, last, entries, user, lines, skipped, jobs, killed, failures>>

\* opendir; whether readdir shows what is added meanwhile is not specified
Present == {u \in Users : spool[u] # NoText}
OpenCrontabs ==
  /\ pc = "minute" /\ t <= upto
  /\ \/ entries' \in {s \in SUBSET Users : Present \subseteq s} /\ UNCHANGED skipped /\ NoFail
     \/ Fail /\ entries' = {} /\ skipped' = skipped \cup {t}
  /\ pc' = "users"
  /\ UNCHANGED <<time, spool, cmd, opt_s, last, t, upto, user, lines, jobs, killed>>

\* fopen: what is installed later does not change the open file
Matching(u) ==
  IF spool[u] = NoText THEN {}
  ELSE {<<i, spool[u].lines[i]>> : i \in {k \in DOMAIN spool[u].lines : t \in spool[u].lines[k].at}}
ReadCrontab ==
  /\ pc = "users" /\ lines = {}
  /\ \E u \in entries :
       /\ entries' = entries \ {u} /\ user' = u
       /\ \/ lines' = Matching(u) /\ UNCHANGED skipped /\ NoFail
          \/ Fail /\ UNCHANGED lines /\ skipped' = skipped \cup {t}
  /\ UNCHANGED <<time, spool, cmd, opt_s, pc, last, t, upto, jobs, killed>>

EndMinute ==
  /\ pc = "users" /\ lines = {} /\ entries = {}
  /\ t' = t + 1
  /\ pc' = "minute"
  /\ UNCHANGED <<time, spool, cmd, opt_s, last, upto, entries, user, lines, skipped, jobs, killed, failures>>

EndMinutes ==
  /\ pc = "minute" /\ t > upto
  /\ last' = upto /\ t' = 0 /\ upto' = 0
  /\ pc' = IF opt_s THEN "reap" ELSE "sleep"
  /\ UNCHANGED <<time, spool, cmd, opt_s, entries, user, lines, skipped, jobs, killed, failures>>

\* run: the command is started; or it is not, for want of a file or a process
Run ==
  /\ pc = "users" /\ lines # {}
  /\ \E x \in lines :
       LET job == Job(user, x[2], t) IN
         /\ \A y \in lines : x[1] <= y[1]
         /\ lines' = lines \ {x}
         /\ \/ jobs' = Append(jobs, job) /\ pc' = "input" /\ NoFail
            \/ Fail /\ jobs' = Append(jobs, [job EXCEPT !.state = "failed"]) /\ UNCHANGED pc
  /\ UNCHANGED <<time, spool, cmd, opt_s, last, t, upto, entries, user, skipped, killed>>

\* crond waits for the child that writes the input into the pipe; or there is no such child;
\* or the command is forgotten, for want of memory
CommandOver == jobs[Len(jobs)].state = "ended"
Written == jobs[Len(jobs)].line.input = "short" \/ jobs[Len(jobs)].read \/ CommandOver
InputWritten ==
  /\ pc = "input"
  /\ \/ Written /\ UNCHANGED jobs /\ NoFail
     \/ Fail /\ UNCHANGED jobs
     \/ Written /\ Fail /\ jobs' = [jobs EXCEPT ![Len(jobs)].parent = "forgotten"]
  /\ pc' = "users"
  /\ UNCHANGED <<time, spool, cmd, opt_s, last, minute, killed>>

CronDaemon ==
  Wake \/ ReapCommand \/ EndReap \/ CheckTime \/ OpenCrontabs \/ ReadCrontab \/ EndMinute \/ EndMinutes
    \/ Run \/ InputWritten

\* crond is killed; its commands go on (not after the clock was set back: started again,
\* it would run minutes again)
KillCrond ==
  /\ "crond" \in MayKill \ killed /\ ~opt_s /\ ~jumped
  /\ killed' = killed \cup {"crond"}
  /\ pc' = "down"
  /\ t' = 0 /\ upto' = 0 /\ entries' = {} /\ lines' = {}
  /\ jobs' = [i \in DOMAIN jobs |->
                [jobs[i] EXCEPT !.parent = "init",
                                !.state = IF @ \in {"running", "failed"} THEN @ ELSE "reaped"]]
  /\ UNCHANGED <<time, spool, cmd, opt_s, last, user, skipped, failures>>

\* ... and started again, any time later
Restarted == wallclock
Restart ==
  /\ pc = "down"
  /\ pc' = "sleep" /\ last' = Restarted
  /\ UNCHANGED <<time, spool, cmd, opt_s, minute, jobs, killed, failures>>

-----------------------------------------------------------------------------
(* The rest of the system.                                                 *)

ReadInput ==
  /\ \E i \in DOMAIN jobs :
       /\ jobs[i].state = "running" /\ jobs[i].line.input = "long" /\ ~jobs[i].read
       /\ jobs' = [jobs EXCEPT ![i].read = TRUE]
  /\ UNCHANGED <<time, spool, cmd, crond, killed, failures>>

EndCommand ==
  /\ \E i \in DOMAIN jobs :
       /\ jobs[i].state = "running"
       /\ SetState(i, IF jobs[i].parent = "init" THEN "reaped" ELSE "ended")
  /\ UNCHANGED <<time, spool, cmd, crond, killed, failures>>

CronTick ==
  /\ wallclock < LastMinute
  /\ wallclock' = wallclock + 1
  /\ UNCHANGED <<jumped, spool, cmd, crond, jobs, killed, failures>>

SetBack ==
  /\ MayJump /\ ~jumped /\ killed = {}
  /\ jumped' = TRUE
  /\ wallclock' \in 0 .. wallclock - 1
  /\ UNCHANGED <<spool, cmd, crond, jobs, killed, failures>>

CronNext ==
  \/ CronDaemon \/ Mailed \/ CrontabStep
  \/ KillCrond \/ Restart \/ \E c \in Crontab : KillCrontab(c)
  \/ ReadInput \/ EndCommand \/ CronTick \/ SetBack

\* crond, the crontab commands, mailx and the clock go on; a command need not end, nor
\* read its input
CronFairness == WF_cronVars(CronDaemon) /\ WF_cronVars(Mailed) /\ WF_cronVars(CrontabStep) /\ WF_cronVars(CronTick)

CronSpec == CronInit /\ [][CronNext]_cronVars /\ CronFairness
-----------------------------------------------------------------------------
(* Properties.                                                             *)

Copies == Texts \cup {NoText}
Command ==
  [user : Users, line : Line, minute : Minutes,
   state : {"running", "ended", "mailing", "reaped", "failed"}, read : BOOLEAN,
   parent : {"crond", "forgotten", "init"}, mail : {"none", "sent", "lost"}]

\* The type invariant.
CronTypeOK ==
  /\ wallclock \in Minutes /\ jumped \in BOOLEAN /\ killed \subseteq MayKill /\ failures \in 0 .. MaxFail
  /\ spool \in [Users -> Copies]
  /\ cmd \in [Crontab -> [asked : Requests, pc : {"start", "editor", "write", "rename", "done"}, copy : Copies]]
  /\ opt_s \in OptS
  /\ pc \in {"sleep", "reap", "mail", "check", "minute", "users", "input", "exit", "down"}
  /\ last \in Minutes /\ t \in 0 .. LastMinute + 1 /\ upto \in Minutes /\ skipped \subseteq Minutes
  /\ entries \subseteq Users /\ user \in Users /\ lines \subseteq Nat \X Line
  /\ jobs \in Seq(Command)

Started(i) == <<jobs[i].user, jobs[i].line, jobs[i].minute>>

\* A line is run at most once for a minute, although crond is restarted, catches up with
\* minutes it missed, or the clock is set back.
LineOnce == \A i, j \in DOMAIN jobs : Started(i) = Started(j) => i = j

\* "Installed whole": what crond runs for a user in a minute is what one valid crontab has
\* for it, however crontab and crond interleave and crontab dies (a crond that dies may
\* leave lines out).
WholeTable ==
  pc \in {"sleep", "minute"} =>
    \A u \in Users, m \in Minutes :
      LET ran == {i \in DOMAIN jobs : jobs[i].user = u /\ jobs[i].minute = m}
      IN  ran # {} /\ (\A i \in ran : jobs[i].parent # "init") =>
            \E x \in Texts : /\ x.valid
                             /\ {jobs[i].line : i \in ran} = {l \in Range(x.lines) : m \in l.at}

Steady == {u \in Users : Table[u] # NoText /\ \A c \in Crontab : cmd[c].asked.user # u}
Ran(u, l, m) == \E i \in DOMAIN jobs : Started(i) = <<u, l, m>>

\* When crond is behind it runs each minute since the last one, up to the limit: no line
\* of a crontab that nobody touches is left out.
CaughtUp ==
  pc = "minute" /\ t > upto /\ ~opt_s =>
    \A u \in Steady, m \in (last + 1 .. upto) \ skipped : m > upto - CatchUp =>
      \A l \in Range(Table[u].lines) : m \in l.at => Ran(u, l, m)

\* crond -s exits only when every command of the minute has ended and the mail of its
\* output was tried.
AllWaited ==
  pc = "exit" =>
    \A i \in DOMAIN jobs : jobs[i].parent = "crond" =>
      \/ jobs[i].state = "failed"
      \/ jobs[i].state = "reaped" /\ (jobs[i].line.mails => jobs[i].mail # "none")

\* Every line of an untouched crontab is run for each of its minutes, although no command
\* needs to end: crond does not wait for commands.
Due(u, l, m) == u \in Steady /\ m \in l.at /\ wallclock = m /\ ~opt_s
Done(u, l, m) == Ran(u, l, m) \/ m \in skipped

\* A line of a crontab is run at most once for a minute, from a table that was installed
\* whole; missed minutes are caught up; crond -s waits for all.
CronTrue == CronTypeOK /\ LineOnce /\ WholeTable /\ CaughtUp /\ AllWaited
=============================================================================
