---------------------------- MODULE MCDaemonsLive ----------------------------
(* timeout for TLC, and at, batch, atd, crond and crontab without faults, to  *)
(* the end.  A behaviour is one part's; the variables of the parts that are   *)
(* not at work stay as they are.                                              *)
EXTENDS Timeout, TLC

CONSTANTS s1, s2, alice, bob, crontab, None, NoText

VARIABLES
  part,
  at_clock, crashes, seq, lock, tmp, file, claim, spc, num, when, rpc, target, apc, at_unread, list, at_todo, now,
  runs, wake, shell, ran, removed,
  wallclock, jumped, spool, cmd, opt_s, cron_pc, last, t, upto, entries, user, lines, skipped, jobs, killed,
  failures

at == <<at_clock, crashes, seq, lock, tmp, file, claim, spc, num, when, rpc, target, apc, at_unread, list, at_todo, now,
        runs, wake, shell, ran, removed>>
cron == <<wallclock, jumped, spool, cmd, opt_s, cron_pc, last, t, upto, entries, user, lines, skipped, jobs,
          killed, failures>>
all == <<part, vars, at, cron>>

----------------------------------------------------------------------------
(* timeout, its utility and others who stop that and send signals to         *)
(* timeout.  Without -f it may lead its group or not; -p and -s only matter  *)
(* with a limit; without a limit there is -k.                                *)
Command(sigs) ==
  {o \in [f : BOOLEAN, p : BOOLEAN, limit : 0 .. 1, ktime : 0 .. 1, leader : BOOLEAN, sig : sigs] :
     /\ o.f => ~o.leader
     /\ o.limit = 0 => o.ktime = 1 /\ ~o.p /\ o.sig = "TERM"}
AllOptions ==
  {o \in Command({"TERM"}) : ~o.p}
    \cup {o \in Command({"KILL", "CONT"}) :
            ~o.f /\ o.ktime = 0 /\ o.p = (o.sig = "KILL") /\ o.leader = (o.sig = "CONT")}

----------------------------------------------------------------------------
(* Two submissions of batch jobs, a daemon and an atd -s.                    *)
Submissions == {s1, s2}
Batch == [s \in Submissions |-> "b"]
Spool ==
  INSTANCE AtSpool WITH Sub <- Submissions, Queue <- Batch, Remover <- {}, Atd <- {"d", "o"}, Once <- {"o"},
    MaxTime <- 1, MaxCrashes <- 0, TornCounter <- FALSE, AtdCrashes <- FALSE, ForkFails <- FALSE, OpenFails <- TRUE,
    clock <- at_clock, unread <- at_unread, todo <- at_todo
AtIdle ==
  /\ at_clock = 0 /\ crashes = 0 /\ seq = 0 /\ lock = 0 /\ tmp = 0 /\ file = 0 /\ claim = 0 /\ spc = 0 /\ num = 0
  /\ when = 0 /\ rpc = 0 /\ target = 0 /\ apc = 0 /\ at_unread = 0 /\ list = 0 /\ at_todo = 0 /\ now = 0 /\ runs = 0
  /\ wake = 0 /\ shell = 0 /\ ran = 0 /\ removed = 0

----------------------------------------------------------------------------
(* A crontab is changed and the clock is set back; no command needs to end. *)
Text(ls, v) == [lines |-> ls, valid |-> v]
Line(ms, input) == [at |-> ms, input |-> input, mails |-> FALSE]
Hourly == Text(<<Line({1, 2}, "short")>>, TRUE)
Single == Text(<<Line({1}, "short")>>, TRUE)
Bad == Text(<<Line({1}, "long")>>, FALSE)
Cron ==
  INSTANCE Crond WITH Users <- {alice, bob}, Texts <- {Single, Hourly, Bad}, Table <- (alice :> Hourly) @@ (bob :> Hourly),
    Crontab <- {crontab}, Requests <- [user : {alice}, op : {"install", "edit", "remove"}], OptS <- {FALSE},
    CatchUp <- 2, LastMinute <- 2, MayKill <- {}, MaxFail <- 0, MayJump <- TRUE,
    pc <- cron_pc
CronIdle ==
  /\ wallclock = 0 /\ jumped = 0 /\ spool = 0 /\ cmd = 0 /\ opt_s = 0 /\ cron_pc = 0 /\ last = 0 /\ t = 0
  /\ upto = 0 /\ entries = 0 /\ user = 0 /\ lines = 0 /\ skipped = 0 /\ jobs = 0 /\ killed = 0 /\ failures = 0

----------------------------------------------------------------------------
\* While another part is at work, timeout is a command that is not run yet.
NotRun ==
  /\ Init /\ survives = {}
  /\ opt = [f |-> FALSE, p |-> FALSE, limit |-> 0, ktime |-> 1, leader |-> FALSE, sig |-> "TERM"]

LiveInit ==
  \/ part = "timeout" /\ Init /\ AtIdle /\ CronIdle
  \/ part = "at" /\ Spool!Init /\ NotRun /\ CronIdle
  \/ part = "cron" /\ Cron!CronInit /\ NotRun /\ AtIdle

TimeoutStep(A) == part = "timeout" /\ A /\ UNCHANGED <<part, at, cron>>
AtStep(A) == part = "at" /\ A /\ UNCHANGED <<part, vars, cron>>
CronStep(A) == part = "cron" /\ A /\ UNCHANGED <<part, vars, at>>

\* The fairness of Timeout, AtSpool and Crond.  Only one of the parts is at work, so
\* that actions of each can share a condition.
LiveSpec ==
  /\ LiveInit /\ [][TimeoutStep(Next) \/ AtStep(Spool!Next) \/ CronStep(Cron!CronNext)]_all
  /\ WF_all(TimeoutStep(Main) \/ AtStep(Spool!Daemon("d")) \/ CronStep(Cron!CronDaemon))
  /\ WF_all(TimeoutStep(Utility) \/ AtStep(Spool!Daemon("o")) \/ CronStep(Cron!Mailed))
  /\ WF_all(TimeoutStep(Tick) \/ AtStep(Spool!EndShell(s1)) \/ CronStep(Cron!CrontabStep))
  /\ WF_all(AtStep(Spool!EndShell(s2)) \/ CronStep(Cron!CronTick))
  /\ WF_all(AtStep(Spool!Tick))

\* Jobs are run once, the batch jobs in order, and atd -s ends only when what was due has
\* been run (RunOnce, InOrder and OnceComplete of AtSpool); a line is run once, although
\* the clock is set back (LineOnce of Crond).
InOrder ==
  /\ [](part = "at" => Spool!RunOnce /\ Spool!OnceComplete)
  /\ [][part = "at" => Spool!InOrder]_all
  /\ [](part = "cron" => Cron!LineOnce)

\* Every job submitted is run when its time has come, or removed; the line of the crontab
\* that nobody touches is run in each of its minutes, although no command needs to end.
\* timeout passes a signal on, or the utility has ended; it ends when the utility has,
\* after -k whatever that survives, and at the limit as long as nobody sends it a signal.
Owed(k) ==
  \/ part = "at" /\ spc[<<s1, s2>>[k]] = "told"
  \/ part = "cron" /\ Cron!Due(bob, Line({1, 2}, "short"), k)
  \/ part = "timeout" /\ IF k = 1 THEN child = "zombie" \/ (HaveK /\ first_sent) ELSE asked # {} \/ Limited
Paid(k) ==
  /\ part = "at" => Spool!Over(<<s1, s2>>[k])
  /\ part = "cron" => Cron!Done(bob, Line({1, 2}, "short"), k)
  /\ part = "timeout" => IF k = 1 \/ asked = {} THEN Over ELSE asked \subseteq received \/ ~Alive
Served == \A k \in {1, 2} : Owed(k) ~> Paid(k)
=============================================================================
