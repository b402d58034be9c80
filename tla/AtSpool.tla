------------------------------ MODULE AtSpool ------------------------------
(***************************************************************************)
(* The job spool of at, batch and atd (at/at.c, at/atd.c, at/spool.c).     *)
(*                                                                         *)
(* The processes share nothing but the spool directory: at takes a number  *)
(* from the counter .seq under a lock and renames a finished file to its   *)
(* job ID, at -r unlinks one, and every atd -- the daemon and any atd -s   *)
(* that somebody runs -- claims the jobs that are due by renaming them to  *)
(* "=ID" and hands them to a shell.  Each system call is a step.           *)
(***************************************************************************)
EXTENDS Integers, FiniteSets

CONSTANTS
  Sub,          \* the submissions: invocations of at and batch
  Remover,      \* the invocations of at -r
  Atd,          \* the running atd's
  Once,         \* those of them that were started with -s
  None,         \* no process, no file
  Queue,        \* the queue of each submission, "a" or "b" (batch)
  MaxTime,      \* bound on the clock
  MaxCrashes,   \* bound on the number of processes that are killed
  TornCounter,  \* may at be killed between the truncation of .seq and the write?
  AtdCrashes,   \* may an atd be killed (and started again)?
  ForkFails, OpenFails   \* may fork() and open() fail in atd?

ASSUME SubAssumption == IsFiniteSet(Sub) /\ Sub # {} /\ None \notin Sub
ASSUME OnceAssumption == Once \subseteq Atd
ASSUME QueueAssumption == Queue \in [Sub -> {"a", "b"}]
ASSUME BoundAssumption == MaxTime \in Nat \ {0} /\ MaxCrashes \in Nat
ASSUME SwitchAssumption ==
  TornCounter \in BOOLEAN /\ AtdCrashes \in BOOLEAN /\ ForkFails \in BOOLEAN /\ OpenFails \in BOOLEAN

VARIABLES
  clock, crashes,
  seq, lock,             \* the counter (0: an empty file) and the holder of its lock
  tmp, file, claim,      \* the files ".new.ID", "ID" and "=ID": whose job each holds
  spc, num, when,        \* at: where it is, its job number, its job's time
  rpc, target,           \* at -r: where it is, the job ID it was given
  apc, unread, list, todo, now, runs, wake,   \* atd; todo is the part of list still to be looked at
  shell, ran, removed  \* the jobs' shells, how often each was started; the jobs removed unrun

at     == <<seq, lock, tmp, spc, num, when>>
atr    == <<rpc, target, removed>>
atd    == <<apc, unread, list, todo, now, runs, wake>>
shells == <<shell, ran>>
vars   == <<clock, crashes, at, file, claim, atr, atd, shells>>

Number == 1 .. Cardinality(Sub)         \* a number per submission is enough
Ids == Number \X {"a", "b"}
Id(s) == <<num[s], Queue[s]>>
Times == 1 .. MaxTime

Init ==
  /\ clock = 1 /\ crashes = 0
  /\ seq = 0 /\ lock = None
  /\ tmp = [i \in Ids |-> None]
  /\ file = [i \in Ids |-> None]
  /\ claim = [i \in Ids |-> None]
  /\ spc = [s \in Sub |-> "idle"]
  /\ num = [s \in Sub |-> 0]
  /\ when = [s \in Sub |-> 0]
  /\ rpc = [r \in Remover |-> "idle"]
  /\ target = [r \in Remover |-> <<1, "a">>]
  /\ apc = [a \in Atd |-> IF a \in Once THEN "idle" ELSE "reap"]
  /\ unread = [a \in Atd |-> {}]
  /\ list = [a \in Atd |-> {}]
  /\ todo = [a \in Atd |-> {}]
  /\ now = [a \in Atd |-> 0]
  /\ runs = [a \in Atd |-> {}]
  /\ wake = [a \in Atd |-> 0]
  /\ shell = [s \in Sub |-> "none"]
  /\ ran = [s \in Sub |-> 0]
  /\ removed = {}

-----------------------------------------------------------------------------
(* at and batch.                                                           *)

\* the time of the job: now for batch, any for at, also with -q b (the past is no error)
Begin(s) ==
  /\ spc[s] = "idle"
  /\ spc' = [spc EXCEPT ![s] = "lock"]
  /\ \E t \in Times : when' = [when EXCEPT ![s] = t]
  /\ UNCHANGED <<clock, crashes, seq, lock, tmp, num, file, claim, atr, atd, shells>>

\* fcntl(F_SETLKW)
NeverLocked == TRUE
Unlocked == lock = None
LockSeq(s) ==
  /\ spc[s] = "lock"
  /\ Unlocked
  /\ lock' = s
  /\ spc' = [spc EXCEPT ![s] = "read"]
  /\ UNCHANGED <<clock, crashes, seq, tmp, num, when, file, claim, atr, atd, shells>>

\* read the number and truncate the file; it is written in a step of its own
ReadSeq(s) ==
  /\ spc[s] = "read"
  /\ seq + 1 \in Number
  /\ num' = [num EXCEPT ![s] = seq + 1]
  /\ seq' = 0
  /\ spc' = [spc EXCEPT ![s] = "write"]
  /\ UNCHANGED <<clock, crashes, lock, tmp, when, file, claim, atr, atd, shells>>

\* write and close, which unlocks
WriteSeq(s) ==
  /\ spc[s] = "write"
  /\ seq' = num[s]
  /\ lock' = None
  /\ spc' = [spc EXCEPT ![s] = "create"]
  /\ UNCHANGED <<clock, crashes, tmp, num, when, file, claim, atr, atd, shells>>

\* the file is written under the name ".new.ID", which must be free (O_EXCL)
Create(s) ==
  /\ spc[s] = "create"
  /\ IF tmp[Id(s)] = None
     THEN /\ tmp' = [tmp EXCEPT ![Id(s)] = s]
          /\ spc' = [spc EXCEPT ![s] = "rename"]
     ELSE /\ spc' = [spc EXCEPT ![s] = "failed"]
          /\ UNCHANGED tmp
  /\ UNCHANGED <<clock, crashes, seq, lock, num, when, file, claim, atr, atd, shells>>

\* rename replaces whatever has the name; then the job ID is reported
Publish(s) ==
  /\ spc[s] = "rename"
  /\ file' = [file EXCEPT ![Id(s)] = tmp[Id(s)]]
  /\ tmp' = [tmp EXCEPT ![Id(s)] = None]
  /\ spc' = [spc EXCEPT ![s] = "told"]
  /\ UNCHANGED <<clock, crashes, seq, lock, num, when, claim, atr, atd, shells>>

\* at is killed; its lock goes, its files stay
KillAt(s) ==
  /\ crashes < MaxCrashes
  /\ spc[s] \in {"lock", "read", "create", "rename"} \/ (TornCounter /\ spc[s] = "write")
  /\ crashes' = crashes + 1
  /\ spc' = [spc EXCEPT ![s] = "failed"]
  /\ lock' = IF lock = s THEN None ELSE lock
  /\ UNCHANGED <<clock, seq, tmp, num, when, file, claim, atr, atd, shells>>

-----------------------------------------------------------------------------
(* at -r ID.                                                               *)

\* job_read: there is such a job, and it is the user's
FindJob(r) ==
  /\ rpc[r] = "idle"
  /\ \E i \in Ids : file[i] # None /\ target' = [target EXCEPT ![r] = i]
  /\ rpc' = [rpc EXCEPT ![r] = "unlink"]
  /\ UNCHANGED <<clock, crashes, at, file, claim, removed, atd, shells>>

\* unlink fails when the job has been claimed in the meantime
RemoveJob(r) ==
  /\ rpc[r] = "unlink"
  /\ rpc' = [rpc EXCEPT ![r] = "done"]
  /\ removed' = removed \cup ({file[target[r]]} \ {None})
  /\ file' = [file EXCEPT ![target[r]] = None]
  /\ UNCHANGED <<clock, crashes, at, claim, target, atd, shells>>

-----------------------------------------------------------------------------
(* atd.                                                                    *)

Goto(a, l) == apc' = [apc EXCEPT ![a] = l]

StartOnce(a) ==
  /\ a \in Once /\ apc[a] = "idle"
  /\ Goto(a, "scan")
  /\ UNCHANGED <<clock, crashes, at, file, claim, atr, unread, list, todo, now, runs, wake, shells>>

\* reap: a job that has ended is mailed and removed
Finished(a) == {x \in runs[a] : shell[x.sub] = "done"}
Reap(a) ==
  /\ apc[a] = "reap"
  /\ \E x \in Finished(a) :
       /\ runs' = [runs EXCEPT ![a] = @ \ {x}]
       /\ claim' = [claim EXCEPT ![x.id] = None]
  /\ UNCHANGED <<clock, crashes, at, file, atr, apc, unread, list, todo, now, wake, shells>>

\* reap(true) waits for every job, reap(false) for none
Reaped(a) ==
  /\ apc[a] = "reap"
  /\ IF a \in Once THEN runs[a] = {} ELSE Finished(a) = {}
  /\ Goto(a, "scan")
  /\ UNCHANGED <<clock, crashes, at, file, claim, atr, unread, list, todo, now, runs, wake, shells>>

\* scan: opendir.  An entry that is there now will be read, one that comes later may be.
OpenSpool(a) ==
  /\ apc[a] = "scan"
  /\ Goto(a, "list")
  /\ unread' = [unread EXCEPT ![a] = {i \in Ids : file[i] # None}]
  /\ list' = [list EXCEPT ![a] = {}]
  /\ UNCHANGED <<clock, crashes, at, file, claim, atr, todo, now, runs, wake, shells>>

ReadJob(a, i) ==
  /\ apc[a] = "list"
  /\ i \in unread[a] \/ (file[i] # None /\ \A j \in list[a] : j.id # i)
  /\ unread' = [unread EXCEPT ![a] = @ \ {i}]
  /\ list' = [list EXCEPT ![a] =
                IF file[i] = None THEN @ ELSE @ \cup {[id |-> i, when |-> when[file[i]]]}]
  /\ UNCHANGED <<clock, crashes, at, file, claim, atr, apc, todo, now, runs, wake, shells>>

SortJobs(a) ==
  /\ apc[a] = "list" /\ unread[a] = {}
  /\ Goto(a, "start")
  /\ todo' = [todo EXCEPT ![a] = list[a]]
  /\ now' = [now EXCEPT ![a] = clock]
  /\ wake' = [wake EXCEPT ![a] = 0]
  /\ UNCHANGED <<clock, crashes, at, file, claim, atr, unread, list, runs, shells>>

\* cmp_jobs
Before(x, y) == x.when < y.when \/ (x.when = y.when /\ x.id[1] < y.id[1])
AnyNext(a, x) == x \in todo[a]
IsNext(a, x) == x \in todo[a] /\ \A y \in todo[a] : ~Before(y, x)
Drop(a, x) == todo' = [todo EXCEPT ![a] = @ \ {x}]

BatchRunning(a) == \E y \in runs[a] : y.id[2] = "b"
Held(a, x) == x.id[2] = "b" /\ BatchRunning(a)

\* the job's time has not come; the time of the first such job is remembered
NotDue(a) ==
  /\ apc[a] = "start"
  /\ \E x \in todo[a] :
       /\ IsNext(a, x) /\ x.when > now[a]
       /\ Drop(a, x)
       /\ wake' = [wake EXCEPT ![a] = IF @ = 0 \/ x.when < @ THEN x.when ELSE @]
  /\ UNCHANGED <<clock, crashes, at, file, claim, atr, apc, unread, list, now, runs, shells>>

\* a batch job while another is running is looked at again in a second
LookAgain(a) == now[a] + 1
Hold(a) ==
  /\ apc[a] = "start"
  /\ \E x \in todo[a] :
       /\ IsNext(a, x) /\ x.when <= now[a] /\ Held(a, x)
       /\ Drop(a, x)
       /\ wake' = [wake EXCEPT ![a] = LookAgain(a)]
  /\ UNCHANGED <<clock, crashes, at, file, claim, atr, apc, unread, list, now, runs, shells>>

\* start: rename the job; the one who succeeds has it
ClaimedAnyway(i) == file[i] # None \/ claim[i] # None
Claimable(i) == file[i] # None
ClaimJob(a) ==
  /\ apc[a] = "start"
  /\ \E x \in todo[a] :
       /\ IsNext(a, x) /\ x.when <= now[a] /\ ~Held(a, x)
       /\ IF Claimable(x.id)
          THEN /\ claim' = [claim EXCEPT ![x.id] = IF file[x.id] # None THEN file[x.id] ELSE @]
               /\ file' = [file EXCEPT ![x.id] = None]
               /\ Goto(a, "fork")
               /\ UNCHANGED todo
          ELSE Drop(a, x) /\ UNCHANGED <<claim, file, apc>>
  /\ UNCHANGED <<clock, crashes, at, atr, unread, list, now, runs, wake, shells>>

\* the shell reads the job, and the list of running jobs gets an entry
RunJob(a) ==
  /\ apc[a] = "fork"
  /\ \E x \in todo[a] :
       /\ IsNext(a, x) /\ Drop(a, x)
       /\ LET s == claim[x.id]
          IN /\ shell' = [shell EXCEPT ![s] = "running"]
             /\ ran' = [ran EXCEPT ![s] = @ + 1]
             /\ runs' = [runs EXCEPT ![a] = @ \cup {[id |-> x.id, sub |-> s]}]
  /\ Goto(a, "start")
  /\ UNCHANGED <<clock, crashes, at, file, claim, atr, unread, list, now, wake>>

\* fork fails: the job gets its name back
GiveBack(i) == file' = [file EXCEPT ![i] = claim[i]]
ForkFailure(a) ==
  /\ ForkFails /\ apc[a] = "fork"
  /\ \E x \in todo[a] :
       /\ IsNext(a, x) /\ Drop(a, x)
       /\ GiveBack(x.id)
       /\ claim' = [claim EXCEPT ![x.id] = None]
  /\ Goto(a, "start")
  /\ UNCHANGED <<clock, crashes, at, atr, unread, list, now, runs, wake, shells>>

\* the job or its output cannot be opened, or its owner is not known: it is unlinked, unrun
OpenFailure(a) ==
  /\ OpenFails /\ apc[a] = "fork"
  /\ \E x \in todo[a] :
       /\ IsNext(a, x) /\ Drop(a, x)
       /\ claim' = [claim EXCEPT ![x.id] = None]
       /\ removed' = removed \cup {claim[x.id]}
  /\ Goto(a, "start")
  /\ UNCHANGED <<clock, crashes, at, file, rpc, target, unread, list, now, runs, wake, shells>>

\* with -s: is nothing running and nothing due?
AllDone(a) == runs[a] = {} /\ (wake[a] = 0 \/ wake[a] > clock)
EndScan(a) ==
  /\ apc[a] = "start" /\ todo[a] = {}
  /\ Goto(a, IF a \in Once /\ AllDone(a) THEN "exit" ELSE "reap")
  /\ UNCHANGED <<clock, crashes, at, file, claim, atr, unread, list, todo, now, runs, wake, shells>>

\* atd is killed and started again: it has forgotten its jobs, whose shells go on
KillAtd(a) ==
  /\ AtdCrashes /\ crashes < MaxCrashes /\ apc[a] \notin {"idle", "exit"}
  /\ crashes' = crashes + 1
  /\ Goto(a, IF a \in Once THEN "scan" ELSE "reap")
  /\ unread' = [unread EXCEPT ![a] = {}]
  /\ list' = [list EXCEPT ![a] = {}]
  /\ todo' = [todo EXCEPT ![a] = {}]
  /\ runs' = [runs EXCEPT ![a] = {}]
  /\ UNCHANGED <<clock, at, file, claim, atr, now, wake, shells>>

-----------------------------------------------------------------------------
(* The jobs and the clock.                                                 *)

EndShell(s) ==
  /\ shell[s] = "running"
  /\ shell' = [shell EXCEPT ![s] = "done"]
  /\ UNCHANGED <<clock, crashes, at, file, claim, atr, atd, ran>>

Tick ==
  /\ clock < MaxTime
  /\ clock' = clock + 1
  /\ UNCHANGED <<crashes, at, file, claim, atr, atd, shells>>

At(s) == Begin(s) \/ LockSeq(s) \/ ReadSeq(s) \/ WriteSeq(s) \/ Create(s) \/ Publish(s)

Daemon(a) ==
  \/ Reap(a) \/ Reaped(a) \/ OpenSpool(a) \/ SortJobs(a)
  \/ \E i \in Ids : ReadJob(a, i)
  \/ NotDue(a) \/ Hold(a) \/ ClaimJob(a) \/ RunJob(a) \/ EndScan(a)

Failures ==
  \/ \E s \in Sub : KillAt(s)
  \/ \E a \in Atd : ForkFailure(a) \/ OpenFailure(a) \/ KillAtd(a)

Next ==
  \/ \E s \in Sub : At(s) \/ EndShell(s)
  \/ \E r \in Remover : FindJob(r) \/ RemoveJob(r)
  \/ \E a \in Atd : StartOnce(a) \/ Daemon(a)
  \/ Failures
  \/ Tick

\* every atd keeps running, every job's shell ends, time goes by
Fairness ==
  /\ \A a \in Atd : WF_vars(Daemon(a))
  /\ \A s \in Sub : WF_vars(EndShell(s))
  /\ WF_vars(Tick)

Spec == Init /\ [][Next]_vars /\ Fairness
-----------------------------------------------------------------------------
(* Properties.                                                             *)

Listed == [id : Ids, when : Times]

\* The type invariant: every file of the spool holds a whole job or is not there, and the
\* processes are at one of their system calls.
TypeOK ==
  /\ clock \in Times /\ crashes \in 0 .. MaxCrashes
  /\ seq \in {0} \cup Number /\ lock \in Sub \cup {None}
  /\ tmp \in [Ids -> Sub \cup {None}]
  /\ file \in [Ids -> Sub \cup {None}]
  /\ claim \in [Ids -> Sub \cup {None}]
  /\ spc \in [Sub -> {"idle", "lock", "read", "write", "create", "rename", "told", "failed"}]
  /\ num \in [Sub -> {0} \cup Number] /\ when \in [Sub -> {0} \cup Times]
  /\ rpc \in [Remover -> {"idle", "unlink", "done"}] /\ target \in [Remover -> Ids]
  /\ apc \in [Atd -> {"idle", "reap", "scan", "list", "start", "fork", "exit"}]
  /\ unread \in [Atd -> SUBSET Ids] /\ list \in [Atd -> SUBSET Listed] /\ todo \in [Atd -> SUBSET Listed]
  /\ now \in [Atd -> {0} \cup Times] /\ wake \in [Atd -> 0 .. MaxTime + 1]
  /\ runs \in [Atd -> SUBSET [id : Ids, sub : Sub]]
  /\ shell \in [Sub -> {"none", "running", "done"}]
  /\ ran \in [Sub -> Nat] /\ removed \subseteq Sub

\* A job is started at most once, although several atd's may list it, one may be killed
\* at any point, and a fork that failed is tried again.
RunOnce == \A s \in Sub : ran[s] <= 1

InSpool(s) == \E i \in Ids : file[i] = s \/ claim[i] = s

phase ==
  [s \in Sub |->
     IF shell[s] # "none" THEN shell[s]
     ELSE IF s \in removed THEN "removed"
     ELSE IF InSpool(s) THEN "waiting"
     ELSE "none"]

Jobs == INSTANCE JobQueue WITH Job <- Sub

\* The spool keeps the promise of JobQueue: what was submitted stays until it is run, or
\* removed by at -r or by an atd that cannot open it; what was removed is not run, and
\* what runs cannot be removed.
JobsKept == Jobs!Spec

\* An atd runs the jobs of queue b one at a time, also when it was killed and started
\* again, when another atd works on the spool, and when a fork has failed.
BatchOneAtATime ==
  \A a \in Atd : \A x, y \in runs[a] : x.id[2] = "b" /\ y.id[2] = "b" => x = y

\* What is run is run right: each job once, and the batch jobs of an atd one at a time.
RightOnce == TypeOK /\ RunOnce /\ BatchOneAtATime

\* The jobs of queue b run in order: when one is started, no earlier one that the same
\* scan has listed is still waiting in the spool.
InOrder ==
  \A a \in Atd : \A x, y \in list[a] :
    /\ x.id[2] = "b" /\ y.id[2] = "b" /\ Before(x, y)
    /\ \E r \in runs'[a] \ runs[a] : r.id = y.id
    => file[x.id] = None

\* When atd -s exits, what its last scan listed as due has been started, batch jobs that
\* had to wait for one another included, and none of what it has started is unfinished.
OnceComplete ==
  \A a \in Once :
    apc[a] = "exit" =>
      /\ runs[a] = {}
      /\ \A x \in list[a] : x.when <= now[a] => file[x.id] = None

\* Every job submitted is run when its time has come, or removed.
Over(s) == s \in removed \/ shell[s] = "done"
=============================================================================
