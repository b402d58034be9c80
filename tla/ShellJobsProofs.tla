--------------------------- MODULE ShellJobsProofs ---------------------------
(***************************************************************************)
(* Proofs about sh's table of jobs, for any number of processes, jobs,     *)
(* commands and signals, and any bounds of prune_done: what wait answers   *)
(* is so, no status is lost, numbers and the current job are right.        *)
(*                                                                         *)
(* The invariants of the table are stated of any table, child states and   *)
(* history, so that the changes a handler makes one after the other (the   *)
(* table is brought up to date, its marks are taken away, slots are freed) *)
(* have a lemma each.                                                      *)
(***************************************************************************)
EXTENDS ShellJobs, FiniteSetTheorems, SequenceTheorems, WellFoundedInduction, TLAPS

-----------------------------------------------------------------------------
(* The inductive invariant.                                                *)

Job == [used : BOOLEAN, bg : BOOLEAN, num : Nat, procs : Seq(Proc),
        state : {"running", "stopped", "done"}, changed : BOOLEAN]
ChildStates == {"none", "zombie"} \cup Alive
Fates == {"fresh", "fg", "owed", "told", "pruned", "shared", "revived"}

\* A slot that is not used holds nothing.
TableInv(tab) ==
  /\ tab \in Seq(Job)
  /\ \A i \in DOMAIN tab : ~tab[i].used => tab[i] = Unused

\* A process with an ID that is not shared is in the table once, and the table and the
\* system agree on it: it is done exactly if the system knows it no more, and a process the
\* shell was told of last as running is running in the table.
Agrees(r, ch, cd) ==
  /\ r.state = "done" <=> ch[r.pid] = "none"
  /\ r.state = "done" => r.status = cd[r.pid]
  /\ r.state = "stopped" => r.status = Stopped
  /\ ch[r.pid] = "running" => r.state = "running"

Once(tab, i, k) ==
  \A h \in DOMAIN tab : \A l \in DOMAIN tab[h].procs :
    tab[h].procs[l].pid = tab[i].procs[k].pid => h = i /\ l = k

ProcInv(tab, ch, cd, ow) ==
  \A i \in DOMAIN tab : \A k \in DOMAIN tab[i].procs :
    /\ ow[tab[i].procs[k].pid] \in {"fg", "owed", "revived", "shared"}
    /\ ow[tab[i].procs[k].pid] # "shared" => Agrees(tab[i].procs[k], ch, cd) /\ Once(tab, i, k)

\* Has one of the processes of a job lost its own state?
Odd(j, ow) == \E p \in PidsOf(j) : ow[p] \in {"revived", "shared"}

\* The state of a job is that of its processes, but of the job w that job_wait works on.
StateInv(tab, ow, w) ==
  \A i \in DOMAIN tab :
    tab[i].procs # <<>> /\ i # w /\ ~Odd(tab[i], ow) => tab[i].state = StateOf(tab[i].procs)

\* A background process whose status is owed is the only one of its job.
OwedInv(tab, ow, w) ==
  \A p \in Pids : ow[p] = "owed" =>
    \E i \in DOMAIN tab : /\ tab[i].used /\ (tab[i].bg \/ i = w)
                          /\ DOMAIN tab[i].procs = {1} /\ tab[i].procs[1].pid = p

Sound(tab, ch, cd, ow, w) ==
  TableInv(tab) /\ ProcInv(tab, ch, cd, ow) /\ StateInv(tab, ow, w) /\ OwedInv(tab, ow, w)

\* The numbers, the current job c and the previous job p (JobIDs).
Numbered(tab) ==
  \A i, k \in DOMAIN tab : tab[i].used /\ tab[k].used /\ tab[i].bg /\ tab[k].bg /\ i # k =>
    tab[i].num # tab[k].num
Current(tab, ow, c, p) ==
  /\ {c, p} \subseteq DOMAIN tab \cup {NoJob}
  /\ c # NoJob => tab[c].used /\ c # p
  /\ p # NoJob => c # NoJob /\ tab[p].used
  /\ c = NoJob => \A i \in Unfinished(tab) : tab[i].procs = <<>> \/ Odd(tab[i], ow)

\* The types of the other variables.
OtherTypes ==
  /\ mode \in {"script", "monitor", "interactive"}
  /\ pc \in {"top", "trap", "read", "job_wait", "wait", "wait_one", "waitpid", "sleep", "exit"}
  /\ pending \in BOOLEAN
  /\ child \in [Pids -> ChildStates]
  /\ code \in [Pids -> Codes]
  /\ owed \in [Pids -> Fates]
  /\ asked \in [job : Nat, pid : Pids \cup {NoPid}]
  /\ answer.due = "owed" => answer.of \in Pids
  /\ cmds \in 0 .. MaxCmds /\ events \in Nat

\* The job that is waited for is in the table, with the process that was asked for; when
\* the shell sleeps, the table has no answer yet.
InWait == pc \in {"wait", "wait_one", "waitpid", "sleep"}
AskedInv ==
  /\ asked.job \in Slots \cup {NoJob}
  /\ pc = "job_wait" => asked.job # NoJob /\ jobtab[asked.job].used
  /\ InWait /\ asked.pid # NoPid => asked.job # NoJob /\ asked.pid \in PidsOf(jobtab[asked.job])
  /\ InWait /\ pc # "wait" /\ asked.job # NoJob => ~Answers(jobtab[asked.job])

Waited == IF pc = "job_wait" THEN asked.job ELSE NoJob

Inv ==
  /\ OtherTypes /\ AskedInv
  /\ Sound(jobtab, child, code, owed, Waited)
  /\ Numbered(jobtab) /\ Current(jobtab, owed, curjob, prevjob)
  /\ StatusTrue /\ WaitComplete

-----------------------------------------------------------------------------
(* Sequences, and the least and the greatest of a set.                     *)

LEMMA OfSeq ==
  ASSUME NEW S, NEW s \in Seq(S)
  PROVE  /\ Len(s) \in Nat /\ DOMAIN s = 1 .. Len(s)
         /\ \A i \in DOMAIN s : s[i] \in S
BY LenProperties

LEMMA IsSeq ==
  ASSUME NEW S, NEW n \in Nat, NEW f \in [1 .. n -> S]
  PROVE  f \in Seq(S) /\ Len(f) = n
<1>1. f \in UNION {[1 .. m -> S] : m \in Nat}
  OBVIOUS
<1>2. f \in Seq(S)
  BY <1>1, SeqDef
<1>3. Len(f) \in Nat /\ 1 .. Len(f) = 1 .. n
  BY <1>2, LenProperties
<1> QED  BY <1>2, <1>3

\* A sequence of other elements.
LEMMA MapSeq ==
  ASSUME NEW S, NEW T, NEW s \in Seq(S), NEW f, DOMAIN f = DOMAIN s,
         f = [i \in DOMAIN f |-> f[i]], \A i \in DOMAIN s : f[i] \in T
  PROVE  f \in Seq(T) /\ Len(f) = Len(s)
<1>1. Len(s) \in Nat /\ DOMAIN s = 1 .. Len(s)
  BY OfSeq
<1>2. f \in [1 .. Len(s) -> T]
  BY <1>1
<1> QED  BY <1>1, <1>2, IsSeq

LEMMA MinIs ==
  ASSUME NEW S \in SUBSET Nat, S # {}
  PROVE  Min(S) \in S /\ \A y \in S : Min(S) <= y
<1>1. PICK x \in S : \A y \in S : <<y, x>> \notin OpToRel(<, Nat)
  BY NatLessThanWellFounded, WFMin
<1>0. \A y \in S : ~(y < x)
  BY <1>1, Zenon DEF OpToRel
<1>2. \A y \in S : x <= y
  BY <1>0
<1> QED  BY <1>2 DEF Min

LEMMA MaxIs ==
  ASSUME NEW n \in Nat, NEW S \in SUBSET (1 .. n), S # {}
  PROVE  Max(S) \in S
<1> DEFINE T == {m \in Nat : n - m \in S}
<1>1. T \in SUBSET Nat /\ T # {}
  <2>1. PICK x \in S : TRUE
    OBVIOUS
  <2>2. n - (n - x) = x /\ n - x \in Nat
    BY <2>1
  <2> QED  BY <2>1, <2>2
<1>2. Min(T) \in T /\ \A y \in T : Min(T) <= y
  <2> HIDE DEF T
  <2> QED  BY <1>1, MinIs
<1>3. PICK m \in Nat : n - m \in S /\ \A y \in T : m <= y
  BY <1>2
<1>4. \A y \in S : n - m >= y
  <2> SUFFICES ASSUME NEW y \in S
               PROVE  n - m >= y
    OBVIOUS
  <2>1. n - y \in Nat /\ n - (n - y) = y
    OBVIOUS
  <2>2. n - y \in T
    BY <2>1
  <2> QED  BY <1>3, <2>1, <2>2
<1> QED  BY <1>3, <1>4 DEF Max

LEMMA MinOfOne == \A i \in Nat : Min({i}) = i
<1> SUFFICES ASSUME NEW i \in Nat
             PROVE  Min({i}) = i
  OBVIOUS
<1>1. Min({i}) \in {i}
  BY MinIs
<1> QED  BY <1>1

-----------------------------------------------------------------------------
(* The table and its jobs.                                                 *)

LEMMA Numbers ==
  /\ MaxPid \in Nat /\ MaxCmds \in Nat /\ MaxEvents \in Nat
  /\ Pids \subseteq Nat \ {0} /\ Codes \subseteq Nat /\ None \in Codes
  /\ {Stopped, Unknown, Trapped, All} \cap Codes = {}
  /\ Stopped # Unknown /\ Stopped # Trapped /\ Stopped # All /\ Unknown # All /\ Trapped # All
  /\ Unknown # Trapped
BY BoundsAssumption DEF Pids, Codes, None, Stopped, Unknown, Trapped, All

LEMMA StateOfIs ==
  ASSUME NEW procs \in Seq(Proc)
  PROVE  /\ StateOf(procs) \in {"running", "stopped", "done"}
         /\ StateOf(procs) = "done" <=> \A k \in DOMAIN procs : procs[k].state = "done"
         /\ StateOf(procs) = "running" <=> \E k \in DOMAIN procs : procs[k].state = "running"
         /\ DOMAIN procs = {1} => StateOf(procs) = procs[1].state
<1>1. \A k \in DOMAIN procs : procs[k].state \in {"running", "stopped", "done"}
  <2>1. \A k \in DOMAIN procs : procs[k] \in Proc
    BY OfSeq
  <2> QED  BY <2>1 DEF Proc
<1> QED  BY <1>1 DEF StateOf

\* The fields of a job of the table.
LEMMA JobIs ==
  ASSUME NEW tab, TableInv(tab), NEW i \in DOMAIN tab
  PROVE  /\ tab[i] \in Job /\ i \in Nat \ {0}
         /\ tab[i].used \in BOOLEAN /\ tab[i].bg \in BOOLEAN /\ tab[i].num \in Nat
         /\ tab[i].state \in {"running", "stopped", "done"} /\ tab[i].changed \in BOOLEAN
         /\ tab[i].procs \in Seq(Proc)
         /\ \A k \in DOMAIN tab[i].procs : tab[i].procs[k] \in Proc /\ tab[i].procs[k].pid \in Pids
<1>1. tab[i] \in Job /\ i \in Nat \ {0}
  BY OfSeq DEF TableInv
<1>2. tab[i].procs \in Seq(Proc)
  BY <1>1 DEF Job
<1>3. \A k \in DOMAIN tab[i].procs : tab[i].procs[k] \in Proc
  BY <1>2, OfSeq
<1> QED  BY <1>1, <1>2, <1>3 DEF Job, Proc

LEMMA UnusedIs ==
  /\ Unused \in Job /\ Unused.procs = <<>> /\ ~Unused.used /\ Unused.state = "done" /\ ~Unused.bg
  /\ PidsOf(Unused) = {} /\ DOMAIN Unused.procs = {}
BY DEF Unused, Job, PidsOf

\* With new processes a job is a job.
LEMMA WithProcsIs ==
  ASSUME NEW j \in Job, NEW procs \in Seq(Proc)
  PROVE  LET n == WithProcs(j, procs)
         IN /\ n \in Job /\ n.used = j.used /\ n.bg = j.bg /\ n.num = j.num
            /\ n.procs = procs /\ n.state = StateOf(procs)
<1>1. StateOf(procs) \in {"running", "stopped", "done"}
  BY StateOfIs
<1>2. (j.changed \/ StateOf(procs) # j.state) \in BOOLEAN
  BY Zenon DEF Job
<1> QED  BY <1>1, <1>2 DEF WithProcs, Job

-----------------------------------------------------------------------------
(* The table is brought up to date (jobs_reap).                            *)

ToldAll == [p \in Pids |-> IF p \in Reportable THEN Told(p) ELSE child[p]]

LEMMA ToldIs ==
  ASSUME OtherTypes
  PROVE  /\ ToldAll \in [Pids -> ChildStates]
         /\ \A p \in Pids : Told(p) \in {"none", "stopped", "running"}
         /\ \A p \in Pids : ToldAll[p] \in {"none", "stopped", "running"}
<1>1. \A p \in Pids : child[p] \in ChildStates
  BY DEF OtherTypes
<1>2. \A p \in Pids : Told(p) \in {"none", "stopped", "running"}
  BY DEF Told
<1>3. \A p \in Pids : ToldAll[p] \in {"none", "stopped", "running"}
  BY <1>1, <1>2 DEF ToldAll, Reportable, ChildStates, Alive
<1> QED  BY <1>2, <1>3 DEF ToldAll, ChildStates, Alive

\* What a process' status becomes when waitpid tells of it.
LEMMA NotedIs ==
  ASSUME OtherTypes, NEW r \in Proc
  PROVE  LET n == Noted(r)
         IN /\ n \in Proc /\ n.pid = r.pid /\ r.pid \in Pids
            /\ child[r.pid] = "zombie" =>
                 n.state = "done" /\ n.status = code[r.pid] /\ Told(r.pid) = "none"
            /\ child[r.pid] = "halted" =>
                 n.state = "stopped" /\ n.status = Stopped /\ Told(r.pid) = "stopped"
            /\ child[r.pid] \notin {"zombie", "halted"} =>
                 n.state = "running" /\ Told(r.pid) = "running"
<1>1. r.pid \in Pids
  BY DEF Proc
<1>2. code[r.pid] \in Codes /\ None \in Codes
  BY <1>1, Numbers DEF OtherTypes
<1>3. ProcState(r.pid) \in {"running", "stopped", "done"} /\ ProcStatus(r.pid) \in Codes \cup {Stopped}
  BY <1>2 DEF ProcState, ProcStatus
<1>4. /\ Noted(r) \in Proc /\ Noted(r).pid = r.pid
      /\ Noted(r).state = ProcState(r.pid) /\ Noted(r).status = ProcStatus(r.pid)
  BY <1>3 DEF Noted, Proc
<1> QED  BY <1>1, <1>4 DEF ProcState, ProcStatus, Told

\* Whoever notes the status of one process more notes it as the system has told it.
LEMMA NotedAgrees ==
  ASSUME OtherTypes, NEW r \in Proc, child[r.pid] \in {"zombie", "halted", "continued"},
         NEW ch, ch[r.pid] = Told(r.pid)
  PROVE  Agrees(Noted(r), ch, code)
BY NotedIs DEF Agrees

\* An ID that is not shared is held by one job.
LEMMA HeldOnce ==
  ASSUME NEW tab, TableInv(tab), NEW i \in DOMAIN tab, NEW k \in DOMAIN tab[i].procs,
         Once(tab, i, k)
  PROVE  Holds(tab, tab[i].procs[k].pid) = {i} /\ Min(Holds(tab, tab[i].procs[k].pid)) = i
<1>1. Holds(tab, tab[i].procs[k].pid) = {i}
  BY DEF Holds, PidsOf, Once
<1>2. i \in Nat
  BY JobIs
<1> QED  BY <1>1, <1>2, MinOfOne

\* What becomes of a job: the processes that waitpid tells of and that are found with it
\* first are noted, and its state is that of its processes then.
LEMMA ReapedIs ==
  ASSUME OtherTypes, TableInv(jobtab), NEW i \in Slots
  PROVE  /\ DOMAIN Reaped = Slots
         /\ Reaped[i] \in Job
         /\ Reaped[i].used = jobtab[i].used /\ Reaped[i].bg = jobtab[i].bg
         /\ Reaped[i].num = jobtab[i].num
         /\ DOMAIN Reaped[i].procs = DOMAIN jobtab[i].procs
         /\ \A k \in DOMAIN jobtab[i].procs :
              /\ Reaped[i].procs[k].pid = jobtab[i].procs[k].pid
              /\ Reaped[i].procs[k] =
                   IF jobtab[i].procs[k].pid \in Reportable /\ Owner(jobtab[i].procs[k].pid) = i
                   THEN Noted(jobtab[i].procs[k]) ELSE jobtab[i].procs[k]
         /\ \/ Reaped[i] = jobtab[i]
            \/ /\ \E k \in DOMAIN jobtab[i].procs :
                    jobtab[i].procs[k].pid \in Reportable /\ Owner(jobtab[i].procs[k].pid) = i
               /\ Reaped[i].state = StateOf(Reaped[i].procs)
<1> DEFINE j == jobtab[i]
           Mine(k) == j.procs[k].pid \in Reportable /\ Owner(j.procs[k].pid) = i
           ps == [k \in DOMAIN j.procs |-> IF Mine(k) THEN Noted(j.procs[k]) ELSE j.procs[k]]
<1>1. /\ DOMAIN Reaped = Slots
      /\ Reaped[i] = IF \E k \in DOMAIN j.procs : Mine(k) THEN WithProcs(j, ps) ELSE j
  BY DEF Reaped, Slots
<1>2. j \in Job /\ j.procs \in Seq(Proc) /\ \A k \in DOMAIN j.procs : j.procs[k] \in Proc
  BY JobIs DEF Slots
<1>3. \A k \in DOMAIN j.procs : Noted(j.procs[k]) \in Proc /\ Noted(j.procs[k]).pid = j.procs[k].pid
  BY <1>2, NotedIs
<1>4. ps \in Seq(Proc)
  <2>1. DOMAIN ps = DOMAIN j.procs /\ ps = [k \in DOMAIN ps |-> ps[k]]
    OBVIOUS
  <2>2. \A k \in DOMAIN j.procs : ps[k] \in Proc
    BY <1>2, <1>3
  <2> HIDE DEF ps
  <2> QED  BY <1>2, <2>1, <2>2, MapSeq
<1>5. CASE \E k \in DOMAIN j.procs : Mine(k)
  <2>1. Reaped[i] = WithProcs(j, ps)
    BY <1>1, <1>5
  <2>2. /\ Reaped[i] \in Job /\ Reaped[i].used = j.used /\ Reaped[i].bg = j.bg
        /\ Reaped[i].num = j.num /\ Reaped[i].procs = ps /\ Reaped[i].state = StateOf(ps)
    <3> HIDE DEF ps, j
    <3> QED  BY <1>2, <1>4, <2>1, WithProcsIs
  <2> QED  BY <1>1, <1>3, <1>5, <2>2
<1>6. CASE ~ \E k \in DOMAIN j.procs : Mine(k)
  BY <1>1, <1>2, <1>6
<1> QED  BY <1>5, <1>6

-----------------------------------------------------------------------------
(* Statuses are noted in the table.                                        *)

News == {"zombie", "halted", "continued"}

\* Nothing but the processes and the states of jobs is changed: a process with an ID of its
\* own is as it was, or noted as the system tells of it; a job gets the state of its
\* processes when one of them is noted, if it is not the job w of job_wait.
Noting(tab, ch, w) ==
  /\ TableInv(tab) /\ DOMAIN tab = Slots
  /\ \A i \in Slots :
       /\ tab[i].used = jobtab[i].used /\ tab[i].bg = jobtab[i].bg /\ tab[i].num = jobtab[i].num
       /\ DOMAIN tab[i].procs = DOMAIN jobtab[i].procs
       /\ \A k \in DOMAIN jobtab[i].procs :
            LET r == jobtab[i].procs[k]
            IN /\ tab[i].procs[k].pid = r.pid
               /\ \/ ch[r.pid] = child[r.pid] /\ tab[i].procs[k] = r
                  \/ child[r.pid] \in News /\ ch[r.pid] = Told(r.pid) /\ tab[i].procs[k] = Noted(r)
                  \/ owed[r.pid] = "shared"
       /\ \/ tab[i].state = jobtab[i].state /\ (tab[i].procs = jobtab[i].procs \/ i = w)
          \/ /\ \E k \in DOMAIN jobtab[i].procs : child[jobtab[i].procs[k].pid] \in News
             /\ tab[i].state = StateOf(tab[i].procs)

LEMMA NotingPids ==
  ASSUME NEW tab, NEW ch, NEW w, Noting(tab, ch, w), NEW i \in Slots
  PROVE  /\ PidsOf(tab[i]) = PidsOf(jobtab[i])
         /\ \A ow : Odd(tab[i], ow) <=> Odd(jobtab[i], ow)
<1>1. PidsOf(tab[i]) = PidsOf(jobtab[i])
  BY DEF Noting, PidsOf
<1> QED  BY <1>1 DEF Odd

LEMMA NotingEmpty ==
  ASSUME NEW tab, NEW ch, NEW w, Noting(tab, ch, w), TableInv(jobtab), NEW i \in Slots
  PROVE  tab[i].procs = <<>> <=> jobtab[i].procs = <<>>
<1>1. tab[i].procs \in Seq(Proc) /\ jobtab[i].procs \in Seq(Proc)
  BY JobIs DEF Noting, Slots
<1>2. DOMAIN tab[i].procs = DOMAIN jobtab[i].procs
  BY DEF Noting
<1>3. Len(tab[i].procs) \in Nat /\ Len(jobtab[i].procs) \in Nat
      /\ DOMAIN tab[i].procs = 1 .. Len(tab[i].procs)
      /\ DOMAIN jobtab[i].procs = 1 .. Len(jobtab[i].procs)
  BY <1>1, OfSeq
<1>4. Len(tab[i].procs) = Len(jobtab[i].procs)
  <2>1. \A m, n \in Nat : 1 .. m = 1 .. n => m = n
    OBVIOUS
  <2> QED  BY <1>2, <1>3, <2>1
<1> QED  BY <1>1, <1>4

LEMMA NotingSound ==
  ASSUME OtherTypes, NEW w, Sound(jobtab, child, code, owed, w), NEW tab, NEW ch, Noting(tab, ch, w)
  PROVE  Sound(tab, ch, code, owed, w)
<1>1. TableInv(jobtab) /\ TableInv(tab) /\ DOMAIN tab = Slots
  BY DEF Sound, Noting
<1>2. ProcInv(tab, ch, code, owed)
  <2> SUFFICES ASSUME NEW i \in Slots, NEW k \in DOMAIN tab[i].procs
               PROVE  /\ owed[tab[i].procs[k].pid] \in {"fg", "owed", "revived", "shared"}
                      /\ owed[tab[i].procs[k].pid] # "shared" =>
                           Agrees(tab[i].procs[k], ch, code) /\ Once(tab, i, k)
    BY <1>1 DEF ProcInv
  <2> DEFINE r == jobtab[i].procs[k]
  <2>1. k \in DOMAIN jobtab[i].procs /\ tab[i].procs[k].pid = r.pid
    BY DEF Noting
  <2>2. r \in Proc /\ r.pid \in Pids
    BY <1>1, <2>1, JobIs DEF Slots
  <2>3. /\ owed[r.pid] \in {"fg", "owed", "revived", "shared"}
        /\ owed[r.pid] # "shared" => Agrees(r, child, code) /\ Once(jobtab, i, k)
    BY <2>1 DEF Sound, ProcInv, Slots
  <2>4. ASSUME owed[r.pid] # "shared"
        PROVE  Agrees(tab[i].procs[k], ch, code)
    <3>1. \/ ch[r.pid] = child[r.pid] /\ tab[i].procs[k] = r
          \/ child[r.pid] \in News /\ ch[r.pid] = Told(r.pid) /\ tab[i].procs[k] = Noted(r)
      BY <2>1, <2>4 DEF Noting
    <3>2. CASE ch[r.pid] = child[r.pid] /\ tab[i].procs[k] = r
      BY <2>3, <2>4, <3>2 DEF Agrees
    <3>3. CASE child[r.pid] \in News /\ ch[r.pid] = Told(r.pid) /\ tab[i].procs[k] = Noted(r)
      BY <2>2, <3>3, NotedAgrees DEF News
    <3> QED  BY <3>1, <3>2, <3>3
  <2>5. Once(jobtab, i, k) => Once(tab, i, k)
    BY <1>1, <2>1 DEF Once, Noting, Slots
  <2> QED  BY <2>1, <2>3, <2>4, <2>5
<1>3. StateInv(tab, owed, w)
  <2> SUFFICES ASSUME NEW i \in Slots, tab[i].procs # <<>>, i # w, ~Odd(tab[i], owed)
               PROVE  tab[i].state = StateOf(tab[i].procs)
    BY <1>1 DEF StateInv
  <2>1. jobtab[i].procs # <<>> /\ ~Odd(jobtab[i], owed)
    BY <1>1, NotingPids, NotingEmpty
  <2>2. jobtab[i].state = StateOf(jobtab[i].procs)
    BY <2>1 DEF Sound, StateInv, Slots
  <2> QED  BY <2>2 DEF Noting
<1>4. OwedInv(tab, owed, w)
  <2> SUFFICES ASSUME NEW p \in Pids, owed[p] = "owed"
               PROVE  \E i \in Slots : /\ tab[i].used /\ (tab[i].bg \/ i = w)
                                       /\ DOMAIN tab[i].procs = {1} /\ tab[i].procs[1].pid = p
    BY <1>1 DEF OwedInv
  <2>1. PICK i \in Slots : /\ jobtab[i].used /\ (jobtab[i].bg \/ i = w)
                           /\ DOMAIN jobtab[i].procs = {1} /\ jobtab[i].procs[1].pid = p
    BY DEF Sound, OwedInv, Slots
  <2>2. tab[i].used = jobtab[i].used /\ tab[i].bg = jobtab[i].bg
        /\ DOMAIN tab[i].procs = {1} /\ tab[i].procs[1].pid = p
    BY <2>1 DEF Noting
  <2> QED  BY <2>1, <2>2
<1> QED  BY <1>1, <1>2, <1>3, <1>4 DEF Sound

\* No number is changed, and no job becomes unfinished by what the system tells of it,
\* unless the ID of a process is shared.
LEMMA NotingCurrent ==
  ASSUME OtherTypes, NEW w, Sound(jobtab, child, code, owed, w), NEW tab, NEW ch, Noting(tab, ch, w),
         Numbered(jobtab), Current(jobtab, owed, curjob, prevjob), curjob = NoJob => w = NoJob
  PROVE  Numbered(tab) /\ Current(tab, owed, curjob, prevjob)
<1>1. TableInv(jobtab) /\ TableInv(tab) /\ DOMAIN tab = Slots
  BY DEF Sound, Noting
<1>2. Numbered(tab)
  BY <1>1 DEF Numbered, Noting, Slots
<1>3. ASSUME curjob = NoJob, NEW i \in Unfinished(tab), tab[i].procs # <<>>, ~Odd(tab[i], owed)
      PROVE  FALSE
  <2>1. i \in Slots /\ tab[i].used /\ tab[i].bg /\ tab[i].state # "done"
    BY <1>1, <1>3 DEF Unfinished
  <2>2. jobtab[i].used /\ jobtab[i].bg /\ jobtab[i].procs # <<>> /\ ~Odd(jobtab[i], owed)
    <3>1. jobtab[i].used /\ jobtab[i].bg
      BY <2>1 DEF Noting
    <3>2. jobtab[i].procs # <<>>
      BY <1>1, <1>3, <2>1, NotingEmpty
    <3>3. ~Odd(jobtab[i], owed)
      BY <1>3, <2>1, NotingPids
    <3> QED  BY <3>1, <3>2, <3>3
  <2>3. jobtab[i].state = "done"
    BY <1>3, <2>1, <2>2 DEF Current, Unfinished, Slots
  <2>4. PICK k \in DOMAIN jobtab[i].procs : child[jobtab[i].procs[k].pid] \in News
    BY <2>1, <2>3 DEF Noting
  <2>5. i # w
    BY <1>1, <1>3, <2>1, JobIs DEF NoJob
  <2>6. StateOf(jobtab[i].procs) = "done"
    BY <2>1, <2>2, <2>3, <2>5 DEF Sound, StateInv, Slots
  <2>7. jobtab[i].procs[k].state = "done"
    BY <1>1, <2>1, <2>6, JobIs, StateOfIs DEF Slots
  <2>8. owed[jobtab[i].procs[k].pid] # "shared"
    BY <2>2 DEF Odd, PidsOf
  <2>9. child[jobtab[i].procs[k].pid] = "none"
    BY <2>1, <2>7, <2>8 DEF Sound, ProcInv, Agrees, Slots
  <2> QED  BY <2>4, <2>9 DEF News
<1>4. Current(tab, owed, curjob, prevjob)
  <2>1. /\ {curjob, prevjob} \subseteq Slots \cup {NoJob}
        /\ curjob # NoJob => tab[curjob].used /\ curjob # prevjob
        /\ prevjob # NoJob => curjob # NoJob /\ tab[prevjob].used
    BY <1>1 DEF Current, Noting, Slots
  <2> QED  BY <1>1, <1>3, <2>1 DEF Current
<1> QED  BY <1>2, <1>4

\* jobs_reap notes what waitpid tells of all processes.
LEMMA ReapNoting ==
  ASSUME OtherTypes, Sound(jobtab, child, code, owed, NoJob)
  PROVE  Noting(Reaped, ToldAll, NoJob)
<1>0. TableInv(jobtab)
  BY DEF Sound
<1>1. \A i \in Slots :
        /\ DOMAIN Reaped = Slots
        /\ Reaped[i] \in Job
        /\ Reaped[i].used = jobtab[i].used /\ Reaped[i].bg = jobtab[i].bg
        /\ Reaped[i].num = jobtab[i].num
        /\ DOMAIN Reaped[i].procs = DOMAIN jobtab[i].procs
        /\ \A k \in DOMAIN jobtab[i].procs :
             /\ Reaped[i].procs[k].pid = jobtab[i].procs[k].pid
             /\ Reaped[i].procs[k] =
                  IF jobtab[i].procs[k].pid \in Reportable /\ Owner(jobtab[i].procs[k].pid) = i
                  THEN Noted(jobtab[i].procs[k]) ELSE jobtab[i].procs[k]
        /\ \/ Reaped[i] = jobtab[i]
           \/ /\ \E k \in DOMAIN jobtab[i].procs :
                   jobtab[i].procs[k].pid \in Reportable /\ Owner(jobtab[i].procs[k].pid) = i
              /\ Reaped[i].state = StateOf(Reaped[i].procs)
  BY <1>0, ReapedIs
<1>2. DOMAIN Reaped = Slots /\ Reaped = [i \in DOMAIN Reaped |-> Reaped[i]]
  BY DEF Reaped, Slots
<1>3. TableInv(Reaped)
  <2>1. Reaped \in Seq(Job)
    BY <1>0, <1>1, <1>2, MapSeq DEF TableInv, Slots
  <2>2. ASSUME NEW i \in Slots, ~Reaped[i].used
        PROVE  Reaped[i] = Unused
    <3>1. jobtab[i] = Unused
      BY <1>0, <1>1, <2>2 DEF TableInv, Slots
    <3>2. DOMAIN jobtab[i].procs = {}
      BY <3>1, UnusedIs
    <3> QED  BY <1>1, <3>1, <3>2
  <2> QED  BY <1>2, <2>1, <2>2 DEF TableInv
<1>4. ASSUME NEW i \in Slots, NEW k \in DOMAIN jobtab[i].procs
      PROVE  LET r == jobtab[i].procs[k]
             IN \/ ToldAll[r.pid] = child[r.pid] /\ Reaped[i].procs[k] = r
                \/ /\ child[r.pid] \in News /\ ToldAll[r.pid] = Told(r.pid)
                   /\ Reaped[i].procs[k] = Noted(r)
                \/ owed[r.pid] = "shared"
  <2> DEFINE r == jobtab[i].procs[k]
  <2>1. r.pid \in Pids
    BY <1>0, JobIs DEF Slots
  <2>2. CASE r.pid \notin Reportable
    BY <1>1, <2>1, <2>2 DEF ToldAll
  <2>3. CASE r.pid \in Reportable /\ owed[r.pid] # "shared"
    <3>1. Once(jobtab, i, k)
      BY <2>3 DEF Sound, ProcInv, Slots
    <3>2. Owner(r.pid) = i
      BY <1>0, <3>1, HeldOnce DEF Owner, Slots
    <3>3. Reaped[i].procs[k] = Noted(r)
      BY <1>1, <2>3, <3>2
    <3>4. child[r.pid] \in News /\ ToldAll[r.pid] = Told(r.pid)
      BY <2>1, <2>3 DEF ToldAll, Reportable, News
    <3> QED  BY <3>3, <3>4
  <2> QED  BY <2>2, <2>3
<1>5. ASSUME NEW i \in Slots
      PROVE  \/ Reaped[i].state = jobtab[i].state /\ Reaped[i].procs = jobtab[i].procs
             \/ /\ \E k \in DOMAIN jobtab[i].procs : child[jobtab[i].procs[k].pid] \in News
                /\ Reaped[i].state = StateOf(Reaped[i].procs)
  <2>1. \A p \in Reportable : child[p] \in News
    BY DEF Reportable, News
  <2> QED  BY <1>1, <2>1
<1> QED  BY <1>1, <1>2, <1>3, <1>4, <1>5 DEF Noting

\* The marks of what was reported are taken away.
Unmarked(tab, S) == [i \in DOMAIN tab |-> IF i \in S THEN [tab[i] EXCEPT !.changed = FALSE] ELSE tab[i]]

LEMMA UnmarkedNoting ==
  ASSUME NEW tab, NEW ch, NEW w, Noting(tab, ch, w), NEW S, \A i \in S : tab[i].used
  PROVE  Noting(Unmarked(tab, S), ch, w)
<1> DEFINE seen == Unmarked(tab, S)
<1>0. TableInv(tab) /\ DOMAIN tab = Slots
  BY DEF Noting
<1>1. DOMAIN seen = Slots /\ seen = [i \in DOMAIN seen |-> seen[i]]
  BY <1>0 DEF Unmarked
<1>2. \A i \in Slots : /\ seen[i] \in Job
                       /\ seen[i].used = tab[i].used /\ seen[i].bg = tab[i].bg /\ seen[i].num = tab[i].num
                       /\ seen[i].procs = tab[i].procs /\ seen[i].state = tab[i].state
                       /\ ~tab[i].used => seen[i] = tab[i]
  <2> SUFFICES ASSUME NEW i \in Slots
               PROVE  /\ seen[i] \in Job
                      /\ seen[i].used = tab[i].used /\ seen[i].bg = tab[i].bg
                      /\ seen[i].num = tab[i].num
                      /\ seen[i].procs = tab[i].procs /\ seen[i].state = tab[i].state
                      /\ ~tab[i].used => seen[i] = tab[i]
    OBVIOUS
  <2>1. tab[i] \in Job
    BY <1>0, JobIs
  <2>2. seen[i] = IF i \in S THEN [tab[i] EXCEPT !.changed = FALSE] ELSE tab[i]
    BY <1>0 DEF Unmarked
  <2> QED  BY <2>1, <2>2 DEF Job
<1> HIDE DEF seen
<1>3. TableInv(seen)
  <2>1. seen \in Seq(Job)
    BY <1>0, <1>1, <1>2, MapSeq DEF TableInv
  <2> QED  BY <1>0, <1>1, <1>2, <2>1 DEF TableInv
<1>4. Noting(seen, ch, w)
  BY <1>1, <1>2, <1>3 DEF Noting
<1> QED  BY <1>4 DEF seen

-----------------------------------------------------------------------------
(* Slots are freed (job_free).                                             *)

LEMMA FreedIs ==
  ASSUME NEW tab, TableInv(tab), NEW S
  PROVE  /\ TableInv(Freed(tab, S)) /\ DOMAIN Freed(tab, S) = DOMAIN tab
         /\ \A i \in DOMAIN tab : Freed(tab, S)[i] = IF i \in S THEN Unused ELSE tab[i]
         /\ Len(Freed(tab, S)) = Len(tab)
<1>1. /\ DOMAIN Freed(tab, S) = DOMAIN tab
      /\ Freed(tab, S) = [i \in DOMAIN Freed(tab, S) |-> Freed(tab, S)[i]]
      /\ \A i \in DOMAIN tab : Freed(tab, S)[i] = IF i \in S THEN Unused ELSE tab[i]
  BY DEF Freed
<1>2. \A i \in DOMAIN tab : Freed(tab, S)[i] \in Job
  BY <1>1, UnusedIs, JobIs
<1>3. Freed(tab, S) \in Seq(Job) /\ Len(Freed(tab, S)) = Len(tab)
  BY <1>1, <1>2, MapSeq DEF TableInv
<1> QED  BY <1>1, <1>3 DEF TableInv

LEMMA ForgetIs ==
  ASSUME OtherTypes, NEW tab, NEW S, NEW how \in {"told", "pruned"}
  PROVE  /\ Forget(tab, S, how) \in [Pids -> Fates]
         /\ \A p \in Pids : Forget(tab, S, how)[p] =
              IF owed[p] = "owed" /\ p \in EndedIn(tab, S) THEN how ELSE owed[p]
BY DEF Forget, OtherTypes, Fates

\* What is forgotten with the slots that are freed is not in the others.
LEMMA ForgetOthers ==
  ASSUME OtherTypes, NEW tab, TableInv(tab), NEW ch, NEW cd, ProcInv(tab, ch, cd, owed),
         NEW S, S \subseteq DOMAIN tab,
         NEW how \in {"told", "pruned"}, NEW i \in DOMAIN tab \ S, NEW k \in DOMAIN tab[i].procs
  PROVE  Forget(tab, S, how)[tab[i].procs[k].pid] = owed[tab[i].procs[k].pid]
<1> DEFINE p == tab[i].procs[k].pid
<1>1. p \in Pids
  BY JobIs
<1>2. ASSUME owed[p] = "owed", p \in EndedIn(tab, S)
      PROVE  FALSE
  <2>1. PICK h \in S : \E l \in DOMAIN tab[h].procs : tab[h].procs[l].pid = p
    BY <1>2 DEF EndedIn
  <2>2. Once(tab, i, k)
    BY <1>2 DEF ProcInv
  <2> QED  BY <2>1, <2>2 DEF Once
<1> QED  BY <1>1, <1>2, ForgetIs

LEMMA FreedSound ==
  ASSUME OtherTypes, NEW tab, NEW ch, NEW w, Sound(tab, ch, code, owed, w),
         NEW S, S \subseteq DOMAIN tab, w \in S \cup {NoJob},
         \A i \in S : \A k \in DOMAIN tab[i].procs :
           owed[tab[i].procs[k].pid] = "owed" => tab[i].procs[k].state = "done",
         NEW how \in {"told", "pruned"}
  PROVE  Sound(Freed(tab, S), ch, code, Forget(tab, S, how), NoJob)
<1> DEFINE t == Freed(tab, S)
           ow == Forget(tab, S, how)
<1>0. TableInv(tab) /\ ProcInv(tab, ch, code, owed)
  BY DEF Sound
<1>1. /\ TableInv(t) /\ DOMAIN t = DOMAIN tab
      /\ \A i \in DOMAIN tab : t[i] = IF i \in S THEN Unused ELSE tab[i]
  BY <1>0, FreedIs
<1>2. \A i \in DOMAIN tab \ S : \A k \in DOMAIN tab[i].procs :
        ow[tab[i].procs[k].pid] = owed[tab[i].procs[k].pid]
  BY <1>0, ForgetOthers
<1>3. \A p \in Pids : ow[p] = IF owed[p] = "owed" /\ p \in EndedIn(tab, S) THEN how ELSE owed[p]
  BY ForgetIs
<1> HIDE DEF t, ow
<1>4. ProcInv(t, ch, code, ow)
  <2> SUFFICES ASSUME NEW i \in DOMAIN tab, NEW k \in DOMAIN t[i].procs
               PROVE  /\ ow[t[i].procs[k].pid] \in {"fg", "owed", "revived", "shared"}
                      /\ ow[t[i].procs[k].pid] # "shared" =>
                           Agrees(t[i].procs[k], ch, code) /\ Once(t, i, k)
    BY <1>1 DEF ProcInv
  <2>1. i \notin S /\ t[i] = tab[i]
    BY <1>1, UnusedIs
  <2>2. /\ owed[t[i].procs[k].pid] \in {"fg", "owed", "revived", "shared"}
        /\ owed[t[i].procs[k].pid] # "shared" =>
             Agrees(t[i].procs[k], ch, code) /\ Once(tab, i, k)
    BY <1>0, <2>1 DEF ProcInv
  <2>3. Once(tab, i, k) => Once(t, i, k)
    BY <1>1, <2>1, UnusedIs DEF Once
  <2> QED  BY <1>2, <2>1, <2>2, <2>3
<1>5. StateInv(t, ow, NoJob)
  <2> SUFFICES ASSUME NEW i \in DOMAIN tab, t[i].procs # <<>>, ~Odd(t[i], ow)
               PROVE  t[i].state = StateOf(t[i].procs)
    BY <1>1 DEF StateInv
  <2>1. i \notin S /\ t[i] = tab[i]
    BY <1>1, UnusedIs
  <2>2. ~Odd(tab[i], owed)
    BY <1>2, <2>1 DEF Odd, PidsOf
  <2>3. i # w
    BY <1>0, <2>1, JobIs DEF NoJob
  <2> QED  BY <2>1, <2>2, <2>3 DEF Sound, StateInv
<1>6. OwedInv(t, ow, NoJob)
  <2> SUFFICES ASSUME NEW p \in Pids, ow[p] = "owed"
               PROVE  \E i \in DOMAIN tab : /\ t[i].used /\ t[i].bg
                                            /\ DOMAIN t[i].procs = {1} /\ t[i].procs[1].pid = p
    BY <1>1 DEF OwedInv
  <2>1. owed[p] = "owed" /\ p \notin EndedIn(tab, S)
    BY <1>3
  <2>2. PICK i \in DOMAIN tab : /\ tab[i].used /\ (tab[i].bg \/ i = w)
                                /\ DOMAIN tab[i].procs = {1} /\ tab[i].procs[1].pid = p
    BY <2>1 DEF Sound, OwedInv
  <2>3. i \notin S
    BY <2>1, <2>2 DEF EndedIn
  <2>4. i # w
    BY <1>0, <2>2, <2>3, JobIs DEF NoJob
  <2> QED  BY <1>1, <2>2, <2>3, <2>4
<1>7. Sound(t, ch, code, ow, NoJob)
  BY <1>1, <1>4, <1>5, <1>6 DEF Sound
<1> QED  BY <1>7 DEF t, ow

\* A job that has ended has no process whose status is owed and that has not ended.
LEMMA DoneEnded ==
  ASSUME OtherTypes, NEW tab, NEW ch, Sound(tab, ch, code, owed, NoJob),
         NEW i \in DOMAIN tab, tab[i].state = "done", NEW k \in DOMAIN tab[i].procs,
         owed[tab[i].procs[k].pid] = "owed"
  PROVE  tab[i].procs[k].state = "done"
<1> DEFINE p == tab[i].procs[k].pid
<1>1. TableInv(tab) /\ p \in Pids /\ tab[i].procs \in Seq(Proc) /\ i # NoJob
  BY JobIs DEF Sound, NoJob
<1>2. PICK h \in DOMAIN tab : DOMAIN tab[h].procs = {1} /\ tab[h].procs[1].pid = p
  BY <1>1 DEF Sound, OwedInv
<1>3. h = i /\ k = 1
  BY <1>2 DEF Sound, ProcInv, Once
<1>4. ~Odd(tab[i], owed)
  BY <1>2, <1>3 DEF Odd, PidsOf
<1>5. tab[i].procs # <<>>
  BY <1>1, <1>2, <1>3
<1>6. StateOf(tab[i].procs) = "done"
  BY <1>1, <1>4, <1>5 DEF Sound, StateInv
<1> QED  BY <1>1, <1>6, StateOfIs

\* The current and the previous job after slots were freed.
LEMMA FreedCurrent ==
  ASSUME OtherTypes, NEW tab, TableInv(tab), NEW ch, NEW cd, ProcInv(tab, ch, cd, owed),
         Numbered(tab), Current(tab, owed, curjob, prevjob),
         NEW S, S \subseteq DOMAIN tab, NEW how \in {"told", "pruned"}
  PROVE  /\ Numbered(Freed(tab, S))
         /\ Current(Freed(tab, S), Forget(tab, S, how), CurAfter(tab, S), PrevAfter(S))
<1> DEFINE t == Freed(tab, S)
           ow == Forget(tab, S, how)
           c == CurAfter(tab, S)
           p == PrevAfter(S)
<1>1. /\ TableInv(t) /\ DOMAIN t = DOMAIN tab
      /\ \A i \in DOMAIN tab : t[i] = IF i \in S THEN Unused ELSE tab[i]
  BY FreedIs
<1>2. \A i \in DOMAIN tab \ S : \A k \in DOMAIN tab[i].procs :
        ow[tab[i].procs[k].pid] = owed[tab[i].procs[k].pid]
  BY ForgetOthers
<1>3. \A i \in DOMAIN tab : i # NoJob
  BY JobIs DEF NoJob
<1> HIDE DEF t, ow
<1>4. Numbered(t)
  BY <1>1, UnusedIs DEF Numbered
<1>5. Unfinished(t) \subseteq DOMAIN tab /\ \A i \in Unfinished(t) : t[i].used /\ i \notin S /\ i \in Unfinished(tab)
  BY <1>1, UnusedIs DEF Unfinished
<1>6. Unfinished(t) # {} => Max(Unfinished(t)) \in Unfinished(t)
  <2>1. Len(t) \in Nat /\ DOMAIN t = 1 .. Len(t)
    BY <1>1, OfSeq DEF TableInv
  <2>2. Unfinished(t) \in SUBSET (1 .. Len(t))
    BY <1>1, <1>5, <2>1
  <2> QED  BY <2>1, <2>2, MaxIs
<1>7. c = IF S = {} \/ Heir(S) # NoJob \/ Unfinished(t) = {} THEN Heir(S) ELSE Max(Unfinished(t))
  BY DEF CurAfter, t
<1> HIDE DEF c
<1>8. CASE S = {}
  <2>1. c = curjob /\ p = prevjob
    BY <1>7, <1>8 DEF Heir, PrevAfter
  <2>2. \A i \in DOMAIN tab : t[i] = tab[i] /\ (Odd(tab[i], owed) => Odd(t[i], ow))
    BY <1>1, <1>2, <1>8 DEF Odd, PidsOf
  <2>3. Unfinished(t) = Unfinished(tab)
    BY <1>1, <2>2 DEF Unfinished
  <2>4. Current(t, ow, c, p)
    BY <1>1, <1>5, <2>1, <2>2, <2>3 DEF Current
  <2> QED  BY <1>4, <2>4 DEF t, ow, c
<1>9. CASE S # {}
  <2>1. /\ curjob \in DOMAIN tab \cup {NoJob} /\ prevjob \in DOMAIN tab \cup {NoJob}
        /\ NoJob \notin S
    BY <1>3 DEF Current
  <2>2. c = NoJob => Unfinished(t) = {}
    BY <1>3, <1>5, <1>6, <1>7, <1>9
  <2>3. c # NoJob => c \in DOMAIN tab /\ t[c].used
    BY <1>1, <1>5, <1>6, <1>7, <2>1 DEF Heir, Current
  <2>4. p # NoJob => p = prevjob /\ curjob \notin S /\ prevjob \notin S
    BY DEF PrevAfter
  <2>5. p # NoJob => c = curjob /\ curjob # NoJob /\ t[p].used /\ p \in DOMAIN tab /\ c # p
    BY <1>1, <1>7, <2>1, <2>4 DEF Heir, Current
  <2>6. c # NoJob => c # p
    BY <2>5
  <2>7. {c, p} \subseteq DOMAIN t \cup {NoJob}
    BY <1>1, <2>3, <2>5
  <2> HIDE DEF p
  <2>8. Current(t, ow, c, p)
    BY <2>2, <2>3, <2>5, <2>6, <2>7 DEF Current
  <2> QED  BY <1>4, <2>8 DEF t, ow, c, p
<1> QED  BY <1>8, <1>9

-----------------------------------------------------------------------------
(* A job is entered (job_new, job_add_proc).                               *)

\* There is always a number for one more job.
LEMMA NumberIs ==
  ASSUME NEW tab, TableInv(tab)
  PROVE  /\ alloc_jobnum(tab) \in Nat
         /\ \A i \in DOMAIN tab : tab[i].used => tab[i].num # alloc_jobnum(tab)
<1> DEFINE n == Len(tab)
           Free == {m \in 1 .. (n + 1) : \A i \in DOMAIN tab : ~(tab[i].used /\ tab[i].num = m)}
<1>1. n \in Nat /\ DOMAIN tab = 1 .. n
  BY OfSeq DEF TableInv
<1>2. Free # {}
  <2> SUFFICES ASSUME \A m \in 1 .. (n + 1) : \E i \in 1 .. n : tab[i].num = m
               PROVE  FALSE
    BY <1>1
  <2> DEFINE f == [m \in 1 .. (n + 1) |-> CHOOSE i \in 1 .. n : tab[i].num = m]
  <2>1. \A m \in 1 .. (n + 1) : f[m] \in 1 .. n /\ tab[f[m]].num = m
    OBVIOUS
  <2>2. f \in [1 .. (n + 1) -> 1 .. n]
    BY <2>1
  <2>3. IsFiniteSet(1 .. n) /\ Cardinality(1 .. n) = n
    BY <1>1, FS_Interval
  <2>4. IsFiniteSet(1 .. (n + 1)) /\ Cardinality(1 .. (n + 1)) = n + 1
    BY <1>1, FS_Interval
  <2> HIDE DEF f
  <2>5. PICK x \in 1 .. (n + 1), y \in 1 .. (n + 1) : x # y /\ f[x] = f[y]
    <3> DEFINE A == 1 .. (n + 1)
               B == 1 .. n
    <3>1. IsFiniteSet(A) /\ IsFiniteSet(B) /\ Cardinality(B) < Cardinality(A) /\ f \in [A -> B]
      BY <1>1, <2>2, <2>3, <2>4
    <3> HIDE DEF A, B
    <3>2. \E x, y \in A : x # y /\ f[x] = f[y]
      BY <3>1, FS_PigeonHole
    <3> QED  BY <3>2 DEF A
  <2> QED  BY <2>1, <2>5
<1>3. Free \in SUBSET Nat
  BY <1>1
<1>4. alloc_jobnum(tab) = Min(Free)
  BY DEF alloc_jobnum
<1>5. Min(Free) \in Free
  BY <1>2, <1>3, MinIs
<1> QED  BY <1>4, <1>5

\* What is pruned are finished background jobs.
LEMMA PrunedIs == Pruned \subseteq Finished(jobtab)
BY DEF Pruned

\* The slot of a new job is not in use.
LEMMA NewSlotIs ==
  ASSUME TableInv(jobtab)
  PROVE  /\ TableInv(Kept) /\ DOMAIN Kept = Slots
         /\ NewSlot \in Nat \ {0}
         /\ NewSlot \in DOMAIN Kept => Kept[NewSlot] = Unused
         /\ NewSlot \notin DOMAIN Kept => NewSlot = Len(Kept) + 1
<1> DEFINE free == {i \in DOMAIN Kept : ~Kept[i].used}
<1>1. TableInv(Kept) /\ DOMAIN Kept = Slots
  BY FreedIs DEF Kept, Slots
<1>2. Len(Kept) \in Nat /\ DOMAIN Kept = 1 .. Len(Kept)
  BY <1>1, OfSeq DEF TableInv
<1>3. NewSlot = IF free = {} THEN Len(Kept) + 1 ELSE Min(free)
  BY DEF NewSlot
<1>4. free # {} => Min(free) \in free
  <2>1. free \in SUBSET Nat
    BY <1>2
  <2> QED  BY <2>1, MinIs
<1>5. CASE free = {}
  BY <1>1, <1>2, <1>3, <1>5
<1>6. CASE free # {}
  <2>1. NewSlot \in DOMAIN Kept /\ ~Kept[NewSlot].used
    BY <1>3, <1>4, <1>6
  <2> QED  BY <1>1, <1>2, <2>1 DEF TableInv
<1> QED  BY <1>5, <1>6

LEMMA NewPidsIs ==
  ASSUME OtherTypes, NEW n \in Nat, NEW pids \in NewPids(n)
  PROVE  /\ DOMAIN pids = 1 .. n
         /\ \A k \in DOMAIN pids : pids[k] \in Pids /\ child[pids[k]] = "none"
         /\ \A k, l \in DOMAIN pids : pids[k] = pids[l] => k = l
BY DEF NewPids

\* The table with the new job.
Enters(t, bg, pids) ==
  /\ TableInv(t) /\ DOMAIN t = Slots \cup {NewSlot}
  /\ \A i \in Slots \ {NewSlot} : t[i] = Kept[i]
  /\ t[NewSlot].used /\ t[NewSlot].bg = bg
  /\ bg => t[NewSlot].num = alloc_jobnum(Kept)
  /\ t[NewSlot].state = "running"
  /\ DOMAIN t[NewSlot].procs = DOMAIN pids
  /\ \A k \in DOMAIN pids : /\ t[NewSlot].procs[k].pid = pids[k]
                            /\ t[NewSlot].procs[k].state = "running"

LEMMA WithJobIs ==
  ASSUME OtherTypes, TableInv(jobtab), NEW bg \in BOOLEAN, NEW n \in Nat, NEW pids \in NewPids(n)
  PROVE  Enters(WithJob(bg, pids), bg, pids)
<1> DEFINE t == WithJob(bg, pids)
           ps == [k \in DOMAIN pids |-> [pid |-> pids[k], state |-> "running", status |-> None]]
           job == [used |-> TRUE, bg |-> bg, num |-> IF bg THEN alloc_jobnum(Kept) ELSE 0,
                   procs |-> ps, state |-> "running", changed |-> FALSE]
<1>1. /\ TableInv(Kept) /\ DOMAIN Kept = Slots /\ NewSlot \in Nat \ {0}
      /\ NewSlot \notin DOMAIN Kept => NewSlot = Len(Kept) + 1
  BY NewSlotIs
<1>2. /\ DOMAIN pids = 1 .. n /\ \A k \in DOMAIN pids : pids[k] \in Pids
  BY NewPidsIs
<1>3. ps \in Seq(Proc)
  <2>1. ps \in [1 .. n -> Proc]
    BY <1>2, Numbers DEF Proc
  <2> HIDE DEF ps
  <2> QED  BY <2>1, IsSeq
<1>4. alloc_jobnum(Kept) \in Nat
  BY <1>1, NumberIs
<1>5. t = [i \in Slots \cup {NewSlot} |-> IF i = NewSlot THEN job ELSE Kept[i]]
  BY <1>1 DEF WithJob
<1>6. DOMAIN ps = 1 .. n /\ \A k \in 1 .. n : ps[k].pid = pids[k] /\ ps[k].state = "running"
  BY <1>2
<1> HIDE DEF ps, t
<1>7. job \in Job
  BY <1>3, <1>4 DEF Job
<1>8. /\ job.used /\ job.bg = bg /\ (bg => job.num = alloc_jobnum(Kept))
      /\ job.state = "running" /\ job.procs = ps
  OBVIOUS
<1> HIDE DEF job
<1>9. \A i \in Slots \cup {NewSlot} : t[i] = IF i = NewSlot THEN job ELSE Kept[i]
  BY <1>5
<1>10. TableInv(t)
  <2>1. PICK m \in Nat : Slots \cup {NewSlot} = 1 .. m
    <3>1. Len(Kept) \in Nat /\ Slots = 1 .. Len(Kept)
      BY <1>1, OfSeq DEF TableInv
    <3>2. CASE NewSlot \in Slots
      BY <3>1, <3>2
    <3>3. CASE NewSlot \notin Slots
      <4>1. Slots \cup {NewSlot} = 1 .. (Len(Kept) + 1)
        BY <1>1, <3>1, <3>3
      <4> QED  BY <3>1, <4>1
    <3> QED  BY <3>2, <3>3
  <2>2. \A i \in Slots : Kept[i] \in Job
    BY <1>1, JobIs
  <2>3. t \in [1 .. m -> Job]
    BY <1>5, <1>7, <2>1, <2>2
  <2>4. t \in Seq(Job)
    BY <2>3, IsSeq
  <2> QED  BY <1>1, <1>5, <1>8, <1>9, <2>4 DEF TableInv
<1>11. DOMAIN t = Slots \cup {NewSlot}
  BY <1>5
<1>12. Enters(t, bg, pids)
  BY <1>2, <1>6, <1>8, <1>9, <1>10, <1>11 DEF Enters
<1> QED  BY <1>12 DEF t

\* What is pruned first.
LEMMA KeptSound ==
  ASSUME OtherTypes, Sound(jobtab, child, code, owed, NoJob),
         Numbered(jobtab), Current(jobtab, owed, curjob, prevjob)
  PROVE  LET F == Forget(jobtab, Pruned, "pruned")
         IN /\ Sound(Kept, child, code, F, NoJob) /\ Numbered(Kept)
            /\ Current(Kept, F, CurAfter(jobtab, Pruned), PrevAfter(Pruned))
            /\ F \in [Pids -> Fates]
<1>1. Pruned \subseteq Slots /\ \A i \in Pruned : jobtab[i].state = "done"
  BY PrunedIs DEF Finished, Slots
<1>2. \A i \in Pruned : \A k \in DOMAIN jobtab[i].procs :
        owed[jobtab[i].procs[k].pid] = "owed" => jobtab[i].procs[k].state = "done"
  BY <1>1, DoneEnded DEF Slots
<1>3. Sound(Kept, child, code, Forget(jobtab, Pruned, "pruned"), NoJob)
  BY <1>1, <1>2, FreedSound DEF Kept, Slots
<1>4. /\ Numbered(Kept)
      /\ Current(Kept, Forget(jobtab, Pruned, "pruned"), CurAfter(jobtab, Pruned), PrevAfter(Pruned))
  BY <1>1, FreedCurrent DEF Kept, Slots, Sound
<1> QED  BY <1>3, <1>4, ForgetIs

\* What becomes of the processes of the new job and of the others.
ForkedChild(pids) == [p \in Pids |-> IF p \in {pids[k] : k \in DOMAIN pids} THEN "running" ELSE child[p]]
ForkedCode(pids) == [p \in Pids |-> IF p \in {pids[k] : k \in DOMAIN pids} THEN cmds' ELSE code[p]]

LEMMA EnteredIs ==
  ASSUME OtherTypes, NEW n \in Nat, NEW pids \in NewPids(n), NEW owe \in BOOLEAN
  PROVE  /\ Entered(pids, owe) \in [Pids -> Fates]
         /\ \A k \in 1 .. n :
              Entered(pids, owe)[pids[k]] =
                IF Holds(Kept, pids[k]) # {} THEN "shared" ELSE IF owe THEN "owed" ELSE "fg"
         /\ \A p \in Pids : (\A k \in 1 .. n : p # pids[k]) =>
              Entered(pids, owe)[p] = Forget(jobtab, Pruned, "pruned")[p]
<1>1. DOMAIN pids = 1 .. n /\ \A k \in DOMAIN pids : pids[k] \in Pids
  BY NewPidsIs
<1>2. Forget(jobtab, Pruned, "pruned") \in [Pids -> Fates]
  BY ForgetIs
<1> HIDE DEF Forget
<1> QED  BY <1>1, <1>2 DEF Entered, Fates

LEMMA WithJobSound ==
  ASSUME OtherTypes, Sound(jobtab, child, code, owed, NoJob),
         Numbered(jobtab), Current(jobtab, owed, curjob, prevjob),
         NEW bg \in BOOLEAN, NEW owe \in BOOLEAN, NEW n \in Nat, NEW pids \in NewPids(n),
         owe => bg /\ n = 1, NEW w \in {NoJob, NewSlot}
  PROVE  Sound(WithJob(bg, pids), ForkedChild(pids), ForkedCode(pids), Entered(pids, owe), w)
<1> DEFINE t == WithJob(bg, pids)
           F == Forget(jobtab, Pruned, "pruned")
           E == Entered(pids, owe)
           ch == ForkedChild(pids)
           cd == ForkedCode(pids)
           N == NewSlot
<1>0. TableInv(jobtab)
  BY DEF Sound
<1>1. /\ Sound(Kept, child, code, F, NoJob) /\ F \in [Pids -> Fates]
  BY KeptSound
<1>2. /\ TableInv(t) /\ DOMAIN t = Slots \cup {N}
      /\ \A i \in Slots \ {N} : t[i] = Kept[i]
      /\ t[N].used /\ t[N].bg = bg /\ t[N].state = "running"
      /\ DOMAIN t[N].procs = 1 .. n
      /\ \A k \in 1 .. n : t[N].procs[k].pid = pids[k] /\ t[N].procs[k].state = "running"
  <2>1. Enters(t, bg, pids) /\ DOMAIN pids = 1 .. n
    BY <1>0, WithJobIs, NewPidsIs
  <2> HIDE DEF t
  <2> QED  BY <2>1 DEF Enters
<1>3. /\ TableInv(Kept) /\ DOMAIN Kept = Slots /\ N \in Nat \ {0}
      /\ N \in Slots => Kept[N] = Unused
  BY <1>0, NewSlotIs
<1>4. /\ \A k \in 1 .. n : /\ E[pids[k]] = IF Holds(Kept, pids[k]) # {} THEN "shared"
                                          ELSE IF owe THEN "owed" ELSE "fg"
                           /\ pids[k] \in Pids /\ ch[pids[k]] = "running"
      /\ \A p \in Pids : (\A k \in 1 .. n : p # pids[k]) =>
           E[p] = F[p] /\ ch[p] = child[p] /\ cd[p] = code[p]
      /\ \A k, l \in 1 .. n : pids[k] = pids[l] => k = l
  <2>1. DOMAIN pids = 1 .. n /\ \A k \in 1 .. n : pids[k] \in Pids
    BY NewPidsIs
  <2>2. \A k, l \in 1 .. n : pids[k] = pids[l] => k = l
    BY <2>1, NewPidsIs
  <2>3. \A k \in 1 .. n : ch[pids[k]] = "running"
    BY <2>1 DEF ForkedChild
  <2>4. \A p \in Pids : (\A k \in 1 .. n : p # pids[k]) => ch[p] = child[p] /\ cd[p] = code[p]
    BY <2>1 DEF ForkedChild, ForkedCode
  <2> HIDE DEF F, E, ch, cd
  <2>5. \A k \in 1 .. n : E[pids[k]] = IF Holds(Kept, pids[k]) # {} THEN "shared"
                                      ELSE IF owe THEN "owed" ELSE "fg"
    BY EnteredIs DEF E
  <2>6. \A p \in Pids : (\A k \in 1 .. n : p # pids[k]) => E[p] = F[p]
    BY EnteredIs DEF E, F
  <2> QED  BY <2>1, <2>2, <2>3, <2>4, <2>5, <2>6
<1>5. \A i \in Slots \ {N} : \A k \in DOMAIN Kept[i].procs :
        /\ Kept[i].procs[k].pid \in Pids
        /\ i \in Holds(Kept, Kept[i].procs[k].pid)
  BY <1>3, JobIs DEF Holds, PidsOf
<1> HIDE DEF t, F, E, ch, cd, N
<1>6. ASSUME NEW i \in Slots \ {N}, NEW k \in DOMAIN Kept[i].procs
      PROVE  LET p == Kept[i].procs[k].pid
             IN \/ E[p] = "shared"
                \/ /\ \A l \in 1 .. n : p # pids[l]
                   /\ E[p] = F[p] /\ ch[p] = child[p] /\ cd[p] = code[p]
  <2> DEFINE z == Kept[i].procs[k].pid
  <2>1. z \in Pids /\ Holds(Kept, z) # {}
    BY <1>5, <1>6
  <2> SUFFICES \/ E[z] = "shared"
                   \/ /\ \A l \in 1 .. n : z # pids[l]
                      /\ E[z] = F[z] /\ ch[z] = child[z] /\ cd[z] = code[z]
    OBVIOUS
  <2> HIDE DEF z
  <2>2. CASE \E l \in 1 .. n : z = pids[l]
    <3>1. PICK l \in 1 .. n : z = pids[l]
      BY <2>2
    <3>2. E[pids[l]] = "shared"
      BY <1>4, <2>1, <3>1
    <3> QED  BY <3>1, <3>2
  <2>3. CASE \A l \in 1 .. n : z # pids[l]
    BY <1>4, <2>1, <2>3
  <2> QED  BY <2>2, <2>3
<1>7. ProcInv(t, ch, cd, E)
  <2>1. ASSUME NEW k \in 1 .. n
        PROVE  /\ E[t[N].procs[k].pid] \in {"fg", "owed", "shared"}
               /\ E[t[N].procs[k].pid] # "shared" =>
                    Agrees(t[N].procs[k], ch, cd) /\ Once(t, N, k)
    <3>1. E[pids[k]] \in {"fg", "owed", "shared"}
      BY <1>4
    <3>2. Agrees(t[N].procs[k], ch, cd)
      BY <1>2, <1>4 DEF Agrees
    <3>3. ASSUME E[pids[k]] # "shared"
          PROVE  Once(t, N, k)
      <4>1. Holds(Kept, pids[k]) = {}
        BY <1>4, <3>3
      <4>2. \A h \in Slots \ {N} : \A l \in DOMAIN Kept[h].procs : Kept[h].procs[l].pid # pids[k]
        BY <1>5, <4>1
      <4> QED  BY <1>2, <1>4, <4>2 DEF Once
    <3> QED  BY <1>2, <3>1, <3>2, <3>3
  <2>2. ASSUME NEW i \in Slots \ {N}, NEW k \in DOMAIN Kept[i].procs
        PROVE  /\ E[Kept[i].procs[k].pid] \in {"fg", "owed", "revived", "shared"}
               /\ E[Kept[i].procs[k].pid] # "shared" =>
                    Agrees(Kept[i].procs[k], ch, cd) /\ Once(t, i, k)
    <3> DEFINE p == Kept[i].procs[k].pid
    <3>1. CASE E[p] = "shared"
      BY <3>1
    <3>2. CASE /\ \A l \in 1 .. n : p # pids[l]
               /\ E[p] = F[p] /\ ch[p] = child[p] /\ cd[p] = code[p]
      <4>1. /\ F[p] \in {"fg", "owed", "revived", "shared"}
            /\ F[p] # "shared" => Agrees(Kept[i].procs[k], child, code) /\ Once(Kept, i, k)
        BY <1>1, <1>3 DEF Sound, ProcInv
      <4>2. Agrees(Kept[i].procs[k], child, code) => Agrees(Kept[i].procs[k], ch, cd)
        BY <3>2 DEF Agrees
      <4>3. Once(Kept, i, k) => Once(t, i, k)
        BY <1>2, <1>3, <3>2 DEF Once
      <4> QED  BY <3>2, <4>1, <4>2, <4>3
    <3> QED  BY <1>6, <3>1, <3>2
  <2>3. ASSUME NEW i \in Slots \cup {N}, NEW k \in DOMAIN t[i].procs
        PROVE  /\ E[t[i].procs[k].pid] \in {"fg", "owed", "revived", "shared"}
               /\ E[t[i].procs[k].pid] # "shared" =>
                    Agrees(t[i].procs[k], ch, cd) /\ Once(t, i, k)
    <3>1. CASE i = N
      BY <1>2, <2>1, <3>1
    <3>2. CASE i # N
      BY <1>2, <2>2, <3>2
    <3> QED  BY <3>1, <3>2
  <2> QED  BY <1>2, <2>3 DEF ProcInv
<1>8. ASSUME NEW i \in Slots \ {N}, Odd(Kept[i], F)
      PROVE  Odd(t[i], E)
  <2>1. PICK k \in DOMAIN Kept[i].procs : F[Kept[i].procs[k].pid] \in {"revived", "shared"}
    BY <1>8 DEF Odd, PidsOf
  <2>2. E[Kept[i].procs[k].pid] \in {"revived", "shared"}
    BY <1>6, <2>1
  <2> QED  BY <1>2, <2>2 DEF Odd, PidsOf
<1>9. StateInv(t, E, w)
  <2>1. ASSUME t[N].procs # <<>>
        PROVE  t[N].state = StateOf(t[N].procs)
    <3>1. t[N].procs \in Seq(Proc)
      BY <1>2, JobIs
    <3>2. 1 \in DOMAIN t[N].procs
      BY <2>1, <3>1
    <3> QED  BY <1>2, <3>1, <3>2, StateOfIs
  <2>2. ASSUME NEW i \in Slots \ {N}, t[i].procs # <<>>, ~Odd(t[i], E)
        PROVE  t[i].state = StateOf(t[i].procs)
    <3>1. i # NoJob /\ t[i] = Kept[i] /\ ~Odd(Kept[i], F)
      BY <1>2, <1>3, <1>8, <2>2, JobIs DEF NoJob
    <3> QED  BY <1>1, <1>3, <2>2, <3>1 DEF Sound, StateInv
  <2> QED  BY <1>2, <2>1, <2>2 DEF StateInv
<1>10. OwedInv(t, E, w)
  <2> SUFFICES ASSUME NEW p \in Pids, E[p] = "owed"
               PROVE  \E i \in Slots \cup {N} : /\ t[i].used /\ t[i].bg
                                                /\ DOMAIN t[i].procs = {1} /\ t[i].procs[1].pid = p
    BY <1>2 DEF OwedInv
  <2>1. CASE \E k \in 1 .. n : p = pids[k]
    <3>1. PICK k \in 1 .. n : p = pids[k]
      BY <2>1
    <3>2. owe /\ bg /\ n = 1
      BY <1>4, <3>1
    <3>3. 1 .. n = {1} /\ k = 1
      BY <3>2
    <3>4. t[N].used /\ t[N].bg /\ DOMAIN t[N].procs = {1} /\ t[N].procs[1].pid = p
      BY <1>2, <3>1, <3>2, <3>3
    <3> QED  BY <3>4
  <2>2. CASE \A k \in 1 .. n : p # pids[k]
    <3>1. F[p] = "owed"
      BY <1>4, <2>2
    <3>2. PICK i \in Slots : /\ Kept[i].used /\ (Kept[i].bg \/ i = NoJob)
                             /\ DOMAIN Kept[i].procs = {1} /\ Kept[i].procs[1].pid = p
      BY <1>1, <1>3, <3>1 DEF Sound, OwedInv
    <3>3. i # N /\ i # NoJob
      BY <1>3, <3>2, UnusedIs, JobIs DEF NoJob
    <3> QED  BY <1>2, <3>2, <3>3
  <2> QED  BY <2>1, <2>2
<1>11. Sound(t, ch, cd, E, w)
  BY <1>2, <1>7, <1>9, <1>10 DEF Sound
<1> QED  BY <1>11 DEF t, ch, cd, E

\* The numbers and the current job with the new job, which is not the current one, or
\* the job of "command &", which is.
LEMMA WithJobCurrent ==
  ASSUME OtherTypes, Sound(jobtab, child, code, owed, NoJob),
         Numbered(jobtab), Current(jobtab, owed, curjob, prevjob),
         NEW bg \in BOOLEAN, NEW owe \in BOOLEAN, NEW n \in Nat, NEW pids \in NewPids(n)
  PROVE  /\ Numbered(WithJob(bg, pids))
         /\ ~bg \/ n = 0 => Current(WithJob(bg, pids), Entered(pids, owe),
                                    CurAfter(jobtab, Pruned), PrevAfter(Pruned))
         /\ Current(WithJob(bg, pids), Entered(pids, owe), NewSlot,
                    IF CurAfter(jobtab, Pruned) = NewSlot THEN PrevAfter(Pruned)
                    ELSE CurAfter(jobtab, Pruned))
<1> DEFINE t == WithJob(bg, pids)
           F == Forget(jobtab, Pruned, "pruned")
           E == Entered(pids, owe)
           N == NewSlot
           c == CurAfter(jobtab, Pruned)
           p == PrevAfter(Pruned)
<1>0. TableInv(jobtab)
  BY DEF Sound
<1>1. /\ Sound(Kept, child, code, F, NoJob) /\ Numbered(Kept) /\ Current(Kept, F, c, p)
  BY KeptSound
<1>2. /\ TableInv(t) /\ DOMAIN t = Slots \cup {N}
      /\ \A i \in Slots \ {N} : t[i] = Kept[i]
      /\ t[N].used /\ t[N].bg = bg /\ t[N].state = "running"
      /\ bg => t[N].num = alloc_jobnum(Kept)
      /\ DOMAIN t[N].procs = 1 .. n
  <2>1. Enters(t, bg, pids) /\ DOMAIN pids = 1 .. n
    BY <1>0, WithJobIs, NewPidsIs
  <2> HIDE DEF t
  <2> QED  BY <2>1 DEF Enters
<1>3. /\ TableInv(Kept) /\ DOMAIN Kept = Slots /\ N \in Nat \ {0}
      /\ N \in Slots => Kept[N] = Unused
  BY <1>0, NewSlotIs
<1>4. \A i \in Slots : Kept[i].used => i # N
  BY <1>3, UnusedIs
<1>5. \A i \in Slots : Kept[i].used => Kept[i].num # alloc_jobnum(Kept)
  BY <1>3, NumberIs
<1>6. /\ \A k \in 1 .. n : E[pids[k]] \in {"shared", "owed", "fg"}
                           /\ (Holds(Kept, pids[k]) # {} => E[pids[k]] = "shared")
      /\ \A q \in Pids : (\A k \in 1 .. n : q # pids[k]) => E[q] = F[q]
  <2> HIDE DEF F, E
  <2>1. \A k \in 1 .. n : E[pids[k]] = IF Holds(Kept, pids[k]) # {} THEN "shared"
                                      ELSE IF owe THEN "owed" ELSE "fg"
    BY EnteredIs DEF E
  <2>2. \A q \in Pids : (\A k \in 1 .. n : q # pids[k]) => E[q] = F[q]
    BY EnteredIs DEF E, F
  <2> QED  BY <2>1, <2>2
<1> HIDE DEF t, F, E, N, c, p
<1>7. ASSUME NEW i \in Slots \ {N}, Odd(Kept[i], F)
      PROVE  Odd(t[i], E)
  <2>1. PICK k \in DOMAIN Kept[i].procs : F[Kept[i].procs[k].pid] \in {"revived", "shared"}
    BY <1>7 DEF Odd, PidsOf
  <2>2. Kept[i].procs[k].pid \in Pids /\ Holds(Kept, Kept[i].procs[k].pid) # {}
    BY <1>3, JobIs DEF Holds, PidsOf
  <2>3. E[Kept[i].procs[k].pid] \in {"revived", "shared"}
    BY <1>6, <2>1, <2>2
  <2> QED  BY <1>2, <2>3 DEF Odd, PidsOf
<1>8. Numbered(t)
  <2> SUFFICES ASSUME NEW i \in Slots \cup {N}, NEW k \in Slots \cup {N},
                      t[i].used, t[k].used, t[i].bg, t[k].bg, i # k
               PROVE  t[i].num # t[k].num
    BY <1>2 DEF Numbered
  <2>1. CASE i # N /\ k # N
    BY <1>1, <1>2, <1>3, <2>1 DEF Numbered
  <2>2. CASE i = N
    BY <1>2, <1>5, <2>2
  <2>3. CASE k = N
    BY <1>2, <1>5, <2>3
  <2> QED  BY <2>1, <2>2, <2>3
<1>9. /\ {c, p} \subseteq Slots \cup {NoJob}
      /\ c # NoJob => Kept[c].used /\ c # p
      /\ p # NoJob => c # NoJob /\ Kept[p].used
      /\ c = NoJob => \A i \in Unfinished(Kept) : Kept[i].procs = <<>> \/ Odd(Kept[i], F)
  BY <1>1, <1>3 DEF Current
<1>10. ASSUME ~bg \/ n = 0
       PROVE  Current(t, E, c, p)
  <2>1. ASSUME c = NoJob, NEW i \in Unfinished(t)
        PROVE  t[i].procs = <<>> \/ Odd(t[i], E)
    <3>1. CASE i = N
      <4>1. t[N].bg /\ DOMAIN t[N].procs = 1 .. 0
        BY <1>2, <1>10, <2>1, <3>1 DEF Unfinished
      <4>2. t[N].procs \in Seq(Proc)
        BY <1>2, JobIs
      <4>3. Len(t[N].procs) \in Nat /\ 1 .. Len(t[N].procs) = 1 .. 0
        BY <4>1, <4>2, OfSeq
      <4>4. Len(t[N].procs) = 0
        <5>1. \A m \in Nat : 1 .. m = 1 .. 0 => m = 0
          OBVIOUS
        <5> QED  BY <4>3, <5>1
      <4>5. t[N].procs = <<>>
        BY <4>2, <4>4, EmptySeq
      <4> QED  BY <3>1, <4>5
    <3>2. CASE i # N
      <4>1. i \in Slots /\ i \in Unfinished(Kept) /\ t[i] = Kept[i]
        BY <1>2, <1>3, <2>1, <3>2 DEF Unfinished
      <4>2. Kept[i].procs = <<>> \/ Odd(Kept[i], F)
        BY <1>9, <2>1, <4>1
      <4>3. Odd(Kept[i], F) => Odd(t[i], E)
        BY <1>7, <3>2, <4>1
      <4> QED  BY <4>1, <4>2, <4>3
    <3> QED  BY <3>1, <3>2
  <2>2. /\ {c, p} \subseteq DOMAIN t \cup {NoJob}
        /\ c # NoJob => t[c].used /\ c # p
        /\ p # NoJob => c # NoJob /\ t[p].used
    BY <1>2, <1>4, <1>9
  <2> QED  BY <2>1, <2>2 DEF Current
<1>11. Current(t, E, N, IF c = N THEN p ELSE c)
  <2>1. N # NoJob /\ c # N
    BY <1>3, <1>4, <1>9 DEF NoJob
  <2>2. c # NoJob => t[c].used
    BY <1>2, <1>4, <1>9
  <2> QED  BY <1>2, <1>9, <2>1, <2>2 DEF Current
<1> QED  BY <1>8, <1>10, <1>11 DEF t, E, N, c, p

-----------------------------------------------------------------------------
(* A job is continued (job_continue, kill).                                *)

Continues(t, tab, i, fg) ==
  /\ TableInv(t) /\ DOMAIN t = DOMAIN tab
  /\ \A h \in DOMAIN tab \ {i} : t[h] = tab[h]
  /\ t[i].used = tab[i].used /\ (t[i].bg <=> tab[i].bg /\ ~fg) /\ t[i].num = tab[i].num
  /\ t[i].state = "running"
  /\ DOMAIN t[i].procs = DOMAIN tab[i].procs
  /\ \A k \in DOMAIN tab[i].procs :
       /\ t[i].procs[k].pid = tab[i].procs[k].pid
       /\ t[i].procs[k].status = tab[i].procs[k].status
       /\ t[i].procs[k].state = IF tab[i].procs[k].state = "stopped" THEN "running"
                                ELSE tab[i].procs[k].state

LEMMA ContinuedIs ==
  ASSUME NEW j \in Job
  PROVE  /\ Continued(j) \in Job /\ Continued(j).used = j.used /\ Continued(j).bg = j.bg
         /\ Continued(j).num = j.num /\ Continued(j).state = "running"
         /\ DOMAIN Continued(j).procs = DOMAIN j.procs
         /\ \A k \in DOMAIN j.procs :
              /\ Continued(j).procs[k].pid = j.procs[k].pid
              /\ Continued(j).procs[k].status = j.procs[k].status
              /\ Continued(j).procs[k].state = IF j.procs[k].state = "stopped" THEN "running"
                                               ELSE j.procs[k].state
<1> DEFINE ps == [k \in DOMAIN j.procs |-> IF j.procs[k].state = "stopped"
                                           THEN [j.procs[k] EXCEPT !.state = "running"]
                                           ELSE j.procs[k]]
<1>1. j.procs \in Seq(Proc)
  BY DEF Job
<1>2. \A k \in DOMAIN j.procs : j.procs[k] \in Proc
  BY <1>1, OfSeq
<1>3. DOMAIN ps = DOMAIN j.procs /\ ps = [k \in DOMAIN ps |-> ps[k]]
  OBVIOUS
<1>4. \A k \in DOMAIN j.procs :
        /\ ps[k] \in Proc /\ ps[k].pid = j.procs[k].pid /\ ps[k].status = j.procs[k].status
        /\ ps[k].state = IF j.procs[k].state = "stopped" THEN "running" ELSE j.procs[k].state
  BY <1>2 DEF Proc
<1>5. Continued(j) = [j EXCEPT !.state = "running", !.procs = ps]
  BY DEF Continued, Job
<1> HIDE DEF ps
<1>6. ps \in Seq(Proc)
  BY <1>1, <1>3, <1>4, MapSeq
<1> QED  BY <1>3, <1>4, <1>5, <1>6 DEF Job

\* The table in which one job is continued, whether it goes to the foreground or not.
LEMMA ExceptContinues ==
  ASSUME NEW tab, TableInv(tab), NEW i \in Named(tab), NEW fg \in BOOLEAN
  PROVE  /\ Continues([tab EXCEPT ![i] = Resumed(@, fg)], tab, i, fg)
         /\ Continues([tab EXCEPT ![i] = Continued(@)], tab, i, FALSE)
<1> DEFINE j == Resumed(tab[i], fg)
           t == [tab EXCEPT ![i] = j]
           u == [tab EXCEPT ![i] = Continued(tab[i])]
<1>1. i \in DOMAIN tab /\ tab[i].used /\ tab[i] \in Job /\ tab[i].bg \in BOOLEAN
  BY JobIs DEF Named
<1>2. /\ Continued(tab[i]) \in Job /\ Continued(tab[i]).used = tab[i].used
      /\ Continued(tab[i]).bg = tab[i].bg
      /\ Continued(tab[i]).num = tab[i].num /\ Continued(tab[i]).state = "running"
      /\ DOMAIN Continued(tab[i]).procs = DOMAIN tab[i].procs
      /\ \A k \in DOMAIN tab[i].procs :
           /\ Continued(tab[i]).procs[k].pid = tab[i].procs[k].pid
           /\ Continued(tab[i]).procs[k].status = tab[i].procs[k].status
           /\ Continued(tab[i]).procs[k].state = IF tab[i].procs[k].state = "stopped" THEN "running"
                                                 ELSE tab[i].procs[k].state
  BY <1>1, ContinuedIs
<1>3. /\ j \in Job /\ j.used = tab[i].used /\ (j.bg <=> tab[i].bg /\ ~fg)
      /\ j.num = tab[i].num /\ j.state = "running" /\ j.procs = Continued(tab[i]).procs
  <2>1. (tab[i].bg /\ ~fg) \in BOOLEAN
    BY <1>1, <1>2
  <2> QED  BY <1>1, <1>2, <2>1 DEF Job, Resumed
<1> HIDE DEF j
<1>4. tab \in Seq(Job) /\ Len(tab) \in Nat /\ DOMAIN tab = 1 .. Len(tab)
  BY OfSeq DEF TableInv
<1>5. ASSUME NEW x \in Job, x.used
      PROVE  LET v == [tab EXCEPT ![i] = x]
             IN /\ TableInv(v) /\ DOMAIN v = DOMAIN tab /\ v[i] = x
                /\ \A h \in DOMAIN tab \ {i} : v[h] = tab[h]
  <2> DEFINE v == [tab EXCEPT ![i] = x]
  <2>1. v \in Seq(Job)
    BY <1>1, <1>4, <1>5, ExceptSeq
  <2>2. DOMAIN v = DOMAIN tab /\ v[i] = x /\ \A h \in DOMAIN tab \ {i} : v[h] = tab[h]
    BY <1>1, <1>4
  <2> HIDE DEF v
  <2>3. TableInv(v)
    BY <1>1, <1>5, <2>1, <2>2 DEF TableInv
  <2> QED  BY <2>2, <2>3 DEF v
<1>6. Continues(t, tab, i, fg)
  <2>1. /\ TableInv(t) /\ DOMAIN t = DOMAIN tab /\ t[i] = j
        /\ \A h \in DOMAIN tab \ {i} : t[h] = tab[h]
    BY <1>1, <1>3, <1>5
  <2> HIDE DEF t
  <2> QED  BY <1>2, <1>3, <2>1 DEF Continues
<1>7. Continues(u, tab, i, FALSE)
  <2>1. /\ TableInv(u) /\ DOMAIN u = DOMAIN tab /\ u[i] = Continued(tab[i])
        /\ \A h \in DOMAIN tab \ {i} : u[h] = tab[h]
    BY <1>1, <1>2, <1>5
  <2> HIDE DEF u
  <2> QED  BY <1>1, <1>2, <2>1 DEF Continues
<1> QED  BY <1>6, <1>7 DEF t, u, j

\* Processes that are continued: the table need not know.
LEMMA ContIs ==
  ASSUME NEW ch \in [Pids -> ChildStates], NEW ps
  PROVE  /\ Cont(ch, ps) \in [Pids -> ChildStates]
         /\ \A p \in Pids : \/ Cont(ch, ps)[p] = ch[p]
                            \/ ch[p] \in {"halted", "stopped"} /\ Cont(ch, ps)[p] = "continued"
BY DEF Cont, ChildStates, Alive

LEMMA ContAgrees ==
  ASSUME NEW ch \in [Pids -> ChildStates], NEW ps, NEW cd, NEW r, r.pid \in Pids, Agrees(r, ch, cd)
  PROVE  Agrees(r, Cont(ch, ps), cd)
<1>1. \/ Cont(ch, ps)[r.pid] = ch[r.pid]
      \/ ch[r.pid] \in {"halted", "stopped"} /\ Cont(ch, ps)[r.pid] = "continued"
  BY ContIs
<1> HIDE DEF Cont
<1> QED  BY <1>1 DEF Agrees

LEMMA RevivedIs ==
  ASSUME OtherTypes, NEW j
  PROVE  /\ Revived(j) \in [Pids -> Fates]
         /\ \A p \in Pids : Revived(j)[p] = IF owed[p] \in {"owed", "fg"} /\ p \in PidsOf(j)
                                               /\ StateOf(j.procs) = "done"
                                            THEN "revived" ELSE owed[p]
BY DEF Revived, OtherTypes, Fates

\* Whether a process is one of a job that ended, and is lost by being continued.
LEMMA RevivedOdd ==
  ASSUME OtherTypes, NEW tab, TableInv(tab), NEW ch, NEW cd, ProcInv(tab, ch, cd, owed),
         NEW i \in DOMAIN tab, tab[i].procs # <<>>, StateOf(tab[i].procs) = "done"
  PROVE  \E p \in PidsOf(tab[i]) : Revived(tab[i])[p] \in {"revived", "shared"}
<1>1. tab[i].procs \in Seq(Proc) /\ \A k \in DOMAIN tab[i].procs : tab[i].procs[k].pid \in Pids
  BY JobIs
<1>2. 1 \in DOMAIN tab[i].procs
  BY <1>1
<1> DEFINE p == tab[i].procs[1].pid
<1>3. p \in Pids /\ p \in PidsOf(tab[i]) /\ owed[p] \in {"fg", "owed", "revived", "shared"}
  BY <1>1, <1>2 DEF PidsOf, ProcInv
<1>4. Revived(tab[i])[p] \in {"revived", "shared"}
  <2> HIDE DEF p
  <2> QED  BY <1>3, RevivedIs
<1> QED  BY <1>3, <1>4

\* A job is continued: the job goes to the foreground and is waited for, or what it was
\* after its end is lost.
LEMMA ContinueSound ==
  ASSUME OtherTypes, NEW tab, NEW ch \in [Pids -> ChildStates], Sound(tab, ch, code, owed, NoJob),
         Numbered(tab), Current(tab, owed, curjob, prevjob),
         NEW i \in Named(tab), NEW fg \in BOOLEAN, NEW t, Continues(t, tab, i, fg),
         NEW ow, ow = IF fg THEN owed ELSE Revived(tab[i]), NEW w, w = IF fg THEN i ELSE NoJob
  PROVE  /\ Sound(t, Cont(ch, PidsOf(tab[i])), code, ow, w)
         /\ Numbered(t) /\ Current(t, ow, curjob, prevjob)
<1> DEFINE ps == PidsOf(tab[i])
           ch2 == Cont(ch, ps)
<1>0. TableInv(tab) /\ ProcInv(tab, ch, code, owed) /\ TableInv(t) /\ DOMAIN t = DOMAIN tab
  BY DEF Sound, Continues
<1>1. i \in DOMAIN tab /\ tab[i].used /\ (tab[i].bg \/ i = curjob)
  BY DEF Named
<1>2. /\ \A h \in DOMAIN tab : /\ t[h].used = tab[h].used /\ t[h].num = tab[h].num
                               /\ t[h].bg => tab[h].bg
                               /\ tab[h].bg => t[h].bg \/ h = w
                               /\ DOMAIN t[h].procs = DOMAIN tab[h].procs
                               /\ \A k \in DOMAIN tab[h].procs : t[h].procs[k].pid = tab[h].procs[k].pid
                               /\ h # i => t[h] = tab[h]
      /\ t[i].state = "running" /\ (t[i].bg => ~fg)
  BY DEF Continues
<1>3. \A k \in DOMAIN tab[i].procs :
        /\ t[i].procs[k].status = tab[i].procs[k].status
        /\ t[i].procs[k].state = IF tab[i].procs[k].state = "stopped" THEN "running"
                                 ELSE tab[i].procs[k].state
  BY DEF Continues
<1>4. \A p \in Pids : \/ ow[p] = owed[p]
                      \/ owed[p] \in {"owed", "fg"} /\ ow[p] = "revived"
  BY RevivedIs
<1>5. \A h \in DOMAIN tab : \A k \in DOMAIN tab[h].procs : tab[h].procs[k].pid \in Pids
  BY <1>0, JobIs
<1>6. ASSUME NEW h \in DOMAIN tab, Odd(tab[h], owed)
      PROVE  Odd(t[h], ow)
  <2>1. PICK k \in DOMAIN tab[h].procs : owed[tab[h].procs[k].pid] \in {"revived", "shared"}
    BY <1>6 DEF Odd, PidsOf
  <2>2. ow[tab[h].procs[k].pid] \in {"revived", "shared"}
    BY <1>4, <1>5, <2>1
  <2> QED  BY <1>2, <2>1, <2>2 DEF Odd, PidsOf
<1>7. ASSUME ~fg, tab[i].procs # <<>>, ~Odd(t[i], ow)
      PROVE  StateOf(tab[i].procs) # "done"
  <2> SUFFICES ASSUME StateOf(tab[i].procs) = "done"
               PROVE  FALSE
    OBVIOUS
  <2>1. PICK p \in PidsOf(tab[i]) : ow[p] \in {"revived", "shared"}
    BY <1>0, <1>1, <1>7, RevivedOdd
  <2>2. PidsOf(t[i]) = PidsOf(tab[i])
    BY <1>1, <1>2 DEF PidsOf
  <2> QED  BY <1>7, <2>1, <2>2 DEF Odd
<1>8. ProcInv(t, ch2, code, ow)
  <2> SUFFICES ASSUME NEW h \in DOMAIN tab, NEW k \in DOMAIN tab[h].procs
               PROVE  /\ ow[tab[h].procs[k].pid] \in {"fg", "owed", "revived", "shared"}
                      /\ ow[tab[h].procs[k].pid] # "shared" =>
                           Agrees(t[h].procs[k], ch2, code) /\ Once(t, h, k)
    BY <1>0, <1>2 DEF ProcInv
  <2> DEFINE r == tab[h].procs[k]
  <2>1. /\ owed[r.pid] \in {"fg", "owed", "revived", "shared"}
        /\ owed[r.pid] # "shared" => Agrees(r, ch, code) /\ Once(tab, h, k)
    BY <1>0 DEF ProcInv
  <2>2. /\ ow[r.pid] \in {"fg", "owed", "revived", "shared"}
        /\ ow[r.pid] # "shared" => owed[r.pid] # "shared"
    BY <1>4, <1>5, <2>1
  <2>3. Agrees(r, ch, code) => Agrees(t[h].procs[k], ch, code)
    <3>1. CASE h = i
      BY <1>2, <1>3, <3>1 DEF Agrees
    <3>2. CASE h # i
      BY <1>2, <3>2
    <3> QED  BY <3>1, <3>2
  <2>4. t[h].procs[k].pid \in Pids
    BY <1>2, <1>5
  <2>5. Agrees(t[h].procs[k], ch, code) => Agrees(t[h].procs[k], ch2, code)
    <3> HIDE DEF ps
    <3> QED  BY <2>4, ContAgrees
  <2>6. Once(tab, h, k) => Once(t, h, k)
    BY <1>0, <1>2 DEF Once
  <2> QED  BY <2>1, <2>2, <2>3, <2>5, <2>6
<1>9. \A h \in DOMAIN tab : t[h].procs # <<>> => tab[h].procs # <<>>
  <2> SUFFICES ASSUME NEW h \in DOMAIN tab, t[h].procs # <<>>, tab[h].procs = <<>>
               PROVE  FALSE
    OBVIOUS
  <2>1. 1 \in DOMAIN t[h].procs
    BY <1>0, JobIs
  <2> QED  BY <1>2, <2>1
<1>10. StateInv(t, ow, w)
  <2> SUFFICES ASSUME NEW h \in DOMAIN tab, t[h].procs # <<>>, h # w, ~Odd(t[h], ow)
               PROVE  t[h].state = StateOf(t[h].procs)
    BY <1>0 DEF StateInv
  <2>1. CASE h # i
    <3>1. t[h] = tab[h] /\ ~Odd(tab[h], owed) /\ h # NoJob
      BY <1>0, <1>2, <1>6, <2>1, JobIs DEF NoJob
    <3> QED  BY <3>1 DEF Sound, StateInv
  <2>2. CASE h = i
    <3>1. tab[i].procs \in Seq(Proc) /\ t[i].procs \in Seq(Proc)
      BY <1>0, <1>1, JobIs
    <3>2. StateOf(tab[i].procs) # "done"
      BY <1>7, <1>9, <2>2
    <3>3. PICK k \in DOMAIN tab[i].procs : tab[i].procs[k].state # "done"
      BY <3>1, <3>2, StateOfIs
    <3>4. tab[i].procs[k].state \in {"running", "stopped", "done"}
      BY <1>0, <1>1, JobIs DEF Proc
    <3>5. k \in DOMAIN t[i].procs /\ t[i].procs[k].state = "running"
      BY <1>1, <1>2, <1>3, <3>3, <3>4
    <3>6. StateOf(t[i].procs) = "running"
      BY <3>1, <3>5, StateOfIs
    <3> QED  BY <1>2, <2>2, <3>6
  <2> QED  BY <2>1, <2>2
<1>11. OwedInv(t, ow, w)
  <2> SUFFICES ASSUME NEW p \in Pids, ow[p] = "owed"
               PROVE  \E h \in DOMAIN tab : /\ t[h].used /\ (t[h].bg \/ h = w)
                                            /\ DOMAIN t[h].procs = {1} /\ t[h].procs[1].pid = p
    BY <1>0 DEF OwedInv
  <2>1. owed[p] = "owed"
    BY <1>4
  <2>2. PICK h \in DOMAIN tab : /\ tab[h].used /\ (tab[h].bg \/ h = NoJob)
                                /\ DOMAIN tab[h].procs = {1} /\ tab[h].procs[1].pid = p
    BY <2>1 DEF Sound, OwedInv
  <2>3. h # NoJob
    BY <1>0, JobIs DEF NoJob
  <2> QED  BY <1>2, <2>2, <2>3
<1>12. Sound(t, ch2, code, ow, w)
  BY <1>0, <1>8, <1>10, <1>11 DEF Sound
<1>13. Numbered(t)
  BY <1>0, <1>2 DEF Numbered
<1>14. ASSUME curjob = NoJob, NEW h \in Unfinished(t)
       PROVE  t[h].procs = <<>> \/ Odd(t[h], ow)
  <2> SUFFICES ASSUME t[h].procs # <<>>, ~Odd(t[h], ow)
               PROVE  FALSE
    OBVIOUS
  <2>1. h \in DOMAIN tab /\ tab[h].used /\ tab[h].bg /\ tab[h].procs # <<>> /\ ~Odd(tab[h], owed)
    BY <1>0, <1>2, <1>6, <1>9, <1>14 DEF Unfinished
  <2>2. tab[h].state = "done"
    BY <1>14, <2>1 DEF Current, Unfinished
  <2>3. h = i /\ ~fg
    BY <1>0, <1>2, <1>14, <2>1, <2>2 DEF Unfinished
  <2>4. h # NoJob
    BY <1>0, <2>1, JobIs DEF NoJob
  <2>5. StateOf(tab[i].procs) = "done"
    BY <2>1, <2>2, <2>3, <2>4 DEF Sound, StateInv
  <2> QED  BY <1>7, <2>1, <2>3, <2>5
<1>15. Current(t, ow, curjob, prevjob)
  <2>1. /\ {curjob, prevjob} \subseteq DOMAIN t \cup {NoJob}
        /\ curjob # NoJob => t[curjob].used /\ curjob # prevjob
        /\ prevjob # NoJob => curjob # NoJob /\ t[prevjob].used
    BY <1>0, <1>2 DEF Current
  <2> QED  BY <1>14, <2>1 DEF Current
<1> QED  BY <1>12, <1>13, <1>15

-----------------------------------------------------------------------------
(* Processes change, and the shell is not told, or what it is told does    *)
(* not change an answer that was given.                                    *)

LEMMA SilentSound ==
  ASSUME NEW tab, NEW ch, NEW cd, NEW ow, NEW w, Sound(tab, ch, cd, ow, w), NEW ch2,
         \A p \in Pids : ch2[p] = ch[p] \/ (ch[p] # "none" /\ ch2[p] \notin {"none", "running"})
  PROVE  Sound(tab, ch2, cd, ow, w)
<1>1. \A i \in DOMAIN tab : \A k \in DOMAIN tab[i].procs : tab[i].procs[k].pid \in Pids
  BY JobIs DEF Sound
<1>2. ASSUME NEW i \in DOMAIN tab, NEW k \in DOMAIN tab[i].procs, Agrees(tab[i].procs[k], ch, cd)
      PROVE  Agrees(tab[i].procs[k], ch2, cd)
  BY <1>1, <1>2 DEF Agrees
<1>3. ProcInv(tab, ch2, cd, ow)
  BY <1>2 DEF Sound, ProcInv
<1> QED  BY <1>3 DEF Sound

\* What may happen to the processes after an answer.
Tells(ch) ==
  \A p \in Pids : \/ ch[p] = child[p]
                  \/ child[p] \in News /\ ch[p] = Told(p)
                  \/ child[p] \in {"running", "continued"} /\ ch[p] \in {"zombie", "halted"}

LEMMA AnswerKept ==
  ASSUME OtherTypes, StatusTrue, WaitComplete, UNCHANGED <<answer, code>>, Tells(child'),
         \A p \in Pids : owed'[p] = "owed" => owed[p] = "owed"
  PROVE  StatusTrue' /\ WaitComplete'
<1>1. \A p \in Pids : child[p] \in {"none", "stopped"} => child'[p] = child[p]
  BY DEF Tells, News
<1>2. \A p \in Pids : child[p] \notin {"running", "continued"} => child'[p] \notin {"running", "continued"}
  BY DEF Tells, News, Told
<1>3. StatusTrue'
  BY <1>1 DEF StatusTrue, OtherTypes
<1>4. WaitComplete'
  BY <1>2 DEF WaitComplete
<1> QED  BY <1>3, <1>4

LEMMA ToldAllTells == Tells(ToldAll)
BY DEF Tells, ToldAll, Reportable, News

\* A new command takes the answer back.
LEMMA NoAnswerTrue ==
  ASSUME answer' = NoAnswer
  PROVE  StatusTrue' /\ WaitComplete'
<1>1. answer'.due = "fresh" /\ answer'.status = Unknown
  BY DEF NoAnswer
<1> QED  BY <1>1, Numbers DEF StatusTrue, WaitComplete

-----------------------------------------------------------------------------
(* wait_one and job_wait enter one status.                                 *)

OneTold(p) == [child EXCEPT ![p] = Told(p)]

LEMMA OneToldIs ==
  ASSUME OtherTypes, NEW p \in Pids, child[p] \in {"zombie", "halted"}
  PROVE  OneTold(p) \in [Pids -> ChildStates] /\ Tells(OneTold(p))
<1>1. Told(p) \in ChildStates
  BY ToldIs DEF ChildStates, Alive
<1>2. child \in [Pids -> ChildStates]
  BY DEF OtherTypes
<1> QED  BY <1>1, <1>2 DEF OneTold, Tells, News

ReturnedIn(p) ==
  [i \in Slots |->
     IF i \notin Holds(jobtab, p) THEN jobtab[i]
     ELSE LET j == jobtab[i]
          IN [WithProcs(j, [k \in DOMAIN j.procs |->
                              IF j.procs[k].pid = p THEN Noted(j.procs[k]) ELSE j.procs[k]])
                EXCEPT !.changed = TRUE]]

LEMMA ReturnNoting ==
  ASSUME OtherTypes, TableInv(jobtab), NEW p \in Pids, child[p] \in {"zombie", "halted"}
  PROVE  Noting(ReturnedIn(p), OneTold(p), NoJob)
<1> DEFINE t == ReturnedIn(p)
           ch == OneTold(p)
           ps(i) == [k \in DOMAIN jobtab[i].procs |->
                       IF jobtab[i].procs[k].pid = p THEN Noted(jobtab[i].procs[k])
                       ELSE jobtab[i].procs[k]]
<1>1. \A i \in Slots : /\ jobtab[i] \in Job /\ jobtab[i].procs \in Seq(Proc)
                       /\ \A k \in DOMAIN jobtab[i].procs :
                            jobtab[i].procs[k] \in Proc /\ jobtab[i].procs[k].pid \in Pids
  BY JobIs DEF Slots
<1>2. DOMAIN t = Slots /\ t = [i \in DOMAIN t |-> t[i]]
  BY DEF ReturnedIn
<1>3. \A i \in Slots \ Holds(jobtab, p) : t[i] = jobtab[i]
  BY DEF ReturnedIn
<1>4. ASSUME NEW i \in Slots \cap Holds(jobtab, p)
      PROVE  /\ t[i] \in Job /\ t[i].used = jobtab[i].used /\ t[i].bg = jobtab[i].bg
             /\ t[i].num = jobtab[i].num /\ t[i].procs = ps(i) /\ t[i].state = StateOf(ps(i))
  <2>1. ps(i) \in Seq(Proc)
    <3>1. DOMAIN ps(i) = DOMAIN jobtab[i].procs /\ ps(i) = [k \in DOMAIN ps(i) |-> ps(i)[k]]
      OBVIOUS
    <3>2. \A k \in DOMAIN jobtab[i].procs : ps(i)[k] \in Proc
      BY <1>1, NotedIs
    <3> HIDE DEF ps
    <3> QED  BY <1>1, <3>1, <3>2, MapSeq
  <2>2. t[i] = [WithProcs(jobtab[i], ps(i)) EXCEPT !.changed = TRUE]
    BY DEF ReturnedIn
  <2> DEFINE n == WithProcs(jobtab[i], ps(i))
  <2>3. /\ n \in Job /\ n.used = jobtab[i].used /\ n.bg = jobtab[i].bg
        /\ n.num = jobtab[i].num /\ n.procs = ps(i) /\ n.state = StateOf(ps(i))
    BY <1>1, <2>1, WithProcsIs
  <2> HIDE DEF n, ps
  <2>4. t[i] = [n EXCEPT !.changed = TRUE]
    BY <2>2 DEF n
  <2> QED  BY <2>3, <2>4 DEF Job
<1> HIDE DEF t
<1>5. \A i \in Slots : /\ t[i] \in Job /\ t[i].used = jobtab[i].used /\ t[i].bg = jobtab[i].bg
                       /\ t[i].num = jobtab[i].num /\ DOMAIN t[i].procs = DOMAIN jobtab[i].procs
  BY <1>1, <1>3, <1>4
<1>6. TableInv(t)
  <2>1. t \in Seq(Job)
    BY <1>2, <1>5, MapSeq DEF TableInv, Slots
  <2>2. ASSUME NEW i \in Slots, ~t[i].used
        PROVE  t[i] = Unused
    <3>1. jobtab[i] = Unused
      BY <1>5, <2>2 DEF TableInv, Slots
    <3>2. i \notin Holds(jobtab, p)
      BY <3>1, UnusedIs DEF Holds
    <3> QED  BY <1>3, <3>1, <3>2
  <2> QED  BY <1>2, <2>1, <2>2 DEF TableInv
<1>7. \A q \in Pids : q # p => ch[q] = child[q]
  BY DEF OneTold, OtherTypes
<1>8. ch[p] = Told(p) /\ child[p] \in News
  BY DEF OneTold, OtherTypes, News
<1> HIDE DEF ch
<1>9. ASSUME NEW i \in Slots, NEW k \in DOMAIN jobtab[i].procs
      PROVE  LET r == jobtab[i].procs[k]
             IN /\ t[i].procs[k].pid = r.pid
                /\ \/ ch[r.pid] = child[r.pid] /\ t[i].procs[k] = r
                   \/ child[r.pid] \in News /\ ch[r.pid] = Told(r.pid) /\ t[i].procs[k] = Noted(r)
  <2> DEFINE r == jobtab[i].procs[k]
  <2>1. CASE r.pid = p
    <3>1. i \in Holds(jobtab, p)
      BY <2>1 DEF Holds, PidsOf, Slots
    <3>2. t[i].procs[k] = Noted(r)
      BY <1>4, <2>1, <3>1
    <3>3. Noted(r).pid = r.pid
      BY <1>1, NotedIs
    <3> QED  BY <1>8, <2>1, <3>2, <3>3
  <2>2. CASE r.pid # p
    <3>1. t[i].procs[k] = r
      <4>1. ps(i)[k] = r
        BY <2>2
      <4> HIDE DEF ps
      <4>2. t[i].procs = jobtab[i].procs \/ t[i].procs = ps(i)
        BY <1>3, <1>4
      <4> QED  BY <4>1, <4>2
    <3> QED  BY <1>1, <1>7, <2>2, <3>1
  <2> QED  BY <2>1, <2>2
<1>10. ASSUME NEW i \in Slots
       PROVE  \/ t[i].state = jobtab[i].state /\ t[i].procs = jobtab[i].procs
              \/ /\ \E k \in DOMAIN jobtab[i].procs : child[jobtab[i].procs[k].pid] \in News
                 /\ t[i].state = StateOf(t[i].procs)
  <2>1. CASE i \notin Holds(jobtab, p)
    BY <1>3, <2>1
  <2>2. CASE i \in Holds(jobtab, p)
    <3>1. \E k \in DOMAIN jobtab[i].procs : jobtab[i].procs[k].pid = p
      BY <2>2 DEF Holds, PidsOf
    <3>2. t[i].state = StateOf(t[i].procs)
      BY <1>4, <2>2
    <3> QED  BY <1>8, <3>1, <3>2
  <2> QED  BY <2>1, <2>2
<1>11. Noting(t, ch, NoJob)
  BY <1>2, <1>5, <1>6, <1>9, <1>10 DEF Noting
<1> QED  BY <1>11 DEF t, ch

\* One process of the job w gets another state, and nothing else is changed.
LEMMA ProcNoting ==
  ASSUME OtherTypes, TableInv(jobtab), NEW w \in Slots, jobtab[w].used,
         NEW f \in DOMAIN jobtab[w].procs, NEW r \in Proc, r.pid = jobtab[w].procs[f].pid,
         NEW ch, \A q \in Pids : q # r.pid => ch[q] = child[q],
         \/ child[r.pid] \in News /\ ch[r.pid] = Told(r.pid) /\ r = Noted(jobtab[w].procs[f])
         \/ owed[r.pid] = "shared",
         Once(jobtab, w, f) \/ owed[r.pid] = "shared"
  PROVE  Noting([jobtab EXCEPT ![w].procs[f] = r], ch, w)
<1> DEFINE t == [jobtab EXCEPT ![w].procs[f] = r]
           j == [jobtab[w] EXCEPT !.procs = [jobtab[w].procs EXCEPT ![f] = r]]
<1>1. \A i \in Slots : /\ jobtab[i] \in Job /\ jobtab[i].procs \in Seq(Proc)
                       /\ \A k \in DOMAIN jobtab[i].procs :
                            jobtab[i].procs[k] \in Proc /\ jobtab[i].procs[k].pid \in Pids
  BY JobIs DEF Slots
<1>2. jobtab \in Seq(Job)
  BY DEF TableInv
<1>3. t = [jobtab EXCEPT ![w] = j]
  BY <1>1, <1>2 DEF Job
<1>4. [jobtab[w].procs EXCEPT ![f] = r] \in Seq(Proc)
  BY <1>1, ExceptSeq
<1>5. /\ j \in Job /\ j.used = jobtab[w].used /\ j.bg = jobtab[w].bg /\ j.num = jobtab[w].num
      /\ j.state = jobtab[w].state /\ DOMAIN j.procs = DOMAIN jobtab[w].procs
      /\ j.procs[f] = r /\ \A k \in DOMAIN jobtab[w].procs : k # f => j.procs[k] = jobtab[w].procs[k]
  BY <1>1, <1>4 DEF Job
<1> HIDE DEF j
<1>6. DOMAIN jobtab = Slots
  BY DEF Slots
<1>7. t \in Seq(Job) /\ DOMAIN t = Slots /\ t[w] = j /\ \A i \in Slots : i # w => t[i] = jobtab[i]
  BY <1>2, <1>3, <1>5, <1>6, ExceptSeq
<1> HIDE DEF t
<1>8. TableInv(t)
  BY <1>5, <1>7 DEF TableInv, Slots
<1>9. ASSUME NEW i \in Slots, NEW k \in DOMAIN jobtab[i].procs
      PROVE  LET s == jobtab[i].procs[k]
             IN /\ t[i].procs[k].pid = s.pid
                /\ \/ ch[s.pid] = child[s.pid] /\ t[i].procs[k] = s
                   \/ child[s.pid] \in News /\ ch[s.pid] = Told(s.pid) /\ t[i].procs[k] = Noted(s)
                   \/ owed[s.pid] = "shared"
  <2> DEFINE s == jobtab[i].procs[k]
  <2>1. CASE i = w /\ k = f
    BY <1>5, <1>7, <2>1
  <2>2. CASE ~(i = w /\ k = f)
    <3>1. t[i].procs[k] = s
      BY <1>5, <1>7, <2>2
    <3>2. s.pid = r.pid => owed[s.pid] = "shared"
      BY <2>2 DEF Once, Slots
    <3> QED  BY <1>1, <3>1, <3>2
  <2> QED  BY <2>1, <2>2
<1>10. \A i \in Slots :
         /\ t[i].used = jobtab[i].used /\ t[i].bg = jobtab[i].bg /\ t[i].num = jobtab[i].num
         /\ DOMAIN t[i].procs = DOMAIN jobtab[i].procs
         /\ t[i].state = jobtab[i].state /\ (t[i].procs = jobtab[i].procs \/ i = w)
  BY <1>5, <1>7
<1>11. Noting(t, ch, w)
  BY <1>7, <1>8, <1>9, <1>10 DEF Noting
<1> QED  BY <1>11 DEF t

-----------------------------------------------------------------------------
(* What is freed, and what wait answers.                                   *)

\* Jobs that have ended are freed, and their statuses told.
LEMMA FreeDone ==
  ASSUME OtherTypes, NEW tab, NEW ch, Sound(tab, ch, code, owed, NoJob),
         Numbered(tab), Current(tab, owed, curjob, prevjob),
         NEW S, S \subseteq DOMAIN tab, \A i \in S : tab[i].state = "done",
         job_free(tab, S), owed' = Forget(tab, S, "told")
  PROVE  /\ Sound(jobtab', ch, code, owed', NoJob) /\ DOMAIN jobtab' = DOMAIN tab
         /\ Numbered(jobtab') /\ Current(jobtab', owed', curjob', prevjob')
         /\ owed' \in [Pids -> Fates]
         /\ \A p \in Pids : owed'[p] = "owed" => owed[p] = "owed"
<1>1. TableInv(tab) /\ ProcInv(tab, ch, code, owed)
  BY DEF Sound
<1>2. jobtab' = Freed(tab, S) /\ curjob' = CurAfter(tab, S) /\ prevjob' = PrevAfter(S)
  BY DEF job_free
<1>3. \A i \in S : \A k \in DOMAIN tab[i].procs :
        owed[tab[i].procs[k].pid] = "owed" => tab[i].procs[k].state = "done"
  BY DoneEnded
<1>4. Sound(jobtab', ch, code, owed', NoJob)
  BY <1>2, <1>3, FreedSound
<1>5. Numbered(jobtab') /\ Current(jobtab', owed', curjob', prevjob')
  BY <1>1, <1>2, FreedCurrent
<1>6. DOMAIN jobtab' = DOMAIN tab
  BY <1>1, <1>2, FreedIs
<1>7. /\ owed' \in [Pids -> Fates]
      /\ \A p \in Pids : owed'[p] = IF owed[p] = "owed" /\ p \in EndedIn(tab, S) THEN "told" ELSE owed[p]
  BY ForgetIs
<1> QED  BY <1>4, <1>5, <1>6, <1>7

LEMMA EndWaitFrees ==
  ASSUME OtherTypes, NEW tab, NEW ch, Sound(tab, ch, code, owed, NoJob),
         Numbered(tab), Current(tab, owed, curjob, prevjob),
         asked.job \in DOMAIN tab \cup {NoJob}, NEW status, EndWait(tab, status)
  PROVE  /\ Sound(jobtab', ch, code, owed', NoJob) /\ DOMAIN jobtab' = DOMAIN tab
         /\ Numbered(jobtab') /\ Current(jobtab', owed', curjob', prevjob')
         /\ owed' \in [Pids -> Fates]
         /\ \A p \in Pids : owed'[p] = "owed" => owed[p] = "owed"
<1> DEFINE over == IF asked.job = NoJob THEN Finished(tab)
                   ELSE {i \in {asked.job} : tab[i].state = "done"}
<1>1. job_free(tab, over) /\ owed' = Forget(tab, over, "told")
  BY DEF EndWait
<1>2. over \subseteq DOMAIN tab /\ \A i \in over : tab[i].state = "done"
  BY DEF Finished
<1> HIDE DEF over
<1> QED  BY <1>1, <1>2, FreeDone

\* The operand is one of the processes of the job that is asked for.
LEMMA OperandIs ==
  ASSUME OtherTypes, NEW tab, TableInv(tab), asked.job \in DOMAIN tab,
         asked.pid # NoPid => asked.pid \in PidsOf(tab[asked.job]), OperandPid(tab) # NoPid
  PROVE  OperandPid(tab) \in PidsOf(tab[asked.job]) /\ OperandPid(tab) \in Pids
<1> DEFINE j == tab[asked.job]
<1>1. /\ j.procs \in Seq(Proc) /\ \A k \in DOMAIN j.procs : j.procs[k].pid \in Pids
  BY JobIs
<1>2. OperandPid(tab) \in PidsOf(j)
  <2>1. CASE asked.pid # NoPid
    BY <2>1 DEF OperandPid
  <2>2. CASE asked.pid = NoPid
    <3>1. OperandPid(tab) = LastPid(j) /\ j.procs # <<>>
      BY <2>2 DEF OperandPid, LastPid
    <3>2. Len(j.procs) \in DOMAIN j.procs /\ LastPid(j) = j.procs[Len(j.procs)].pid
      BY <1>1, <3>1 DEF LastPid
    <3> QED  BY <3>1, <3>2 DEF PidsOf
  <2> QED  BY <2>1, <2>2
<1> QED  BY <1>1, <1>2 DEF PidsOf

\* A process whose status is owed is alone in its job, and wait answers with its status.
LEMMA OwedAnswer ==
  ASSUME OtherTypes, NEW tab, NEW ch, Sound(tab, ch, code, owed, NoJob), asked.job \in DOMAIN tab,
         asked.pid # NoPid => asked.pid \in PidsOf(tab[asked.job]),
         OperandPid(tab) # NoPid, owed[OperandPid(tab)] = "owed"
  PROVE  LET r == tab[asked.job].procs[1]
         IN /\ r \in Proc /\ r.pid = OperandPid(tab) /\ OperandPid(tab) \in Pids
            /\ Agrees(r, ch, code)
            /\ Answers(tab[asked.job]) <=> r.state # "running"
            /\ Answers(tab[asked.job]) => job_status(tab[asked.job]) = r.status
<1> DEFINE j == tab[asked.job]
           q == OperandPid(tab)
<1>0. TableInv(tab)
  BY DEF Sound
<1>1. q \in PidsOf(j) /\ q \in Pids
  BY <1>0, OperandIs
<1>2. PICK h \in DOMAIN tab : DOMAIN tab[h].procs = {1} /\ tab[h].procs[1].pid = q
  BY <1>1 DEF Sound, OwedInv
<1>3. PICK k \in DOMAIN j.procs : j.procs[k].pid = q
  BY <1>1 DEF PidsOf
<1>4. h = asked.job
  BY <1>2, <1>3 DEF Sound, ProcInv, Once
<1>5. DOMAIN j.procs = {1} /\ j.procs[1].pid = q
  BY <1>2, <1>4
<1>6. j.procs \in Seq(Proc) /\ j.procs[1] \in Proc
  BY <1>0, <1>5, JobIs
<1>7. Len(j.procs) = 1 /\ j.procs # <<>>
  <2>1. Len(j.procs) \in Nat /\ 1 .. Len(j.procs) = {1}
    BY <1>5, <1>6, OfSeq
  <2>2. Len(j.procs) = 1
    <3>1. \A m \in Nat : 1 .. m = {1} => m = 1
      OBVIOUS
    <3> QED  BY <2>1, <3>1
  <2> QED  BY <2>2, EmptySeq
<1>8. Agrees(j.procs[1], ch, code)
  BY <1>5 DEF Sound, ProcInv
<1>9. j.state = j.procs[1].state
  <2>1. ~Odd(j, owed)
    BY <1>5 DEF Odd, PidsOf
  <2>2. asked.job # NoJob
    BY <1>0, JobIs DEF NoJob
  <2>3. j.state = StateOf(j.procs)
    BY <1>7, <2>1, <2>2 DEF Sound, StateInv
  <2> QED  BY <1>5, <1>6, <2>3, StateOfIs
<1>10. CASE ByProc(j)
  <2>1. asked.pid = q /\ Over(j) = {l \in {1} : j.procs[1].state # "running"}
    <3>1. asked.pid # NoPid /\ asked.pid = q
      BY <1>10 DEF ByProc, OperandPid
    <3> QED  BY <1>5, <3>1 DEF Over
  <2>2. Answers(j) <=> j.procs[1].state # "running"
    BY <1>10, <2>1 DEF Answers
  <2>3. ASSUME Answers(j)
        PROVE  job_status(j) = j.procs[1].status
    <3>1. Over(j) # {} /\ Over(j) \in SUBSET (1 .. 1)
      BY <1>10, <2>1, <2>2, <2>3
    <3>2. Max(Over(j)) \in Over(j)
      BY <3>1, MaxIs
    <3>3. Max(Over(j)) = 1
      BY <2>1, <3>2
    <3> QED  BY <1>7, <1>10, <3>3 DEF job_status
  <2> QED  BY <1>1, <1>5, <1>6, <1>8, <2>2, <2>3
<1>11. CASE ~ByProc(j)
  <2>1. Answers(j) <=> j.procs[1].state # "running"
    BY <1>9, <1>11 DEF Answers
  <2>2. job_status(j) = j.procs[1].status
    BY <1>7, <1>11 DEF job_status
  <2> QED  BY <1>1, <1>5, <1>6, <1>8, <2>1, <2>2
<1> QED  BY <1>10, <1>11

\* The status of a job is the status of a process or none.
LEMMA job_statusIs ==
  ASSUME OtherTypes, NEW j \in Job, Answers(j)
  PROVE  job_status(j) \in Codes \cup {Stopped}
<1>1. j.procs \in Seq(Proc) /\ Len(j.procs) \in Nat /\ DOMAIN j.procs = 1 .. Len(j.procs)
      /\ \A k \in DOMAIN j.procs : j.procs[k] \in Proc
  <2>1. j.procs \in Seq(Proc)
    BY DEF Job
  <2> QED  BY <2>1, OfSeq
<1>2. \A k \in DOMAIN j.procs : j.procs[k].status \in Codes \cup {Stopped}
  BY <1>1 DEF Proc
<1>3. CASE j.procs = <<>>
  BY <1>3, Numbers DEF job_status
<1>4. CASE j.procs # <<>> /\ ByProc(j)
  <2>1. Over(j) # {} /\ Over(j) \in SUBSET (1 .. Len(j.procs))
    BY <1>1, <1>4 DEF Answers, Over
  <2>2. Max(Over(j)) \in DOMAIN j.procs
    BY <1>1, <2>1, MaxIs
  <2> QED  BY <1>2, <1>4, <2>2 DEF job_status
<1>5. CASE j.procs # <<>> /\ ~ByProc(j)
  <2>1. Len(j.procs) \in DOMAIN j.procs
    BY <1>1, <1>5
  <2> QED  BY <1>2, <1>5, <2>1 DEF job_status
<1> QED  BY <1>3, <1>4, <1>5

-----------------------------------------------------------------------------
(* The steps: those that leave the table as it is.                         *)

LEMMA TableKept ==
  ASSUME Inv, UNCHANGED <<table, child, code, owed>>, Waited' = Waited,
         OtherTypes', AskedInv', StatusTrue', WaitComplete'
  PROVE  Inv'
<1>1. Sound(jobtab, child, code, owed, Waited)'
  BY DEF Inv, table
<1>2. Numbered(jobtab)' /\ Current(jobtab, owed, curjob, prevjob)'
  BY DEF Inv, table
<1> QED  BY <1>1, <1>2 DEF Inv

\* What nobody waits for.
LEMMA AskedOut ==
  ASSUME AskedInv, asked' \in {asked, Nobody}, DOMAIN jobtab \subseteq DOMAIN jobtab',
         pc' \notin {"job_wait", "wait_one", "waitpid", "sleep"},
         pc' = "wait" => asked' = Nobody
  PROVE  AskedInv'
BY DEF AskedInv, InWait, Slots, Nobody, NoJob, NoPid

LEMMA QuietStep ==
  ASSUME Inv, TrapAtTop \/ TrapEnds \/ TrapInRead
  PROVE  Inv'
<1>1. /\ UNCHANGED <<mode, table, asked, child, code, cmds, events, owed, answer>>
      /\ pending' \in BOOLEAN /\ pc' \in {"trap", "top"} /\ pc # "job_wait"
  BY DEF TrapAtTop, TrapEnds, TrapInRead, Inv, OtherTypes
<1>2. OtherTypes'
  BY <1>1 DEF Inv, OtherTypes
<1>3. AskedInv'
  BY <1>1, AskedOut DEF Inv, table
<1>4. StatusTrue' /\ WaitComplete'
  BY <1>1 DEF Inv, StatusTrue, WaitComplete
<1>5. Waited' = Waited
  BY <1>1 DEF Waited
<1> QED  BY <1>1, <1>2, <1>3, <1>4, <1>5, TableKept

LEMMA WaitTrappedStep ==
  ASSUME Inv, WaitTrapped
  PROVE  Inv'
<1>1. /\ UNCHANGED <<mode, table, pending, child, code, cmds, events, owed>>
      /\ pc = "wait_one" /\ pc' = "top" /\ asked' = Nobody
  BY DEF WaitTrapped
<1>2. answer'.status = Trapped /\ (answer'.due = "owed" => answer'.of \in Pids)
  <2>1. CASE asked.job = NoJob
    BY <2>1 DEF WaitTrapped, NoAnswer
  <2>2. CASE asked.job # NoJob
    <3>1. answer' = Reply(OperandPid(jobtab), Trapped)
      BY <2>2 DEF WaitTrapped
    <3>2. /\ asked.job \in Slots /\ TableInv(jobtab) /\ OtherTypes
          /\ asked.pid # NoPid => asked.pid \in PidsOf(jobtab[asked.job])
      BY <1>1, <2>2 DEF Inv, AskedInv, InWait, Sound
    <3>3. OperandPid(jobtab) # NoPid => OperandPid(jobtab) \in Pids
      BY <3>2, OperandIs DEF Slots
    <3> QED  BY <3>1, <3>3 DEF Reply
  <2> QED  BY <2>1, <2>2
<1>3. OtherTypes'
  BY <1>1, <1>2 DEF Inv, OtherTypes, Nobody, NoJob, NoPid
<1>4. AskedInv'
  BY <1>1, AskedOut DEF Inv, table
<1>5. StatusTrue' /\ WaitComplete'
  BY <1>2, Numbers DEF StatusTrue, WaitComplete
<1>6. Waited' = Waited
  BY <1>1 DEF Waited
<1> QED  BY <1>1, <1>3, <1>4, <1>5, <1>6, TableKept

\* wait goes on to sleep, and a signal wakes it, or comes at any other time.
LEMMA SleepStep ==
  ASSUME Inv, WaitUntrapped \/ WaitSleeps \/ Signal
  PROVE  Inv'
<1>1. /\ UNCHANGED <<mode, table, asked, child, code, cmds, owed, answer>>
      /\ pending' \in BOOLEAN /\ events' \in Nat
      /\ \/ pc' = pc
         \/ pc \in {"wait_one", "waitpid", "sleep"} /\ pc' \in {"wait_one", "waitpid", "sleep"}
  <2>1. pending \in BOOLEAN /\ events \in Nat
    BY DEF Inv, OtherTypes
  <2>2. CASE WaitUntrapped
    BY <2>1, <2>2 DEF WaitUntrapped
  <2>3. CASE WaitSleeps
    BY <2>1, <2>3 DEF WaitSleeps
  <2>4. CASE Signal
    BY <2>1, <2>4 DEF Signal
  <2> QED  BY <2>2, <2>3, <2>4
<1>2. OtherTypes'
  BY <1>1 DEF Inv, OtherTypes
<1>3. AskedInv'
  <2>1. \A j : Answers(j)' <=> Answers(j)
    BY <1>1 DEF Answers, ByProc, Over, jobctl
  <2>2. jobtab' = jobtab /\ asked' = asked
    BY <1>1 DEF table
  <2> QED  BY <1>1, <2>1, <2>2 DEF Inv, AskedInv, InWait, Slots
<1>4. StatusTrue' /\ WaitComplete'
  BY <1>1 DEF Inv, StatusTrue, WaitComplete
<1>5. Waited' = Waited
  BY <1>1 DEF Waited
<1> QED  BY <1>1, <1>2, <1>3, <1>4, <1>5, TableKept

\* The commands wait, without operands and with a job.
LEMMA WaitAllStep ==
  ASSUME Inv, WaitAll \/ WaitJob
  PROVE  Inv'
<1>1. /\ UNCHANGED <<mode, table, pending, child, code, events, owed>> /\ ReadCommand
      /\ pc' = "wait"
      /\ asked' = Nobody \/ \E i \in Named(jobtab) : asked' = [job |-> i, pid |-> NoPid]
  BY DEF WaitAll, WaitJob
<1>2. pc = "read" /\ cmds' \in 0 .. MaxCmds /\ answer' = NoAnswer
  BY <1>1, Numbers DEF ReadCommand, Inv, OtherTypes
<1>3. asked'.job \in Slots \cup {NoJob} /\ asked'.pid = NoPid /\ asked' \in [job : Nat, pid : {NoPid}]
  <2>1. Named(jobtab) \subseteq Slots
    BY DEF Named, Slots
  <2>2. Slots \subseteq Nat
    BY JobIs DEF Inv, Sound, Slots
  <2>3. CASE asked' = Nobody
    BY <2>3 DEF Nobody, NoJob
  <2>4. CASE \E i \in Named(jobtab) : asked' = [job |-> i, pid |-> NoPid]
    <3>1. PICK i \in Named(jobtab) : asked' = [job |-> i, pid |-> NoPid]
      BY <2>4
    <3>2. i \in Slots /\ i \in Nat
      BY <2>1, <2>2
    <3> QED  BY <3>1, <3>2
  <2> QED  BY <1>1, <2>3, <2>4
<1>4. OtherTypes'
  BY <1>1, <1>2, <1>3 DEF Inv, OtherTypes, NoAnswer
<1>5. AskedInv'
  BY <1>1, <1>3 DEF AskedInv, InWait, table, Slots
<1>6. StatusTrue' /\ WaitComplete'
  BY <1>2, NoAnswerTrue
<1>7. Waited' = Waited
  BY <1>1, <1>2 DEF Waited
<1> QED  BY <1>1, <1>4, <1>5, <1>6, <1>7, TableKept

\* wait with a process ID: the shell does not know it only if nothing is owed for it.
LEMMA WaitPidStep ==
  ASSUME Inv, WaitPid
  PROVE  Inv'
<1>1. /\ UNCHANGED <<mode, table, pending, child, code, events, owed>>
      /\ pc = "read" /\ cmds' = cmds + 1 /\ cmds < MaxCmds
  BY DEF WaitPid
<1>2. PICK p \in Pids :
        IF Holds(jobtab, p) = {}
        THEN pc' = "top" /\ answer' = Reply(p, Unknown) /\ asked' = asked
        ELSE pc' = "wait" /\ answer' = NoAnswer /\ asked' = [job |-> job_by_pid(p), pid |-> p]
  BY DEF WaitPid
<1>3. cmds' \in 0 .. MaxCmds
  BY <1>1, Numbers DEF Inv, OtherTypes
<1>4. Waited' = Waited
  BY <1>1, <1>2 DEF Waited
<1>5. TableInv(jobtab) /\ OtherTypes /\ AskedInv
  BY DEF Inv, Sound
<1>6. CASE Holds(jobtab, p) = {}
  <2>1. owed[p] # "owed"
    <3> SUFFICES ASSUME owed[p] = "owed"
                 PROVE  FALSE
      OBVIOUS
    <3>1. PICK i \in DOMAIN jobtab : DOMAIN jobtab[i].procs = {1} /\ jobtab[i].procs[1].pid = p
      BY DEF Inv, Sound, OwedInv
    <3> QED  BY <1>6, <3>1 DEF Holds, PidsOf
  <2>2. answer'.due # "owed" /\ answer'.status # All
    BY <1>2, <1>6, <2>1, Numbers DEF Reply, NoPid
  <2>3. OtherTypes'
    BY <1>1, <1>2, <1>3, <1>6, <2>2 DEF Inv, OtherTypes
  <2>4. AskedInv'
    BY <1>1, <1>2, <1>5, <1>6, AskedOut DEF table
  <2>5. StatusTrue' /\ WaitComplete'
    BY <2>2 DEF StatusTrue, WaitComplete
  <2> QED  BY <1>1, <1>4, <2>3, <2>4, <2>5, TableKept
<1>7. CASE Holds(jobtab, p) # {}
  <2>1. job_by_pid(p) \in Holds(jobtab, p) /\ job_by_pid(p) \in Nat \ {0}
    <3>1. Holds(jobtab, p) \in SUBSET Nat /\ \A i \in Holds(jobtab, p) : i \in Nat \ {0}
      BY <1>5, JobIs DEF Holds
    <3> DEFINE first == {i \in Holds(jobtab, p) : jobtab[i].procs[1].pid = p}
    <3>2. CASE first # {}
      <4>1. Min(first) \in first
        BY <3>1, <3>2, MinIs
      <4>2. job_by_pid(p) = Min(first)
        BY <3>2 DEF job_by_pid
      <4> QED  BY <3>1, <4>1, <4>2
    <3>3. CASE first = {}
      <4>1. Min(Holds(jobtab, p)) \in Holds(jobtab, p)
        BY <1>7, <3>1, MinIs
      <4>2. job_by_pid(p) = Min(Holds(jobtab, p))
        BY <3>3 DEF job_by_pid
      <4> QED  BY <3>1, <4>1, <4>2
    <3> QED  BY <3>2, <3>3
  <2>2. pc' = "wait" /\ answer' = NoAnswer /\ asked' = [job |-> job_by_pid(p), pid |-> p]
    BY <1>2, <1>7
  <2>3. OtherTypes'
    BY <1>1, <1>3, <2>1, <2>2 DEF Inv, OtherTypes, NoAnswer
  <2>4. AskedInv'
    BY <1>1, <2>1, <2>2 DEF AskedInv, InWait, table, Slots, Holds, NoJob, PidsOf
  <2>5. StatusTrue' /\ WaitComplete'
    BY <2>2, NoAnswerTrue
  <2> QED  BY <1>1, <1>4, <2>3, <2>4, <2>5, TableKept
<1> QED  BY <1>6, <1>7

-----------------------------------------------------------------------------
(* Processes that end, stop and are continued.                             *)

LEMMA ChildStep ==
  ASSUME Inv, NEW p \in Pids, ChildEnds(p) \/ ChildStops(p)
  PROVE  Inv'
<1>1. /\ UNCHANGED <<mode, table, pc, asked, pending, code, cmds, owed, answer>>
      /\ child[p] \in {"running", "continued"} /\ events' \in Nat
      /\ \E s \in {"zombie", "halted"} : child' = [child EXCEPT ![p] = s]
  <2>1. events \in Nat
    BY DEF Inv, OtherTypes
  <2>2. CASE ChildEnds(p)
    BY <2>1, <2>2 DEF ChildEnds
  <2>3. CASE ChildStops(p)
    BY <2>1, <2>3 DEF ChildStops
  <2> QED  BY <2>2, <2>3
<1>2. child \in [Pids -> ChildStates]
  BY DEF Inv, OtherTypes
<1>3. /\ child' \in [Pids -> ChildStates]
      /\ \A q \in Pids : \/ child'[q] = child[q]
                         \/ child[q] \in {"running", "continued"} /\ child'[q] \in {"zombie", "halted"}
  BY <1>1, <1>2 DEF ChildStates, Alive
<1>4. OtherTypes'
  BY <1>1, <1>3 DEF Inv, OtherTypes
<1>5. AskedInv'
  <2>1. \A j : Answers(j)' <=> Answers(j)
    BY <1>1 DEF Answers, ByProc, Over, jobctl
  <2>2. jobtab' = jobtab /\ asked' = asked
    BY <1>1 DEF table
  <2> QED  BY <1>1, <2>1, <2>2 DEF Inv, AskedInv, InWait, Slots
<1>6. StatusTrue' /\ WaitComplete'
  BY <1>1, <1>3, AnswerKept DEF Inv, Tells
<1>7. Sound(jobtab, child, code, owed, Waited)'
  <2>1. Waited' = Waited
    BY <1>1 DEF Waited
  <2>2. Sound(jobtab, child', code, owed, Waited)
    BY <1>3, SilentSound DEF Inv
  <2> QED  BY <1>1, <2>1, <2>2 DEF table
<1>8. Numbered(jobtab)' /\ Current(jobtab, owed, curjob, prevjob)'
  BY <1>1 DEF Inv, table
<1> QED  BY <1>4, <1>5, <1>6, <1>7, <1>8 DEF Inv

LEMMA KillPidStep ==
  ASSUME Inv, KillPid
  PROVE  Inv'
<1>1. /\ UNCHANGED <<mode, table, asked, pending, code, events, owed>>
      /\ pc = "read" /\ pc' = "top" /\ cmds' = cmds + 1 /\ cmds < MaxCmds /\ answer' = NoAnswer
  BY DEF KillPid, ReadCommand
<1>2. PICK p \in Pids : child' = Cont(child, {p})
  BY DEF KillPid
<1>3. child \in [Pids -> ChildStates] /\ cmds' \in 0 .. MaxCmds
  BY <1>1, Numbers DEF Inv, OtherTypes
<1>4. /\ child' \in [Pids -> ChildStates]
      /\ \A q \in Pids : \/ child'[q] = child[q]
                         \/ child[q] \in {"halted", "stopped"} /\ child'[q] = "continued"
  BY <1>2, <1>3, ContIs
<1>5. OtherTypes'
  BY <1>1, <1>3, <1>4 DEF Inv, OtherTypes, NoAnswer
<1>6. AskedInv'
  BY <1>1, AskedOut DEF Inv, table
<1>7. StatusTrue' /\ WaitComplete'
  BY <1>1, NoAnswerTrue
<1>8. Sound(jobtab, child, code, owed, Waited)'
  <2>1. Waited' = Waited
    BY <1>1 DEF Waited
  <2>2. Sound(jobtab, child', code, owed, Waited)
    BY <1>4, SilentSound DEF Inv
  <2> QED  BY <1>1, <2>1, <2>2 DEF table
<1>9. Numbered(jobtab)' /\ Current(jobtab, owed, curjob, prevjob)'
  BY <1>1 DEF Inv, table
<1> QED  BY <1>5, <1>6, <1>7, <1>8, <1>9 DEF Inv

-----------------------------------------------------------------------------
(* The steps of job_wait.                                                  *)

LEMMA WaitProcStep ==
  ASSUME Inv, WaitProc
  PROVE  Inv'
<1> DEFINE a == asked.job
           f == FirstRunning
           r == Fg.procs[f]
           p == r.pid
<1>0. /\ OtherTypes /\ AskedInv /\ TableInv(jobtab) /\ pc = "job_wait" /\ pc' = pc /\ Waited = a
      /\ Sound(jobtab, child, code, owed, a)
      /\ UNCHANGED <<mode, curjob, prevjob, pc, asked, pending, code, cmds, events, owed, answer>>
  BY DEF WaitProc, Inv, Sound, Waited
<1>1. a \in Slots /\ jobtab[a].used /\ Fg = jobtab[a] /\ Fg.procs \in Seq(Proc)
  <2>1. a \in Slots /\ jobtab[a].used
    BY <1>0 DEF AskedInv
  <2> QED  BY <1>0, <2>1, JobIs DEF Fg, Slots
<1>2. f \in DOMAIN Fg.procs /\ r.state = "running"
  <2> DEFINE R == {k \in DOMAIN Fg.procs : Fg.procs[k].state = "running"}
  <2>1. R # {}
    BY <1>1, StateOfIs DEF WaitProc
  <2>2. DOMAIN Fg.procs \subseteq Nat
    BY <1>1, OfSeq
  <2>3. Min(R) \in R
    BY <2>1, <2>2, MinIs
  <2> QED  BY <2>3 DEF FirstRunning
<1>3. r \in Proc /\ p \in Pids /\ r = jobtab[a].procs[f] /\ f \in DOMAIN jobtab[a].procs
  BY <1>0, <1>1, <1>2, JobIs DEF Slots
<1>4. Once(jobtab, a, f) \/ owed[p] = "shared"
  BY <1>0, <1>1, <1>3 DEF Sound, ProcInv, Slots
<1>5. /\ Noting(jobtab', child', a) /\ child' \in [Pids -> ChildStates] /\ Tells(child')
      /\ \E x : jobtab' = [jobtab EXCEPT ![a].procs[f] = x]
  <2>1. CASE /\ child[p] = "zombie" \/ (child[p] = "halted" /\ jobctl)
             /\ jobtab' = [jobtab EXCEPT ![asked.job].procs[FirstRunning] = Noted(@)]
             /\ child' = [child EXCEPT ![p] = Told(p)]
    <3>1. child' = OneTold(p) /\ child[p] \in {"zombie", "halted"}
      BY <2>1 DEF OneTold
    <3>2. child' \in [Pids -> ChildStates] /\ Tells(child')
      BY <1>0, <1>3, <3>1, OneToldIs
    <3>3. jobtab' = [jobtab EXCEPT ![a].procs[f] = Noted(r)]
      BY <1>1, <2>1
    <3>4. Noted(r) \in Proc /\ Noted(r).pid = p
      BY <1>0, <1>3, NotedIs
    <3>5. child[p] \in News /\ child'[p] = Told(p) /\ \A q \in Pids : q # p => child'[q] = child[q]
      BY <1>0, <1>3, <2>1, <3>1 DEF News, OtherTypes
    <3> HIDE DEF r, f, a
    <3> DEFINE x == Noted(r)
    <3>6. x \in Proc /\ x.pid = p /\ x = Noted(jobtab[a].procs[f]) /\ p = jobtab[a].procs[f].pid
      BY <1>3, <3>4
    <3> HIDE DEF x
    <3>7. Noting([jobtab EXCEPT ![a].procs[f] = x], child', a)
      BY <1>0, <1>1, <1>3, <1>4, <3>5, <3>6, ProcNoting
    <3> QED  BY <3>2, <3>3, <3>7 DEF x
  <2>2. CASE /\ child[p] = "none"
             /\ jobtab' = [jobtab EXCEPT ![asked.job].procs[FirstRunning] = Gone(@)]
             /\ UNCHANGED child
    <3>1. owed[p] = "shared"
      BY <1>0, <1>1, <1>2, <1>3, <2>2 DEF Sound, ProcInv, Agrees, Slots
    <3> DEFINE x == Gone(r)
    <3>2. x \in Proc /\ x.pid = p
      BY <1>3, Numbers DEF Gone, Proc
    <3>3. jobtab' = [jobtab EXCEPT ![a].procs[f] = x]
      BY <1>0, <1>1, <1>3, <2>2
    <3>4. child' \in [Pids -> ChildStates] /\ Tells(child')
      BY <1>0, <2>2 DEF Tells, OtherTypes
    <3> HIDE DEF x, r, f, a
    <3>5. Noting([jobtab EXCEPT ![a].procs[f] = x], child', a)
      BY <1>0, <1>1, <1>3, <2>2, <3>1, <3>2, ProcNoting
    <3> QED  BY <3>3, <3>4, <3>5
  <2> QED  BY <2>1, <2>2 DEF WaitProc
<1> HIDE DEF a, f, r
<1>6. OtherTypes'
  BY <1>0, <1>5 DEF OtherTypes
<1>7. AskedInv'
  <2>1. DOMAIN jobtab' = Slots /\ jobtab'[a].used
    BY <1>1, <1>5 DEF Noting
  <2> QED  BY <1>0, <2>1 DEF AskedInv, InWait, Slots, a
<1>8. StatusTrue' /\ WaitComplete'
  BY <1>0, <1>5, AnswerKept DEF Inv
<1>9. Sound(jobtab, child, code, owed, Waited)'
  <2>1. Sound(jobtab', child', code, owed, a)
    BY <1>0, <1>5, NotingSound
  <2>2. Waited' = a
    BY <1>0 DEF Waited, a
  <2> QED  BY <1>0, <2>1, <2>2
<1>10. Numbered(jobtab)' /\ Current(jobtab, owed, curjob, prevjob)'
  <2>1. Numbered(jobtab)'
    BY <1>5 DEF Inv, Numbered, Noting, Slots
  <2>2. \A i \in Slots : jobtab'[i].state = jobtab[i].state
    <3>1. PICK x : jobtab' = [jobtab EXCEPT ![a].procs[f] = x]
      BY <1>5
    <3>2. jobtab \in Seq(Job) /\ jobtab[a] \in Job
      BY <1>0, <1>1, JobIs DEF TableInv, Slots
    <3> QED  BY <1>1, <3>1, <3>2 DEF Job, Slots
  <2>3. DOMAIN jobtab' = Slots /\ \A i \in Slots : jobtab'[i].used = jobtab[i].used /\ jobtab'[i].bg = jobtab[i].bg
    BY <1>5 DEF Noting
  <2>4. Unfinished(jobtab') = Unfinished(jobtab)
    BY <2>2, <2>3 DEF Unfinished, Slots
  <2>5. \A i \in Slots : /\ jobtab'[i].procs = <<>> <=> jobtab[i].procs = <<>>
                         /\ Odd(jobtab'[i], owed) <=> Odd(jobtab[i], owed)
    BY <1>0, <1>5, NotingEmpty, NotingPids
  <2>6. Unfinished(jobtab) \subseteq Slots
    BY DEF Unfinished, Slots
  <2>7. Current(jobtab', owed, curjob, prevjob)
    BY <2>3, <2>4, <2>5, <2>6 DEF Inv, Current, Slots
  <2> QED  BY <1>0, <2>1, <2>7
<1> QED  BY <1>6, <1>7, <1>8, <1>9, <1>10 DEF Inv

LEMMA JobWaitedStep ==
  ASSUME Inv, JobWaited
  PROVE  Inv'
<1> DEFINE a == asked.job
<1>0. /\ OtherTypes /\ AskedInv /\ TableInv(jobtab) /\ pc = "job_wait" /\ pc' = "top" /\ Waited = a
      /\ Sound(jobtab, child, code, owed, a) /\ asked' = Nobody /\ Waited' = NoJob
      /\ UNCHANGED <<mode, pending, child, code, cmds, events, answer>>
      /\ Numbered(jobtab) /\ Current(jobtab, owed, curjob, prevjob)
  BY DEF JobWaited, Inv, Sound, Waited
<1>1. a \in Slots /\ jobtab[a].used /\ Fg = jobtab[a] /\ jobtab[a] \in Job /\ Fg.procs \in Seq(Proc)
  <2>1. a \in Slots /\ jobtab[a].used
    BY <1>0 DEF AskedInv
  <2> QED  BY <1>0, <2>1, JobIs DEF Fg, Slots
<1>2. CASE StateOf(Fg.procs) = "stopped"
  <2> DEFINE j == PutBack(jobtab[a])
             n == alloc_jobnum(jobtab)
  <2>1. /\ jobtab' = [jobtab EXCEPT ![a] = j] /\ owed' = owed
        /\ curjob' = a /\ prevjob' = IF curjob = a THEN prevjob ELSE curjob
    BY <1>2 DEF JobWaited, job_set_current
  <2>2. n \in Nat /\ \A i \in Slots : jobtab[i].used => jobtab[i].num # n
    BY <1>0, NumberIs DEF Slots
  <2>3. /\ j \in Job /\ j.used = jobtab[a].used /\ j.bg /\ j.num = n
        /\ j.procs = jobtab[a].procs /\ j.state = StateOf(j.procs)
    <3> DEFINE m == WithProcs(jobtab[a], jobtab[a].procs)
    <3>1. /\ m \in Job /\ m.used = jobtab[a].used /\ m.procs = jobtab[a].procs
          /\ m.state = StateOf(jobtab[a].procs)
      BY <1>1, WithProcsIs
    <3>2. j = [m EXCEPT !.bg = TRUE, !.changed = FALSE, !.num = n]
      BY DEF PutBack
    <3> HIDE DEF m, n, j
    <3> QED  BY <1>1, <2>2, <3>1, <3>2 DEF Job
  <2> HIDE DEF j, n
  <2>4. jobtab' \in Seq(Job) /\ DOMAIN jobtab' = Slots /\ jobtab'[a] = j
        /\ \A i \in Slots \ {a} : jobtab'[i] = jobtab[i]
    <3>1. jobtab \in Seq(Job) /\ DOMAIN jobtab = Slots
      BY <1>0 DEF TableInv, Slots
    <3> QED  BY <1>1, <2>1, <2>3, <3>1, ExceptSeq
  <2>5. TableInv(jobtab')
    BY <1>0, <1>1, <2>3, <2>4 DEF TableInv, Slots
  <2>6. \A i \in Slots : /\ jobtab'[i].used = jobtab[i].used /\ jobtab'[i].procs = jobtab[i].procs
                         /\ jobtab[i].bg => jobtab'[i].bg
    <3> SUFFICES ASSUME NEW i \in Slots
                 PROVE  /\ jobtab'[i].used = jobtab[i].used /\ jobtab'[i].procs = jobtab[i].procs
                        /\ jobtab[i].bg => jobtab'[i].bg
      OBVIOUS
    <3>1. CASE i = a
      BY <2>3, <2>4, <3>1
    <3>2. CASE i # a
      BY <2>4, <3>2
    <3> QED  BY <3>1, <3>2
  <2>7. ProcInv(jobtab', child, code, owed)
    <3>1. ProcInv(jobtab, child, code, owed)
      BY <1>0 DEF Sound
    <3>2. ASSUME NEW i \in Slots, NEW k \in DOMAIN jobtab[i].procs, Once(jobtab, i, k)
          PROVE  Once(jobtab', i, k)
      BY <2>4, <2>6, <3>2 DEF Once, Slots
    <3> QED  BY <2>4, <2>6, <3>1, <3>2 DEF ProcInv, Slots
  <2>8. StateInv(jobtab', owed, NoJob)
    <3> SUFFICES ASSUME NEW i \in Slots, jobtab'[i].procs # <<>>, ~Odd(jobtab'[i], owed)
                 PROVE  jobtab'[i].state = StateOf(jobtab'[i].procs)
      BY <2>4 DEF StateInv
    <3>1. CASE i = a
      BY <2>3, <2>4, <3>1
    <3>2. CASE i # a
      BY <1>0, <2>4, <3>2 DEF Sound, StateInv, Slots
    <3> QED  BY <3>1, <3>2
  <2>9. OwedInv(jobtab', owed, NoJob)
    <3> SUFFICES ASSUME NEW p \in Pids, owed[p] = "owed"
                 PROVE  \E i \in Slots : /\ jobtab'[i].used /\ jobtab'[i].bg
                                         /\ DOMAIN jobtab'[i].procs = {1} /\ jobtab'[i].procs[1].pid = p
      BY <2>4 DEF OwedInv
    <3>1. PICK i \in Slots : /\ jobtab[i].used /\ (jobtab[i].bg \/ i = a)
                             /\ DOMAIN jobtab[i].procs = {1} /\ jobtab[i].procs[1].pid = p
      BY <1>0 DEF Sound, OwedInv, Slots
    <3> QED  BY <1>1, <2>3, <2>4, <2>6, <3>1
  <2>10. Sound(jobtab, child, code, owed, Waited)'
    BY <1>0, <2>1, <2>5, <2>7, <2>8, <2>9 DEF Sound
  <2>11. Numbered(jobtab)'
    <3> SUFFICES ASSUME NEW i \in Slots, NEW k \in Slots, i # k,
                        jobtab'[i].used, jobtab'[k].used, jobtab'[i].bg, jobtab'[k].bg
                 PROVE  jobtab'[i].num # jobtab'[k].num
      BY <2>4 DEF Numbered
    <3>1. CASE i # a /\ k # a
      BY <1>0, <2>4, <3>1 DEF Numbered, Slots
    <3>2. CASE i = a
      BY <2>2, <2>3, <2>4, <2>6, <3>2
    <3>3. CASE k = a
      BY <2>2, <2>3, <2>4, <2>6, <3>3
    <3> QED  BY <3>1, <3>2, <3>3
  <2>12. Current(jobtab, owed, curjob, prevjob)'
    <3>1. a # NoJob
      BY <1>0, <1>1, JobIs DEF NoJob, Slots
    <3> QED  BY <1>0, <1>1, <2>1, <2>3, <2>4, <2>6, <3>1 DEF Current, Slots
  <2>13. OtherTypes'
    BY <1>0, <2>1 DEF OtherTypes, Nobody, NoJob, NoPid
  <2>14. AskedInv'
    BY <1>0, <2>4, AskedOut DEF Slots
  <2>15. StatusTrue' /\ WaitComplete'
    BY <1>0, <2>1, AnswerKept DEF Inv, Tells
  <2> QED  BY <2>10, <2>11, <2>12, <2>13, <2>14, <2>15 DEF Inv
<1>3. CASE StateOf(Fg.procs) # "stopped"
  <2>1. job_free(jobtab, {a}) /\ owed' = Forget(jobtab, {a}, "told")
    BY <1>3 DEF JobWaited
  <2>2. jobtab' = Freed(jobtab, {a}) /\ curjob' = CurAfter(jobtab, {a}) /\ prevjob' = PrevAfter({a})
    BY <2>1 DEF job_free
  <2>3. StateOf(Fg.procs) = "done"
    BY <1>1, <1>3, StateOfIs DEF JobWaited
  <2>4. \A i \in {a} : \A k \in DOMAIN jobtab[i].procs : jobtab[i].procs[k].state = "done"
    BY <1>1, <2>3, StateOfIs
  <2>5. {a} \subseteq DOMAIN jobtab
    BY <1>1 DEF Slots
  <2>6. Sound(jobtab, child, code, owed, Waited)'
    <3>1. Sound(Freed(jobtab, {a}), child, code, Forget(jobtab, {a}, "told"), NoJob)
      BY <1>0, <2>4, <2>5, FreedSound
    <3> QED  BY <1>0, <2>1, <2>2, <3>1
  <2>7. Numbered(jobtab)' /\ Current(jobtab, owed, curjob, prevjob)'
    <3>1. ProcInv(jobtab, child, code, owed)
      BY <1>0 DEF Sound
    <3>2. /\ Numbered(Freed(jobtab, {a}))
          /\ Current(Freed(jobtab, {a}), Forget(jobtab, {a}, "told"), CurAfter(jobtab, {a}), PrevAfter({a}))
      BY <1>0, <2>5, <3>1, FreedCurrent
    <3> QED  BY <2>1, <2>2, <3>2
  <2>8. /\ owed' \in [Pids -> Fates]
        /\ \A p \in Pids : owed'[p] = "owed" => owed[p] = "owed"
    <3>1. /\ Forget(jobtab, {a}, "told") \in [Pids -> Fates]
          /\ \A p \in Pids : Forget(jobtab, {a}, "told")[p] =
               IF owed[p] = "owed" /\ p \in EndedIn(jobtab, {a}) THEN "told" ELSE owed[p]
      BY <1>0, ForgetIs
    <3> QED  BY <2>1, <3>1
  <2>9. OtherTypes'
    BY <1>0, <2>8 DEF OtherTypes, Nobody, NoJob, NoPid
  <2>10. AskedInv'
    BY <1>0, <2>2, FreedIs, AskedOut
  <2>11. StatusTrue' /\ WaitComplete'
    BY <1>0, <2>8, AnswerKept DEF Inv, Tells
  <2> QED  BY <2>6, <2>7, <2>9, <2>10, <2>11 DEF Inv
<1> QED  BY <1>2, <1>3

-----------------------------------------------------------------------------
(* The steps of wait that bring the table up to date.                      *)

LEMMA WaitReturnsStep ==
  ASSUME Inv, WaitReturns
  PROVE  Inv'
<1>0. /\ OtherTypes /\ AskedInv /\ TableInv(jobtab) /\ pc \in {"waitpid", "sleep"} /\ pc' = "wait"
      /\ Waited = NoJob /\ Waited' = NoJob
      /\ Sound(jobtab, child, code, owed, NoJob)
      /\ Numbered(jobtab) /\ Current(jobtab, owed, curjob, prevjob)
      /\ UNCHANGED <<mode, curjob, prevjob, asked, pending, code, cmds, events, owed, answer>>
  BY DEF WaitReturns, Inv, Sound, Waited
<1>1. PICK p \in Waitable : jobtab' = ReturnedIn(p) /\ child' = OneTold(p)
  BY Zenon DEF WaitReturns, ReturnedIn, OneTold
<1>2. p \in Pids /\ child[p] \in {"zombie", "halted"}
  BY DEF Waitable
<1>3. Noting(jobtab', child', NoJob)
  BY <1>0, <1>1, <1>2, ReturnNoting
<1>4. child' \in [Pids -> ChildStates] /\ Tells(child')
  BY <1>0, <1>1, <1>2, OneToldIs
<1>5. Sound(jobtab', child', code, owed, NoJob)
  BY <1>0, <1>3, NotingSound
<1>6. Numbered(jobtab') /\ Current(jobtab', owed, curjob, prevjob)
  BY <1>0, <1>3, NotingCurrent
<1>7. OtherTypes'
  BY <1>0, <1>4 DEF OtherTypes
<1>8. AskedInv'
  <2>1. DOMAIN jobtab' = Slots
    BY <1>3 DEF Noting
  <2>2. \A i \in Slots : PidsOf(jobtab'[i]) = PidsOf(jobtab[i])
    BY <1>3, NotingPids
  <2> QED  BY <1>0, <2>1, <2>2 DEF AskedInv, InWait, Slots, NoJob
<1>9. StatusTrue' /\ WaitComplete'
  BY <1>0, <1>4, AnswerKept DEF Inv
<1> QED  BY <1>0, <1>5, <1>6, <1>7, <1>8, <1>9 DEF Inv

\* jobs_reap, wherever it is called.
LEMMA ReapedSound ==
  ASSUME OtherTypes, Sound(jobtab, child, code, owed, NoJob),
         Numbered(jobtab), Current(jobtab, owed, curjob, prevjob)
  PROVE  /\ Sound(Reaped, ToldAll, code, owed, NoJob) /\ DOMAIN Reaped = Slots
         /\ Numbered(Reaped) /\ Current(Reaped, owed, curjob, prevjob)
         /\ \A i \in Slots : /\ PidsOf(Reaped[i]) = PidsOf(jobtab[i])
                             /\ Reaped[i].used = jobtab[i].used
         /\ ToldAll \in [Pids -> ChildStates] /\ Tells(ToldAll)
<1>1. Noting(Reaped, ToldAll, NoJob)
  BY ReapNoting
<1>2. Sound(Reaped, ToldAll, code, owed, NoJob)
  BY <1>1, NotingSound
<1>3. Numbered(Reaped) /\ Current(Reaped, owed, curjob, prevjob)
  BY <1>1, NotingCurrent
<1>4. DOMAIN Reaped = Slots /\ \A i \in Slots : Reaped[i].used = jobtab[i].used
  BY <1>1 DEF Noting
<1>5. \A i \in Slots : PidsOf(Reaped[i]) = PidsOf(jobtab[i])
  BY <1>1, NotingPids
<1> QED  BY <1>2, <1>3, <1>4, <1>5, ToldIs, ToldAllTells

LEMMA WaitLoopStep ==
  ASSUME Inv, WaitLoop
  PROVE  Inv'
<1> DEFINE a == asked.job
<1>0. /\ OtherTypes /\ AskedInv /\ TableInv(jobtab) /\ pc = "wait"
      /\ Waited = NoJob /\ child' = ToldAll
      /\ Sound(jobtab, child, code, owed, NoJob)
      /\ Numbered(jobtab) /\ Current(jobtab, owed, curjob, prevjob)
      /\ UNCHANGED <<mode, pending, code, cmds, events>>
  BY DEF WaitLoop, ReapChildren, ToldAll, Inv, Sound, Waited
<1>1. /\ Sound(Reaped, ToldAll, code, owed, NoJob) /\ DOMAIN Reaped = Slots
      /\ Numbered(Reaped) /\ Current(Reaped, owed, curjob, prevjob)
      /\ \A i \in Slots : PidsOf(Reaped[i]) = PidsOf(jobtab[i])
      /\ ToldAll \in [Pids -> ChildStates] /\ Tells(ToldAll)
  BY <1>0, ReapedSound
<1>2. a \in DOMAIN Reaped \cup {NoJob} /\ (asked.pid # NoPid => a # NoJob /\ asked.pid \in PidsOf(Reaped[a]))
  <2>1. a \in Slots \cup {NoJob} /\ (asked.pid # NoPid => a # NoJob /\ asked.pid \in PidsOf(jobtab[a]))
    BY <1>0 DEF AskedInv, InWait
  <2> QED  BY <1>1, <2>1
<1>3. ASSUME pc' = "wait_one", jobtab' = Reaped,
             UNCHANGED <<curjob, prevjob, asked, owed, answer>>,
             a # NoJob => ~Answers(Reaped[a])
      PROVE  Inv'
  <2>1. OtherTypes'
    BY <1>0, <1>1, <1>3 DEF OtherTypes
  <2>2. AskedInv'
    <3>1. \A j : Answers(j)' <=> Answers(j)
      BY <1>0, <1>3 DEF Answers, ByProc, Over, jobctl
    <3>2. asked' = asked /\ DOMAIN jobtab' = Slots
      BY <1>1, <1>3
    <3> QED  BY <1>0, <1>1, <1>2, <1>3, <3>1, <3>2 DEF AskedInv, InWait, Slots
  <2>3. StatusTrue' /\ WaitComplete'
    BY <1>0, <1>1, <1>3, AnswerKept DEF Inv
  <2>4. Waited' = NoJob
    BY <1>3 DEF Waited
  <2> QED  BY <1>0, <1>1, <1>3, <2>1, <2>2, <2>3, <2>4 DEF Inv
<1>4. ASSUME NEW status, EndWait(Reaped, status),
             \/ a = NoJob /\ ~AnyRunning(Reaped) /\ status = All
             \/ a # NoJob /\ Answers(Reaped[a]) /\ status = job_status(Reaped[a])
      PROVE  Inv'
  <2>1. /\ Sound(jobtab', ToldAll, code, owed', NoJob) /\ DOMAIN jobtab' = Slots
        /\ Numbered(jobtab') /\ Current(jobtab', owed', curjob', prevjob')
        /\ owed' \in [Pids -> Fates]
        /\ \A p \in Pids : owed'[p] = "owed" => owed[p] = "owed"
    BY <1>0, <1>1, <1>2, <1>4, EndWaitFrees
  <2>2. /\ pc' = "top" /\ asked' = Nobody
        /\ answer' = IF a = NoJob THEN [NoAnswer EXCEPT !.status = status]
                     ELSE Reply(OperandPid(Reaped), status)
    BY <1>4 DEF EndWait
  <2>3. Waited' = NoJob
    BY <2>2 DEF Waited
  <2>4. AskedInv'
    BY <1>0, <2>1, <2>2, AskedOut DEF Slots
  <2>5. CASE a = NoJob
    <3>1. answer'.due = "fresh"
      BY <2>2, <2>5 DEF NoAnswer
    <3>2. OtherTypes'
      BY <1>0, <1>1, <2>1, <2>2, <3>1 DEF OtherTypes, Nobody, NoJob, NoPid
    <3>3. StatusTrue'
      BY <3>1 DEF StatusTrue
    <3>4. ASSUME NEW p \in Pids, owed[p] = "owed"
          PROVE  ToldAll[p] \notin {"running", "continued"}
      <4>1. PICK i \in DOMAIN Reaped : /\ Reaped[i].used /\ (Reaped[i].bg \/ i = NoJob)
                                       /\ DOMAIN Reaped[i].procs = {1} /\ Reaped[i].procs[1].pid = p
        BY <1>1, <3>4 DEF Sound, OwedInv
      <4>2. i # NoJob /\ Reaped[i].procs \in Seq(Proc)
        BY <1>1, JobIs DEF NoJob, Sound
      <4>3. Reaped[i].state # "running"
        BY <1>4, <2>5, <4>1, <4>2 DEF AnyRunning
      <4>4. ~Odd(Reaped[i], owed) /\ Reaped[i].procs # <<>>
        BY <3>4, <4>1 DEF Odd, PidsOf
      <4>5. Reaped[i].procs[1].state # "running"
        BY <1>1, <4>1, <4>2, <4>3, <4>4, StateOfIs DEF Sound, StateInv
      <4>6. Agrees(Reaped[i].procs[1], ToldAll, code)
        BY <1>1, <3>4, <4>1 DEF Sound, ProcInv
      <4>7. ToldAll[p] \in {"none", "stopped", "running"}
        BY <1>0, ToldIs
      <4> QED  BY <4>1, <4>5, <4>6, <4>7 DEF Agrees
    <3>5. WaitComplete'
      BY <1>0, <2>1, <3>4 DEF WaitComplete
    <3> QED  BY <1>0, <2>1, <2>3, <2>4, <3>2, <3>3, <3>5 DEF Inv
  <2>6. CASE a # NoJob
    <3> DEFINE q == OperandPid(Reaped)
    <3>1. /\ answer'.of = q /\ answer'.status = status
          /\ answer'.due = IF q = NoPid THEN "fresh" ELSE owed[q]
      BY <2>2, <2>6 DEF Reply
    <3>2. a \in DOMAIN Reaped /\ TableInv(Reaped)
      BY <1>1, <1>2, <2>6 DEF Sound
    <3>3. q # NoPid => q \in Pids
      BY <1>0, <1>2, <3>2, OperandIs
    <3>4. OtherTypes'
      BY <1>0, <1>1, <2>1, <2>2, <3>1, <3>3 DEF OtherTypes, Nobody, NoJob, NoPid
    <3>5. status \in Codes \cup {Stopped}
      BY <1>0, <1>4, <2>6, <3>2, JobIs, job_statusIs
    <3>6. WaitComplete'
      BY <3>1, <3>5, Numbers DEF WaitComplete
    <3>7. ASSUME q # NoPid, owed[q] = "owed"
          PROVE  \/ status = Stopped /\ ToldAll[q] = "stopped"
                 \/ status = code[q] /\ ToldAll[q] = "none"
      <4> DEFINE r == Reaped[a].procs[1]
      <4>1. /\ r \in Proc /\ r.pid = q /\ q \in Pids /\ Agrees(r, ToldAll, code)
            /\ Answers(Reaped[a]) <=> r.state # "running"
            /\ Answers(Reaped[a]) => job_status(Reaped[a]) = r.status
        BY <1>0, <1>1, <1>2, <3>2, <3>7, OwedAnswer
      <4>2. r.state \in {"stopped", "done"} /\ status = r.status
        BY <1>4, <2>6, <4>1 DEF Proc
      <4>3. ToldAll[q] \in {"none", "stopped", "running"}
        BY <1>0, <4>1, ToldIs
      <4> HIDE DEF r, q
      <4> QED  BY <4>1, <4>2, <4>3 DEF Agrees
    <3>8. StatusTrue'
      BY <1>0, <3>1, <3>7 DEF StatusTrue
    <3> QED  BY <1>0, <2>1, <2>3, <2>4, <3>4, <3>6, <3>8 DEF Inv
  <2> QED  BY <2>5, <2>6
<1>5. CASE a = NoJob /\ AnyRunning(Reaped)
  BY <1>3, <1>5 DEF WaitLoop
<1>6. CASE a = NoJob /\ ~AnyRunning(Reaped)
  <2>1. EndWait(Reaped, All)
    BY <1>6 DEF WaitLoop
  <2> QED  BY <1>4, <1>6, <2>1
<1>7. CASE a # NoJob /\ ~Answers(Reaped[a])
  BY <1>3, <1>7 DEF WaitLoop
<1>8. CASE a # NoJob /\ Answers(Reaped[a])
  <2>1. EndWait(Reaped, job_status(Reaped[a]))
    BY <1>8 DEF WaitLoop
  <2> QED  BY <1>4, <1>8, <2>1
<1> QED  BY <1>5, <1>6, <1>7, <1>8

LEMMA WaitNoChildStep ==
  ASSUME Inv, WaitNoChild
  PROVE  Inv'
<1> DEFINE a == asked.job
           status == IF a = NoJob THEN All ELSE Unknown
<1>0. /\ OtherTypes /\ AskedInv /\ TableInv(jobtab) /\ pc = "waitpid" /\ Children = {}
      /\ EndWait(jobtab, status) /\ pc' = "top" /\ asked' = Nobody
      /\ Sound(jobtab, child, code, owed, NoJob) /\ Waited' = NoJob
      /\ Numbered(jobtab) /\ Current(jobtab, owed, curjob, prevjob)
      /\ UNCHANGED <<mode, pending, child, code, cmds, events>>
  BY DEF WaitNoChild, EndWait, Inv, Sound, Waited
<1>1. /\ a \in Slots \cup {NoJob} /\ (asked.pid # NoPid => a # NoJob /\ asked.pid \in PidsOf(jobtab[a]))
      /\ a # NoJob => ~Answers(jobtab[a])
  BY <1>0 DEF AskedInv, InWait
<1>2. /\ Sound(jobtab', child, code, owed', NoJob) /\ DOMAIN jobtab' = Slots
      /\ Numbered(jobtab') /\ Current(jobtab', owed', curjob', prevjob')
      /\ owed' \in [Pids -> Fates]
      /\ \A p \in Pids : owed'[p] = "owed" => owed[p] = "owed"
  BY <1>0, <1>1, EndWaitFrees DEF Slots
<1>3. answer' = IF a = NoJob THEN [NoAnswer EXCEPT !.status = status]
                ELSE Reply(OperandPid(jobtab), status)
  BY <1>0 DEF EndWait
<1>4. \A p \in Pids : child[p] = "none"
  BY <1>0 DEF Children
<1>5. answer'.due # "owed" /\ answer'.status = status
  <2>1. CASE a = NoJob
    BY <1>3, <2>1 DEF NoAnswer
  <2>2. CASE a # NoJob
    <3> DEFINE q == OperandPid(jobtab)
    <3>1. answer'.status = status /\ answer'.due = IF q = NoPid THEN "fresh" ELSE owed[q]
      BY <1>3, <2>2 DEF Reply
    <3>2. ASSUME q # NoPid, owed[q] = "owed"
          PROVE  FALSE
      <4> DEFINE r == jobtab[a].procs[1]
      <4>1. /\ r \in Proc /\ r.pid = q /\ q \in Pids /\ Agrees(r, child, code)
            /\ Answers(jobtab[a]) <=> r.state # "running"
        BY <1>0, <1>1, <2>2, <3>2, OwedAnswer DEF Slots
      <4>2. r.state = "done"
        BY <1>4, <4>1 DEF Agrees
      <4> QED  BY <1>1, <2>2, <4>1, <4>2
    <3> QED  BY <3>1, <3>2
  <2> QED  BY <2>1, <2>2
<1>6. OtherTypes'
  BY <1>0, <1>2, <1>5 DEF OtherTypes, Nobody, NoJob, NoPid
<1>7. AskedInv'
  BY <1>0, <1>2, AskedOut DEF Slots
<1>8. StatusTrue' /\ WaitComplete'
  BY <1>0, <1>4, <1>5 DEF StatusTrue, WaitComplete
<1> QED  BY <1>0, <1>2, <1>6, <1>7, <1>8 DEF Inv

-----------------------------------------------------------------------------
(* The prompt and jobs.                                                    *)

\* Marks are taken away after jobs_reap, and jobs that have ended are freed.
LEMMA NotifyTable ==
  ASSUME OtherTypes, Sound(jobtab, child, code, owed, NoJob),
         Numbered(jobtab), Current(jobtab, owed, curjob, prevjob),
         NEW T, \A i \in T : Reaped[i].used, NEW S, S \subseteq Slots, \A i \in S : Reaped[i].state = "done",
         job_free(Unmarked(Reaped, T), S), owed' = Forget(Unmarked(Reaped, T), S, "told")
  PROVE  /\ Sound(jobtab', ToldAll, code, owed', NoJob) /\ DOMAIN jobtab' = Slots
         /\ Numbered(jobtab') /\ Current(jobtab', owed', curjob', prevjob')
         /\ owed' \in [Pids -> Fates]
         /\ \A p \in Pids : owed'[p] = "owed" => owed[p] = "owed"
<1> DEFINE seen == Unmarked(Reaped, T)
<1>1. Noting(Reaped, ToldAll, NoJob)
  BY ReapNoting
<1>2. Noting(seen, ToldAll, NoJob)
  BY <1>1, UnmarkedNoting
<1>3. DOMAIN seen = Slots
  BY <1>2 DEF Noting
<1>4. \A i \in S : seen[i].state = "done"
  <2>1. Reaped \in Seq(Job) /\ DOMAIN Reaped = Slots
    BY <1>1 DEF Noting, TableInv
  <2>2. \A i \in Slots : Reaped[i] \in Job
    BY <1>1, JobIs DEF Noting
  <2>3. \A i \in Slots : seen[i].state = Reaped[i].state
    BY <2>1, <2>2 DEF Unmarked, Job
  <2> QED  BY <2>3
<1> HIDE DEF seen
<1>5. Sound(seen, ToldAll, code, owed, NoJob)
  BY <1>2, NotingSound
<1>6. Numbered(seen) /\ Current(seen, owed, curjob, prevjob)
  BY <1>2, NotingCurrent
<1>7. job_free(seen, S) /\ owed' = Forget(seen, S, "told")
  BY DEF seen
<1> QED  BY <1>3, <1>4, <1>5, <1>6, <1>7, FreeDone

LEMMA PromptStep ==
  ASSUME Inv, Prompt
  PROVE  Inv'
<1>0. /\ OtherTypes /\ AskedInv /\ pc = "top" /\ pc' = "read"
      /\ Sound(jobtab, child, code, owed, NoJob) /\ Waited = NoJob /\ Waited' = NoJob
      /\ Numbered(jobtab) /\ Current(jobtab, owed, curjob, prevjob)
      /\ UNCHANGED <<mode, asked, pending, code, cmds, events, answer>>
  BY DEF Prompt, Inv, Waited
<1>1. CASE mode # "interactive"
  <2>1. UNCHANGED <<table, child, owed>>
    BY <1>1 DEF Prompt
  <2>2. OtherTypes'
    BY <1>0, <2>1 DEF OtherTypes
  <2>3. AskedInv'
    BY <1>0, <2>1, AskedOut DEF table
  <2>4. StatusTrue' /\ WaitComplete'
    BY <1>0, <2>1 DEF Inv, StatusTrue, WaitComplete
  <2> QED  BY <1>0, <2>1, <2>2, <2>3, <2>4, TableKept
<1>2. CASE mode = "interactive"
  <2> DEFINE over == {i \in Changed : Reaped[i].state = "done"}
             seen == [i \in Slots |-> IF i \in Changed THEN [Reaped[i] EXCEPT !.changed = FALSE]
                                      ELSE Reaped[i]]
  <2>1. job_free(seen, over) /\ child' = ToldAll /\ owed' = Forget(seen, over, "told")
    BY <1>2 DEF Prompt, ReapChildren, ToldAll
  <2>2. DOMAIN Reaped = Slots /\ ToldAll \in [Pids -> ChildStates] /\ Tells(ToldAll)
    BY <1>0, ReapedSound
  <2>3. seen = Unmarked(Reaped, Changed)
    BY <2>2 DEF Unmarked
  <2>4. over \subseteq Slots /\ \A i \in over : Reaped[i].state = "done"
    BY DEF Changed
  <2>5. \A i \in Changed : Reaped[i].used
    BY DEF Changed
  <2> HIDE DEF seen, over
  <2>6. /\ Sound(jobtab', ToldAll, code, owed', NoJob) /\ DOMAIN jobtab' = Slots
        /\ Numbered(jobtab') /\ Current(jobtab', owed', curjob', prevjob')
        /\ owed' \in [Pids -> Fates]
        /\ \A p \in Pids : owed'[p] = "owed" => owed[p] = "owed"
    BY <1>0, <2>1, <2>3, <2>4, <2>5, NotifyTable
  <2>7. OtherTypes'
    BY <1>0, <2>1, <2>2, <2>6 DEF OtherTypes
  <2>8. AskedInv'
    BY <1>0, <2>6, AskedOut DEF Slots
  <2>9. StatusTrue' /\ WaitComplete'
    BY <1>0, <2>1, <2>2, <2>6, AnswerKept DEF Inv
  <2> QED  BY <1>0, <2>1, <2>6, <2>7, <2>8, <2>9 DEF Inv
<1> QED  BY <1>1, <1>2

LEMMA bi_jobsStep ==
  ASSUME Inv, bi_jobs
  PROVE  Inv'
<1>0. /\ OtherTypes /\ AskedInv /\ pc = "read" /\ pc' = "top"
      /\ Sound(jobtab, child, code, owed, NoJob) /\ Waited' = NoJob
      /\ Numbered(jobtab) /\ Current(jobtab, owed, curjob, prevjob)
      /\ answer' = NoAnswer /\ cmds' = cmds + 1 /\ cmds < MaxCmds
      /\ UNCHANGED <<mode, asked, pending, code, events>>
  BY DEF bi_jobs, ReadCommand, Inv, Waited
<1> DEFINE over == Finished(Reaped)
           T == {i \in Slots : Reaped[i].bg}
           seen == [i \in Slots |-> IF Reaped[i].bg THEN [Reaped[i] EXCEPT !.changed = FALSE] ELSE Reaped[i]]
<1>1. job_free(seen, over) /\ child' = ToldAll /\ owed' = Forget(seen, over, "told")
  BY DEF bi_jobs, ReapChildren, ToldAll
<1>2. /\ DOMAIN Reaped = Slots /\ ToldAll \in [Pids -> ChildStates] /\ Tells(ToldAll)
      /\ TableInv(Reaped)
  BY <1>0, ReapedSound DEF Sound
<1>3. seen = Unmarked(Reaped, T)
  BY <1>2 DEF Unmarked
<1>4. over \subseteq Slots /\ \A i \in over : Reaped[i].state = "done"
  BY <1>2 DEF Finished
<1>5. \A i \in T : Reaped[i].used
  BY <1>2, UnusedIs DEF TableInv
<1> HIDE DEF seen, over, T
<1>6. /\ Sound(jobtab', ToldAll, code, owed', NoJob) /\ DOMAIN jobtab' = Slots
      /\ Numbered(jobtab') /\ Current(jobtab', owed', curjob', prevjob')
      /\ owed' \in [Pids -> Fates]
  BY <1>0, <1>1, <1>3, <1>4, <1>5, NotifyTable
<1>7. OtherTypes'
  <2>1. cmds' \in 0 .. MaxCmds
    BY <1>0, Numbers DEF OtherTypes
  <2> QED  BY <1>0, <1>1, <1>2, <1>6, <2>1 DEF OtherTypes, NoAnswer
<1>8. AskedInv'
  BY <1>0, <1>6, AskedOut DEF Slots
<1>9. StatusTrue' /\ WaitComplete'
  BY <1>0, NoAnswerTrue
<1> QED  BY <1>0, <1>1, <1>6, <1>7, <1>8, <1>9 DEF Inv

-----------------------------------------------------------------------------
(* fg, bg and kill.                                                        *)

LEMMA job_continueStep ==
  ASSUME Inv, job_continue
  PROVE  Inv'
<1>0. /\ OtherTypes /\ AskedInv /\ pc = "read"
      /\ Sound(jobtab, child, code, owed, NoJob)
      /\ Numbered(jobtab) /\ Current(jobtab, owed, curjob, prevjob)
      /\ answer' = NoAnswer /\ cmds' = cmds + 1 /\ cmds < MaxCmds
      /\ UNCHANGED <<mode, curjob, prevjob, pending, code, events>>
  BY DEF job_continue, ReadCommand, Inv, Waited
<1>1. PICK i \in Named(Reaped), fg \in BOOLEAN :
        /\ jobtab' = [Reaped EXCEPT ![i] = Resumed(@, fg)]
        /\ child' = Cont(ToldAll, PidsOf(Reaped[i]))
        /\ asked' = IF fg THEN [job |-> i, pid |-> NoPid] ELSE asked
        /\ pc' = IF fg THEN "job_wait" ELSE "top"
        /\ owed' = IF fg THEN owed ELSE Revived(Reaped[i])
  BY Zenon DEF job_continue, ToldAll
<1>2. /\ Sound(Reaped, ToldAll, code, owed, NoJob) /\ DOMAIN Reaped = Slots /\ TableInv(Reaped)
      /\ Numbered(Reaped) /\ Current(Reaped, owed, curjob, prevjob)
      /\ ToldAll \in [Pids -> ChildStates]
  BY <1>0, ReapedSound DEF Sound
<1>3. Continues(jobtab', Reaped, i, fg)
  BY <1>1, <1>2, ExceptContinues
<1> DEFINE w == IF fg THEN i ELSE NoJob
<1>4. Sound(jobtab', child', code, owed', w) /\ Numbered(jobtab') /\ Current(jobtab', owed', curjob, prevjob)
  BY <1>0, <1>1, <1>2, <1>3, ContinueSound
<1>5. i \in Slots /\ i \in Nat \ {0} /\ Reaped[i].used /\ jobtab'[i].used /\ DOMAIN jobtab' = Slots
  <2>1. i \in DOMAIN Reaped /\ Reaped[i].used
    BY DEF Named
  <2> QED  BY <1>2, <1>3, <2>1, JobIs DEF Continues
<1>6. Waited' = w
  BY <1>1 DEF Waited
<1>7. OtherTypes'
  <2>1. cmds' \in 0 .. MaxCmds
    BY <1>0, Numbers DEF OtherTypes
  <2>2. child' \in [Pids -> ChildStates]
    BY <1>1, <1>2, ContIs
  <2>3. owed' \in [Pids -> Fates]
    <3>1. CASE fg
      BY <1>0, <1>1, <3>1 DEF OtherTypes
    <3>2. CASE ~fg
      BY <1>0, <1>1, <3>2, RevivedIs
    <3> QED  BY <3>1, <3>2
  <2>4. asked' \in [job : Nat, pid : Pids \cup {NoPid}]
    BY <1>0, <1>1, <1>5 DEF OtherTypes
  <2> QED  BY <1>0, <1>1, <2>1, <2>2, <2>3, <2>4 DEF OtherTypes, NoAnswer
<1>8. AskedInv'
  BY <1>0, <1>1, <1>5 DEF AskedInv, InWait, Slots, NoJob
<1>9. StatusTrue' /\ WaitComplete'
  BY <1>0, NoAnswerTrue
<1> QED  BY <1>0, <1>4, <1>6, <1>7, <1>8, <1>9 DEF Inv

LEMMA KillJobStep ==
  ASSUME Inv, KillJob
  PROVE  Inv'
<1>0. /\ OtherTypes /\ AskedInv /\ pc = "read" /\ pc' = "top" /\ TableInv(jobtab)
      /\ Sound(jobtab, child, code, owed, NoJob) /\ Waited' = NoJob
      /\ Numbered(jobtab) /\ Current(jobtab, owed, curjob, prevjob)
      /\ answer' = NoAnswer /\ cmds' = cmds + 1 /\ cmds < MaxCmds
      /\ UNCHANGED <<mode, curjob, prevjob, asked, pending, code, events>>
  BY DEF KillJob, ReadCommand, Inv, Waited, Sound
<1>1. PICK i \in Named(jobtab) : /\ jobtab' = [jobtab EXCEPT ![i] = Continued(@)]
                                 /\ child' = Cont(child, PidsOf(jobtab[i]))
                                 /\ owed' = Revived(jobtab[i])
  BY DEF KillJob
<1>2. child \in [Pids -> ChildStates]
  BY <1>0 DEF OtherTypes
<1>3. Continues(jobtab', jobtab, i, FALSE)
  BY <1>0, <1>1, ExceptContinues
<1>4. Sound(jobtab', child', code, owed', NoJob) /\ Numbered(jobtab')
      /\ Current(jobtab', owed', curjob, prevjob)
  BY <1>0, <1>1, <1>2, <1>3, ContinueSound
<1>5. OtherTypes'
  <2>1. cmds' \in 0 .. MaxCmds
    BY <1>0, Numbers DEF OtherTypes
  <2>2. child' \in [Pids -> ChildStates] /\ owed' \in [Pids -> Fates]
    BY <1>0, <1>1, <1>2, ContIs, RevivedIs
  <2> QED  BY <1>0, <2>1, <2>2 DEF OtherTypes, NoAnswer
<1>6. AskedInv'
  <2>1. DOMAIN jobtab' = DOMAIN jobtab
    BY <1>3 DEF Continues
  <2> QED  BY <1>0, <2>1, AskedOut
<1>7. StatusTrue' /\ WaitComplete'
  BY <1>0, NoAnswerTrue
<1> QED  BY <1>0, <1>4, <1>5, <1>6, <1>7 DEF Inv

-----------------------------------------------------------------------------
(* The forks.                                                              *)

LEMMA ForkedIs ==
  ASSUME OtherTypes, cmds' = cmds + 1, cmds < MaxCmds, NEW n \in Nat, NEW pids \in NewPids(n),
         Forked(pids)
  PROVE  /\ child' = ForkedChild(pids) /\ code' = ForkedCode(pids) /\ cmds' \in 0 .. MaxCmds
         /\ child' \in [Pids -> ChildStates] /\ code' \in [Pids -> Codes]
<1>1. child' = ForkedChild(pids) /\ code' = ForkedCode(pids)
  BY DEF Forked, ForkedChild, ForkedCode
<1>2. cmds' \in 0 .. MaxCmds
  BY Numbers DEF OtherTypes
<1>3. child' \in [Pids -> ChildStates]
  <2>1. "running" \in ChildStates
    BY DEF ChildStates, Alive
  <2> QED  BY <1>1, <2>1 DEF ForkedChild, OtherTypes
<1>4. code' \in [Pids -> Codes]
  <2>1. cmds' \in Codes
    BY <1>2 DEF Codes
  <2> QED  BY <1>1, <2>1 DEF ForkedCode, OtherTypes
<1> QED  BY <1>1, <1>2, <1>3, <1>4

\* What the three have in common: a job is entered, and its processes run.
LEMMA ForkStep ==
  ASSUME Inv, ReadCommand, NEW bg \in BOOLEAN, NEW owe \in BOOLEAN, NEW n \in Nat,
         NEW pids \in NewPids(n), owe => bg /\ n = 1,
         jobtab' = WithJob(bg, pids), Forked(pids), owed' = Entered(pids, owe),
         UNCHANGED <<mode, pending>>, events' \in Nat,
         \/ pc' \in {"top", "exit"} /\ asked' = asked
         \/ pc' = "job_wait" /\ asked' = [job |-> NewSlot, pid |-> NoPid],
         \/ (~bg \/ n = 0) /\ curjob' = CurAfter(jobtab, Pruned) /\ prevjob' = PrevAfter(Pruned)
         \/ /\ curjob' = NewSlot
            /\ prevjob' = IF CurAfter(jobtab, Pruned) = NewSlot THEN PrevAfter(Pruned)
                          ELSE CurAfter(jobtab, Pruned)
  PROVE  Inv'
<1>0. /\ OtherTypes /\ AskedInv /\ pc = "read" /\ TableInv(jobtab)
      /\ Sound(jobtab, child, code, owed, NoJob)
      /\ Numbered(jobtab) /\ Current(jobtab, owed, curjob, prevjob)
      /\ answer' = NoAnswer /\ cmds' = cmds + 1 /\ cmds < MaxCmds
  BY DEF ReadCommand, Inv, Waited, Sound
<1>1. /\ child' = ForkedChild(pids) /\ code' = ForkedCode(pids) /\ cmds' \in 0 .. MaxCmds
      /\ child' \in [Pids -> ChildStates] /\ code' \in [Pids -> Codes]
  BY <1>0, ForkedIs
<1>2. Waited' \in {NoJob, NewSlot}
  BY DEF Waited
<1>3. Sound(jobtab, child, code, owed, Waited)'
  <2>1. Sound(WithJob(bg, pids), ForkedChild(pids), ForkedCode(pids), Entered(pids, owe), Waited')
    BY <1>0, <1>2, WithJobSound
  <2> QED  BY <1>1, <2>1
<1>4. Numbered(jobtab)' /\ Current(jobtab, owed, curjob, prevjob)'
  <2>1. /\ Numbered(WithJob(bg, pids))
        /\ ~bg \/ n = 0 => Current(WithJob(bg, pids), Entered(pids, owe),
                                   CurAfter(jobtab, Pruned), PrevAfter(Pruned))
        /\ Current(WithJob(bg, pids), Entered(pids, owe), NewSlot,
                   IF CurAfter(jobtab, Pruned) = NewSlot THEN PrevAfter(Pruned)
                   ELSE CurAfter(jobtab, Pruned))
    BY <1>0, WithJobCurrent
  <2> QED  BY <2>1
<1>5. NewSlot \in Nat \ {0} /\ NewSlot \in DOMAIN jobtab' /\ jobtab'[NewSlot].used
      /\ DOMAIN jobtab \subseteq DOMAIN jobtab'
  <2>1. Enters(jobtab', bg, pids)
    BY <1>0, WithJobIs
  <2> QED  BY <1>0, <2>1, NewSlotIs DEF Enters, Slots
<1>6. OtherTypes'
  <2>1. owed' \in [Pids -> Fates]
    BY <1>0, EnteredIs
  <2>2. asked' \in [job : Nat, pid : Pids \cup {NoPid}]
    BY <1>0, <1>5 DEF OtherTypes
  <2> QED  BY <1>0, <1>1, <2>1, <2>2 DEF OtherTypes, NoAnswer
<1>7. AskedInv'
  <2>1. CASE pc' \in {"top", "exit"} /\ asked' = asked
    BY <1>0, <1>5, <2>1, AskedOut
  <2>2. CASE pc' = "job_wait" /\ asked' = [job |-> NewSlot, pid |-> NoPid]
    BY <1>5, <2>2 DEF AskedInv, InWait, Slots, NoJob
  <2> QED  BY <2>1, <2>2
<1>8. StatusTrue' /\ WaitComplete'
  BY <1>0, NoAnswerTrue
<1> QED  BY <1>3, <1>4, <1>6, <1>7, <1>8 DEF Inv

LEMMA eval_asyncStep ==
  ASSUME Inv, eval_async
  PROVE  Inv'
<1>1. PICK pids \in NewPids(1) :
        /\ jobtab' = WithJob(TRUE, pids) /\ curjob' = NewSlot
        /\ prevjob' = IF CurAfter(jobtab, Pruned) = NewSlot THEN PrevAfter(Pruned)
                      ELSE CurAfter(jobtab, Pruned)
        /\ Forked(pids) /\ owed' = Entered(pids, TRUE)
  BY DEF eval_async
<1>2. ReadCommand /\ pc' = "top" /\ UNCHANGED <<mode, asked, pending, events>>
  BY DEF eval_async
<1>3. events' \in Nat
  BY <1>2 DEF Inv, OtherTypes
<1> QED  BY <1>1, <1>2, <1>3, ForkStep

LEMMA eval_pipeStep ==
  ASSUME Inv, eval_pipe
  PROVE  Inv'
<1>1. PICK n \in 1 .. 2 : \E pids \in NewPids(n) :
        /\ jobtab' = WithJob(FALSE, pids)
        /\ curjob' = CurAfter(jobtab, Pruned) /\ prevjob' = PrevAfter(Pruned)
        /\ Forked(pids) /\ owed' = Entered(pids, FALSE)
  BY DEF eval_pipe
<1>2. PICK pids \in NewPids(n) :
        /\ jobtab' = WithJob(FALSE, pids)
        /\ curjob' = CurAfter(jobtab, Pruned) /\ prevjob' = PrevAfter(Pruned)
        /\ Forked(pids) /\ owed' = Entered(pids, FALSE)
  BY <1>1
<1>3. /\ ReadCommand /\ pc' = "job_wait" /\ asked' = [job |-> NewSlot, pid |-> NoPid]
      /\ UNCHANGED <<mode, pending, events>>
  BY DEF eval_pipe
<1>4. events' \in Nat /\ n \in Nat
  BY <1>3 DEF Inv, OtherTypes
<1> QED  BY <1>2, <1>3, <1>4, ForkStep

LEMMA do_fork_failsStep ==
  ASSUME Inv, do_fork_fails
  PROVE  Inv'
<1>1. PICK bg \in BOOLEAN, n \in 0 .. 1 : \E pids \in NewPids(n) :
        /\ bg => n = 0
        /\ jobtab' = WithJob(bg, pids)
        /\ Forked(pids) /\ owed' = Entered(pids, FALSE)
  BY DEF do_fork_fails
<1>2. PICK pids \in NewPids(n) :
        /\ bg => n = 0
        /\ jobtab' = WithJob(bg, pids)
        /\ Forked(pids) /\ owed' = Entered(pids, FALSE)
  BY <1>1
<1>3. /\ ReadCommand /\ UNCHANGED <<mode, asked, pending>>
      /\ curjob' = CurAfter(jobtab, Pruned) /\ prevjob' = PrevAfter(Pruned)
      /\ events' = events + 1 /\ pc' \in {"top", "exit"}
  BY DEF do_fork_fails
<1>4. events' \in Nat /\ n \in Nat
  BY <1>3 DEF Inv, OtherTypes
<1> QED  BY <1>2, <1>3, <1>4, ForkStep

-----------------------------------------------------------------------------
(* The invariant, and what it implies.                                     *)

LEMMA InvInit == Init => Inv
<1> SUFFICES ASSUME Init
             PROVE  Inv
  OBVIOUS
<1>1. jobtab = <<>> /\ DOMAIN jobtab = {} /\ curjob = NoJob /\ prevjob = NoJob
  BY DEF Init
<1>2. Sound(jobtab, child, code, owed, Waited)
  <2>1. TableInv(jobtab)
    BY <1>1, EmptySeq DEF TableInv
  <2>2. \A p \in Pids : owed[p] # "owed"
    BY DEF Init
  <2> QED  BY <1>1, <2>1, <2>2 DEF Sound, ProcInv, StateInv, OwedInv
<1>3. Numbered(jobtab) /\ Current(jobtab, owed, curjob, prevjob)
  BY <1>1 DEF Numbered, Current, Unfinished
<1>4. OtherTypes
  <2>1. /\ child \in [Pids -> ChildStates] /\ code \in [Pids -> Codes] /\ owed \in [Pids -> Fates]
    BY Numbers DEF Init, ChildStates, Fates
  <2>2. cmds \in 0 .. MaxCmds /\ events \in Nat
    BY Numbers DEF Init
  <2>3. asked \in [job : Nat, pid : Pids \cup {NoPid}] /\ answer.due = "fresh"
    BY DEF Init, Nobody, NoAnswer, NoJob, NoPid
  <2> QED  BY <2>1, <2>2, <2>3 DEF Init, OtherTypes
<1>5. AskedInv
  BY <1>1 DEF Init, AskedInv, InWait, Nobody, Slots
<1>6. StatusTrue /\ WaitComplete
  BY Numbers DEF Init, NoAnswer, StatusTrue, WaitComplete
<1> QED  BY <1>2, <1>3, <1>4, <1>5, <1>6 DEF Inv

LEMMA InvStep == Inv /\ [Next]_vars => Inv'
<1> SUFFICES ASSUME Inv, [Next]_vars
             PROVE  Inv'
  OBVIOUS
<1>1. CASE Shell
  <2>1. CASE TrapAtTop \/ TrapEnds \/ TrapInRead
    BY <2>1, QuietStep
  <2>2. CASE Prompt
    BY <2>2, PromptStep
  <2>3. CASE WaitProc
    BY <2>3, WaitProcStep
  <2>4. CASE JobWaited
    BY <2>4, JobWaitedStep
  <2>5. CASE WaitLoop
    BY <2>5, WaitLoopStep
  <2>6. CASE WaitTrapped
    BY <2>6, WaitTrappedStep
  <2>7. CASE WaitUntrapped \/ WaitSleeps
    BY <2>7, SleepStep
  <2>8. CASE WaitReturns
    BY <2>8, WaitReturnsStep
  <2>9. CASE WaitNoChild
    BY <2>9, WaitNoChildStep
  <2> QED  BY <1>1, <2>1, <2>2, <2>3, <2>4, <2>5, <2>6, <2>7, <2>8, <2>9 DEF Shell, Wait
<1>2. CASE Command
  <2>1. CASE eval_async
    BY <2>1, eval_asyncStep
  <2>2. CASE eval_pipe
    BY <2>2, eval_pipeStep
  <2>3. CASE do_fork_fails
    BY <2>3, do_fork_failsStep
  <2>4. CASE WaitAll \/ WaitJob
    BY <2>4, WaitAllStep
  <2>5. CASE WaitPid
    BY <2>5, WaitPidStep
  <2>6. CASE bi_jobs
    BY <2>6, bi_jobsStep
  <2>7. CASE job_continue
    BY <2>7, job_continueStep
  <2>8. CASE KillJob
    BY <2>8, KillJobStep
  <2>9. CASE KillPid
    BY <2>9, KillPidStep
  <2> QED  BY <1>2, <2>1, <2>2, <2>3, <2>4, <2>5, <2>6, <2>7, <2>8, <2>9 DEF Command
<1>3. CASE Signal
  BY <1>3, SleepStep
<1>4. CASE \E p \in Pids : ChildEnds(p) \/ ChildStops(p)
  BY <1>4, ChildStep
<1>5. CASE UNCHANGED vars
  <2>1. /\ UNCHANGED <<mode, table, pc, asked, pending, child, code, cmds, events, owed, answer>>
    BY <1>5 DEF vars, table
  <2>2. OtherTypes'
    BY <2>1 DEF Inv, OtherTypes
  <2>3. AskedInv'
    <3>1. \A j : Answers(j)' <=> Answers(j)
      BY <2>1 DEF Answers, ByProc, Over, jobctl
    <3>2. jobtab' = jobtab /\ asked' = asked
      BY <2>1 DEF table
    <3> QED  BY <2>1, <3>1, <3>2 DEF Inv, AskedInv, InWait, Slots
  <2>4. StatusTrue' /\ WaitComplete' /\ Waited' = Waited
    BY <2>1 DEF Inv, StatusTrue, WaitComplete, Waited
  <2> QED  BY <2>1, <2>2, <2>3, <2>4, TableKept
<1> QED  BY <1>1, <1>2, <1>3, <1>4, <1>5 DEF Next

LEMMA InvTypeOK == Inv => TypeOK
<1> SUFFICES ASSUME Inv
             PROVE  TypeOK
  OBVIOUS
<1>1. \A i \in Slots :
        /\ jobtab[i].used \in BOOLEAN /\ jobtab[i].bg \in BOOLEAN /\ jobtab[i].num \in Nat
        /\ jobtab[i].state \in {"running", "stopped", "done"} /\ jobtab[i].changed \in BOOLEAN
        /\ \A k \in DOMAIN jobtab[i].procs : jobtab[i].procs[k] \in Proc
  BY JobIs DEF Inv, Sound, Slots
<1>2. {curjob, prevjob, asked.job} \subseteq Slots \cup {NoJob}
  BY DEF Inv, Current, AskedInv, Slots
<1> QED  BY <1>1, <1>2 DEF Inv, OtherTypes, TypeOK, ChildStates, Fates

LEMMA InvJobIDs == Inv => JobIDs
<1> SUFFICES ASSUME Inv
             PROVE  JobIDs
  OBVIOUS
<1>1. TypeOK
  BY InvTypeOK
<1> QED  BY <1>1 DEF Inv, Numbered, Current, Odd, JobIDs, Slots

LEMMA InvNothingLost == Inv => NothingLost
<1> SUFFICES ASSUME Inv, NEW p \in Pids, owed[p] = "owed", child[p] = "none"
             PROVE  \E i \in Slots : \E k \in DOMAIN jobtab[i].procs :
                      jobtab[i].procs[k] = [pid |-> p, state |-> "done", status |-> code[p]]
  BY DEF NothingLost
<1>1. PICK i \in Slots : DOMAIN jobtab[i].procs = {1} /\ jobtab[i].procs[1].pid = p
  BY DEF Inv, Sound, OwedInv, Slots
<1>2. jobtab[i].procs[1] \in Proc
  BY <1>1, JobIs DEF Inv, Sound, Slots
<1>3. Agrees(jobtab[i].procs[1], child, code)
  BY <1>1 DEF Inv, Sound, ProcInv, Slots
<1>4. jobtab[i].procs[1].state = "done" /\ jobtab[i].procs[1].status = code[p]
  BY <1>1, <1>3 DEF Agrees
<1>5. jobtab[i].procs[1] = [pid |-> p, state |-> "done", status |-> code[p]]
  BY <1>1, <1>2, <1>4 DEF Proc
<1> QED  BY <1>1, <1>5

LEMMA InvAlways == Spec => []Inv
BY InvInit, InvStep, PTL DEF Spec

\* What wait answers of a background process is so; the types are right; the numbers of
\* jobs are their own, and the current and the previous job are jobs of the table
\* (job_status, bi_wait, alloc_jobnum, job_free, job_set_current).
THEOREM TableTrueTheorem == Spec => []TableTrue
<1>1. Inv => TableTrue
  BY InvJobIDs DEF Inv, TableTrue
<1> QED  BY <1>1, InvAlways, PTL

\* The status of a background process is kept by the system or in the table until it has
\* been told, and wait without operands leaves none running (jobs_reap, record_status,
\* job_free, prune_done, bi_wait).
THEOREM ChildrenKeptTheorem == Spec => []ChildrenKept
<1>1. Inv => ChildrenKept
  BY InvNothingLost DEF Inv, ChildrenKept
<1> QED  BY <1>1, InvAlways, PTL

==============================================================================
