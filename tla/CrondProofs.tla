----------------------------- MODULE CrondProofs -----------------------------
(***************************************************************************)
(* Proofs about crond, for any users, crontabs, crontab commands, bounds   *)
(* and faults.                                                             *)
(***************************************************************************)
EXTENDS Crond, SequenceTheorems, TLAPS

-----------------------------------------------------------------------------
(* The inductive invariant.                                                *)

Active == pc \in {"minute", "users", "input"}
Reading == pc \in {"users", "input"}

\* Only what is valid is installed, and only by who was asked to.
SpoolInv ==
  /\ \A u \in Users : spool[u] # NoText => spool[u].valid
  /\ \A c \in Crontab : cmd[c].pc \in {"write", "rename"} => cmd[c].copy \in Texts /\ cmd[c].copy.valid
  /\ \A u \in Steady : spool[u] = Table[u]

\* The minute that is run is one after the last and not after the next of the clock, which
\* is not set back once crond was killed.
TimeInv ==
  /\ Active => t <= upto + 1 /\ (Reading => t <= upto)
  /\ Active /\ ~opt_s => last < t
  /\ ~jumped /\ ~opt_s => last <= wallclock /\ (Active => upto <= wallclock)
  /\ pc = "down" => "crond" \in killed
  /\ "crond" \in killed => ~jumped /\ ~opt_s
  /\ pc = "exit" => opt_s

\* The lines left are of the crontab that was opened, and of this minute.
LinesInv ==
  /\ ~Reading => lines = {}
  /\ lines # {} => user \notin entries
  /\ \A x, y \in lines : x[2] = y[2] => x = y

\* The last command is the one whose input is written.
InputInv == pc = "input" => jobs # <<>> /\ jobs[Len(jobs)].parent # "init"

\* What was started is of an earlier minute, or of this one, and then by this crond, of a
\* crontab that was read, and none of the lines left.
StartedBefore(i) ==
  /\ Active => jobs[i].minute <= t
  /\ Active /\ jobs[i].minute = t =>
       /\ Reading /\ jobs[i].parent # "init" /\ jobs[i].user \notin entries
       /\ jobs[i].user = user => \A x \in lines : x[2] # jobs[i].line
  /\ ~Active /\ pc # "down" => jobs[i].minute <= last
  /\ pc = "down" => jobs[i].minute <= wallclock
RunInv == \A i \in DOMAIN jobs : StartedBefore(i)

\* What was run for a user and a minute, and what is still to be, are the lines of one text.
RunFor(u, m) == {i \in DOMAIN jobs : jobs[i].user = u /\ jobs[i].minute = m}
LinesOf(u, m) == {jobs[i].line : i \in RunFor(u, m)}
Left(u, m) == IF Reading /\ u = user /\ m = t THEN {x[2] : x \in lines} ELSE {}
Of(x, m) == {l \in Range(x.lines) : m \in l.at}
WholeInv ==
  \A u \in Users, m \in Minutes :
    LinesOf(u, m) \cup Left(u, m) # {} /\ (\A i \in RunFor(u, m) : jobs[i].parent # "init") =>
      \E x \in Texts : x.valid /\ LinesOf(u, m) \cup Left(u, m) = Of(x, m)

\* Of the minutes since the last one those before t were run, and t as far as it was read.
Owed(u, m) == u \in Steady /\ last < m /\ m <= upto /\ m > upto - CatchUp /\ m \notin skipped
CaughtInv ==
  Active /\ ~opt_s =>
    \A u \in Users, m \in Minutes : Owed(u, m) =>
      \A l \in Range(Table[u].lines) : m \in l.at =>
        /\ m < t => Ran(u, l, m)
        /\ m = t /\ Reading =>
             u \in entries \/ (u = user /\ \E x \in lines : x[2] = l) \/ Ran(u, l, m)

\* The mail of a command that was reaped was tried.
MailInv ==
  \A i \in DOMAIN jobs :
    jobs[i].parent = "crond" /\ jobs[i].state = "reaped" /\ jobs[i].line.mails => jobs[i].mail # "none"

CronInv ==
  /\ CronTypeOK /\ SpoolInv /\ TimeInv /\ LinesInv /\ InputInv
  /\ RunInv /\ LineOnce /\ WholeInv /\ CaughtInv /\ MailInv /\ AllWaited
-----------------------------------------------------------------------------
(* Texts, and steps that change one command.                               *)

LEMMA TextFacts ==
  ASSUME NEW x \in Texts
  PROVE  /\ x.lines \in Seq(Line) /\ IsInjective(x.lines) /\ x.valid \in BOOLEAN /\ x # NoText
         /\ Range(x.lines) \subseteq Line
<1>1. x.lines \in Seq(Line) /\ IsInjective(x.lines) /\ x.valid \in BOOLEAN /\ x # NoText  BY CronTexts
<1>2. Range(x.lines) \subseteq Line  BY <1>1 DEF Range
<1> QED  BY <1>1, <1>2

\* A step that changes what a command does, not what it is.
Touched ==
  /\ jobs' \in Seq(Command) /\ Len(jobs') = Len(jobs)
  /\ \A k \in DOMAIN jobs :
       /\ jobs'[k].user = jobs[k].user /\ jobs'[k].line = jobs[k].line
       /\ jobs'[k].minute = jobs[k].minute
       /\ jobs'[k].parent = "init" <=> jobs[k].parent = "init"

LEMMA OneTouched ==
  ASSUME CronTypeOK, NEW i \in DOMAIN jobs, NEW j \in Command, jobs' = [jobs EXCEPT ![i] = j],
         j.user = jobs[i].user, j.line = jobs[i].line, j.minute = jobs[i].minute,
         j.parent = "init" <=> jobs[i].parent = "init"
  PROVE  Touched /\ \A k \in DOMAIN jobs : jobs'[k] = IF k = i THEN j ELSE jobs[k]
<1>1. jobs \in Seq(Command)  BY DEF CronTypeOK
<1>2. jobs' \in Seq(Command) /\ Len(jobs') = Len(jobs)  BY <1>1
<1>3. \A k \in DOMAIN jobs : jobs'[k] = IF k = i THEN j ELSE jobs[k]  BY <1>1
<1> QED  BY <1>2, <1>3 DEF Touched

LEMMA Unchanged ==
  ASSUME CronTypeOK, UNCHANGED jobs
  PROVE  Touched
BY DEF CronTypeOK, Touched

LEMMA SameJobs ==
  ASSUME CronTypeOK, Touched
  PROVE  DOMAIN jobs' = DOMAIN jobs
BY DEF CronTypeOK, Touched

\* What each of these steps does to the command it changes.
LEMMA ReapTouches ==
  ASSUME CronTypeOK, ReapCommand
  PROVE  /\ Touched
         /\ \E i \in DOMAIN jobs :
              /\ jobs[i].state = "ended"
              /\ \A k \in DOMAIN jobs : k # i => jobs'[k] = jobs[k]
              /\ jobs'[i].parent = jobs[i].parent
              /\ jobs'[i].state = "reaped" /\ jobs[i].parent = "crond" /\ jobs[i].line.mails
                   => jobs'[i].mail # "none"
         /\ pc = "reap" /\ pc' \in {"reap", "mail"} /\ failures' \in 0 .. MaxFail
<1>1. jobs \in Seq(Command) /\ failures \in 0 .. MaxFail  BY DEF CronTypeOK
<1>2. PICK i \in Zombies :
        IF jobs[i].parent = "crond" /\ jobs[i].line.mails
        THEN \/ pc' = "mail" /\ SetState(i, "mailing") /\ NoFail
             \/ /\ Fail
                /\ jobs' = [jobs EXCEPT ![i].state = "reaped", ![i].mail = "lost"]
                /\ UNCHANGED pc
        ELSE SetState(i, "reaped") /\ UNCHANGED pc /\ NoFail
  BY DEF ReapCommand
<1>3. i \in DOMAIN jobs /\ jobs[i] \in Command /\ jobs[i].state = "ended"  BY <1>1 DEF Zombies
<1>4. pc = "reap" /\ pc' \in {"reap", "mail"} /\ failures' \in 0 .. MaxFail
  BY <1>1, <1>2, CronBounds DEF ReapCommand, Fail, NoFail
<1>5. \/ SetState(i, "mailing")
      \/ SetState(i, "reaped") /\ ~(jobs[i].parent = "crond" /\ jobs[i].line.mails)
      \/ jobs' = [jobs EXCEPT ![i].state = "reaped", ![i].mail = "lost"]
  BY <1>2
<1>6. CASE SetState(i, "mailing")
  <2> DEFINE j == [jobs[i] EXCEPT !.state = "mailing"]
  <2>1. j \in Command /\ j.user = jobs[i].user /\ j.line = jobs[i].line /\ j.minute = jobs[i].minute
        /\ j.parent = jobs[i].parent /\ j.state = "mailing"
    BY <1>3 DEF Command
  <2>2. jobs' = [jobs EXCEPT ![i] = j]  BY <1>6 DEF SetState
  <2> HIDE DEF j
  <2>3. Touched /\ \A k \in DOMAIN jobs : jobs'[k] = IF k = i THEN j ELSE jobs[k]
    BY <1>3, <2>1, <2>2, OneTouched
  <2> QED  BY <1>3, <1>4, <2>1, <2>3
<1>7. CASE SetState(i, "reaped") /\ ~(jobs[i].parent = "crond" /\ jobs[i].line.mails)
  <2> DEFINE j == [jobs[i] EXCEPT !.state = "reaped"]
  <2>1. j \in Command /\ j.user = jobs[i].user /\ j.line = jobs[i].line /\ j.minute = jobs[i].minute
        /\ j.parent = jobs[i].parent /\ j.state = "reaped"
    BY <1>3 DEF Command
  <2>2. jobs' = [jobs EXCEPT ![i] = j]  BY <1>7 DEF SetState
  <2> HIDE DEF j
  <2>3. Touched /\ \A k \in DOMAIN jobs : jobs'[k] = IF k = i THEN j ELSE jobs[k]
    BY <1>3, <2>1, <2>2, OneTouched
  <2> QED  BY <1>3, <1>4, <1>7, <2>1, <2>3
<1>8. CASE jobs' = [jobs EXCEPT ![i].state = "reaped", ![i].mail = "lost"]
  <2> DEFINE j == [jobs[i] EXCEPT !.state = "reaped", !.mail = "lost"]
  <2>1. j \in Command /\ j.user = jobs[i].user /\ j.line = jobs[i].line /\ j.minute = jobs[i].minute
        /\ j.parent = jobs[i].parent /\ j.mail = "lost"
    BY <1>3 DEF Command
  <2>2. jobs' = [jobs EXCEPT ![i] = j]  BY <1>1, <1>3, <1>8
  <2> HIDE DEF j
  <2>3. Touched /\ \A k \in DOMAIN jobs : jobs'[k] = IF k = i THEN j ELSE jobs[k]
    BY <1>3, <2>1, <2>2, OneTouched
  <2> QED  BY <1>3, <1>4, <2>1, <2>3
<1> QED  BY <1>5, <1>6, <1>7, <1>8

LEMMA MailTouches ==
  ASSUME CronTypeOK, Mailed
  PROVE  /\ Touched /\ pc = "mail" /\ pc' = "reap"
         /\ \E i \in DOMAIN jobs :
              /\ jobs'[i].mail # "none"
              /\ \A k \in DOMAIN jobs : k # i => jobs'[k] = jobs[k]
<1>1. PICK i \in DOMAIN jobs : jobs' = [jobs EXCEPT ![i].state = "reaped", ![i].mail = "sent"]
  BY DEF Mailed
<1> DEFINE j == [jobs[i] EXCEPT !.state = "reaped", !.mail = "sent"]
<1>2. jobs \in Seq(Command) /\ jobs[i] \in Command  BY DEF CronTypeOK
<1>3. j \in Command /\ j.user = jobs[i].user /\ j.line = jobs[i].line /\ j.minute = jobs[i].minute
      /\ j.parent = jobs[i].parent /\ j.mail = "sent"
  BY <1>2 DEF Command
<1>4. jobs' = [jobs EXCEPT ![i] = j]  BY <1>1, <1>2
<1> HIDE DEF j
<1>5. Touched /\ \A k \in DOMAIN jobs : jobs'[k] = IF k = i THEN j ELSE jobs[k]
  BY <1>3, <1>4, OneTouched
<1> QED  BY <1>3, <1>5 DEF Mailed

LEMMA ForgetTouches ==
  ASSUME CronTypeOK, jobs # <<>>, jobs' = [jobs EXCEPT ![Len(jobs)].parent = "forgotten"],
         jobs[Len(jobs)].parent # "init"
  PROVE  /\ Touched
         /\ \A k \in DOMAIN jobs :
              jobs'[k] = jobs[k] \/ (jobs'[k].parent # "crond" /\ jobs'[k].state = jobs[k].state)
<1> DEFINE i == Len(jobs)
           j == [jobs[i] EXCEPT !.parent = "forgotten"]
<1>1. jobs \in Seq(Command) /\ i \in DOMAIN jobs /\ jobs[i] \in Command  BY DEF CronTypeOK
<1>2. j \in Command /\ j.user = jobs[i].user /\ j.line = jobs[i].line /\ j.minute = jobs[i].minute
      /\ j.parent = "forgotten" /\ j.state = jobs[i].state
  BY <1>1 DEF Command
<1>3. jobs' = [jobs EXCEPT ![i] = j]  OBVIOUS
<1> HIDE DEF i, j
<1>4. jobs[i].parent # "init"  BY DEF i
<1>5. Touched /\ \A k \in DOMAIN jobs : jobs'[k] = IF k = i THEN j ELSE jobs[k]
  BY <1>1, <1>2, <1>3, <1>4, OneTouched
<1> QED  BY <1>2, <1>5

LEMMA ReadTouches ==
  ASSUME CronTypeOK, ReadInput
  PROVE  /\ Touched
         /\ \A k \in DOMAIN jobs : jobs'[k].parent = jobs[k].parent /\ jobs'[k].state = jobs[k].state
                                   /\ jobs'[k].mail = jobs[k].mail
<1>1. PICK i \in DOMAIN jobs : jobs' = [jobs EXCEPT ![i].read = TRUE]  BY DEF ReadInput
<1> DEFINE j == [jobs[i] EXCEPT !.read = TRUE]
<1>2. jobs \in Seq(Command) /\ jobs[i] \in Command  BY DEF CronTypeOK
<1>3. j \in Command /\ j.user = jobs[i].user /\ j.line = jobs[i].line /\ j.minute = jobs[i].minute
      /\ j.parent = jobs[i].parent /\ j.mail = jobs[i].mail /\ j.state = jobs[i].state
  BY <1>2 DEF Command
<1>4. jobs' = [jobs EXCEPT ![i] = j]  BY <1>1
<1> HIDE DEF j
<1>5. Touched /\ \A k \in DOMAIN jobs : jobs'[k] = IF k = i THEN j ELSE jobs[k]
  BY <1>3, <1>4, OneTouched
<1> QED  BY <1>3, <1>5

LEMMA EndTouches ==
  ASSUME CronTypeOK, EndCommand
  PROVE  /\ Touched
         /\ \A k \in DOMAIN jobs :
              \/ jobs'[k] = jobs[k]
              \/ /\ jobs[k].state = "running" /\ jobs'[k].parent = jobs[k].parent
                 /\ jobs'[k].state = "reaped" => jobs[k].parent = "init"
<1>1. PICK i \in DOMAIN jobs :
        /\ jobs[i].state = "running"
        /\ SetState(i, IF jobs[i].parent = "init" THEN "reaped" ELSE "ended")
  BY DEF EndCommand
<1> DEFINE s == IF jobs[i].parent = "init" THEN "reaped" ELSE "ended"
           j == [jobs[i] EXCEPT !.state = s]
<1>2. jobs \in Seq(Command) /\ jobs[i] \in Command  BY DEF CronTypeOK
<1>3. s \in {"reaped", "ended"} /\ (s = "reaped" => jobs[i].parent = "init")  OBVIOUS
<1>4. jobs' = [jobs EXCEPT ![i] = j]  BY <1>1 DEF SetState
<1> HIDE DEF s
<1>5. j \in Command /\ j.user = jobs[i].user /\ j.line = jobs[i].line /\ j.minute = jobs[i].minute
      /\ j.parent = jobs[i].parent /\ j.state = s
  BY <1>2, <1>3 DEF Command
<1> HIDE DEF j
<1>6. Touched /\ \A k \in DOMAIN jobs : jobs'[k] = IF k = i THEN j ELSE jobs[k]
  BY <1>4, <1>5, OneTouched
<1> QED  BY <1>1, <1>3, <1>5, <1>6
LEMMA InputTouches ==
  ASSUME CronTypeOK, InputInv, InputWritten
  PROVE  /\ Touched /\ pc = "input" /\ pc' = "users" /\ failures' \in 0 .. MaxFail
         /\ \A k \in DOMAIN jobs :
              jobs'[k] = jobs[k] \/ (jobs'[k].parent # "crond" /\ jobs'[k].state = jobs[k].state)
<1>1. pc = "input" /\ pc' = "users" /\ failures' \in 0 .. MaxFail
  BY CronBounds DEF InputWritten, CronTypeOK, Fail, NoFail
<1>2. CASE UNCHANGED jobs  BY <1>1, <1>2, Unchanged
<1>3. CASE jobs' = [jobs EXCEPT ![Len(jobs)].parent = "forgotten"]
  BY <1>1, <1>3, ForgetTouches DEF InputInv
<1> QED  BY <1>2, <1>3 DEF InputWritten

-----------------------------------------------------------------------------
(* The type invariant.                                                     *)

LEMMA CronTypeInit ==
  ASSUME CronInit
  PROVE  CronTypeOK
<1>1. spool \in [Users -> Copies]  BY CronTexts DEF CronInit, Copies
<1>2. cmd \in [Crontab -> [asked : Requests, pc : {"start", "editor", "write", "rename", "done"}, copy : Copies]]
  BY DEF CronInit, Copies
<1>3. user \in Users  BY CronBounds DEF CronInit
<1>4. jobs \in Seq(Command)  BY DEF CronInit
<1>5. wallclock \in Minutes /\ failures \in 0 .. MaxFail /\ last \in Minutes
  BY CronBounds DEF CronInit, Minutes
<1>6. t \in 0 .. LastMinute + 1 /\ upto \in Minutes  BY CronBounds DEF CronInit, Minutes
<1>7. opt_s \in OptS /\ pc \in {"sleep", "minute"}  BY DEF CronInit
<1>9. jumped \in BOOLEAN /\ killed \subseteq MayKill  BY DEF CronInit
<1>8. skipped \subseteq Minutes /\ entries \subseteq Users /\ lines \subseteq Nat \X Line  BY DEF CronInit
<1> QED  BY <1>1, <1>2, <1>3, <1>4, <1>5, <1>6, <1>7, <1>8, <1>9 DEF CronTypeOK

LEMMA MatchingType ==
  ASSUME CronTypeOK, NEW u \in Users
  PROVE  Matching(u) \subseteq Nat \X Line
<1>1. CASE spool[u] = NoText  BY <1>1 DEF Matching
<1>2. CASE spool[u] # NoText
  <2>1. spool[u] \in Texts  BY <1>2 DEF CronTypeOK, Copies
  <2>2. spool[u].lines \in Seq(Line)  BY <2>1, TextFacts
  <2> QED  BY <1>2, <2>2 DEF Matching
<1> QED  BY <1>1, <1>2

LEMMA SetCmdType ==
  ASSUME CronTypeOK, NEW c \in Crontab, NEW p \in {"start", "editor", "write", "rename", "done"},
         NEW x \in Copies, SetCmd(c, p, x)
  PROVE  /\ cmd' \in [Crontab -> [asked : Requests, pc : {"start", "editor", "write", "rename", "done"},
                                  copy : Copies]]
         /\ \A d \in Crontab : /\ cmd'[d].asked = cmd[d].asked
                               /\ d # c => cmd'[d] = cmd[d]
                               /\ d = c => cmd'[d].pc = p /\ cmd'[d].copy = x
BY DEF CronTypeOK, SetCmd

\* A step of crontab: the command's next place, its copy, and what it does to the directory.
Installs(c, p, x) ==
  /\ SetCmd(c, p, x) /\ failures' \in 0 .. MaxFail
  /\ p \in {"editor", "write", "rename", "done"} /\ x \in Copies
  /\ p \in {"write", "rename"} => x \in Texts /\ x.valid
  /\ \/ spool' = spool
     \/ \E y \in Copies : /\ spool' = [spool EXCEPT ![cmd[c].asked.user] = y]
                          /\ y = NoText \/ (y \in Texts /\ y.valid)
  /\ UNCHANGED <<time, crond, jobs>> /\ killed' \subseteq MayKill
  /\ "crond" \in killed' <=> "crond" \in killed

LEMMA CrontabInstalls ==
  ASSUME CronTypeOK, SpoolInv, NEW c \in Crontab,
         Remove(c) \/ ReadEntry(c) \/ Check(c) \/ Write(c) \/ Install(c) \/ KillCrontab(c)
  PROVE  \E p \in {"editor", "write", "rename", "done"}, x \in Copies : Installs(c, p, x)
<1>1. NoText \in Copies /\ cmd[c].copy \in Copies /\ cmd[c].asked \in Requests /\ cmd[c].asked.user \in Users
  BY CronTexts DEF CronTypeOK, Copies
<1>2. failures \in 0 .. MaxFail /\ killed \subseteq MayKill /\ spool[cmd[c].asked.user] \in Copies
  BY <1>1 DEF CronTypeOK
<1>3. CASE Remove(c)
  <2>1. Installs(c, "done", NoText)  BY <1>1, <1>2, <1>3 DEF Remove, Installs
  <2> QED  BY <1>1, <2>1
<1>4. CASE ReadEntry(c)
  <2>1. Installs(c, "editor", spool[cmd[c].asked.user])  BY <1>1, <1>2, <1>4 DEF ReadEntry, Installs
  <2> QED  BY <1>2, <2>1
<1>5. CASE Check(c)
  <2>1. PICK x \in Texts : IF x.valid /\ x # cmd[c].copy THEN SetCmd(c, "write", x)
                                                         ELSE SetCmd(c, "done", NoText)
    BY <1>5 DEF Check
  <2>2. x \in Copies  BY DEF Copies
  <2>3. Installs(c, "write", x) \/ Installs(c, "done", NoText)
    BY <1>1, <1>2, <1>5, <2>1, <2>2 DEF Check, Installs
  <2> QED  BY <1>1, <2>2, <2>3
<1>6. CASE Write(c)
  <2>1. cmd[c].copy \in Texts /\ cmd[c].copy.valid  BY <1>6 DEF Write, SpoolInv
  <2>2. failures' \in 0 .. MaxFail  BY <1>2, <1>6, CronBounds DEF Write, Fail, NoFail
  <2>3. Installs(c, "rename", cmd[c].copy) \/ Installs(c, "done", NoText)
    BY <1>1, <1>2, <1>6, <2>1, <2>2 DEF Write, Installs, Aside
  <2> QED  BY <1>1, <2>3
<1>7. CASE Install(c)
  <2>1. cmd[c].copy \in Texts /\ cmd[c].copy.valid  BY <1>7 DEF Install, SpoolInv
  <2>2. Installs(c, "done", NoText)  BY <1>1, <1>2, <1>7, <2>1 DEF Install, Installs
  <2> QED  BY <1>1, <2>2
<1>8. CASE KillCrontab(c)
  <2>1. killed' \subseteq MayKill /\ ("crond" \in killed' <=> "crond" \in killed)
    BY <1>2, <1>8, CronBounds DEF KillCrontab
  <2>2. Installs(c, "done", NoText)  BY <1>1, <1>2, <1>8, <2>1 DEF KillCrontab, Installs
  <2> QED  BY <1>1, <2>2
<1> QED  BY <1>3, <1>4, <1>5, <1>6, <1>7, <1>8

LEMMA CronTypeStep ==
  ASSUME CronTypeOK, SpoolInv, TimeInv, InputInv, CronNext
  PROVE  CronTypeOK'
<1> USE DEF crond, minute, time
<1>1. CASE Wake \/ EndReap \/ Restart
  BY <1>1 DEF Wake, EndReap, Restart, Restarted, CronTypeOK
<1>2. CASE ReapCommand
  <2>1. jobs' \in Seq(Command) /\ pc' \in {"reap", "mail"} /\ failures' \in 0 .. MaxFail
    BY <1>2, ReapTouches DEF Touched
  <2> QED  BY <1>2, <2>1 DEF ReapCommand, CronTypeOK
<1>3. CASE Mailed
  <2>1. jobs' \in Seq(Command) /\ pc' = "reap"  BY <1>3, MailTouches DEF Touched
  <2> QED  BY <1>3, <2>1 DEF Mailed, CronTypeOK
<1>4. CASE CheckTime
  <2>1. /\ wallclock \in Minutes /\ last \in Minutes /\ t \in 0 .. LastMinute + 1 /\ upto \in Minutes
    BY DEF CronTypeOK
  <2>2. t' \in 0 .. LastMinute + 1 /\ upto' \in Minutes /\ pc' \in {"minute", "sleep"}
    BY <1>4, <2>1, CronBounds DEF CheckTime, From, Later, Minutes
  <2> QED  BY <1>4, <2>2 DEF CheckTime, CronTypeOK
<1>5. CASE OpenCrontabs
  <2>1. t \in Minutes /\ failures' \in 0 .. MaxFail
    BY <1>5, CronBounds DEF OpenCrontabs, CronTypeOK, Minutes, Fail, NoFail
  <2>2. entries' \subseteq Users /\ skipped' \subseteq Minutes
    BY <1>5, <2>1 DEF OpenCrontabs, CronTypeOK
  <2> QED  BY <1>5, <2>1, <2>2 DEF OpenCrontabs, CronTypeOK
<1>6. CASE ReadCrontab
  <2>1. t \in Minutes
    <3>1. t <= upto  BY <1>6 DEF ReadCrontab, TimeInv, Active, Reading
    <3> QED  BY <3>1, CronBounds DEF CronTypeOK, Minutes
  <2>2. failures' \in 0 .. MaxFail  BY <1>6, CronBounds DEF ReadCrontab, CronTypeOK, Fail, NoFail
  <2>3. PICK u \in entries : /\ entries' = entries \ {u} /\ user' = u
                             /\ \/ lines' = Matching(u) /\ UNCHANGED skipped
                                \/ UNCHANGED lines /\ skipped' = skipped \cup {t}
    BY <1>6 DEF ReadCrontab
  <2>4. u \in Users /\ Matching(u) \subseteq Nat \X Line  BY MatchingType DEF CronTypeOK
  <2>5. entries' \subseteq Users /\ user' \in Users /\ lines' \subseteq Nat \X Line /\ skipped' \subseteq Minutes
    BY <2>1, <2>3, <2>4 DEF CronTypeOK
  <2> QED  BY <1>6, <2>2, <2>5 DEF ReadCrontab, CronTypeOK
<1>7. CASE EndMinute
  <2>1. t' \in 0 .. LastMinute + 1
    <3>1. t <= upto  BY <1>7 DEF EndMinute, TimeInv, Active, Reading
    <3> QED  BY <1>7, <3>1, CronBounds DEF EndMinute, CronTypeOK, Minutes
  <2> QED  BY <1>7, <2>1 DEF EndMinute, CronTypeOK
<1>8. CASE EndMinutes
  <2>1. t' \in 0 .. LastMinute + 1 /\ upto' \in Minutes /\ last' \in Minutes
    BY <1>8, CronBounds DEF EndMinutes, CronTypeOK, Minutes
  <2>2. pc' \in {"reap", "sleep"}  BY <1>8 DEF EndMinutes
  <2> QED  BY <1>8, <2>1, <2>2 DEF EndMinutes, CronTypeOK
<1>9. CASE Run
  <2>1. t \in Minutes
    <3>1. t <= upto  BY <1>9 DEF Run, TimeInv, Active, Reading
    <3> QED  BY <3>1, CronBounds DEF CronTypeOK, Minutes
  <2>2. failures' \in 0 .. MaxFail  BY <1>9, CronBounds DEF Run, CronTypeOK, Fail, NoFail
  <2>3. PICK x \in lines :
          /\ lines' = lines \ {x}
          /\ \/ jobs' = Append(jobs, Job(user, x[2], t)) /\ pc' = "input"
             \/ jobs' = Append(jobs, [Job(user, x[2], t) EXCEPT !.state = "failed"]) /\ UNCHANGED pc
    BY <1>9 DEF Run
  <2>4. x[2] \in Line /\ user \in Users  BY DEF CronTypeOK
  <2>5. Job(user, x[2], t) \in Command /\ [Job(user, x[2], t) EXCEPT !.state = "failed"] \in Command
    BY <2>1, <2>4 DEF Job, Command
  <2>6. jobs' \in Seq(Command)
    <3>1. \A j \in Command : Append(jobs, j) \in Seq(Command)  BY DEF CronTypeOK
    <3> QED  BY <2>3, <2>5, <3>1
  <2>8. lines' \subseteq Nat \X Line  BY <2>3 DEF CronTypeOK
  <2>7. pc' \in {"input", "users"}  BY <1>9, <2>3 DEF Run
  <2> QED  BY <1>9, <2>2, <2>6, <2>7, <2>8 DEF Run, CronTypeOK
<1>10. CASE InputWritten
  <2>1. jobs' \in Seq(Command) /\ pc' = "users" /\ failures' \in 0 .. MaxFail
    BY <1>10, InputTouches DEF Touched
  <2> QED  BY <1>10, <2>1 DEF InputWritten, CronTypeOK
<1>11. CASE CrontabStep \/ \E c \in Crontab : KillCrontab(c)
  <2>1. PICK c \in Crontab, p \in {"editor", "write", "rename", "done"}, x \in Copies : Installs(c, p, x)
    BY <1>11, CrontabInstalls DEF CrontabStep
  <2>2. cmd' \in [Crontab -> [asked : Requests, pc : {"start", "editor", "write", "rename", "done"}, copy : Copies]]
    BY <2>1, SetCmdType DEF Installs
  <2>3. spool' \in [Users -> Copies]  BY <2>1 DEF Installs, CronTypeOK
  <2> QED  BY <2>1, <2>2, <2>3 DEF Installs, CronTypeOK
<1>12. CASE KillCrond
  <2>1. jobs' \in Seq(Command)
    <3>1. jobs \in Seq(Command)  BY DEF CronTypeOK
    <3> DEFINE dead(j) == [j EXCEPT !.parent = "init",
                                    !.state = IF j.state \in {"running", "failed"} THEN @ ELSE "reaped"]
    <3>2. \A j \in Command : dead(j) \in Command  BY DEF Command
    <3>3. jobs' = [i \in DOMAIN jobs |-> dead(jobs[i])]  BY <1>12 DEF KillCrond
    <3> HIDE DEF dead
    <3>4. DOMAIN jobs = 1 .. Len(jobs) /\ \A i \in 1 .. Len(jobs) : jobs[i] \in Command  BY <3>1
    <3>5. \A i \in 1 .. Len(jobs) : dead(jobs[i]) \in Command  BY <3>2, <3>4
    <3> QED  BY <3>1, <3>3, <3>4, <3>5
  <2>2. killed' \subseteq MayKill /\ pc' = "down"  BY <1>12 DEF KillCrond, CronTypeOK
  <2>3. t' = 0 /\ upto' = 0 /\ entries' = {} /\ lines' = {}  BY <1>12 DEF KillCrond
  <2>4. t' \in 0 .. LastMinute + 1 /\ upto' \in Minutes  BY <2>3, CronBounds DEF Minutes
  <2> QED  BY <1>12, <2>1, <2>2, <2>3, <2>4 DEF KillCrond, CronTypeOK
<1>13. CASE ReadInput
  <2>1. jobs' \in Seq(Command)  BY <1>13, ReadTouches DEF Touched
  <2> QED  BY <1>13, <2>1 DEF ReadInput, CronTypeOK
<1>14. CASE EndCommand
  <2>1. jobs' \in Seq(Command)  BY <1>14, EndTouches DEF Touched
  <2> QED  BY <1>14, <2>1 DEF EndCommand, CronTypeOK
<1>15. CASE CronTick \/ SetBack
  <2>1. wallclock' \in Minutes
    BY <1>15, CronBounds DEF CronTick, SetBack, CronTypeOK, Minutes
  <2>2. jumped' \in BOOLEAN  BY <1>15 DEF CronTick, SetBack, CronTypeOK
  <2> QED  BY <1>15, <2>1, <2>2 DEF CronTick, SetBack, CronTypeOK
<1> QED
  BY <1>1, <1>2, <1>3, <1>4, <1>5, <1>6, <1>7, <1>8, <1>9, <1>10, <1>11, <1>12, <1>13, <1>14, <1>15
  DEF CronNext, CronDaemon
-----------------------------------------------------------------------------
(* The directory, the clock, the lines left.                               *)

LEMMA SameSteady ==
  ASSUME CronTypeOK, \A d \in Crontab : cmd'[d].asked = cmd[d].asked
  PROVE  Steady' = Steady
BY DEF Steady

LEMMA SpoolInit ==
  ASSUME CronInit
  PROVE  SpoolInv
<1>1. \A u \in Users : spool[u] # NoText => spool[u].valid  BY CronTexts DEF CronInit
<1>2. \A c \in Crontab : cmd[c].pc = "start"  BY DEF CronInit
<1> QED  BY <1>1, <1>2 DEF CronInit, SpoolInv, Steady

LEMMA SpoolFrame ==
  ASSUME SpoolInv, UNCHANGED <<spool, cmd>>
  PROVE  SpoolInv'
BY DEF SpoolInv, Steady

LEMMA SpoolStep ==
  ASSUME CronTypeOK, SpoolInv, CronNext
  PROVE  SpoolInv'
<1>1. CASE CrontabStep \/ \E c \in Crontab : KillCrontab(c)
  <2>1. PICK c \in Crontab, p \in {"editor", "write", "rename", "done"}, x \in Copies : Installs(c, p, x)
    BY <1>1, CrontabInstalls DEF CrontabStep
  <2>2. \A d \in Crontab : /\ cmd'[d].asked = cmd[d].asked
                           /\ d # c => cmd'[d] = cmd[d]
                           /\ d = c => cmd'[d].pc = p /\ cmd'[d].copy = x
    BY <2>1, SetCmdType DEF Installs
  <2>3. Steady' = Steady  BY <2>2, SameSteady
  <2>4. spool \in [Users -> Copies]  BY DEF CronTypeOK
  <2>5. \A u \in Users : spool'[u] # NoText => spool'[u].valid
    BY <2>1, <2>4 DEF Installs, SpoolInv
  <2>6. \A d \in Crontab : cmd'[d].pc \in {"write", "rename"} => cmd'[d].copy \in Texts /\ cmd'[d].copy.valid
    BY <2>1, <2>2 DEF Installs, SpoolInv
  <2>7. \A u \in Steady : spool'[u] = Table[u]
    <3> SUFFICES ASSUME NEW u \in Steady PROVE spool'[u] = Table[u]  OBVIOUS
    <3>1. u \in Users /\ cmd[c].asked.user # u /\ spool[u] = Table[u]  BY DEF Steady, SpoolInv
    <3> QED  BY <2>1, <2>4, <3>1 DEF Installs
  <2> QED  BY <2>3, <2>5, <2>6, <2>7 DEF SpoolInv
<1>2. CASE CronDaemon
  <2>1. UNCHANGED <<spool, cmd>>
    BY <1>2 DEF CronDaemon, Wake, ReapCommand, EndReap, CheckTime, OpenCrontabs, ReadCrontab, EndMinute,
                EndMinutes, Run, InputWritten
  <2> QED  BY <2>1, SpoolFrame
<1>3. CASE Mailed \/ KillCrond \/ Restart \/ ReadInput \/ EndCommand \/ CronTick \/ SetBack
  <2>1. UNCHANGED <<spool, cmd>>
    BY <1>3 DEF Mailed, KillCrond, Restart, ReadInput, EndCommand, CronTick, SetBack
  <2> QED  BY <2>1, SpoolFrame
<1> QED  BY <1>1, <1>2, <1>3 DEF CronNext

LEMMA TimeInit ==
  ASSUME CronInit
  PROVE  TimeInv
BY CronBounds DEF CronInit, TimeInv, Active, Reading, Minutes

LEMMA TimeStep ==
  ASSUME CronTypeOK, SpoolInv, TimeInv, InputInv, CronNext
  PROVE  TimeInv'
<1> USE DEF crond, minute, time
<1>0. /\ wallclock \in Nat /\ last \in Nat /\ t \in Nat /\ upto \in Nat
  BY CronBounds DEF CronTypeOK, Minutes
<1>1. CASE Wake \/ EndReap \/ Restart
  BY <1>0, <1>1 DEF Wake, EndReap, Restart, Restarted, TimeInv, Active, Reading
<1>2. CASE ReapCommand
  <2>1. pc = "reap" /\ pc' \in {"reap", "mail"}  BY <1>2, ReapTouches
  <2> QED  BY <1>0, <1>2, <2>1 DEF ReapCommand, TimeInv, Active, Reading
<1>3. CASE Mailed  BY <1>3 DEF Mailed, TimeInv, Active, Reading
<1>4. CASE CheckTime
  <2>1. (last < t' /\ t' <= upto' + 1 /\ upto' = wallclock) \/ pc' = "sleep"
    BY <1>0, <1>4, CronBounds DEF CheckTime, From, Later
  <2>2. pc' \in {"minute", "sleep"} /\ pc = "check"  BY <1>4 DEF CheckTime
  <2> QED  BY <1>0, <1>4, <2>1, <2>2 DEF CheckTime, TimeInv, Active, Reading
<1>5. CASE OpenCrontabs \/ ReadCrontab
  BY <1>0, <1>5 DEF OpenCrontabs, ReadCrontab, TimeInv, Active, Reading
<1>6. CASE EndMinute \/ EndMinutes
  BY <1>0, <1>6 DEF EndMinute, EndMinutes, TimeInv, Active, Reading
<1>7. CASE Run
  <2>1. pc = "users" /\ pc' \in {"users", "input"}  BY <1>7 DEF Run
  <2> QED  BY <1>7, <2>1 DEF Run, TimeInv, Active, Reading
<1>8. CASE InputWritten  BY <1>8 DEF InputWritten, TimeInv, Active, Reading
<1>9. CASE CrontabStep \/ \E c \in Crontab : KillCrontab(c)
  <2>1. PICK c \in Crontab, p \in {"editor", "write", "rename", "done"}, x \in Copies : Installs(c, p, x)
    BY <1>9, CrontabInstalls DEF CrontabStep
  <2> QED  BY <2>1 DEF Installs, TimeInv, Active, Reading
<1>10. CASE KillCrond  BY <1>0, <1>10 DEF KillCrond, TimeInv, Active, Reading
<1>11. CASE ReadInput \/ EndCommand  BY <1>11 DEF ReadInput, EndCommand, TimeInv, Active, Reading
<1>12. CASE CronTick  BY <1>0, <1>12 DEF CronTick, TimeInv, Active, Reading
<1>13. CASE SetBack  BY <1>0, <1>13 DEF SetBack, TimeInv, Active, Reading
<1> QED
  BY <1>1, <1>2, <1>3, <1>4, <1>5, <1>6, <1>7, <1>8, <1>9, <1>10, <1>11, <1>12, <1>13
  DEF CronNext, CronDaemon
-----------------------------------------------------------------------------
(* The steps that crond's loop takes, and the others: those change neither *)
(* what was started nor what is being read.                                *)

Moves ==
  CheckTime \/ OpenCrontabs \/ ReadCrontab \/ EndMinute \/ EndMinutes \/ Run \/ KillCrond \/ Restart

Frame ==
  /\ Touched /\ Steady' = Steady
  /\ Active' <=> Active
  /\ Reading' <=> Reading
  /\ pc' = "down" <=> pc = "down"
  /\ pc' = "input" => pc = "input"
  /\ UNCHANGED <<opt_s, last, minute>>
  /\ pc = "down" => wallclock <= wallclock'

LEMMA StepKinds ==
  ASSUME CronTypeOK, SpoolInv, TimeInv, InputInv, CronNext
  PROVE  Frame \/ Moves
<1> USE DEF crond, minute, time
<1>0. wallclock \in Nat  BY CronBounds DEF CronTypeOK, Minutes
<1>1. CASE UNCHANGED cmd
  <2>1. Steady' = Steady  BY <1>1 DEF Steady
  <2>2. CASE Wake \/ EndReap
    <3>1. Touched  BY <2>2, Unchanged DEF Wake, EndReap
    <3> QED  BY <1>0, <2>1, <2>2, <3>1 DEF Wake, EndReap, Frame, Active, Reading
  <2>3. CASE ReapCommand
    <3>1. Touched /\ pc = "reap" /\ pc' \in {"reap", "mail"}  BY <2>3, ReapTouches
    <3> QED  BY <1>0, <2>1, <2>3, <3>1 DEF ReapCommand, Frame, Active, Reading
  <2>4. CASE Mailed
    <3>1. Touched /\ pc = "mail" /\ pc' = "reap"  BY <2>4, MailTouches
    <3> QED  BY <1>0, <2>1, <2>4, <3>1 DEF Mailed, Frame, Active, Reading
  <2>5. CASE InputWritten
    <3>1. Touched /\ pc = "input" /\ pc' = "users"  BY <2>5, InputTouches
    <3> QED  BY <1>0, <2>1, <2>5, <3>1 DEF InputWritten, Frame, Active, Reading
  <2>6. CASE ReadInput
    <3>1. Touched  BY <2>6, ReadTouches
    <3> QED  BY <1>0, <2>1, <2>6, <3>1 DEF ReadInput, Frame, Active, Reading
  <2>7. CASE EndCommand
    <3>1. Touched  BY <2>7, EndTouches
    <3> QED  BY <1>0, <2>1, <2>7, <3>1 DEF EndCommand, Frame, Active, Reading
  <2>8. CASE CronTick
    <3>1. Touched  BY <2>8, Unchanged DEF CronTick
    <3> QED  BY <1>0, <2>1, <2>8, <3>1 DEF CronTick, Frame, Active, Reading
  <2>9. CASE SetBack
    <3>1. Touched  BY <2>9, Unchanged DEF SetBack
    <3>2. pc # "down"  BY <2>9 DEF SetBack, TimeInv
    <3> QED  BY <2>1, <2>9, <3>1, <3>2 DEF SetBack, Frame, Active, Reading
  <2>10. CASE CrontabStep \/ \E c \in Crontab : KillCrontab(c)
    <3>1. PICK c \in Crontab, p \in {"editor", "write", "rename", "done"}, x \in Copies : Installs(c, p, x)
      BY <2>10, CrontabInstalls DEF CrontabStep
    <3>2. Touched  BY <3>1, Unchanged DEF Installs
    <3> QED  BY <1>0, <2>1, <3>1, <3>2 DEF Installs, Frame, Active, Reading
  <2> QED
    BY <2>2, <2>3, <2>4, <2>5, <2>6, <2>7, <2>8, <2>9, <2>10 DEF CronNext, CronDaemon, Moves
<1>2. CASE CrontabStep \/ \E c \in Crontab : KillCrontab(c)
  <2>1. PICK c \in Crontab, p \in {"editor", "write", "rename", "done"}, x \in Copies : Installs(c, p, x)
    BY <1>2, CrontabInstalls DEF CrontabStep
  <2>2. \A d \in Crontab : cmd'[d].asked = cmd[d].asked  BY <2>1, SetCmdType DEF Installs
  <2>3. Steady' = Steady  BY <2>2, SameSteady
  <2>4. Touched  BY <2>1, Unchanged DEF Installs
  <2> QED  BY <1>0, <2>1, <2>3, <2>4 DEF Installs, Frame, Active, Reading
<1>3. CASE CronDaemon
  <2>1. UNCHANGED cmd
    BY <1>3 DEF CronDaemon, Wake, ReapCommand, EndReap, CheckTime, OpenCrontabs, ReadCrontab, EndMinute,
                EndMinutes, Run, InputWritten
  <2> QED  BY <1>1, <2>1
<1>4. CASE Mailed \/ KillCrond \/ Restart \/ ReadInput \/ EndCommand \/ CronTick \/ SetBack
  <2>1. UNCHANGED cmd
    BY <1>4 DEF Mailed, KillCrond, Restart, ReadInput, EndCommand, CronTick, SetBack
  <2> QED  BY <1>1, <2>1
<1> QED  BY <1>2, <1>3, <1>4 DEF CronNext

\* A step of crond's loop but Run and KillCrond starts nothing and ends nothing.
LEMMA MovesSame ==
  ASSUME CronTypeOK, Moves
  PROVE  /\ Steady' = Steady
         /\ Run \/ KillCrond \/ (jobs' = jobs /\ Touched)
<1>1. UNCHANGED cmd
  BY DEF Moves, CheckTime, OpenCrontabs, ReadCrontab, EndMinute, EndMinutes, Run, KillCrond, Restart
<1>2. Run \/ KillCrond \/ jobs' = jobs
  BY DEF Moves, CheckTime, OpenCrontabs, ReadCrontab, EndMinute, EndMinutes, Restart
<1> QED  BY <1>1, <1>2, Unchanged DEF Steady

\* The lines of the crontab that is opened, numbered, differ.
LEMMA MatchingFacts ==
  ASSUME CronTypeOK, NEW u \in Users
  PROVE  /\ \A x, y \in Matching(u) : x[2] = y[2] => x = y
         /\ spool[u] = NoText => {x[2] : x \in Matching(u)} = {}
         /\ spool[u] # NoText => spool[u] \in Texts /\ {x[2] : x \in Matching(u)} = Of(spool[u], t)
<1>1. CASE spool[u] = NoText  BY <1>1 DEF Matching
<1>2. CASE spool[u] # NoText
  <2>1. spool[u] \in Texts  BY <1>2 DEF CronTypeOK, Copies
  <2> DEFINE ls == spool[u].lines
  <2>2. ls \in Seq(Line) /\ IsInjective(ls)  BY <2>1, TextFacts
  <2>3. Matching(u) = {<<i, ls[i]>> : i \in {k \in DOMAIN ls : t \in ls[k].at}}
    BY <1>2 DEF Matching
  <2>4. Of(spool[u], t) = {l \in {ls[k] : k \in DOMAIN ls} : t \in l.at}  BY DEF Of, Range
  <2> HIDE DEF ls
  <2>5. \A x, y \in Matching(u) : x[2] = y[2] => x = y
    BY <2>2, <2>3 DEF IsInjective
  <2>6. {x[2] : x \in Matching(u)} = {l \in {ls[k] : k \in DOMAIN ls} : t \in l.at}
    <3>1. ASSUME NEW x \in Matching(u) PROVE x[2] \in {l \in {ls[k] : k \in DOMAIN ls} : t \in l.at}
      BY <2>3
    <3>2. ASSUME NEW k \in DOMAIN ls, t \in ls[k].at PROVE ls[k] \in {x[2] : x \in Matching(u)}
      <4>1. <<k, ls[k]>> \in Matching(u) /\ <<k, ls[k]>>[2] = ls[k]  BY <2>3, <3>2
      <4> QED  BY <4>1
    <3> QED  BY <3>1, <3>2
  <2> QED  BY <1>2, <2>1, <2>4, <2>5, <2>6
<1> QED  BY <1>1, <1>2

LEMMA LinesStep ==
  ASSUME CronTypeOK, SpoolInv, TimeInv, LinesInv, InputInv, CronNext
  PROVE  LinesInv' /\ InputInv'
<1> USE DEF crond, minute, time
<1>1. CASE Frame
  <2>1. LinesInv'  BY <1>1 DEF Frame, LinesInv
  <2>2. ASSUME pc' = "input" PROVE jobs' # <<>> /\ jobs'[Len(jobs')].parent # "init"
    <3>1. jobs # <<>> /\ jobs[Len(jobs)].parent # "init"  BY <1>1, <2>2 DEF Frame, InputInv
    <3>2. jobs \in Seq(Command) /\ Touched  BY <1>1 DEF CronTypeOK, Frame
    <3>3. Len(jobs) \in DOMAIN jobs  BY <3>1, <3>2
    <3>4. jobs' \in Seq(Command) /\ Len(jobs') = Len(jobs)  BY <3>2 DEF Touched
    <3>5. jobs' # <<>>  BY <3>1, <3>2, <3>4
    <3>6. jobs'[Len(jobs)].parent # "init"  BY <3>1, <3>2, <3>3 DEF Touched
    <3> QED  BY <3>4, <3>5, <3>6
  <2> QED  BY <2>1, <2>2 DEF InputInv
<1>2. CASE CheckTime \/ OpenCrontabs \/ EndMinute \/ EndMinutes \/ KillCrond \/ Restart
  <2>1. lines' = {} /\ pc' # "input"
    BY <1>2 DEF CheckTime, OpenCrontabs, EndMinute, EndMinutes, KillCrond, Restart, LinesInv, Reading
  <2> QED  BY <2>1 DEF LinesInv, InputInv
<1>3. CASE ReadCrontab
  <2>1. PICK u \in entries : /\ entries' = entries \ {u} /\ user' = u
                             /\ lines' = Matching(u) \/ UNCHANGED lines
    BY <1>3 DEF ReadCrontab
  <2>2. \A x, y \in Matching(u) : x[2] = y[2] => x = y  BY MatchingFacts DEF CronTypeOK
  <2>3. pc' = "users" /\ pc = "users" /\ lines = {}  BY <1>3 DEF ReadCrontab
  <2> QED  BY <2>1, <2>2, <2>3 DEF LinesInv, InputInv, Reading
<1>4. CASE Run
  <2>1. PICK x \in lines :
          /\ lines' = lines \ {x}
          /\ \/ jobs' = Append(jobs, Job(user, x[2], t)) /\ pc' = "input"
             \/ UNCHANGED pc
    BY <1>4 DEF Run
  <2>2. pc = "users" /\ UNCHANGED <<user, entries>>  BY <1>4 DEF Run
  <2>3. LinesInv'  BY <2>1, <2>2 DEF LinesInv, Reading
  <2>4. ASSUME pc' = "input" PROVE jobs' # <<>> /\ jobs'[Len(jobs')].parent # "init"
    <3>1. jobs' = Append(jobs, Job(user, x[2], t)) /\ jobs \in Seq(Command)  BY <2>1, <2>2, <2>4 DEF CronTypeOK
    <3> DEFINE j == Job(user, x[2], t)
    <3>2. j.parent = "crond"  BY DEF Job
    <3> HIDE DEF j
    <3>3. jobs' # <<>> /\ jobs'[Len(jobs')] = j  BY <3>1 DEF j
    <3> QED  BY <3>2, <3>3
  <2> QED  BY <2>3, <2>4 DEF InputInv
<1> QED  BY <1>1, <1>2, <1>3, <1>4, StepKinds DEF Moves
\* Run: which line, as which command, at which place.
Starts(x, j, n) ==
  /\ x \in lines /\ lines' = lines \ {x}
  /\ j \in Command /\ j.user = user /\ j.line = x[2] /\ j.minute = t /\ j.parent = "crond"
  /\ j.state \in {"running", "failed"}
  /\ n \notin DOMAIN jobs /\ DOMAIN jobs' = DOMAIN jobs \cup {n}
  /\ jobs'[n] = j /\ \A k \in DOMAIN jobs : jobs'[k] = jobs[k]
  /\ pc = "users" /\ pc' \in {"users", "input"}
  /\ Steady' = Steady
  /\ UNCHANGED <<wallclock, jumped, opt_s, last, t, upto, entries, user, skipped>>

LEMMA RunStarts ==
  ASSUME CronTypeOK, TimeInv, Run
  PROVE  \E x \in lines, j \in Command, n \in Nat : Starts(x, j, n)
<1>1. PICK x \in lines :
        /\ lines' = lines \ {x}
        /\ \/ jobs' = Append(jobs, Job(user, x[2], t)) /\ pc' = "input"
           \/ jobs' = Append(jobs, [Job(user, x[2], t) EXCEPT !.state = "failed"]) /\ UNCHANGED pc
  BY DEF Run
<1>2. t \in Minutes
  <2>1. t <= upto  BY DEF Run, TimeInv, Active, Reading
  <2> QED  BY <2>1, CronBounds DEF CronTypeOK, Minutes
<1>3. x[2] \in Line /\ user \in Users  BY DEF CronTypeOK
<1>4. PICK j \in Command : /\ j.user = user /\ j.line = x[2] /\ j.minute = t /\ j.parent = "crond"
                           /\ j.state \in {"running", "failed"}
                           /\ jobs' = Append(jobs, j)
  <2> DEFINE j1 == Job(user, x[2], t)
             j2 == [j1 EXCEPT !.state = "failed"]
  <2>1. j1 \in Command /\ j1.user = user /\ j1.line = x[2] /\ j1.minute = t /\ j1.parent = "crond"
        /\ j1.state = "running"
    BY <1>2, <1>3 DEF Job, Command
  <2>2. j2 \in Command /\ j2.user = user /\ j2.line = x[2] /\ j2.minute = t /\ j2.parent = "crond"
        /\ j2.state = "failed"
    BY <1>2, <1>3 DEF Job, Command
  <2>3. jobs' = Append(jobs, j1) \/ jobs' = Append(jobs, j2)  BY <1>1
  <2> HIDE DEF j1, j2
  <2> QED  BY <2>1, <2>2, <2>3
<1>5. jobs \in Seq(Command)  BY DEF CronTypeOK
<1> DEFINE n == Len(jobs) + 1
<1>6. n \in Nat /\ n \notin DOMAIN jobs /\ DOMAIN jobs' = DOMAIN jobs \cup {n}  BY <1>4, <1>5
<1>7. jobs'[n] = j /\ \A k \in DOMAIN jobs : jobs'[k] = jobs[k]  BY <1>4, <1>5
<1>8. pc = "users" /\ pc' \in {"users", "input"}  BY <1>1 DEF Run
<1>9. Steady' = Steady  BY DEF Steady, Run
<1>10. UNCHANGED <<wallclock, jumped, opt_s, last, t, upto, entries, user, skipped>>  BY DEF Run, time
<1> HIDE DEF n
<1>11. Starts(x, j, n)  BY <1>1, <1>4, <1>6, <1>7, <1>8, <1>9, <1>10 DEF Starts
<1> QED  BY <1>6, <1>11

-----------------------------------------------------------------------------
(* What was started: no line twice for a minute.                           *)

LEMMA RunStep ==
  ASSUME CronTypeOK, SpoolInv, TimeInv, LinesInv, InputInv, RunInv, CronNext
  PROVE  RunInv'
<1> USE DEF crond, minute, time
<1>0. /\ wallclock \in Nat /\ last \in Nat /\ t \in Nat /\ upto \in Nat
      /\ \A i \in DOMAIN jobs : jobs[i].minute \in Nat /\ jobs[i].user \in Users
  <2>1. \A i \in DOMAIN jobs : jobs[i] \in Command  BY DEF CronTypeOK
  <2>2. \A i \in DOMAIN jobs : jobs[i].minute \in Nat /\ jobs[i].user \in Users
    BY <2>1, CronBounds DEF Command, Minutes
  <2> QED  BY <2>2, CronBounds DEF CronTypeOK, Minutes
<1>1. CASE Frame
  <2> SUFFICES ASSUME NEW i \in DOMAIN jobs' PROVE StartedBefore(i)'  BY DEF RunInv
  <2>1. i \in DOMAIN jobs  BY <1>1, SameJobs DEF Frame
  <2>2. StartedBefore(i)  BY <2>1 DEF RunInv
  <2>3. wallclock' \in Nat \/ pc # "down"
    <3>1. CronTypeOK'  BY CronTypeStep
    <3> QED  BY <3>1, CronBounds DEF CronTypeOK, Minutes
  <2>4. /\ jobs'[i].user = jobs[i].user /\ jobs'[i].line = jobs[i].line
        /\ jobs'[i].minute = jobs[i].minute
        /\ jobs'[i].parent = "init" <=> jobs[i].parent = "init"
    BY <1>1, <2>1 DEF Frame, Touched
  <2>5. jobs'[i].minute <= wallclock' \/ pc' # "down"
    BY <1>0, <1>1, <2>1, <2>2, <2>3, <2>4 DEF Frame, StartedBefore
  <2> QED  BY <1>1, <2>2, <2>4, <2>5 DEF Frame, StartedBefore
<1>2. ASSUME Moves, jobs' = jobs, NEW i \in DOMAIN jobs PROVE StartedBefore(i)'
  <2>0. StartedBefore(i) /\ jobs[i].minute \in Nat  BY <1>0 DEF RunInv
  <2>1. CASE CheckTime
    <3>1. jobs[i].minute <= last  BY <2>0, <2>1 DEF CheckTime, StartedBefore, Active
    <3>2. last < t' \/ pc' = "sleep"  BY <1>0, <2>1, CronBounds DEF CheckTime, From, Later
    <3>3. t' \in Nat  BY <1>0, <2>1, CronBounds DEF CheckTime, From, Later
    <3>4. pc' \in {"minute", "sleep"} /\ last' = last  BY <2>1 DEF CheckTime
    <3> QED  BY <1>0, <1>2, <2>0, <3>1, <3>2, <3>3, <3>4 DEF StartedBefore, Active
  <2>2. CASE OpenCrontabs
    <3>1. jobs[i].minute <= t /\ jobs[i].minute # t
      BY <2>0, <2>2 DEF OpenCrontabs, StartedBefore, Active, Reading
    <3>2. pc' = "users" /\ t' = t  BY <2>2 DEF OpenCrontabs
    <3> QED  BY <1>2, <3>1, <3>2 DEF StartedBefore, Active
  <2>3. CASE ReadCrontab
    <3>1. PICK u \in entries : entries' = entries \ {u} /\ user' = u  BY <2>3 DEF ReadCrontab
    <3>2. pc = "users" /\ pc' = "users" /\ t' = t  BY <2>3 DEF ReadCrontab
    <3> QED  BY <1>2, <2>0, <3>1, <3>2 DEF StartedBefore, Active, Reading
  <2>4. CASE EndMinute
    <3>1. jobs[i].minute <= t /\ t' = t + 1 /\ pc' = "minute"
      BY <2>0, <2>4 DEF EndMinute, StartedBefore, Active
    <3> QED  BY <1>0, <1>2, <2>0, <3>1 DEF StartedBefore, Active
  <2>5. CASE EndMinutes
    <3>1. jobs[i].minute <= t /\ jobs[i].minute # t
      BY <2>0, <2>5 DEF EndMinutes, StartedBefore, Active, Reading
    <3>2. t <= upto + 1  BY <2>5 DEF EndMinutes, TimeInv, Active
    <3>3. last' = upto /\ pc' \in {"reap", "sleep"}  BY <2>5 DEF EndMinutes
    <3> QED  BY <1>0, <1>2, <2>0, <3>1, <3>2, <3>3 DEF StartedBefore, Active
  <2>6. CASE Restart
    BY <1>2, <2>0, <2>6 DEF Restart, Restarted, StartedBefore, Active
  <2>7. CASE Run
    <3>1. Len(jobs') = Len(jobs) + 1  BY <2>7 DEF Run, CronTypeOK
    <3> QED  BY <1>2, <3>1 DEF CronTypeOK
  <2>8. CASE KillCrond
    <3>1. (t <= upto + 1 /\ (Reading => t <= upto)) \/ ~Active  BY <2>8 DEF TimeInv
    <3>2. last <= wallclock /\ (Active => upto <= wallclock) /\ pc # "down"
      BY <2>8 DEF KillCrond, TimeInv
    <3>3. Active /\ jobs[i].minute = t => Reading  BY <2>0 DEF StartedBefore
    <3>4. jobs[i].minute <= wallclock  BY <1>0, <2>0, <3>1, <3>2, <3>3 DEF StartedBefore
    <3> QED  BY <1>2, <2>8, <3>4 DEF KillCrond, StartedBefore, Active
  <2> QED  BY <1>2, <2>1, <2>2, <2>3, <2>4, <2>5, <2>6, <2>7, <2>8 DEF Moves
<1>3. CASE Run
  <2>1. PICK x \in lines, j \in Command, n \in Nat : Starts(x, j, n)  BY <1>3, RunStarts
  <2> SUFFICES ASSUME NEW i \in DOMAIN jobs' PROVE StartedBefore(i)'  BY DEF RunInv
  <2>2. CASE i = n
    <3>1. user \notin entries /\ \A y \in lines : y[2] = x[2] => y = x  BY DEF LinesInv
    <3> QED  BY <1>0, <2>1, <2>2, <3>1 DEF Starts, StartedBefore, Active, Reading
  <2>3. CASE i \in DOMAIN jobs
    <3>1. StartedBefore(i) /\ jobs'[i] = jobs[i]  BY <2>1, <2>3 DEF RunInv, Starts
    <3> QED  BY <2>1, <3>1 DEF Starts, StartedBefore, Active, Reading
  <2> QED  BY <2>1, <2>2, <2>3 DEF Starts
<1>4. CASE KillCrond
  <2> SUFFICES ASSUME NEW i \in DOMAIN jobs' PROVE StartedBefore(i)'  BY DEF RunInv
  <2>1. i \in DOMAIN jobs  BY <1>4 DEF KillCrond
  <2>2. StartedBefore(i) /\ jobs[i].minute \in Nat  BY <1>0, <2>1 DEF RunInv
  <2>3. (t <= upto + 1 /\ (Reading => t <= upto)) \/ ~Active  BY DEF TimeInv
  <2>4. last <= wallclock /\ (Active => upto <= wallclock) /\ pc # "down"
    BY <1>4 DEF KillCrond, TimeInv
  <2>5. Active /\ jobs[i].minute = t => Reading  BY <2>2 DEF StartedBefore
  <2>6. jobs[i].minute <= wallclock  BY <1>0, <2>2, <2>3, <2>4, <2>5 DEF StartedBefore
  <2>7. jobs[i] \in Command  BY <2>1 DEF CronTypeOK
  <2>8. jobs'[i].minute = jobs[i].minute  BY <1>4, <2>1, <2>7 DEF KillCrond, Command
  <2>9. pc' = "down" /\ wallclock' = wallclock  BY <1>4 DEF KillCrond
  <2> QED  BY <2>6, <2>8, <2>9 DEF StartedBefore, Active
<1>5. CASE Moves /\ jobs' = jobs  BY <1>2, <1>5 DEF RunInv
<1> QED  BY <1>1, <1>3, <1>4, <1>5, StepKinds, MovesSame

LEMMA OnceStep ==
  ASSUME CronTypeOK, SpoolInv, TimeInv, LinesInv, InputInv, RunInv, LineOnce, CronNext
  PROVE  LineOnce'
<1>1. ASSUME DOMAIN jobs' = DOMAIN jobs, \A i \in DOMAIN jobs : Started(i)' = Started(i)
      PROVE  LineOnce'
  BY <1>1 DEF LineOnce
<1>2. CASE Touched
  BY <1>1, <1>2, SameJobs DEF Touched, Started
<1>3. CASE KillCrond
  <2>1. DOMAIN jobs' = DOMAIN jobs  BY <1>3 DEF KillCrond
  <2>2. ASSUME NEW i \in DOMAIN jobs PROVE Started(i)' = Started(i)
    <3>1. jobs[i] \in Command  BY DEF CronTypeOK
    <3>2. jobs'[i].user = jobs[i].user /\ jobs'[i].line = jobs[i].line /\ jobs'[i].minute = jobs[i].minute
      BY <1>3, <3>1 DEF KillCrond, Command
    <3> QED  BY <3>2 DEF Started
  <2> QED  BY <1>1, <2>1, <2>2
<1>4. CASE Run
  <2>1. PICK x \in lines, j \in Command, n \in Nat : Starts(x, j, n)  BY <1>4, RunStarts
  <2>2. \A i \in DOMAIN jobs : Started(i)' = Started(i)  BY <2>1 DEF Starts, Started
  <2>3. Started(n)' = <<user, x[2], t>>  BY <2>1 DEF Starts, Started
  <2>4. ASSUME NEW i \in DOMAIN jobs PROVE Started(i) # <<user, x[2], t>>
    <3>1. StartedBefore(i)  BY DEF RunInv
    <3> QED  BY <2>1, <3>1 DEF Starts, StartedBefore, Started, Active
  <2>5. DOMAIN jobs' = DOMAIN jobs \cup {n}  BY <2>1 DEF Starts
  <2> QED  BY <2>2, <2>3, <2>4, <2>5 DEF LineOnce
<1> QED  BY <1>2, <1>3, <1>4, StepKinds, MovesSame DEF Frame
-----------------------------------------------------------------------------
(* What is run is one text's.                                              *)

LEMMA SameLines ==
  ASSUME CronTypeOK, Touched, NEW u, NEW m
  PROVE  /\ RunFor(u, m)' = RunFor(u, m) /\ LinesOf(u, m)' = LinesOf(u, m)
         /\ (\A i \in RunFor(u, m) : jobs'[i].parent # "init")
              <=> (\A i \in RunFor(u, m) : jobs[i].parent # "init")
<1>1. DOMAIN jobs' = DOMAIN jobs  BY SameJobs
<1>2. RunFor(u, m)' = RunFor(u, m)  BY <1>1 DEF RunFor, Touched
<1>3. \A i \in RunFor(u, m) : i \in DOMAIN jobs /\ jobs'[i].line = jobs[i].line  BY DEF RunFor, Touched
<1>4. LinesOf(u, m)' = LinesOf(u, m)  BY <1>2, <1>3 DEF LinesOf
<1>5. \A i \in RunFor(u, m) : jobs'[i].parent = "init" <=> jobs[i].parent = "init"
  BY <1>3 DEF Touched
<1> QED  BY <1>2, <1>4, <1>5

LEMMA WholeStep ==
  ASSUME CronTypeOK, SpoolInv, TimeInv, LinesInv, InputInv, RunInv, WholeInv, CronNext
  PROVE  WholeInv'
<1> USE DEF crond, minute, time
<1>1. ASSUME Touched, \A u \in Users, m \in Minutes : Left(u, m)' = Left(u, m)
      PROVE  WholeInv'
  <2> SUFFICES ASSUME NEW u \in Users, NEW m \in Minutes,
                      LinesOf(u, m)' \cup Left(u, m)' # {},
                      \A i \in RunFor(u, m)' : jobs'[i].parent # "init"
               PROVE  \E x \in Texts : x.valid /\ LinesOf(u, m)' \cup Left(u, m)' = Of(x, m)
    BY DEF WholeInv, Of
  <2>1. /\ RunFor(u, m)' = RunFor(u, m) /\ LinesOf(u, m)' = LinesOf(u, m)
        /\ (\A i \in RunFor(u, m) : jobs'[i].parent # "init")
             <=> (\A i \in RunFor(u, m) : jobs[i].parent # "init")
    BY <1>1, SameLines
  <2>2. Left(u, m)' = Left(u, m)  BY <1>1
  <2> QED  BY <2>1, <2>2 DEF WholeInv
<1>2. CASE Frame
  <2>1. \A u \in Users, m \in Minutes : Left(u, m)' = Left(u, m)  BY <1>2 DEF Frame, Left
  <2> QED  BY <1>1, <1>2, <2>1 DEF Frame
<1>3. CASE CheckTime \/ OpenCrontabs \/ EndMinute \/ EndMinutes \/ Restart
  <2>1. lines = {} /\ lines' = {}
    BY <1>3 DEF CheckTime, OpenCrontabs, EndMinute, EndMinutes, Restart, LinesInv, Reading
  <2>2. \A u \in Users, m \in Minutes : Left(u, m) = {} /\ Left(u, m)' = {}  BY <2>1 DEF Left
  <2>3. jobs' = jobs
    BY <1>3 DEF CheckTime, OpenCrontabs, EndMinute, EndMinutes, Restart
  <2> QED  BY <1>1, <2>2, <2>3, Unchanged
<1>4. CASE ReadCrontab
  <2>1. PICK u \in entries : /\ entries' = entries \ {u} /\ user' = u
                             /\ lines' = Matching(u) \/ lines' = {}
    BY <1>4 DEF ReadCrontab
  <2>2. pc = "users" /\ pc' = "users" /\ lines = {} /\ t' = t /\ spool' = spool /\ jobs' = jobs
    BY <1>4 DEF ReadCrontab
  <2>3. u \in Users /\ Touched  BY <2>2, Unchanged DEF CronTypeOK
  <2> SUFFICES ASSUME NEW w \in Users, NEW m \in Minutes,
                      LinesOf(w, m)' \cup Left(w, m)' # {},
                      \A i \in RunFor(w, m)' : jobs'[i].parent # "init"
               PROVE  \E x \in Texts : x.valid /\ LinesOf(w, m)' \cup Left(w, m)' = Of(x, m)
    BY DEF WholeInv, Of
  <2>4. /\ RunFor(w, m)' = RunFor(w, m) /\ LinesOf(w, m)' = LinesOf(w, m)
        /\ \A i \in RunFor(w, m) : jobs[i].parent # "init"
    BY <2>3, SameLines
  <2>5. Left(w, m) = {}  BY <2>2 DEF Left
  <2>6. CASE Left(w, m)' = {}  BY <2>4, <2>5, <2>6 DEF WholeInv
  <2>7. CASE Left(w, m)' # {}
    <3>1. w = u /\ m = t /\ lines' = Matching(u) /\ Left(w, m)' = {x[2] : x \in Matching(u)}
      <4>1. w = user' /\ m = t' /\ lines' # {} /\ Left(w, m)' = {x[2] : x \in lines'}
        BY <2>7 DEF Left
      <4> QED  BY <2>1, <2>2, <4>1
    <3>2. RunFor(u, t) = {}
      <4> SUFFICES ASSUME NEW i \in DOMAIN jobs, jobs[i].user = u, jobs[i].minute = t PROVE FALSE
        BY DEF RunFor
      <4>1. StartedBefore(i)  BY DEF RunInv
      <4> QED  BY <2>1, <2>2, <4>1 DEF StartedBefore, Active
    <3>3. LinesOf(w, m)' = {}  BY <2>4, <3>1, <3>2 DEF LinesOf
    <3>4. spool[u] # NoText  BY <2>3, <2>7, <3>1, MatchingFacts
    <3>5. spool[u] \in Texts /\ {x[2] : x \in Matching(u)} = Of(spool[u], t)
      BY <2>3, <3>4, MatchingFacts
    <3>6. spool[u].valid  BY <2>3, <3>4 DEF SpoolInv
    <3> QED  BY <3>1, <3>3, <3>5, <3>6
  <2> QED  BY <2>6, <2>7
<1>5. CASE Run
  <2>1. PICK y \in lines, j \in Command, n \in Nat : Starts(y, j, n)  BY <1>5, RunStarts
  <2> SUFFICES ASSUME NEW w \in Users, NEW m \in Minutes,
                      LinesOf(w, m)' \cup Left(w, m)' # {},
                      \A i \in RunFor(w, m)' : jobs'[i].parent # "init"
               PROVE  \E x \in Texts : x.valid /\ LinesOf(w, m)' \cup Left(w, m)' = Of(x, m)
    BY DEF WholeInv, Of
  <2>2. /\ \A i \in DOMAIN jobs : jobs'[i] = jobs[i]
        /\ DOMAIN jobs' = DOMAIN jobs \cup {n} /\ n \notin DOMAIN jobs
        /\ jobs'[n] = j /\ j.user = user /\ j.minute = t /\ j.line = y[2]
        /\ pc = "users" /\ pc' \in {"users", "input"} /\ user' = user /\ t' = t /\ lines' = lines \ {y}
    BY <2>1 DEF Starts
  <2>3. \A i \in RunFor(w, m) : i \in RunFor(w, m)' /\ jobs'[i] = jobs[i]  BY <2>2 DEF RunFor
  <2>4. CASE w = user /\ m = t
    <3>1. RunFor(w, m)' = RunFor(w, m) \cup {n}  BY <2>2, <2>4 DEF RunFor
    <3>2. LinesOf(w, m)' = LinesOf(w, m) \cup {y[2]}
      <4>1. LinesOf(w, m)' = {jobs'[i].line : i \in RunFor(w, m) \cup {n}}  BY <3>1 DEF LinesOf
      <4>2. \A i \in RunFor(w, m) : jobs'[i] = jobs[i]  BY <2>3
      <4> QED  BY <2>2, <4>1, <4>2 DEF LinesOf
    <3>3. Left(w, m) = {x[2] : x \in lines} /\ Left(w, m)' = {x[2] : x \in lines \ {y}}
      BY <2>2, <2>4 DEF Left, Reading
    <3>4. LinesOf(w, m)' \cup Left(w, m)' = LinesOf(w, m) \cup Left(w, m)
      BY <3>2, <3>3
    <3>5. \A i \in RunFor(w, m) : jobs[i].parent # "init"  BY <2>3
    <3> QED  BY <3>4, <3>5 DEF WholeInv
  <2>5. CASE ~(w = user /\ m = t)
    <3>1. RunFor(w, m)' = RunFor(w, m)  BY <2>2, <2>5 DEF RunFor
    <3>2. LinesOf(w, m)' = LinesOf(w, m)
      <4>1. LinesOf(w, m)' = {jobs'[i].line : i \in RunFor(w, m)}  BY <3>1 DEF LinesOf
      <4> QED  BY <2>3, <4>1 DEF LinesOf
    <3>3. Left(w, m) = {} /\ Left(w, m)' = {}  BY <2>2, <2>5 DEF Left
    <3>4. \A i \in RunFor(w, m) : jobs[i].parent # "init"  BY <2>3, <3>1
    <3> QED  BY <3>2, <3>3, <3>4 DEF WholeInv
  <2> QED  BY <2>4, <2>5
<1>6. CASE KillCrond
  <2> SUFFICES ASSUME NEW w \in Users, NEW m \in Minutes,
                      LinesOf(w, m)' \cup Left(w, m)' # {},
                      \A i \in RunFor(w, m)' : jobs'[i].parent # "init"
               PROVE  FALSE
    BY DEF WholeInv, Of
  <2>1. Left(w, m)' = {}  BY <1>6 DEF KillCrond, Left, Reading
  <2>2. RunFor(w, m)' # {}  BY <2>1 DEF LinesOf
  <2>3. PICK i \in RunFor(w, m)' : TRUE  BY <2>2
  <2>4. i \in DOMAIN jobs  BY <1>6, <2>3 DEF RunFor, KillCrond
  <2>5. jobs[i] \in Command  BY <2>4 DEF CronTypeOK
  <2>6. jobs'[i].parent = "init"  BY <1>6, <2>4, <2>5 DEF KillCrond, Command
  <2> QED  BY <2>3, <2>6
<1> QED  BY <1>2, <1>3, <1>4, <1>5, <1>6, StepKinds DEF Moves
-----------------------------------------------------------------------------
(* No line is left out.                                                    *)

\* What CaughtInv says of one line.
Caught(u, l, m) ==
  /\ m < t => Ran(u, l, m)
  /\ m = t /\ Reading => u \in entries \/ (u = user /\ \E x \in lines : x[2] = l) \/ Ran(u, l, m)

LEMMA StillRan ==
  ASSUME CronTypeOK, Touched, NEW u, NEW l, NEW m, Ran(u, l, m)
  PROVE  Ran(u, l, m)'
<1>1. PICK i \in DOMAIN jobs : Started(i) = <<u, l, m>>  BY DEF Ran
<1>2. i \in DOMAIN jobs'  BY <1>1, SameJobs
<1>3. Started(i)' = Started(i)  BY <1>1 DEF Touched, Started
<1> QED  BY <1>1, <1>2, <1>3 DEF Ran

LEMMA CaughtStep ==
  ASSUME CronTypeOK, SpoolInv, TimeInv, LinesInv, InputInv, CaughtInv, CronNext
  PROVE  CaughtInv'
<1> USE DEF crond, minute, time
<1>0. /\ wallclock \in Nat /\ last \in Nat /\ t \in Nat /\ upto \in Nat /\ Minutes \subseteq Nat
  BY CronBounds DEF CronTypeOK, Minutes
<1>1. CASE ~Active' \/ opt_s'  BY <1>1 DEF CaughtInv
<1>2. ASSUME Active', ~opt_s',
             NEW u \in Users, NEW m \in Minutes, Owed(u, m)',
             NEW l \in Range(Table[u].lines), m \in l.at
      PROVE  Caught(u, l, m)'
  <2>0. m \in Nat  BY <1>0
  <2>1. CASE Frame
    <3>1. Active /\ ~opt_s /\ Owed(u, m)  BY <1>2, <2>1 DEF Frame, Owed
    <3>2. Caught(u, l, m)  BY <1>2, <3>1 DEF CaughtInv, Caught
    <3>3. Ran(u, l, m) => Ran(u, l, m)'  BY <2>1, StillRan DEF Frame
    <3> QED  BY <2>1, <3>2, <3>3 DEF Frame, Caught
  <2>2. CASE CheckTime
    <3>1. pc' = "minute" /\ t' = From /\ upto' = wallclock /\ last' = last  BY <1>2, <2>2 DEF CheckTime, Active
    <3>2. last < m /\ m <= wallclock /\ m > wallclock - CatchUp  BY <1>2, <3>1 DEF Owed
    <3>3. ~(m < t')  BY <1>0, <2>0, <3>1, <3>2, CronBounds DEF From
    <3> QED  BY <3>1, <3>3 DEF Caught, Reading
  <2>3. CASE OpenCrontabs
    <3>1. Active /\ ~opt_s /\ Owed(u, m)  BY <1>2, <2>3 DEF OpenCrontabs, Active, Owed, Steady
    <3>2. Caught(u, l, m)  BY <1>2, <3>1 DEF CaughtInv, Caught
    <3>3. Touched  BY <2>3, Unchanged DEF OpenCrontabs
    <3>4. Ran(u, l, m) => Ran(u, l, m)'  BY <3>3, StillRan
    <3>5. m = t => u \in entries'
      <4>1. Table[u] # NoText /\ spool[u] = Table[u]  BY <3>1 DEF Owed, Steady, SpoolInv
      <4>2. u \in Present  BY <4>1 DEF Present
      <4>3. Present \subseteq entries' \/ t \in skipped'  BY <2>3 DEF OpenCrontabs
      <4>4. m \notin skipped'  BY <1>2 DEF Owed
      <4> QED  BY <4>2, <4>3, <4>4
    <3> QED  BY <2>3, <3>2, <3>4, <3>5 DEF OpenCrontabs, Caught
  <2>4. CASE ReadCrontab
    <3>1. Active /\ Reading /\ ~opt_s /\ Owed(u, m)
      <4>1. m \notin skipped  BY <1>2, <2>4 DEF ReadCrontab, Owed
      <4>2. UNCHANGED <<last, upto, cmd, opt_s>> /\ pc = "users"  BY <2>4 DEF ReadCrontab
      <4> QED  BY <1>2, <4>1, <4>2 DEF Active, Reading, Owed, Steady
    <3>2. Caught(u, l, m)  BY <1>2, <3>1 DEF CaughtInv, Caught
    <3>3. Touched /\ t' = t  BY <2>4, Unchanged DEF ReadCrontab
    <3>4. Ran(u, l, m) => Ran(u, l, m)'  BY <3>3, StillRan
    <3>5. PICK v \in entries : /\ entries' = entries \ {v} /\ user' = v
                               /\ lines' = Matching(v) \/ t \in skipped'
      BY <2>4 DEF ReadCrontab
    <3>6. ASSUME m = t PROVE u \in entries' \/ (u = user' /\ \E x \in lines' : x[2] = l) \/ Ran(u, l, m)'
      <4>1. u \in entries \/ Ran(u, l, m)  BY <2>4, <3>1, <3>2, <3>6 DEF ReadCrontab, Caught
      <4>2. CASE u = v
        <5>1. lines' = Matching(u)  BY <1>2, <3>5, <3>6, <4>2 DEF Owed
        <5>2. Table[u] # NoText /\ spool[u] = Table[u]  BY <3>1 DEF Owed, Steady, SpoolInv
        <5>3. {x[2] : x \in Matching(u)} = Of(Table[u], t)  BY <5>2, MatchingFacts
        <5>4. l \in Of(Table[u], t)  BY <1>2, <3>6 DEF Of
        <5> QED  BY <3>5, <4>2, <5>1, <5>3, <5>4
      <4>3. CASE u # v  BY <3>4, <3>5, <4>1, <4>3
      <4> QED  BY <4>2, <4>3
    <3> QED  BY <3>2, <3>3, <3>4, <3>6 DEF Caught
  <2>5. CASE EndMinute
    <3>1. Active /\ Reading /\ ~opt_s /\ Owed(u, m) /\ lines = {} /\ entries = {}
      BY <1>2, <2>5 DEF EndMinute, Active, Reading, Owed, Steady
    <3>2. Caught(u, l, m)  BY <1>2, <3>1 DEF CaughtInv, Caught
    <3>3. Touched /\ t' = t + 1 /\ pc' = "minute"  BY <2>5, Unchanged DEF EndMinute
    <3>4. Ran(u, l, m) => Ran(u, l, m)'  BY <3>3, StillRan
    <3>5. m <= t => Ran(u, l, m)  BY <1>0, <2>0, <3>1, <3>2 DEF Caught
    <3> QED  BY <1>0, <2>0, <3>3, <3>4, <3>5 DEF Caught, Reading
  <2>6. CASE Run
    <3>1. PICK x \in lines, j \in Command, n \in Nat : Starts(x, j, n)  BY <2>6, RunStarts
    <3>2. Active /\ Reading /\ ~opt_s /\ Owed(u, m) /\ Reading'
      BY <1>2, <3>1 DEF Starts, Active, Reading, Owed
    <3>3. Caught(u, l, m)  BY <1>2, <3>2 DEF CaughtInv, Caught
    <3>4. Ran(u, l, m) => Ran(u, l, m)'
      <4>1. \A i \in DOMAIN jobs : i \in DOMAIN jobs' /\ Started(i)' = Started(i)
        BY <3>1 DEF Starts, Started
      <4> QED  BY <4>1 DEF Ran
    <3>5. u = user /\ m = t /\ l = x[2] => Ran(u, l, m)'
      <4>1. n \in DOMAIN jobs' /\ Started(n)' = <<user, x[2], t>>  BY <3>1 DEF Starts, Started
      <4> QED  BY <4>1 DEF Ran
    <3>6. ASSUME u = user, m = t, NEW y \in lines, y[2] = l
          PROVE  (\E z \in lines' : z[2] = l) \/ Ran(u, l, m)'
      <4>1. lines' = lines \ {x}  BY <3>1 DEF Starts
      <4>2. CASE y = x  BY <3>5, <3>6, <4>2
      <4>3. CASE y # x  BY <3>6, <4>1, <4>3
      <4> QED  BY <4>2, <4>3
    <3>7. UNCHANGED <<t, entries, user>>  BY <3>1 DEF Starts
    <3> QED  BY <3>2, <3>3, <3>4, <3>6, <3>7 DEF Caught
  <2>7. ~(EndMinutes \/ KillCrond \/ Restart)
    BY <1>2 DEF EndMinutes, KillCrond, Restart, Active
  <2> QED  BY <2>1, <2>2, <2>3, <2>4, <2>5, <2>6, <2>7, StepKinds DEF Moves
<1>3. CASE Active' /\ ~opt_s'
  <2>1. \A u \in Users, m \in Minutes : Owed(u, m)' =>
          \A l \in Range(Table[u].lines) : m \in l.at => Caught(u, l, m)'
    BY <1>2, <1>3
  <2> QED  BY <1>3, <2>1 DEF CaughtInv, Caught
<1> QED  BY <1>1, <1>3

-----------------------------------------------------------------------------
(* The mail, and crond -s.                                                 *)

LEMMA MailStep ==
  ASSUME CronTypeOK, SpoolInv, TimeInv, InputInv, MailInv, AllWaited, CronNext
  PROVE  MailInv' /\ AllWaited'
<1> USE DEF crond, minute, time
<1> DEFINE Mailed1(j) == j.parent = "crond" /\ j.state = "reaped" /\ j.line.mails => j.mail # "none"
           Over(j) == j.parent = "crond" =>
                        \/ j.state = "failed"
                        \/ j.state = "reaped" /\ (j.line.mails => j.mail # "none")
<1>0. /\ MailInv <=> \A i \in DOMAIN jobs : Mailed1(jobs[i])
      /\ MailInv' <=> \A i \in DOMAIN jobs' : Mailed1(jobs'[i])
      /\ AllWaited <=> (pc = "exit" => \A i \in DOMAIN jobs : Over(jobs[i]))
      /\ AllWaited' <=> (pc' = "exit" => \A i \in DOMAIN jobs' : Over(jobs'[i]))
  BY DEF MailInv, AllWaited
<1>1. CASE ReapCommand
  <2>1. PICK i \in DOMAIN jobs :
          /\ \A k \in DOMAIN jobs : k # i => jobs'[k] = jobs[k]
          /\ jobs'[i].parent = jobs[i].parent
          /\ jobs'[i].state = "reaped" /\ jobs[i].parent = "crond" /\ jobs[i].line.mails
               => jobs'[i].mail # "none"
    BY <1>1, ReapTouches
  <2>2. Touched /\ pc' \in {"reap", "mail"}  BY <1>1, ReapTouches
  <2>3. jobs'[i].line = jobs[i].line  BY <2>2 DEF Touched
  <2>4. DOMAIN jobs' = DOMAIN jobs  BY <2>2, SameJobs
  <2> QED  BY <1>0, <2>1, <2>2, <2>3, <2>4
<1>2. CASE Mailed
  <2>1. PICK i \in DOMAIN jobs : jobs'[i].mail # "none" /\ \A k \in DOMAIN jobs : k # i => jobs'[k] = jobs[k]
    BY <1>2, MailTouches
  <2>2. Touched /\ pc' = "reap"  BY <1>2, MailTouches
  <2>3. DOMAIN jobs' = DOMAIN jobs  BY <2>2, SameJobs
  <2> QED  BY <1>0, <2>1, <2>2, <2>3
<1>3. CASE InputWritten
  <2>1. /\ Touched /\ pc' = "users"
        /\ \A k \in DOMAIN jobs : jobs'[k] = jobs[k] \/ jobs'[k].parent # "crond"
    BY <1>3, InputTouches
  <2>2. DOMAIN jobs' = DOMAIN jobs  BY <2>1, SameJobs
  <2> QED  BY <1>0, <2>1, <2>2
<1>4. CASE ReadInput
  <2>1. /\ Touched
        /\ \A k \in DOMAIN jobs : jobs'[k].parent = jobs[k].parent /\ jobs'[k].state = jobs[k].state
                                  /\ jobs'[k].mail = jobs[k].mail
    BY <1>4, ReadTouches
  <2>2. DOMAIN jobs' = DOMAIN jobs /\ \A k \in DOMAIN jobs : jobs'[k].line = jobs[k].line
    BY <2>1, SameJobs DEF Touched
  <2>3. pc' = pc  BY <1>4 DEF ReadInput
  <2> QED  BY <1>0, <2>1, <2>2, <2>3
<1>5. CASE EndCommand
  <2>1. /\ Touched
        /\ \A k \in DOMAIN jobs :
             \/ jobs'[k] = jobs[k]
             \/ /\ jobs[k].state = "running" /\ jobs'[k].parent = jobs[k].parent
                /\ jobs'[k].state = "reaped" => jobs[k].parent = "init"
    BY <1>5, EndTouches
  <2>2. DOMAIN jobs' = DOMAIN jobs  BY <2>1, SameJobs
  <2>3. pc' = pc  BY <1>5 DEF EndCommand
  <2> QED  BY <1>0, <2>1, <2>2, <2>3
<1>6. CASE Run
  <2>1. PICK x \in lines, j \in Command, n \in Nat : Starts(x, j, n)  BY <1>6, RunStarts
  <2>2. /\ DOMAIN jobs' = DOMAIN jobs \cup {n} /\ jobs'[n] = j /\ \A k \in DOMAIN jobs : jobs'[k] = jobs[k]
        /\ j.state \in {"running", "failed"} /\ pc' # "exit"
    BY <2>1 DEF Starts
  <2> QED  BY <1>0, <2>2
<1>7. CASE KillCrond
  <2>1. ASSUME NEW i \in DOMAIN jobs' PROVE jobs'[i].parent = "init"
    <3>1. i \in DOMAIN jobs  BY <1>7, <2>1 DEF KillCrond
    <3>2. jobs[i] \in Command  BY <3>1 DEF CronTypeOK
    <3> QED  BY <1>7, <3>1, <3>2 DEF KillCrond, Command
  <2> QED  BY <1>0, <2>1
<1>8. CASE EndReap
  <2>1. jobs' = jobs /\ (pc' = "exit" => Runs = {})  BY <1>8 DEF EndReap, AllReaped
  <2>2. ASSUME Runs = {}, NEW i \in DOMAIN jobs PROVE Over(jobs[i])
    <3>1. jobs[i].parent = "crond" => jobs[i].state \in {"failed", "reaped"}  BY <2>2 DEF Runs
    <3> QED  BY <1>0, <3>1
  <2> QED  BY <1>0, <2>1, <2>2
<1>9. ASSUME UNCHANGED jobs, pc' = "exit" => pc = "exit" PROVE MailInv' /\ AllWaited'
  BY <1>0, <1>9
<1>10. CASE Wake \/ CheckTime \/ OpenCrontabs \/ ReadCrontab \/ EndMinute
  BY <1>9, <1>10 DEF Wake, CheckTime, OpenCrontabs, ReadCrontab, EndMinute
<1>11. CASE EndMinutes \/ Restart \/ CronTick \/ SetBack
  BY <1>9, <1>11 DEF EndMinutes, Restart, CronTick, SetBack
<1>12. CASE CrontabStep \/ \E c \in Crontab : KillCrontab(c)
  <2>1. PICK c \in Crontab, p \in {"editor", "write", "rename", "done"}, x \in Copies : Installs(c, p, x)
    BY <1>12, CrontabInstalls DEF CrontabStep
  <2> QED  BY <1>9, <2>1 DEF Installs
<1> QED
  BY <1>1, <1>2, <1>3, <1>4, <1>5, <1>6, <1>7, <1>8, <1>10, <1>11, <1>12 DEF CronNext, CronDaemon
-----------------------------------------------------------------------------
(* The theorem.                                                            *)

LEMMA CronInvInit ==
  ASSUME CronInit
  PROVE  CronInv
<1>1. CronTypeOK /\ SpoolInv /\ TimeInv  BY CronTypeInit, SpoolInit, TimeInit
<1>2. jobs = <<>> /\ lines = {} /\ pc \in {"sleep", "minute"}  BY DEF CronInit
<1>3. DOMAIN jobs = {}  BY <1>2
<1>4. LinesInv /\ InputInv  BY <1>2 DEF LinesInv, InputInv
<1>5. RunInv /\ LineOnce /\ MailInv /\ AllWaited
  BY <1>3 DEF RunInv, LineOnce, MailInv, AllWaited
<1>6. WholeInv
  <2>1. \A u, m : LinesOf(u, m) = {} /\ Left(u, m) = {}  BY <1>2, <1>3 DEF LinesOf, RunFor, Left
  <2> QED  BY <2>1 DEF WholeInv
<1>7. CaughtInv  BY DEF CaughtInv, CronInit, Active
<1> QED  BY <1>1, <1>4, <1>5, <1>6, <1>7 DEF CronInv

LEMMA CronInvStep ==
  ASSUME CronInv, [CronNext]_cronVars
  PROVE  CronInv'
<1>1. CASE CronNext
  <2> USE <1>1 DEF CronInv
  <2>1. CronTypeOK' /\ SpoolInv' /\ TimeInv'  BY CronTypeStep, SpoolStep, TimeStep
  <2>2. LinesInv' /\ InputInv'  BY LinesStep
  <2>3. RunInv' /\ LineOnce'  BY RunStep, OnceStep
  <2>4. WholeInv' /\ CaughtInv'  BY WholeStep, CaughtStep
  <2>5. MailInv' /\ AllWaited'  BY MailStep
  <2> QED  BY <2>1, <2>2, <2>3, <2>4, <2>5
<1>2. CASE UNCHANGED cronVars
  <2>1. CronTypeOK' /\ SpoolInv' /\ TimeInv' /\ LinesInv' /\ InputInv'
    BY <1>2 DEF CronInv, CronTypeOK, SpoolInv, TimeInv, LinesInv, InputInv, Steady, Active, Reading,
                cronVars, time, crond, minute
  <2>2. RunInv' /\ LineOnce' /\ MailInv' /\ AllWaited'
    BY <1>2 DEF CronInv, RunInv, StartedBefore, LineOnce, Started, MailInv, AllWaited, Active, Reading,
                cronVars, time, crond, minute
  <2>3. WholeInv'
    <3>1. \A u \in Users, m \in Minutes : RunFor(u, m)' = RunFor(u, m) /\ LinesOf(u, m)' = LinesOf(u, m)
      BY <1>2 DEF RunFor, LinesOf, cronVars
    <3>2. \A u \in Users, m \in Minutes : Left(u, m)' = Left(u, m)
      BY <1>2 DEF Left, Reading, cronVars, crond, minute
    <3>3. jobs' = jobs  BY <1>2 DEF cronVars
    <3> QED  BY <3>1, <3>2, <3>3 DEF CronInv, WholeInv, Of
  <2>4. CaughtInv'
    BY <1>2 DEF CronInv, CaughtInv, Owed, Steady, Ran, Started, Active, Reading,
                cronVars, crond, minute
  <2> QED  BY <2>1, <2>2, <2>3, <2>4 DEF CronInv
<1> QED  BY <1>1, <1>2

\* Between two rounds of crond nothing is left of the minute: what was run is a whole table's.
LEMMA CronInvTrue ==
  ASSUME CronInv
  PROVE  CronTrue
<1>1. WholeTable
  <2> SUFFICES ASSUME pc \in {"sleep", "minute"}, NEW u \in Users, NEW m \in Minutes,
                      RunFor(u, m) # {}, \A i \in RunFor(u, m) : jobs[i].parent # "init"
               PROVE  \E x \in Texts : /\ x.valid
                                       /\ LinesOf(u, m) = Of(x, m)
    BY DEF WholeTable, LinesOf, RunFor, Of
  <2>1. Left(u, m) = {}  BY DEF Left, Reading
  <2>2. LinesOf(u, m) # {}  BY DEF LinesOf
  <2> QED  BY <2>1, <2>2 DEF CronInv, WholeInv
<1>2. CaughtUp
  <2> SUFFICES ASSUME pc = "minute", t > upto, ~opt_s,
                      NEW u \in Steady, NEW m \in (last + 1 .. upto) \ skipped, m > upto - CatchUp,
                      NEW l \in Range(Table[u].lines), m \in l.at
               PROVE  Ran(u, l, m)
    BY DEF CaughtUp
  <2>1. last \in Nat /\ upto \in Minutes /\ t \in Nat /\ CaughtInv
    BY CronBounds DEF CronInv, CronTypeOK, Minutes
  <2>2. u \in Users /\ m \in Minutes /\ last < m /\ m <= upto /\ m < t
    BY <2>1, CronBounds DEF Steady, Minutes
  <2>3. Owed(u, m)  BY <2>2 DEF Owed
  <2> QED  BY <2>1, <2>2, <2>3 DEF CaughtInv, Active
<1> QED  BY <1>1, <1>2 DEF CronInv, CronTrue

\* Lines run at most once for a minute, from tables installed whole; missed minutes are caught
\* up, and crond -s waits for all: whoever is killed and whatever fails, with the clock set
\* back or not.
THEOREM CronTheorem == CronSpec => []CronTrue
<1>1. CronInit => CronInv  BY CronInvInit
<1>2. CronInv /\ [CronNext]_cronVars => CronInv'  BY CronInvStep
<1>3. CronInv => CronTrue  BY CronInvTrue
<1> QED  BY <1>1, <1>2, <1>3, PTL DEF CronSpec
=============================================================================
