-------------------------- MODULE MakeBuildProofs --------------------------
(***************************************************************************)
(* Proofs about the build engine, for every makefile, every set of options *)
(* and every number of jobs.                                               *)
(***************************************************************************)
EXTENDS MakeBuild, TLAPS

-----------------------------------------------------------------------------
(* The inductive invariant.                                                *)

\* A job's target is running; a node that is being visited is not, and so neither is
\* the innermost call's.
StateInv ==
  /\ \A n \in jobs : state[n] = "RUN"
  /\ \A n \in Node : visiting[n] => state[n] = "SCAN"
  /\ cur # NoNode => visiting[cur]

\* The calls form a stack: the call of n was made by the call of its caller for the
\* prerequisite that call has come to, and the innermost call has made none.
StackInv ==
  /\ \A n \in Node :
       LET c == frame[n].caller
       IN visiting[n] /\ c # NoNode =>
            /\ visiting[c] /\ frame[c].at <= Len(All(c)) /\ All(c)[frame[c].at] = n
            /\ c # cur
  /\ cur # NoNode /\ ret # "none" =>
       frame[cur].at <= Len(All(cur)) /\ All(cur)[frame[cur].at] # Wait

\* What a call has passed is settled, unless the call is going to return PENDING or FAIL.
ScanInv ==
  /\ \A n \in Node :
       visiting[n] =>
         \A i \in DOMAIN All(n) :
           i < frame[n].at /\ All(n)[i] # Wait =>
             Settled(n, All(n)[i]) \/ frame[n].pending \/ frame[n].failed \/ StopHere
  /\ cur # NoNode /\ ret = "OK" => Settled(cur, All(cur)[frame[cur].at])

OrderInv == StateInv /\ StackInv /\ ScanInv /\ PrereqsDone
SlotInv == TokensConserved /\ OneSlotEach
ErrorInv == any_error => stop_starting \/ opt.k

-----------------------------------------------------------------------------
(* Types.                                                                  *)

LEMMA MakefileType ==
  ASSUME mk \in Makefiles, opt \in Options, NEW n \in Node
  PROVE  /\ All(n) \in Seq(Node \cup {Wait})
         /\ Len(All(n)) \in Nat
         /\ mk[n].rules \in Seq([pre : SUBSET Node, cmds : Seq(Lines)])
         /\ mk[n].dcolon \in BOOLEAN /\ mk[n].phony \in BOOLEAN
         /\ mk[n].precious \in BOOLEAN /\ mk[n].is_target \in BOOLEAN
         /\ opt.k \in BOOLEAN /\ opt.notpar \in BOOLEAN
  <1>1. mk \in [Node -> Rule]
    BY MakefileAssumption
  <1>2. mk[n] \in Rule
    BY <1>1
  <1>3. opt \in [k : BOOLEAN, notpar : BOOLEAN, mode : Modes]
    BY OptionAssumption
  <1> QED
    BY <1>2, <1>3 DEF Rule, All

LEMMA ElementOfSeq ==
  ASSUME NEW S, NEW s \in Seq(S), NEW i \in DOMAIN s
  PROVE  s[i] \in S
  OBVIOUS

LEMMA ToRunType ==
  ASSUME TypeOK, NEW n \in Node
  PROVE  ToRun(n, Segs(n)) \in SUBSET (Nat \X Nat)
  <1>1. mk[n].rules \in Seq([pre : SUBSET Node, cmds : Seq(Lines)])
    BY MakefileType DEF TypeOK
  <1>2. Segs(n) \subseteq DOMAIN mk[n].rules
    BY DEF Segs
  <1>3. ASSUME NEW d \in Segs(n)
        PROVE  d \in Nat /\ DOMAIN mk[n].rules[d].cmds \subseteq Nat
    <2>1. d \in DOMAIN mk[n].rules
      BY <1>2
    <2>2. DOMAIN mk[n].rules = 1 .. Len(mk[n].rules) /\ Len(mk[n].rules) \in Nat
      BY <1>1
    <2>3. d \in Nat
      BY <2>1, <2>2
    <2>4. mk[n].rules[d] \in [pre : SUBSET Node, cmds : Seq(Lines)]
      BY <1>1, <2>1, ElementOfSeq
    <2>5. mk[n].rules[d].cmds \in Seq(Lines)
      BY <2>4
    <2>6. DOMAIN mk[n].rules[d].cmds = 1 .. Len(mk[n].rules[d].cmds)
      BY <2>5
    <2>7. Len(mk[n].rules[d].cmds) \in Nat
      BY <2>5
    <2> QED
      BY <2>3, <2>6, <2>7
  <1> QED
    BY <1>3 DEF ToRun

Frames == [at : Nat \ {0}, pending : BOOLEAN, failed : BOOLEAN, caller : Node \cup {NoNode}]

LEMMA InitType ==
  ASSUME Init
  PROVE  TypeOK
  <1>1. /\ mk \in Makefiles /\ opt \in Options
        /\ \A n \in Node : frame[n] = NewFrame(NoNode)
        /\ job = [n \in Node |-> NoJob]
    BY DEF Init
  <1>2. NewFrame(NoNode) \in [at : Nat \ {0}, pending : BOOLEAN, failed : BOOLEAN,
                              caller : Node \cup {NoNode}]
    BY DEF NewFrame
  <1>4. NoJob \in Jobs
    BY DEF NoJob, NewJob, Jobs
  <1>5. mtime \in [Node -> Nat] /\ clock \in Nat
    BY TimeAssumption DEF Init
  <1>6. /\ state \in [Node -> {"NEW", "SCAN", "RUN", "DONE"}]
        /\ known \in [Node -> Nat \cup {Unknown}]
        /\ child \in [Node -> {"none", "running", "wrote", "ok", "bad"}]
    BY DEF Init
  <1>7. /\ ok \in [Node -> BOOLEAN] /\ visiting \in [Node -> BOOLEAN]
        /\ newer \in [Node -> BOOLEAN] /\ made \in [Node -> BOOLEAN]
    BY DEF Init
  <1>8. frame \in [Node -> [at : Nat \ {0}, pending : BOOLEAN, failed : BOOLEAN,
                           caller : Node \cup {NoNode}]]
    BY <1>2 DEF Init
  <1>9. job \in [Node -> Jobs]
    BY <1>1, <1>4
  <1>10. /\ cur \in Node \cup {NoNode}
         /\ ret \in {"none", "OK", "FAIL", "PENDING"}
         /\ dropped \subseteq (Node \cup {NoNode}) \X Node
         /\ pc \in {"goals", "wait", "reap", "poll", "killing", "drain", "exit", "dead"}
         /\ gi \in Nat \ {0} /\ status \in 0 .. 2
         /\ jobs \subseteq Node /\ pool \subseteq Token /\ others \subseteq Token
    BY DEF Init
  <1>11. /\ done \in BOOLEAN /\ draining \in BOOLEAN
         /\ stop_starting \in BOOLEAN /\ any_error \in BOOLEAN
         /\ question_outdated \in BOOLEAN
         /\ caught_signal \in BOOLEAN /\ sigpipe \in BOOLEAN
    BY DEF Init
  <1> QED
    BY <1>1, <1>5, <1>6, <1>7, <1>8, <1>9, <1>10, <1>11, Zenon
    DEF TypeOK

\* the variables that Call and Return assign
CallTypes ==
  /\ ret' \in {"none", "OK", "FAIL", "PENDING"}
  /\ dropped' \subseteq (Node \cup {NoNode}) \X Node
  /\ cur' \in Node \cup {NoNode}
  /\ frame' \in [Node -> [at : Nat \ {0}, pending : BOOLEAN, failed : BOOLEAN,
                          caller : Node \cup {NoNode}]]
  /\ state' \in [Node -> {"NEW", "SCAN", "RUN", "DONE"}]
  /\ visiting' \in [Node -> BOOLEAN]
  /\ known' \in [Node -> Nat \cup {Unknown}]

LEMMA CallType ==
  ASSUME TypeOK, NEW n \in Node, NEW parent \in Node \cup {NoNode}, Call(n, parent)
  PROVE  CallTypes
  <1>1. CASE visiting[n] \/ state[n] \in {"RUN", "DONE"}
    BY <1>1 DEF Call, CallTypes, TypeOK
  <1>2. CASE ~visiting[n] /\ state[n] \in {"NEW", "SCAN"}
    <2>1. frame' = [frame EXCEPT ![n] = NewFrame(parent)]
      BY <1>2 DEF Call
    <2>2. NewFrame(parent) \in Frames
      BY DEF NewFrame, Frames
    <2>3. frame \in [Node -> Frames]
      BY DEF TypeOK, Frames
    <2>4. frame' \in [Node -> Frames]
      BY <2>1, <2>2, <2>3
    <2>5. /\ known' = [known EXCEPT ![n] = IF @ = Unknown THEN mtime[n] ELSE @]
          /\ state' = [state EXCEPT ![n] = "SCAN"]
          /\ visiting' = [visiting EXCEPT ![n] = TRUE]
          /\ UNCHANGED <<ret, dropped>> /\ cur' = n
      BY <1>2 DEF Call
    <2>6. /\ known \in [Node -> Nat \cup {Unknown}] /\ mtime[n] \in Nat
          /\ state \in [Node -> {"NEW", "SCAN", "RUN", "DONE"}]
          /\ visiting \in [Node -> BOOLEAN]
      BY DEF TypeOK
    <2>7. known' \in [Node -> Nat \cup {Unknown}]
      BY <2>5, <2>6
    <2>8. /\ state' \in [Node -> {"NEW", "SCAN", "RUN", "DONE"}]
          /\ visiting' \in [Node -> BOOLEAN]
      BY <2>5, <2>6
    <2> QED
      BY <2>4, <2>5, <2>7, <2>8 DEF CallTypes, TypeOK, Frames
  <1> QED
    BY <1>1, <1>2 DEF Call

\* the variables that JobNext assigns
JobTypes ==
  /\ jobs' \subseteq Node
  /\ job' \in [Node -> Jobs]
  /\ child' \in [Node -> {"none", "running", "wrote", "ok", "bad"}]
  /\ state' \in [Node -> {"NEW", "SCAN", "RUN", "DONE"}]
  /\ ok' \in [Node -> BOOLEAN] /\ newer' \in [Node -> BOOLEAN] /\ made' \in [Node -> BOOLEAN]
  /\ known' \in [Node -> Nat \cup {Unknown}]
  /\ pool' \subseteq Token
  /\ question_outdated' \in BOOLEAN
  /\ mtime' \in [Node -> Nat] /\ clock' \in Nat

LEMMA NowType == Now \subseteq Nat
  BY TimeAssumption DEF Now

LEMMA FinishType ==
  ASSUME TypeOK, NEW n \in Node, NEW good \in BOOLEAN, NEW executed \in BOOLEAN,
         NEW t \in Nat, FinishNode(n, good, executed, t)
  PROVE  /\ state' \in [Node -> {"NEW", "SCAN", "RUN", "DONE"}]
         /\ ok' \in [Node -> BOOLEAN] /\ newer' \in [Node -> BOOLEAN]
         /\ made' \in [Node -> BOOLEAN]
         /\ known' \in [Node -> Nat \cup {Unknown}]
  <1>1. state' \in [Node -> {"NEW", "SCAN", "RUN", "DONE"}] /\ ok' \in [Node -> BOOLEAN]
    BY DEF FinishNode, TypeOK
  <1>2. made' \in [Node -> BOOLEAN]
    BY ZenonT(30) DEF FinishNode, TypeOK
  <1>3. newer' \in [Node -> BOOLEAN]
    BY ZenonT(30) DEF FinishNode, TypeOK
  <1>4. known' \in [Node -> Nat \cup {Unknown}]
    BY DEF FinishNode, TypeOK
  <1> QED
    BY <1>1, <1>2, <1>3, <1>4

LEMMA JobDoneType ==
  ASSUME TypeOK, NEW n \in Node, NEW j \in Jobs, NEW pl \in SUBSET Token, JobDone(n, j, pl)
  PROVE  JobTypes
  <1>1. /\ jobs' \subseteq Node /\ job' \in [Node -> Jobs]
        /\ child' \in [Node -> {"none", "running", "wrote", "ok", "bad"}]
        /\ pool' \subseteq Token
    BY DEF JobDone, TypeOK, Jobs, NoJob, NewJob, Released
  <1>2. question_outdated' \in BOOLEAN
    BY DEF JobDone, TypeOK
  <1>3. j.failed \in BOOLEAN /\ j.executed \in BOOLEAN
    BY DEF Jobs
  <1>4. CASE ~j.failed /\ opt.mode = "t" /\ ~mk[n].phony
    <2>1. PICK t \in Now : /\ mtime' = [mtime EXCEPT ![n] = t]
                           /\ clock' = t
                           /\ FinishNode(n, TRUE, j.executed, t)
      BY <1>4 DEF JobDone
    <2>2. t \in Nat
      BY NowType
    <2>3. mtime' \in [Node -> Nat] /\ clock' \in Nat
      BY <2>1, <2>2 DEF TypeOK
    <2>4. /\ state' \in [Node -> {"NEW", "SCAN", "RUN", "DONE"}]
          /\ ok' \in [Node -> BOOLEAN] /\ newer' \in [Node -> BOOLEAN]
          /\ made' \in [Node -> BOOLEAN]
          /\ known' \in [Node -> Nat \cup {Unknown}]
      BY <1>3, <2>1, <2>2, FinishType
    <2> QED
      BY <1>1, <1>2, <2>3, <2>4 DEF JobTypes
  <1>5. CASE ~(~j.failed /\ opt.mode = "t" /\ ~mk[n].phony)
    <2>1. UNCHANGED files /\ FinishNode(n, ~j.failed, j.executed, mtime[n])
      BY <1>5 DEF JobDone
    <2>2. mtime[n] \in Nat
      BY DEF TypeOK
    <2>3. (~j.failed) \in BOOLEAN
      OBVIOUS
    <2>4. /\ state' \in [Node -> {"NEW", "SCAN", "RUN", "DONE"}]
          /\ ok' \in [Node -> BOOLEAN] /\ newer' \in [Node -> BOOLEAN]
          /\ made' \in [Node -> BOOLEAN]
          /\ known' \in [Node -> Nat \cup {Unknown}]
      BY <1>3, <2>1, <2>2, <2>3, FinishType, Zenon
    <2>5. mtime' \in [Node -> Nat] /\ clock' \in Nat
      BY <2>1 DEF TypeOK, files
    <2> QED
      BY <1>1, <1>2, <2>4, <2>5, Zenon DEF JobTypes
  <1> QED
    BY <1>4, <1>5

LEMMA JobNextType ==
  ASSUME TypeOK, NEW n \in Node, NEW j \in Jobs, NEW pl \in SUBSET Token, JobNext(n, j, pl)
  PROVE  JobTypes
  <1>1. CASE JobDone(n, j, pl)
    BY <1>1, JobDoneType
  <1>2. CASE JobDone(n, [j EXCEPT !.failed = TRUE], pl)
    <2>1. [j EXCEPT !.failed = TRUE] \in Jobs
      BY DEF Jobs
    <2> QED
      BY <1>2, <2>1, JobDoneType
  <1>3. CASE /\ j.left # {}
             /\ LET x == FirstLine(j.left)
                    line == mk[n].rules[x[1]].cmds[x[2]]
                IN job' = [job EXCEPT ![n] = [j EXCEPT !.left = @ \ {x},
                                                        !.ignore = "-" \in line,
                                                        !.executed = TRUE]]
             /\ jobs' = jobs \cup {n}
             /\ child' = [child EXCEPT ![n] = "running"]
             /\ state' = [state EXCEPT ![n] = "RUN"]
             /\ pool' = pl
             /\ UNCHANGED <<ok, made, known, newer, question_outdated, files>>
    <2>1. ASSUME NEW x, NEW ignore \in BOOLEAN
          PROVE  [j EXCEPT !.left = @ \ {x}, !.ignore = ignore, !.executed = TRUE] \in Jobs
      BY DEF Jobs
    <2> DEFINE x == FirstLine(j.left)
               ignore == "-" \in mk[n].rules[x[1]].cmds[x[2]]
               next == [j EXCEPT !.left = @ \ {x}, !.ignore = ignore, !.executed = TRUE]
    <2>3. ignore \in BOOLEAN
      OBVIOUS
    <2>4. next \in Jobs
      BY <2>1, <2>3
    <2>5. job' = [job EXCEPT ![n] = next]
      BY <1>3
    <2>2. job' \in [Node -> Jobs]
      <3> HIDE DEF next
      <3> QED
        BY <2>4, <2>5 DEF TypeOK
    <2> QED
      BY <1>3, <2>2 DEF JobTypes, TypeOK, files
  <1> QED
    BY <1>1, <1>2, <1>3 DEF JobNext

\* TypeOK' from what an action leaves alone and from the types of what it assigns
LEMMA TypeOfParts ==
  ASSUME TypeOK, UNCHANGED params, CallTypes, JobTypes, 
         ok' \in [Node -> BOOLEAN],
         pc' \in {"goals", "wait", "reap", "poll", "killing", "drain", "exit", "dead"},
         gi' \in Nat \ {0}, done' \in BOOLEAN, draining' \in BOOLEAN, status' \in 0 .. 2,
         others' \subseteq Token,
         stop_starting' \in BOOLEAN, any_error' \in BOOLEAN,
         caught_signal' \in BOOLEAN, sigpipe' \in BOOLEAN
  PROVE  TypeOK'
  <1>1. mk' = mk /\ opt' = opt
    BY DEF params
  <1> QED
    BY <1>1, Zenon DEF TypeOK, CallTypes, JobTypes

LEMMA UnchangedCallTypes ==
  ASSUME TypeOK, UNCHANGED <<calls, state, visiting, known>>
  PROVE  CallTypes
  BY DEF TypeOK, CallTypes, calls

LEMMA UnchangedJobTypes ==
  ASSUME TypeOK, UNCHANGED <<procs, files, pool, question_outdated, state, ok, newer, made, known>>
  PROVE  JobTypes
  BY DEF TypeOK, JobTypes, procs, files

LEMMA ReturnType ==
  ASSUME TypeOK, cur # NoNode, NEW r \in {"OK", "FAIL", "PENDING"}, Return(r)
  PROVE  /\ ret' \in {"none", "OK", "FAIL", "PENDING"}
         /\ cur' \in Node \cup {NoNode}
         /\ visiting' \in [Node -> BOOLEAN]
  BY DEF TypeOK, Return

LEMMA ScanType ==
  ASSUME TypeOK, ScanWait \/ ScanCall \/ ScanReturn \/ ScanPending \/ ScanFailed
  PROVE  TypeOK'
  <1> USE DEF params, nodes, calls, loop, procs, tokens, flags, sigs, files
  <1>1. CASE ScanWait
    <2>1. cur \in Node /\ frame[cur].at \in Nat \ {0} /\ Len(All(cur)) \in Nat
      BY <1>1, MakefileType DEF ScanWait, Scanning, TypeOK
    <2>2. AfterWait \in Nat \ {0}
      BY <2>1 DEF AfterWait, Break
    <2>3. frame[cur] \in Frames
      BY <2>1 DEF TypeOK, Frames
    <2>4. [frame[cur] EXCEPT !.at = AfterWait] \in Frames
      BY <2>2, <2>3 DEF Frames
    <2>6. frame' = [frame EXCEPT ![cur] = [frame[cur] EXCEPT !.at = AfterWait]]
      BY <1>1, <2>1 DEF ScanWait, TypeOK
    <2>7. frame' \in [Node -> Frames]
      BY <2>4, <2>6 DEF TypeOK, Frames
    <2>8. CallTypes
      BY <1>1, <2>7 DEF ScanWait, TypeOK, CallTypes, Frames
    <2>5. JobTypes
      BY <1>1, UnchangedJobTypes DEF ScanWait
    <2> QED
      BY <1>1, <2>8, <2>5, TypeOfParts DEF ScanWait, TypeOK
  <1>2. CASE ScanCall
    <2>1. cur \in Node /\ All(cur)[frame[cur].at] \in Node
      <3>1. cur \in Node /\ frame[cur].at \in 1 .. Len(All(cur))
        BY <1>2, MakefileType DEF ScanCall, Scanning, AtEnd, TypeOK
      <3> QED
        BY <1>2, <3>1, MakefileType, ElementOfSeq DEF ScanCall, TypeOK
    <2>2. CallTypes
      BY <1>2, <2>1, CallType DEF ScanCall
    <2>3. JobTypes
      BY <1>2, <2>2 DEF ScanCall, TypeOK, JobTypes, CallTypes
    <2> QED
      BY <1>2, <2>2, <2>3, TypeOfParts DEF ScanCall, TypeOK
  <1>3. CASE ScanReturn
    <2>1. JobTypes
      BY <1>3, UnchangedJobTypes DEF ScanReturn
    <2>2. cur \in Node /\ frame[cur].at \in Nat \ {0} /\ Len(All(cur)) \in Nat
      BY <1>3, MakefileType DEF ScanReturn, TypeOK
    <2> DEFINE at == IF Leaves THEN Break ELSE frame[cur].at + 1
               pending == frame[cur].pending \/ ret = "PENDING"
               failed == frame[cur].failed \/ ret = "FAIL"
               next == [at |-> at, pending |-> pending, failed |-> failed,
                        caller |-> frame[cur].caller]
    <2>3. frame[cur] \in Frames
      BY <2>2 DEF TypeOK, Frames
    <2>4. at \in Nat \ {0}
      BY <2>2 DEF Break
    <2>5. next \in Frames
      <3>1. pending \in BOOLEAN /\ failed \in BOOLEAN
        OBVIOUS
      <3> HIDE DEF at, pending, failed
      <3> QED
        BY <2>3, <2>4, <3>1 DEF Frames
    <2>7. frame' = [frame EXCEPT ![cur] = next]
      BY <1>3, <2>2 DEF ScanReturn, TypeOK
    <2>8. frame' \in [Node -> Frames]
      <3> HIDE DEF next
      <3> QED
        BY <2>5, <2>7 DEF TypeOK, Frames
    <2>9. CallTypes
      BY <1>3, <2>8 DEF ScanReturn, TypeOK, CallTypes, Frames
    <2> QED
      BY <1>3, <2>1, <2>9, TypeOfParts DEF ScanReturn, TypeOK
  <1>4. CASE ScanPending
    <2>1. CallTypes
      BY <1>4, ReturnType DEF ScanPending, Scanning, TypeOK, CallTypes
    <2>2. JobTypes
      BY <1>4, UnchangedJobTypes DEF ScanPending
    <2> QED
      BY <1>4, <2>1, <2>2, TypeOfParts DEF ScanPending, TypeOK
  <1>5. CASE ScanFailed
    <2>1. CallTypes
      BY <1>5, ReturnType DEF ScanFailed, Scanning, TypeOK, CallTypes
    <2>2. JobTypes
      BY <1>5 DEF ScanFailed, TypeOK, JobTypes
    <2> QED
      BY <1>5, <2>1, <2>2, TypeOfParts DEF ScanFailed, TypeOK, JobTypes
  <1> QED
    BY <1>1, <1>2, <1>3, <1>4, <1>5
LEMMA DecideType ==
  ASSUME TypeOK, NEW n \in Node,
         DcolonUpToDate(n) \/ UpToDate(n) \/ NoCommands(n) \/ NoRule(n) \/ NoSlot(n)
  PROVE  TypeOK'
  <1> USE DEF params, nodes, calls, loop, procs, tokens, flags, sigs, files
  <1>1. ASSUME NEW r \in {"OK", "FAIL", "PENDING"}, Return(r), Decide(n),
               UNCHANGED <<frame, dropped>>,
               state' \in [Node -> {"NEW", "SCAN", "RUN", "DONE"}],
               known' \in [Node -> Nat \cup {Unknown}]
        PROVE  CallTypes
    BY <1>1, ReturnType DEF Decide, Scanning, TypeOK, CallTypes
  <1>2. CASE DcolonUpToDate(n)
    <2>1. state' \in [Node -> {"NEW", "SCAN", "RUN", "DONE"}] /\ ok' \in [Node -> BOOLEAN]
          /\ known' \in [Node -> Nat \cup {Unknown}]
      BY <1>2 DEF DcolonUpToDate, TypeOK
    <2>2. made' \in [Node -> BOOLEAN] /\ newer' \in [Node -> BOOLEAN]
      <3>1. Outdated(n) \in BOOLEAN
        BY DEF Outdated
      <3>2. (newer[n] \/ mtime[n] = 0 \/ mk[n].phony) \in BOOLEAN
        OBVIOUS
      <3>3. made' = [made EXCEPT ![n] = Outdated(n)]
        BY <1>2 DEF DcolonUpToDate
      <3>4. newer' = [newer EXCEPT ![n] = newer[n] \/ mtime[n] = 0 \/ mk[n].phony]
        BY <1>2 DEF DcolonUpToDate
      <3> QED
        BY <3>1, <3>2, <3>3, <3>4, Zenon DEF TypeOK
    <2>3. CallTypes
      BY <1>1, <1>2, <2>1 DEF DcolonUpToDate
    <2>4. JobTypes
      BY <1>2, <2>1, <2>2 DEF DcolonUpToDate, TypeOK, JobTypes
    <2> QED
      BY <1>2, <2>1, <2>3, <2>4, TypeOfParts DEF DcolonUpToDate, TypeOK
  <1>3. CASE UpToDate(n)
    <2>1. state' \in [Node -> {"NEW", "SCAN", "RUN", "DONE"}] /\ ok' \in [Node -> BOOLEAN]
          /\ known' \in [Node -> Nat \cup {Unknown}]
      BY <1>3 DEF UpToDate, TypeOK
    <2>2. CallTypes
      BY <1>1, <1>3, <2>1 DEF UpToDate
    <2>3. JobTypes
      BY <1>3, <2>1 DEF UpToDate, TypeOK, JobTypes
    <2> QED
      BY <1>3, <2>1, <2>2, <2>3, TypeOfParts DEF UpToDate, TypeOK
  <1>4. CASE NoCommands(n)
    <2>1. state' \in [Node -> {"NEW", "SCAN", "RUN", "DONE"}] /\ ok' \in [Node -> BOOLEAN]
          /\ known' \in [Node -> Nat \cup {Unknown}]
          /\ made' \in [Node -> BOOLEAN] /\ newer' \in [Node -> BOOLEAN]
      BY <1>4 DEF NoCommands, TypeOK
    <2>2. CallTypes
      BY <1>1, <1>4, <2>1 DEF NoCommands
    <2>3. JobTypes
      BY <1>4, <2>1 DEF NoCommands, TypeOK, JobTypes
    <2> QED
      BY <1>4, <2>1, <2>2, <2>3, TypeOfParts DEF NoCommands, TypeOK
  <1>5. CASE NoRule(n)
    <2>1. state' \in [Node -> {"NEW", "SCAN", "RUN", "DONE"}] /\ ok' \in [Node -> BOOLEAN]
          /\ known' \in [Node -> Nat \cup {Unknown}]
      BY <1>5 DEF NoRule, TypeOK
    <2>2. CallTypes
      BY <1>1, <1>5, <2>1 DEF NoRule
    <2>3. JobTypes
      BY <1>5, <2>1 DEF NoRule, TypeOK, JobTypes
    <2>4. any_error' \in BOOLEAN /\ stop_starting' \in BOOLEAN
      BY <1>5 DEF NoRule, NoteError
    <2> QED
      BY <1>5, <2>1, <2>2, <2>3, <2>4, TypeOfParts DEF NoRule, TypeOK
  <1>6. CASE NoSlot(n)
    <2>1. CallTypes
      BY <1>1, <1>6 DEF NoSlot, TypeOK
    <2>2. JobTypes
      BY <1>6, UnchangedJobTypes DEF NoSlot
    <2> QED
      BY <1>6, <2>1, <2>2, TypeOfParts DEF NoSlot, TypeOK
  <1> QED
    BY <1>2, <1>3, <1>4, <1>5, <1>6

LEMMA StartType ==
  ASSUME TypeOK, NEW n \in Node, NEW t \in pool \cup {NoToken}, StartJob(n, t)
  PROVE  TypeOK'
  <1> USE DEF params, nodes, calls, loop, procs, tokens, flags, sigs, files
  <1> DEFINE j == [left |-> ToRun(n, Segs(n)), ignore |-> FALSE, token |-> t,
                   executed |-> FALSE, failed |-> FALSE, start |-> mtime[n]]
  <1>1. j \in Jobs
    BY ToRunType DEF TypeOK, Jobs
  <1>2. JobNext(n, j, pool \ {t})
    BY DEF StartJob, NewJob
  <1>3. pool \ {t} \in SUBSET Token
    BY DEF TypeOK
  <1>4. JobTypes
    <2> HIDE DEF j
    <2> QED
      BY <1>1, <1>2, <1>3, JobNextType
  <1>5. CallTypes
    <2>1. PICK r \in {"OK", "FAIL", "PENDING"} : Return(r)
      BY DEF StartJob
    <2> QED
      BY <1>4, <2>1, ReturnType DEF StartJob, Decide, Scanning, TypeOK, CallTypes, JobTypes
  <1>6. ok' \in [Node -> BOOLEAN]
    BY <1>4 DEF JobTypes
  <1> QED
    BY <1>4, <1>5, <1>6, TypeOfParts DEF StartJob, TypeOK

LEMMA GoalsType ==
  ASSUME TypeOK, BuildGoals
  PROVE  TypeOK'
  <1> USE DEF params, nodes, calls, loop, procs, tokens, flags, sigs, files
  <1>1. CASE GoalCall
    <2>1. Goals[gi] \in Node
      <3>1. gi \in DOMAIN Goals
        BY <1>1, GoalAssumption DEF GoalCall, TypeOK
      <3> QED
        BY <1>1, <3>1, GoalAssumption, ElementOfSeq DEF GoalCall, TypeOK
    <2>2. CallTypes
      BY <1>1, <2>1, CallType DEF GoalCall
    <2>3. JobTypes
      BY <1>1, <2>2 DEF GoalCall, TypeOK, JobTypes, CallTypes
    <2> QED
      BY <1>1, <2>2, <2>3, TypeOfParts DEF GoalCall, TypeOK
  <1>2. CASE GoalReturnSerial
    <2>1. CallTypes /\ JobTypes
      BY <1>2, UnchangedJobTypes DEF GoalReturnSerial, TypeOK, CallTypes
    <2>2. /\ pc' \in {"goals", "wait", "drain"}
          /\ gi' \in Nat \ {0} /\ draining' \in BOOLEAN
      <3>1. gi \in Nat \ {0} /\ pc = "goals" /\ draining \in BOOLEAN
        BY <1>2 DEF GoalReturnSerial, InGoals, TypeOK
      <3>2. CASE ret = "PENDING"
        BY <1>2, <3>1, <3>2 DEF GoalReturnSerial
      <3>3. CASE ret = "FAIL" /\ ~opt.k
        BY <1>2, <3>1, <3>3 DEF GoalReturnSerial
      <3>4. CASE ret # "PENDING" /\ ~(ret = "FAIL" /\ ~opt.k)
        BY <1>2, <3>1, <3>4 DEF GoalReturnSerial
      <3> QED
        BY <3>2, <3>3, <3>4
    <2> QED
      BY <1>2, <2>1, <2>2, TypeOfParts DEF GoalReturnSerial, TypeOK
  <1>3. CASE GoalReturnParallel
    <2>1. CallTypes /\ JobTypes
      BY <1>3, UnchangedJobTypes DEF GoalReturnParallel, TypeOK, CallTypes
    <2>2. gi' \in Nat \ {0} /\ done' \in BOOLEAN
      BY <1>3 DEF GoalReturnParallel, TypeOK
    <2> QED
      BY <1>3, <2>1, <2>2, TypeOfParts DEF GoalReturnParallel, TypeOK
  <1>4. CASE PassEnd
    <2>1. CallTypes /\ JobTypes
      BY <1>4, UnchangedJobTypes, UnchangedCallTypes DEF PassEnd
    <2>2. /\ pc' \in {"wait", "drain"} /\ gi' \in Nat \ {0}
          /\ done' \in BOOLEAN /\ draining' \in BOOLEAN
      <3>1. CASE done
        BY <1>4, <3>1 DEF PassEnd, TypeOK
      <3>2. CASE ~done
        BY <1>4, <3>2 DEF PassEnd, TypeOK
      <3> QED
        BY <3>1, <3>2
    <2> QED
      BY <1>4, <2>1, <2>2, TypeOfParts DEF PassEnd, TypeOK
  <1>5. CASE Drain
    <2>1. CallTypes /\ JobTypes
      BY <1>5, UnchangedJobTypes, UnchangedCallTypes DEF Drain
    <2>2. pc' \in {"wait", "exit"} /\ status' \in 0 .. 2
      BY <1>5 DEF Drain, TypeOK
    <2> QED
      BY <1>5, <2>1, <2>2, TypeOfParts DEF Drain, TypeOK
  <1> QED
    BY <1>1, <1>2, <1>3, <1>4, <1>5 DEF BuildGoals

LEMMA ReapType ==
  ASSUME TypeOK, NEW n \in Node, ReapOk(n) \/ ReapBad(n)
  PROVE  TypeOK'
  <1> USE DEF params, nodes, calls, loop, procs, tokens, flags, sigs, files
  <1>1. job[n] \in Jobs /\ pool \in SUBSET Token
    BY DEF TypeOK
  <1>2. [job[n] EXCEPT !.failed = TRUE] \in Jobs
    BY <1>1 DEF Jobs
  <1>3. JobTypes
    BY <1>1, <1>2, JobNextType, JobDoneType DEF ReapOk, ReapBad
  <1>4. CallTypes
    BY <1>3 DEF ReapOk, ReapBad, TypeOK, JobTypes, CallTypes
  <1>5. /\ any_error' \in BOOLEAN /\ stop_starting' \in BOOLEAN
        /\ pc' \in {"goals", "drain"} /\ draining' \in BOOLEAN
    BY DEF ReapOk, ReapBad, WaitReturns, LoopExit, NoteError, TypeOK
  <1>6. ok' \in [Node -> BOOLEAN]
    BY <1>3 DEF JobTypes
  <1> QED
    BY <1>3, <1>4, <1>5, <1>6, TypeOfParts DEF ReapOk, ReapBad, TypeOK

LEMMA WaitType ==
  ASSUME TypeOK, WaitSignal \/ NoZombie \/ Poll \/ HandleSignal
  PROVE  TypeOK'
  <1> USE DEF params, nodes, calls, loop, procs, tokens, flags, sigs, files
  <1>1. CallTypes
    BY UnchangedCallTypes DEF WaitSignal, NoZombie, Poll, HandleSignal
  <1>2. CASE WaitSignal \/ NoZombie
    <2>1. JobTypes
      BY <1>2, UnchangedJobTypes DEF WaitSignal, NoZombie
    <2> QED
      BY <1>1, <1>2, <2>1, TypeOfParts DEF WaitSignal, NoZombie, TypeOK
  <1>3. CASE Poll
    <2>1. JobTypes
      BY <1>3, UnchangedJobTypes DEF Poll
    <2>2. /\ pc' \in {"goals", "drain", "wait"} /\ draining' \in BOOLEAN
          /\ stop_starting' \in BOOLEAN /\ sigpipe' \in BOOLEAN
      BY <1>3 DEF Poll, WaitReturns, LoopExit, TypeOK
    <2> QED
      BY <1>1, <1>3, <2>1, <2>2, TypeOfParts DEF Poll, TypeOK
  <1>4. CASE HandleSignal
    <2>1. mtime' \in [Node -> Nat]
      BY <1>4 DEF HandleSignal, TypeOK
    <2>2. JobTypes
      BY <1>4, <2>1 DEF HandleSignal, TypeOK, JobTypes
    <2> QED
      BY <1>1, <1>4, <2>2, TypeOfParts DEF HandleSignal, TypeOK
  <1> QED
    BY <1>2, <1>3, <1>4

LEMMA EnvironmentType ==
  ASSUME TypeOK, Environment
  PROVE  TypeOK'
  <1> USE DEF params, nodes, calls, loop, procs, tokens, flags, sigs, files
  <1>1. ASSUME NEW n \in Node, ChildWrites(n)
        PROVE  TypeOK'
    <2>1. mtime' \in [Node -> Nat] /\ clock' \in Nat
      BY <1>1, NowType DEF ChildWrites, TypeOK
    <2>2. CallTypes /\ JobTypes
      BY <1>1, <2>1, UnchangedCallTypes DEF ChildWrites, TypeOK, JobTypes
    <2> QED
      BY <1>1, <2>2, TypeOfParts DEF ChildWrites, TypeOK
  <1>2. ASSUME NEW n \in Node, ChildExits(n)
        PROVE  TypeOK'
    <2>1. CallTypes /\ JobTypes
      BY <1>2, UnchangedCallTypes DEF ChildExits, TypeOK, JobTypes
    <2> QED
      BY <1>2, <2>1, TypeOfParts DEF ChildExits, TypeOK
  <1>3. ASSUME NEW t \in Token, OtherTakes(t) \/ OtherReturns(t)
        PROVE  TypeOK'
    <2>1. CallTypes /\ JobTypes
      BY <1>3, UnchangedCallTypes DEF OtherTakes, OtherReturns, TypeOK, JobTypes
    <2> QED
      BY <1>3, <2>1, TypeOfParts DEF OtherTakes, OtherReturns, TypeOK
  <1>4. CASE Signal
    <2>1. CallTypes /\ JobTypes
      BY <1>4, UnchangedCallTypes, UnchangedJobTypes DEF Signal
    <2>2. caught_signal' \in BOOLEAN /\ sigpipe' \in BOOLEAN
      BY <1>4 DEF Signal, TypeOK
    <2>3. pc' \in {"goals", "wait", "reap", "poll", "killing", "drain", "exit", "dead"}
      BY <1>4 DEF Signal, TypeOK
    <2>4. UNCHANGED <<params, gi, done, draining, status, others, stop_starting, any_error, ok>>
      BY <1>4 DEF Signal
    <2>5. /\ ok' \in [Node -> BOOLEAN] /\ gi' \in Nat \ {0} /\ status' \in 0 .. 2
          /\ done' \in BOOLEAN /\ draining' \in BOOLEAN /\ others' \subseteq Token
          /\ stop_starting' \in BOOLEAN /\ any_error' \in BOOLEAN
      BY <2>4 DEF TypeOK
    <2> QED
      BY <2>1, <2>2, <2>3, <2>4, <2>5, TypeOfParts
  <1> QED
    BY <1>1, <1>2, <1>3, <1>4 DEF Environment

LEMMA UnchangedType ==
  ASSUME TypeOK, UNCHANGED vars
  PROVE  TypeOK'
  <1> USE DEF vars, params, nodes, calls, loop, procs, tokens, flags, sigs, files
  <1>1. CallTypes /\ JobTypes
    BY UnchangedCallTypes, UnchangedJobTypes
  <1> QED
    BY <1>1, TypeOfParts DEF TypeOK

\* Every variable of the engine keeps its type, for every makefile and number of jobs.
THEOREM TypeCorrect == Spec => []TypeOK
  <1>1. Init => TypeOK
    BY InitType
  <1>2. TypeOK /\ [Next]_vars => TypeOK'
    <2> SUFFICES ASSUME TypeOK, [Next]_vars PROVE TypeOK'
      OBVIOUS
    <2>1. CASE Update
      BY <2>1, ScanType, DecideType, StartType DEF Update
    <2>2. CASE BuildGoals
      BY <2>2, GoalsType
    <2>3. CASE WaitEvent
      BY <2>3, WaitType, ReapType DEF WaitEvent
    <2>4. CASE Environment
      BY <2>4, EnvironmentType
    <2>5. CASE UNCHANGED vars
      BY <2>5, UnchangedType
    <2> QED
      BY <2>1, <2>2, <2>3, <2>4, <2>5 DEF Next, Make, Terminated
  <1> QED
    BY <1>1, <1>2, PTL DEF Spec
-----------------------------------------------------------------------------
(***************************************************************************)
(* Order.  A step changes the state of at most one node, and a node that   *)
(* is DONE stays so; hence what is settled stays settled.                  *)
(***************************************************************************)
orderVars == <<mk, opt, state, ok, visiting, frame, cur, ret, dropped, jobs, stop_starting>>

LEMMA UnchangedOrder ==
  ASSUME OrderInv, UNCHANGED orderVars
  PROVE  OrderInv'
  <1>1. StateInv'
    BY DEF OrderInv, StateInv, orderVars
  <1>2. StackInv'
    BY DEF OrderInv, StackInv, All, orderVars
  <1>3. ScanInv'
    BY DEF OrderInv, ScanInv, Settled, StopHere, All, orderVars
  <1>4. PrereqsDone'
    BY DEF OrderInv, PrereqsDone, Settled, Prereqs, All, orderVars
  <1> QED
    BY <1>1, <1>2, <1>3, <1>4 DEF OrderInv

\* what a step of the job of n does to the states and to the list of jobs
LEMMA JobStep ==
  ASSUME TypeOK, NEW n \in Node, NEW j \in Jobs, NEW pl \in SUBSET Token,
         JobNext(n, j, pl) \/ JobDone(n, j, pl)
  PROVE  /\ \A m \in Node \ {n} : state'[m] = state[m] /\ ok'[m] = ok[m]
         /\ jobs' \subseteq jobs \cup {n}
         /\ n \in jobs' => state'[n] = "RUN"
         /\ n \notin jobs' => state'[n] = "DONE"
  <1>1. ASSUME NEW k \in Jobs, JobDone(n, k, pl)
        PROVE  /\ \A m \in Node \ {n} : state'[m] = state[m] /\ ok'[m] = ok[m]
               /\ jobs' = jobs \ {n} /\ state'[n] = "DONE"
    <2>1. PICK good, executed, t : FinishNode(n, good, executed, t)
      BY <1>1 DEF JobDone
    <2> QED
      BY <1>1, <2>1 DEF JobDone, FinishNode, TypeOK
  <1>2. [j EXCEPT !.failed = TRUE] \in Jobs
    BY DEF Jobs
  <1>3. CASE JobDone(n, j, pl) \/ JobDone(n, [j EXCEPT !.failed = TRUE], pl)
    BY <1>1, <1>2, <1>3
  <1>4. CASE /\ jobs' = jobs \cup {n}
             /\ state' = [state EXCEPT ![n] = "RUN"]
             /\ UNCHANGED ok
    BY <1>4 DEF TypeOK
  <1> QED
    BY <1>3, <1>4 DEF JobNext

LEMMA SettledStays ==
  ASSUME NEW n \in Node,
         \A m \in Node \ {n} : state'[m] = state[m] /\ ok'[m] = ok[m],
         state[n] # "DONE" \/ (state'[n] = state[n] /\ ok'[n] = ok[n]),
         dropped \subseteq dropped'
  PROVE  \A m, p \in Node : Settled(m, p) => Settled(m, p)'
  BY DEF Settled

LEMMA PrereqType ==
  ASSUME mk \in Makefiles, opt \in Options, NEW n \in Node
  PROVE  /\ Prereqs(n) \subseteq Node
         /\ \A i \in DOMAIN All(n) : All(n)[i] # Wait => All(n)[i] \in Node
         /\ DOMAIN All(n) = 1 .. Len(All(n)) /\ Len(All(n)) \in Nat
  <1>1. All(n) \in Seq(Node \cup {Wait})
    BY MakefileType
  <1>2. \A i \in DOMAIN All(n) : All(n)[i] \in Node \cup {Wait}
    BY <1>1, ElementOfSeq
  <1> QED
    BY <1>1, <1>2 DEF Prereqs

\* a call that has come to its end with nothing pending or failed has settled all
LEMMA EndOfScan ==
  ASSUME TypeOK, OrderInv, NEW n \in Node, Decide(n)
  PROVE  \A p \in Prereqs(n) : Settled(n, p)
  <1> SUFFICES ASSUME NEW p \in Prereqs(n)
               PROVE  Settled(n, p)
    OBVIOUS
  <1>1. PICK i \in DOMAIN All(n) : All(n)[i] = p /\ p # Wait
    BY DEF Prereqs
  <1>2. visiting[n] /\ cur = n
    BY DEF Decide, Scanning, OrderInv, StateInv
  <1>3. frame[n].at \in Nat /\ i \in Nat /\ i <= Len(All(n)) /\ Len(All(n)) \in Nat
    BY PrereqType DEF TypeOK
  <1>4. i < frame[n].at
    BY <1>2, <1>3 DEF Decide, AtEnd
  <1> QED
    BY <1>1, <1>2, <1>4 DEF Decide, OrderInv, ScanInv

\* a call that returns
LEMMA ReturnOrder ==
  ASSUME TypeOK, OrderInv, NEW n \in Node, cur = n, NEW r \in {"OK", "FAIL", "PENDING"},
         Return(r), UNCHANGED <<mk, opt, frame, dropped>>,
         \A m \in Node \ {n} : state'[m] = state[m] /\ ok'[m] = ok[m],
         jobs' \subseteq jobs \cup {n},
         n \in jobs' => state'[n] = "RUN" /\ \A p \in Prereqs(n) : Settled(n, p),
         stop_starting => stop_starting',
         r = "OK" => state'[n] = "DONE" /\ ok'[n]
  PROVE  OrderInv'
  <1> DEFINE c == frame[n].caller
  <1>1. /\ state[n] = "SCAN" /\ visiting[n] /\ n # NoNode
        /\ c \in Node \cup {NoNode}
        /\ jobs \subseteq Node /\ visiting \in [Node -> BOOLEAN]
    BY NodeAssumption DEF OrderInv, StateInv, TypeOK
  <1>2. \A m, p \in Node : Settled(m, p) => Settled(m, p)'
    BY <1>1, SettledStays
  <1>3. /\ visiting' = [visiting EXCEPT ![n] = FALSE] /\ cur' = c /\ ret' = r
    BY DEF Return
  <1>4. \A m \in Node : visiting'[m] => m # n /\ visiting[m]
    BY <1>1, <1>3
  <1>5. \A m \in Node : All(m)' = All(m) /\ Prereqs(m)' = Prereqs(m)
    BY DEF All, Prereqs
  <1>6. c # NoNode => /\ visiting[c] /\ c # n /\ frame[c].at <= Len(All(c))
                      /\ All(c)[frame[c].at] = n
    BY <1>1 DEF OrderInv, StackInv
  <1>7. StateInv'
    <2>1. cur' # NoNode => visiting'[cur']
      BY <1>1, <1>3, <1>6
    <2>2. \A m \in jobs' : state'[m] = "RUN"
      BY <1>1 DEF OrderInv, StateInv
    <2>3. \A m \in Node : visiting'[m] => state'[m] = "SCAN"
      BY <1>4 DEF OrderInv, StateInv
    <2> QED
      BY <2>1, <2>2, <2>3 DEF StateInv
  <1>8. StackInv'
    <2>1. ASSUME NEW m \in Node, visiting'[m], frame[m].caller # NoNode
          PROVE  /\ visiting'[frame[m].caller]
                 /\ frame[frame[m].caller].at <= Len(All(frame[m].caller))
                 /\ All(frame[m].caller)[frame[frame[m].caller].at] = m
                 /\ frame[m].caller # cur'
      <3>1. m # n /\ visiting[m]
        BY <1>4, <2>1
      <3>2. /\ visiting[frame[m].caller]
            /\ frame[frame[m].caller].at <= Len(All(frame[m].caller))
            /\ All(frame[m].caller)[frame[frame[m].caller].at] = m
            /\ frame[m].caller # n
        BY <2>1, <3>1 DEF OrderInv, StackInv
      <3>3. frame[m].caller \in Node
        BY <2>1 DEF TypeOK
      <3>4. frame[m].caller # c
        BY <1>6, <2>1, <3>1, <3>2
      <3> QED
        BY <1>1, <1>3, <3>2, <3>3, <3>4
    <2>2. cur' # NoNode => frame[cur'].at <= Len(All(cur')) /\ All(cur')[frame[cur'].at] # Wait
      BY <1>3, <1>6, NodeAssumption
    <2>4. \A m \in Node : frame[m].caller # NoNode => All(frame[m].caller)' = All(frame[m].caller)
      BY <1>5 DEF TypeOK
    <2>5. cur' # NoNode => /\ frame'[cur'].at <= Len(All(cur))'
                           /\ All(cur)'[frame'[cur'].at] # Wait
      BY <2>2 DEF All
    <2>6. ASSUME NEW m \in Node, visiting'[m], frame'[m].caller # NoNode
          PROVE  /\ visiting'[frame'[m].caller]
                 /\ frame'[frame'[m].caller].at <= Len(All(frame[m].caller)')
                 /\ All(frame[m].caller)'[frame'[frame'[m].caller].at] = m
                 /\ frame'[m].caller # cur'
      BY <2>1, <2>4, <2>6
    <2> QED
      BY <2>5, <2>6 DEF StackInv, All
  <1>9. ScanInv'
    <2>1. ASSUME NEW m \in Node, visiting'[m], NEW i \in DOMAIN All(m),
                 i < frame[m].at, All(m)[i] # Wait
          PROVE  Settled(m, All(m)[i])' \/ frame[m].pending \/ frame[m].failed \/ StopHere'
      <3>1. visiting[m]
        BY <1>4, <2>1
      <3>2. Settled(m, All(m)[i]) \/ frame[m].pending \/ frame[m].failed \/ StopHere
        BY <2>1, <3>1 DEF OrderInv, ScanInv
      <3>3. All(m)[i] \in Node
        BY <2>1, PrereqType DEF TypeOK
      <3>4. Settled(m, All(m)[i]) => Settled(m, All(m)[i])'
        BY <1>2, <3>3 DEF Settled, All
      <3> QED
        BY <3>2, <3>4 DEF StopHere
    <2>2. ret' = "OK" /\ cur' # NoNode => Settled(c, n)'
      BY <1>3 DEF Settled
    <2>3. ret' = "OK" /\ cur' # NoNode => Settled(cur, All(cur)[frame[cur].at])'
      BY <1>3, <1>6, <2>2 DEF Settled, All
    <2> QED
      BY <2>1, <2>3 DEF ScanInv, All
  <1>10. PrereqsDone'
    <2>1. ASSUME NEW m \in jobs', NEW p \in Prereqs(m)
          PROVE  Settled(m, p)'
      <3>1. m \in Node /\ (m \in jobs \/ m = n)
        BY <1>1
      <3>2. Settled(m, p)
        BY <2>1, <3>1 DEF OrderInv, PrereqsDone
      <3>3. p \in Node
        BY <3>1, PrereqType DEF TypeOK
      <3> QED
        BY <1>2, <3>1, <3>2, <3>3
    <2>2. \A m \in jobs' : Prereqs(m)' = Prereqs(m)
      BY DEF Prereqs, All
    <2> QED
      BY <2>1, <2>2 DEF PrereqsDone
  <1> QED
    BY <1>7, <1>8, <1>9, <1>10 DEF OrderInv
\* a call of update() that is answered at once or opens a frame
LEMMA CallOrder ==
  ASSUME TypeOK, OrderInv, NEW n \in Node, Call(n, cur), ret = "none",
         cur # NoNode => frame[cur].at <= Len(All(cur)) /\ All(cur)[frame[cur].at] = n,
         UNCHANGED <<mk, opt, ok, jobs, stop_starting>>
  PROVE  OrderInv'
  <1>1. \A m \in Node : All(m)' = All(m) /\ Prereqs(m)' = Prereqs(m)
    BY DEF All, Prereqs
  <1>2. CASE visiting[n] \/ state[n] \in {"RUN", "DONE"}
    <2>1. /\ UNCHANGED <<cur, frame, state, visiting>> /\ dropped \subseteq dropped'
          /\ ret' = "OK" => (state[n] = "DONE" /\ ok[n]) \/ <<cur, n>> \in dropped'
      BY <1>2 DEF Call, OrderInv, StateInv
    <2>2. \A m, p : Settled(m, p) => Settled(m, p)'
      BY <2>1 DEF Settled
    <2>3. StateInv'
      BY <2>1 DEF OrderInv, StateInv
    <2>4. StackInv'
      BY <2>1, NodeAssumption DEF OrderInv, StackInv, All
    <2>5. ScanInv'
      <3>1. cur' # NoNode /\ ret' = "OK" => Settled(cur, All(cur)[frame[cur].at])'
        BY <2>1 DEF Settled, All
      <3>2. ASSUME NEW m \in Node, visiting'[m], NEW i \in DOMAIN All(m),
                   i < frame[m].at, All(m)[i] # Wait
            PROVE  Settled(m, All(m)[i])' \/ frame[m].pending \/ frame[m].failed \/ StopHere'
        <4>1. Settled(m, All(m)[i]) \/ frame[m].pending \/ frame[m].failed \/ StopHere
          BY <2>1, <3>2 DEF OrderInv, ScanInv
        <4>2. Settled(m, All(m)[i]) => Settled(m, All(m)[i])'
          BY <2>1 DEF Settled, All
        <4> QED
          BY <4>1, <4>2 DEF StopHere
      <3> QED
        BY <2>1, <3>1, <3>2 DEF ScanInv, All
    <2>6. PrereqsDone'
      BY <2>1, <2>2 DEF OrderInv, PrereqsDone, Prereqs, All
    <2> QED
      BY <2>3, <2>4, <2>5, <2>6 DEF OrderInv
  <1>3. CASE ~visiting[n] /\ state[n] \in {"NEW", "SCAN"}
    <2>1. /\ state' = [state EXCEPT ![n] = "SCAN"]
          /\ visiting' = [visiting EXCEPT ![n] = TRUE]
          /\ frame' = [frame EXCEPT ![n] = NewFrame(cur)]
          /\ cur' = n /\ UNCHANGED <<ret, dropped>>
      BY <1>3 DEF Call
    <2>2. /\ frame'[n].at = 1 /\ frame'[n].caller = cur
          /\ \A m \in Node \ {n} : frame'[m] = frame[m]
      BY <2>1 DEF TypeOK, NewFrame
    <2>3. /\ visiting'[n] /\ state'[n] = "SCAN"
          /\ \A m \in Node \ {n} : visiting'[m] = visiting[m] /\ state'[m] = state[m]
      BY <2>1 DEF TypeOK
    <2>4. n \notin jobs /\ jobs \subseteq Node /\ cur # n /\ n # NoNode
      BY <1>3, NodeAssumption DEF OrderInv, StateInv, TypeOK
    <2>5. \A m, p \in Node : Settled(m, p) => Settled(m, p)'
      BY <1>3, <2>1, <2>3 DEF Settled
    <2>6. StateInv'
      BY <2>1, <2>3, <2>4 DEF OrderInv, StateInv
    <2>7. StackInv'
      <3>1. ASSUME NEW m \in Node, visiting'[m], frame'[m].caller # NoNode
            PROVE  /\ visiting'[frame'[m].caller]
                   /\ frame'[frame'[m].caller].at <= Len(All(frame'[m].caller))
                   /\ All(frame'[m].caller)[frame'[frame'[m].caller].at] = m
                   /\ frame'[m].caller # n
        <4>1. CASE m = n
          <5>1. cur \in Node /\ visiting[cur] /\ cur # n
            BY <2>2, <2>4, <3>1, <4>1 DEF OrderInv, StateInv, TypeOK
          <5> QED
            BY <2>2, <2>3, <3>1, <4>1, <5>1
        <4>2. CASE m # n
          <5>1. frame'[m] = frame[m] /\ visiting[m]
            BY <2>2, <2>3, <3>1, <4>2
          <5>2. /\ visiting[frame[m].caller]
                /\ frame[frame[m].caller].at <= Len(All(frame[m].caller))
                /\ All(frame[m].caller)[frame[frame[m].caller].at] = m
            BY <3>1, <5>1 DEF OrderInv, StackInv
          <5>3. frame[m].caller \in Node /\ frame[m].caller # n
            BY <1>3, <3>1, <5>1, <5>2 DEF TypeOK
          <5> QED
            BY <2>2, <2>3, <5>1, <5>2, <5>3
        <4> QED
          BY <4>1, <4>2
      <3> QED
        BY <2>1, <3>1 DEF StackInv, All
    <2>8. ScanInv'
      <3>1. ASSUME NEW m \in Node, visiting'[m], NEW i \in DOMAIN All(m),
                   i < frame'[m].at, All(m)[i] # Wait
            PROVE  Settled(m, All(m)[i])' \/ frame'[m].pending \/ frame'[m].failed \/ StopHere'
        <4>1. m # n
          BY <2>2, <3>1, PrereqType DEF TypeOK
        <4>2. frame'[m] = frame[m] /\ visiting[m]
          BY <2>2, <2>3, <3>1, <4>1
        <4>3. Settled(m, All(m)[i]) \/ frame[m].pending \/ frame[m].failed \/ StopHere
          BY <3>1, <4>2 DEF OrderInv, ScanInv
        <4>4. All(m)[i] \in Node
          BY <3>1, PrereqType DEF TypeOK
        <4>5. Settled(m, All(m)[i]) => Settled(m, All(m)[i])'
          BY <2>5, <4>4 DEF Settled, All
        <4> QED
          BY <4>2, <4>3, <4>5 DEF StopHere
      <3> QED
        BY <2>1, <3>1 DEF ScanInv, All
    <2>9. PrereqsDone'
      <3>1. ASSUME NEW m \in jobs, NEW p \in Prereqs(m)
            PROVE  Settled(m, p)'
        <4>1. m \in Node /\ p \in Node
          BY <2>4, PrereqType DEF TypeOK
        <4> QED
          BY <2>5, <4>1 DEF OrderInv, PrereqsDone
      <3> QED
        BY <3>1 DEF PrereqsDone, Prereqs, All
    <2> QED
      BY <2>6, <2>7, <2>8, <2>9 DEF OrderInv
  <1> QED
    BY <1>2, <1>3 DEF Call

\* the loop over the prerequisites
LEMMA ScanOrder ==
  ASSUME TypeOK, OrderInv, ScanWait \/ ScanReturn
  PROVE  OrderInv'
  <1> USE DEF params, nodes, calls, loop, procs, tokens, flags, sigs, files
  <1>1. /\ cur \in Node /\ frame[cur].at \in Nat \ {0} /\ visiting[cur]
        /\ UNCHANGED <<mk, opt, state, ok, visiting, cur, dropped, jobs, stop_starting>>
        /\ ret' = "none"
    BY DEF ScanWait, ScanReturn, Scanning, TypeOK, OrderInv, StateInv
  <1>2. /\ \A m \in Node \ {cur} : frame'[m] = frame[m]
        /\ frame'[cur].caller = frame[cur].caller
    BY <1>1 DEF ScanWait, ScanReturn, TypeOK
  <1>3. ASSUME NEW i \in DOMAIN All(cur), i < frame'[cur].at, All(cur)[i] # Wait
        PROVE  Settled(cur, All(cur)[i]) \/ frame'[cur].pending \/ frame'[cur].failed \/ StopHere
    <2>1. i < frame[cur].at =>
            Settled(cur, All(cur)[i]) \/ frame[cur].pending \/ frame[cur].failed \/ StopHere
      BY <1>1, <1>3 DEF OrderInv, ScanInv
    <2>2. i \in Nat /\ Len(All(cur)) \in Nat
      BY <1>1, PrereqType DEF TypeOK
    <2>3. CASE ScanWait
      <3>1. /\ frame'[cur].pending = frame[cur].pending
            /\ frame'[cur].failed = frame[cur].failed
            /\ frame'[cur].at = AfterWait
            /\ All(cur)[frame[cur].at] = Wait
        BY <1>1, <2>3 DEF ScanWait, TypeOK
      <3>2. ~frame[cur].pending => i < frame[cur].at
        BY <1>1, <1>3, <2>2, <3>1 DEF AfterWait
      <3> QED
        BY <2>1, <3>1, <3>2
    <2>4. CASE ScanReturn
      <3>1. /\ frame'[cur].pending = (frame[cur].pending \/ ret = "PENDING")
            /\ frame'[cur].failed = (frame[cur].failed \/ ret = "FAIL")
            /\ frame'[cur].at = IF Leaves THEN Break ELSE frame[cur].at + 1
            /\ ret \in {"OK", "FAIL", "PENDING"}
        BY <1>1, <2>4 DEF ScanReturn, TypeOK
      <3>2. ret = "OK" => Settled(cur, All(cur)[frame[cur].at])
        BY <1>1, NodeAssumption DEF OrderInv, ScanInv
      <3>3. CASE Leaves
        BY <2>1, <3>1, <3>3 DEF Leaves
      <3>4. CASE ~Leaves
        <4>1. i < frame[cur].at \/ i = frame[cur].at
          BY <1>1, <1>3, <2>2, <3>1, <3>4
        <4> QED
          BY <2>1, <3>1, <3>2, <4>1
      <3> QED
        BY <3>3, <3>4
    <2> QED
      BY <2>3, <2>4
  <1>4. StateInv'
    BY <1>1 DEF OrderInv, StateInv
  <1>5. StackInv'
    <2>1. ASSUME NEW m \in Node, visiting[m], frame[m].caller # NoNode
          PROVE  /\ frame'[m].caller = frame[m].caller
                 /\ frame'[frame[m].caller] = frame[frame[m].caller]
      <3>1. frame[m].caller \in Node /\ frame[m].caller # cur
        BY <2>1 DEF OrderInv, StackInv, TypeOK
      <3> QED
        BY <1>1, <1>2, <3>1
    <2>2. \A m \in Node : frame'[m].caller = frame[m].caller
      BY <1>2
    <2> QED
      BY <1>1, <2>1, <2>2 DEF OrderInv, StackInv, All
  <1>6. ScanInv'
    <2>1. ASSUME NEW m \in Node, visiting'[m], NEW i \in DOMAIN All(m),
                 i < frame'[m].at, All(m)[i] # Wait
          PROVE  Settled(m, All(m)[i]) \/ frame'[m].pending \/ frame'[m].failed \/ StopHere
      <3>1. CASE m = cur
        BY <1>3, <2>1, <3>1
      <3>2. CASE m # cur
        BY <1>1, <1>2, <2>1, <3>2 DEF OrderInv, ScanInv
      <3> QED
        BY <3>1, <3>2
    <2> QED
      BY <1>1, <2>1 DEF ScanInv, All, Settled, StopHere
  <1>7. PrereqsDone'
    BY <1>1 DEF OrderInv, PrereqsDone, Prereqs, All, Settled
  <1> QED
    BY <1>4, <1>5, <1>6, <1>7 DEF OrderInv
LEMMA UpdateOrder ==
  ASSUME TypeOK, OrderInv, Update
  PROVE  OrderInv'
  <1> USE DEF params, nodes, calls, loop, procs, tokens, flags, sigs, files
  <1>1. CASE ScanCall
    <2>1. cur \in Node /\ frame[cur].at \in 1 .. Len(All(cur))
      BY <1>1, PrereqType DEF ScanCall, Scanning, AtEnd, TypeOK
    <2>2. All(cur)[frame[cur].at] \in Node
      BY <1>1, <2>1, PrereqType DEF ScanCall, TypeOK
    <2> QED
      BY <1>1, <2>1, <2>2, CallOrder DEF ScanCall, Scanning
  <1>2. CASE ScanPending \/ ScanFailed
    <2>1. cur \in Node /\ state[cur] = "SCAN" /\ cur \notin jobs
      BY <1>2 DEF ScanPending, ScanFailed, Scanning, TypeOK, OrderInv, StateInv
    <2>2. PICK r \in {"FAIL", "PENDING"} : Return(r)
      BY <1>2 DEF ScanPending, ScanFailed
    <2>3. \A m \in Node \ {cur} : state'[m] = state[m] /\ ok'[m] = ok[m]
      BY <1>2, <2>1 DEF ScanPending, ScanFailed, TypeOK
    <2> QED
      BY <1>2, <2>1, <2>2, <2>3, ReturnOrder DEF ScanPending, ScanFailed
  <1>3. ASSUME NEW n \in Node,
               DcolonUpToDate(n) \/ UpToDate(n) \/ NoCommands(n) \/ NoRule(n) \/ NoSlot(n)
        PROVE  OrderInv'
    <2>1. cur = n /\ n \notin jobs
      BY <1>3, NodeAssumption
         DEF DcolonUpToDate, UpToDate, NoCommands, NoRule, NoSlot, Decide, OrderInv, StateInv
    <2>2. \A m \in Node \ {n} : state'[m] = state[m] /\ ok'[m] = ok[m]
      BY <1>3 DEF DcolonUpToDate, UpToDate, NoCommands, NoRule, NoSlot, TypeOK
    <2>3. CASE DcolonUpToDate(n) \/ UpToDate(n) \/ NoCommands(n)
      <3>1. Return("OK") /\ state'[n] = "DONE" /\ ok'[n]
        BY <2>3 DEF DcolonUpToDate, UpToDate, NoCommands, TypeOK
      <3> QED
        BY <2>1, <2>2, <2>3, <3>1, ReturnOrder DEF DcolonUpToDate, UpToDate, NoCommands
    <2>4. CASE NoRule(n) \/ NoSlot(n)
      <3>1. PICK r \in {"FAIL", "PENDING"} : Return(r)
        BY <2>4 DEF NoRule, NoSlot
      <3>2. /\ UNCHANGED <<mk, opt, frame, dropped, jobs>>
            /\ stop_starting => stop_starting'
        <4>1. CASE NoRule(n)
          BY <4>1 DEF NoRule, NoteError
        <4>2. CASE NoSlot(n)
          BY <4>2 DEF NoSlot
        <4> QED
          BY <2>4, <4>1, <4>2
      <3> QED
        BY <2>1, <2>2, <3>1, <3>2, ReturnOrder
    <2> QED
      BY <1>3, <2>3, <2>4
  <1>4. ASSUME NEW n \in Node, NEW t \in pool \cup {NoToken}, StartJob(n, t)
        PROVE  OrderInv'
    <2> DEFINE j == NewJob(ToRun(n, Segs(n)), t, mtime[n])
               r == IF state'[n] # "DONE" THEN "PENDING" ELSE IF ok'[n] THEN "OK" ELSE "FAIL"
    <2>1. j \in Jobs /\ pool \ {t} \in SUBSET Token
      BY ToRunType DEF TypeOK, Jobs, NewJob
    <2>2. /\ Decide(n) /\ cur = n /\ JobNext(n, j, pool \ {t}) /\ Return(r)
          /\ UNCHANGED <<mk, opt, frame, dropped, stop_starting>>
      BY <1>4 DEF StartJob, Decide
    <2>3. /\ \A m \in Node \ {n} : state'[m] = state[m] /\ ok'[m] = ok[m]
          /\ jobs' \subseteq jobs \cup {n}
          /\ n \in jobs' => state'[n] = "RUN"
      <3> HIDE DEF j
      <3> QED
        BY <2>1, <2>2, JobStep
    <2>4. \A p \in Prereqs(n) : Settled(n, p)
      BY <2>2, EndOfScan
    <2>5. r \in {"OK", "FAIL", "PENDING"} /\ (r = "OK" => state'[n] = "DONE" /\ ok'[n])
      OBVIOUS
    <2> HIDE DEF r
    <2> QED
      BY <2>2, <2>3, <2>4, <2>5, ReturnOrder
  <1> QED
    BY <1>1, <1>2, <1>3, <1>4, ScanOrder DEF Update

LEMMA GoalsOrder ==
  ASSUME TypeOK, OrderInv, BuildGoals
  PROVE  OrderInv'
  <1> USE DEF params, nodes, calls, loop, procs, tokens, flags, sigs, files
  <1>1. CASE GoalCall
    <2>1. gi \in DOMAIN Goals
      BY <1>1, GoalAssumption DEF GoalCall, TypeOK
    <2>2. Goals[gi] \in Node
      BY <2>1, GoalAssumption, ElementOfSeq
    <2> QED
      BY <1>1, <2>2, CallOrder DEF GoalCall, InGoals
  <1>2. CASE GoalReturnSerial \/ GoalReturnParallel
    <2>1. cur = NoNode /\ cur' = NoNode /\ ret' = "none"
          /\ UNCHANGED <<mk, opt, state, ok, visiting, frame, dropped, jobs, stop_starting>>
      BY <1>2 DEF GoalReturnSerial, GoalReturnParallel, InGoals
    <2> QED
      BY <2>1 DEF OrderInv, StateInv, StackInv, ScanInv, PrereqsDone, Settled, StopHere,
                  Prereqs, All
  <1>3. CASE PassEnd \/ Drain
    BY <1>3, UnchangedOrder DEF PassEnd, Drain, orderVars
  <1> QED
    BY <1>1, <1>2, <1>3 DEF BuildGoals

LEMMA ReapOrder ==
  ASSUME TypeOK, OrderInv, NEW n \in Node, ReapOk(n) \/ ReapBad(n)
  PROVE  OrderInv'
  <1> USE DEF params, nodes, calls, loop, procs, tokens, flags, sigs, files
  <1>0. job[n] \in Jobs /\ pool \in SUBSET Token
    BY DEF TypeOK
  <1>1. [job[n] EXCEPT !.failed = TRUE] \in Jobs
    BY <1>0 DEF Jobs
  <1>2. /\ \A m \in Node \ {n} : state'[m] = state[m] /\ ok'[m] = ok[m]
        /\ jobs' \subseteq jobs \cup {n}
        /\ n \in jobs' => state'[n] = "RUN"
    BY <1>0, <1>1, JobStep DEF ReapOk, ReapBad
  <1>3. /\ n \in jobs /\ state[n] = "RUN" /\ ~visiting[n] /\ jobs \subseteq Node
        /\ UNCHANGED <<mk, opt, visiting, frame, cur, ret, dropped>>
        /\ stop_starting => stop_starting'
    BY DEF ReapOk, ReapBad, NoteError, OrderInv, StateInv, TypeOK
  <1>4. \A m, p \in Node : Settled(m, p) => Settled(m, p)'
    BY <1>2, <1>3, SettledStays
  <1>5. StateInv'
    BY <1>2, <1>3 DEF OrderInv, StateInv
  <1>6. StackInv'
    BY <1>3 DEF OrderInv, StackInv, All
  <1>7. ScanInv'
    <2>1. ASSUME NEW m \in Node, visiting[m], NEW i \in DOMAIN All(m),
                 i < frame[m].at, All(m)[i] # Wait
          PROVE  Settled(m, All(m)[i])' \/ frame[m].pending \/ frame[m].failed \/ StopHere'
      <3>1. Settled(m, All(m)[i]) \/ frame[m].pending \/ frame[m].failed \/ StopHere
        BY <2>1 DEF OrderInv, ScanInv
      <3>2. All(m)[i] \in Node
        BY <2>1, PrereqType DEF TypeOK
      <3>3. Settled(m, All(m)[i]) => Settled(m, All(m)[i])'
        BY <1>3, <1>4, <3>2 DEF Settled, All
      <3> QED
        BY <1>3, <3>1, <3>3 DEF StopHere
    <2>2. cur # NoNode /\ ret = "OK" => Settled(cur, All(cur)[frame[cur].at])'
      <3>1. SUFFICES ASSUME cur # NoNode, ret = "OK"
                     PROVE  Settled(cur, All(cur)[frame[cur].at])'
        OBVIOUS
      <3>2. cur \in Node /\ frame[cur].at \in 1 .. Len(All(cur))
            /\ All(cur)[frame[cur].at] # Wait
        BY <3>1, PrereqType DEF TypeOK, OrderInv, StackInv
      <3>3. All(cur)[frame[cur].at] \in Node
        BY <3>2, PrereqType DEF TypeOK
      <3>4. Settled(cur, All(cur)[frame[cur].at])
        BY <3>1 DEF OrderInv, ScanInv
      <3> QED
        BY <1>3, <1>4, <3>2, <3>3, <3>4 DEF Settled, All
    <2> QED
      BY <1>3, <2>1, <2>2 DEF ScanInv, All
  <1>8. PrereqsDone'
    <2>1. ASSUME NEW m \in jobs', NEW p \in Prereqs(m)
          PROVE  Settled(m, p)'
      <3>1. m \in jobs /\ m \in Node
        BY <1>2, <1>3
      <3>2. p \in Node
        BY <3>1, PrereqType DEF TypeOK
      <3> QED
        BY <1>4, <3>1, <3>2 DEF OrderInv, PrereqsDone
    <2> QED
      BY <1>3, <2>1 DEF PrereqsDone, Prereqs, All
  <1> QED
    BY <1>5, <1>6, <1>7, <1>8 DEF OrderInv

LEMMA OrderStep ==
  ASSUME TypeOK, OrderInv, [Next]_vars
  PROVE  OrderInv'
  <1> USE DEF vars, params, nodes, calls, loop, procs, tokens, flags, sigs, files
  <1>1. CASE WaitSignal \/ NoZombie \/ Poll \/ HandleSignal
    BY <1>1, UnchangedOrder DEF WaitSignal, NoZombie, Poll, HandleSignal, orderVars
  <1>2. CASE Environment
    BY <1>2, UnchangedOrder
       DEF Environment, ChildWrites, ChildExits, Signal, OtherTakes, OtherReturns, orderVars
  <1>3. CASE UNCHANGED vars
    BY <1>3, UnchangedOrder DEF orderVars
  <1>4. CASE \E n \in Node : ReapOk(n) \/ ReapBad(n)
    BY <1>4, ReapOrder
  <1>5. CASE Update \/ BuildGoals
    BY <1>5, UpdateOrder, GoalsOrder
  <1> QED
    BY <1>1, <1>2, <1>3, <1>4, <1>5 DEF Next, Make, WaitEvent, Terminated

LEMMA InitOrder == Init => OrderInv
  BY DEF Init, OrderInv, StateInv, StackInv, ScanInv, PrereqsDone

LEMMA OrderInvariant == Spec => []OrderInv
  <1>1. TypeOK /\ OrderInv /\ [Next]_vars => OrderInv'
    BY OrderStep
  <1> QED
    BY <1>1, InitOrder, TypeCorrect, PTL DEF Spec

\* The commands of a target are only in progress when each prerequisite has been made
\* (or its edge was dropped as circular): for every makefile, every -j and with any
\* failing commands, failing forks and signals.
THEOREM PrereqsDoneTheorem == Spec => []PrereqsDone
  <1>1. OrderInv => PrereqsDone
    BY DEF OrderInv
  <1> QED
    BY <1>1, OrderInvariant, PTL

-----------------------------------------------------------------------------
(***************************************************************************)
(* Slots.  A token moves between the pipe, the other makes and the jobs of *)
(* this make; a job is started without one only when it is the only job.   *)
(***************************************************************************)

LEMMA UnchangedSlots ==
  ASSUME SlotInv, UNCHANGED <<jobs, job, pool, others>>
  PROVE  SlotInv'
  BY DEF SlotInv, TokensConserved, OneSlotEach

\* a step of the job of n, which held the slot j.token, with the pool pl
LEMMA JobSlots ==
  ASSUME TypeOK, NEW n \in Node, NEW j \in Jobs, NEW pl \in SUBSET Token,
         JobNext(n, j, pl) \/ JobDone(n, j, pl), UNCHANGED others,
         Token = pl \cup others \cup (({job[m].token : m \in jobs \ {n}} \cup {j.token}) \ {NoToken}),
         pl \cap others = {}, NoToken \notin pl \cup others, j.token \notin pl \cup others,
         \A m \in jobs \ {n} : job[m].token \notin pl \cup others /\ job[m].token # j.token,
         \A l, m \in jobs \ {n} : job[m].token = job[l].token => m = l
  PROVE  SlotInv'
  <1>1. jobs \subseteq Node /\ j.token \in Token \cup {NoToken}
    BY DEF TypeOK, Jobs
  <1>2. ASSUME jobs' = jobs \cup {n}, job' = [job EXCEPT ![n] = job'[n]], job'[n].token = j.token,
               pool' = pl
        PROVE  SlotInv'
    <2>1. \A m \in jobs \ {n} : job'[m] = job[m]
      BY <1>1, <1>2 DEF TypeOK
    <2>2. {job'[m].token : m \in jobs'} = {job[m].token : m \in jobs \ {n}} \cup {j.token}
      BY <1>2, <2>1
    <2>3. TokensConserved'
      BY <1>1, <1>2, <2>1, <2>2, TokenAssumption DEF TokensConserved
    <2>4. OneSlotEach'
      BY <1>2, <2>1 DEF OneSlotEach
    <2> QED
      BY <2>3, <2>4 DEF SlotInv
  <1>3. ASSUME jobs' = jobs \ {n}, job' = [job EXCEPT ![n] = NoJob],
               pool' = pl \cup ({j.token} \ {NoToken})
        PROVE  SlotInv'
    <2>1. \A m \in jobs \ {n} : job'[m] = job[m]
      BY <1>1, <1>3 DEF TypeOK
    <2>2. {job'[m].token : m \in jobs'} = {job[m].token : m \in jobs \ {n}}
      BY <1>3, <2>1
    <2>3. TokensConserved'
      BY <1>1, <1>3, <2>1, <2>2, TokenAssumption DEF TokensConserved
    <2>4. OneSlotEach'
      BY <1>3, <2>1 DEF OneSlotEach
    <2> QED
      BY <2>3, <2>4 DEF SlotInv
  <1>4. CASE JobDone(n, j, pl)
    BY <1>3, <1>4 DEF JobDone, Released
  <1>5. CASE JobDone(n, [j EXCEPT !.failed = TRUE], pl)
    <2>1. [j EXCEPT !.failed = TRUE].token = j.token
      BY DEF Jobs
    <2> QED
      BY <1>3, <1>5, <2>1 DEF JobDone, Released
  <1>6. CASE /\ j.left # {}
             /\ LET x == FirstLine(j.left)
                    line == mk[n].rules[x[1]].cmds[x[2]]
                IN job' = [job EXCEPT ![n] = [j EXCEPT !.left = @ \ {x},
                                                        !.ignore = "-" \in line,
                                                        !.executed = TRUE]]
             /\ jobs' = jobs \cup {n}
             /\ pool' = pl
    <2> DEFINE x == FirstLine(j.left)
               k == [j EXCEPT !.left = @ \ {x},
                              !.ignore = "-" \in mk[n].rules[x[1]].cmds[x[2]],
                              !.executed = TRUE]
    <2>0. k.token = j.token
      BY DEF Jobs
    <2> HIDE DEF k
    <2>2. job' = [job EXCEPT ![n] = k]
      BY <1>6 DEF k
    <2>1. job' = [job EXCEPT ![n] = job'[n]] /\ job'[n].token = j.token
      BY <2>0, <2>2 DEF TypeOK
    <2> QED
      BY <1>2, <1>6, <2>1
  <1> QED
    BY <1>4, <1>5, <1>6 DEF JobNext

LEMMA InitSlots ==
  ASSUME Init
  PROVE  SlotInv
  BY DEF Init, SlotInv, TokensConserved, OneSlotEach

\* take_slot: the slot a new job gets is nobody else's
LEMMA StartSlots ==
  ASSUME TypeOK, OrderInv, SlotInv, NEW n \in Node, NEW t \in pool \cup {NoToken}, StartJob(n, t)
  PROVE  SlotInv'
  <1> DEFINE j == NewJob(ToRun(n, Segs(n)), t, mtime[n])
  <1>1. j \in Jobs /\ j.token = t /\ pool \ {t} \in SUBSET Token
    BY ToRunType DEF TypeOK, Jobs, NewJob
  <1>2. n \notin jobs
    <2>1. visiting[n]
      BY NodeAssumption DEF StartJob, Decide, OrderInv, StateInv
    <2> QED
      BY <2>1 DEF OrderInv, StateInv
  <1>3. JobNext(n, j, pool \ {t}) /\ Slot(t) /\ UNCHANGED others
    BY DEF StartJob
  <1> HIDE DEF j
  <1>4. jobs \ {n} = jobs /\ jobs \subseteq Node
    BY <1>2 DEF TypeOK
  <1>5. /\ Token = pool \cup others \cup ({job[m].token : m \in jobs} \ {NoToken})
        /\ pool \cap others = {} /\ pool \subseteq Token /\ others \subseteq Token
        /\ \A m \in jobs : job[m].token \notin pool \cup others
        /\ \A l, m \in jobs : job[m].token = job[l].token => m = l
    BY DEF SlotInv, TokensConserved, OneSlotEach, TypeOK
  <1>6. /\ t \notin (pool \ {t}) \cup others
        /\ \A m \in jobs : job[m].token # t
    BY <1>3, <1>5, TokenAssumption DEF Slot
  <1>7. Token = (pool \ {t}) \cup others
                  \cup (({job[m].token : m \in jobs \ {n}} \cup {t}) \ {NoToken})
    BY <1>4, <1>5, TokenAssumption
  <1>8. /\ (pool \ {t}) \cap others = {} /\ NoToken \notin (pool \ {t}) \cup others
        /\ \A m \in jobs \ {n} :
             job[m].token \notin (pool \ {t}) \cup others /\ job[m].token # t
        /\ \A l, m \in jobs \ {n} : job[m].token = job[l].token => m = l
    BY <1>4, <1>5, <1>6, TokenAssumption
  <1> QED
    BY <1>1, <1>3, <1>6, <1>7, <1>8, JobSlots

\* a command that ends leaves its slot to the next one, or gives it back
LEMMA ReapSlots ==
  ASSUME TypeOK, SlotInv, NEW n \in Node, ReapOk(n) \/ ReapBad(n)
  PROVE  SlotInv'
  <1>1. job[n] \in Jobs /\ pool \in SUBSET Token /\ others \subseteq Token /\ n \in jobs
    BY DEF TypeOK, ReapOk, ReapBad
  <1>2. PICK j \in Jobs :
          /\ j.token = job[n].token
          /\ JobNext(n, j, pool) \/ JobDone(n, j, pool)
    <2>1. CASE ReapOk(n)
      BY <1>1, <2>1 DEF ReapOk
    <2>2. CASE ReapBad(n)
      <3>1. /\ [job[n] EXCEPT !.failed = TRUE] \in Jobs
            /\ [job[n] EXCEPT !.failed = TRUE].token = job[n].token
        BY <1>1 DEF Jobs
      <3> QED
        BY <2>2, <3>1 DEF ReapBad
    <2> QED
      BY <2>1, <2>2
  <1>3. UNCHANGED others
    BY DEF ReapOk, ReapBad
  <1>4. {job[m].token : m \in jobs} = {job[m].token : m \in jobs \ {n}} \cup {j.token}
    BY <1>1, <1>2
  <1>5. /\ Token = pool \cup others \cup ({job[m].token : m \in jobs} \ {NoToken})
        /\ pool \cap others = {}
        /\ \A m \in jobs : job[m].token \notin pool \cup others
        /\ \A l, m \in jobs : job[m].token = job[l].token => m = l
    BY DEF SlotInv, TokensConserved, OneSlotEach
  <1>6. /\ Token = pool \cup others
                    \cup (({job[m].token : m \in jobs \ {n}} \cup {j.token}) \ {NoToken})
        /\ NoToken \notin pool \cup others /\ j.token \notin pool \cup others
        /\ \A m \in jobs \ {n} :
             job[m].token \notin pool \cup others /\ job[m].token # j.token
        /\ \A l, m \in jobs \ {n} : job[m].token = job[l].token => m = l
    BY <1>1, <1>2, <1>4, <1>5, TokenAssumption
  <1> QED
    BY <1>1, <1>2, <1>3, <1>5, <1>6, JobSlots

LEMMA SlotStep ==
  ASSUME TypeOK, OrderInv, SlotInv, [Next]_vars
  PROVE  SlotInv'
  <1> USE DEF vars, params, nodes, calls, loop, procs, tokens, flags, sigs, files
  <1>1. CASE \/ ScanWait \/ ScanCall \/ ScanReturn \/ ScanPending \/ ScanFailed
             \/ \E n \in Node :
                  \/ DcolonUpToDate(n) \/ UpToDate(n) \/ NoCommands(n)
                  \/ NoRule(n) \/ NoSlot(n)
    BY <1>1, UnchangedSlots
       DEF ScanWait, ScanCall, ScanReturn, ScanPending, ScanFailed, DcolonUpToDate,
           UpToDate, NoCommands, NoRule, NoSlot
  <1>2. ASSUME NEW n \in Node, NEW t \in pool \cup {NoToken}, StartJob(n, t)
        PROVE  SlotInv'
    BY <1>2, StartSlots
  <1>3. CASE BuildGoals
    BY <1>3, UnchangedSlots
       DEF BuildGoals, GoalCall, GoalReturnSerial, GoalReturnParallel, PassEnd, Drain
  <1>4. CASE WaitSignal \/ NoZombie \/ Poll \/ HandleSignal
    BY <1>4, UnchangedSlots DEF WaitSignal, NoZombie, Poll, HandleSignal
  <1>5. ASSUME NEW n \in Node, ReapOk(n) \/ ReapBad(n)
        PROVE  SlotInv'
    BY <1>5, ReapSlots
  <1>6. CASE Signal \/ (\E n \in Node : ChildWrites(n) \/ ChildExits(n)) \/ UNCHANGED vars
    BY <1>6, UnchangedSlots DEF Signal, ChildWrites, ChildExits
  <1>7. ASSUME NEW t \in Token, OtherTakes(t) \/ OtherReturns(t)
        PROVE  SlotInv'
    <2>1. pool' \cup others' = pool \cup others /\ pool' \cap others' = {}
      BY <1>7 DEF OtherTakes, OtherReturns, SlotInv, TokensConserved
    <2>2. UNCHANGED <<jobs, job>>
      BY <1>7 DEF OtherTakes, OtherReturns
    <2> QED
      BY <2>1, <2>2 DEF SlotInv, TokensConserved, OneSlotEach
  <1> QED
    BY <1>1, <1>2, <1>3, <1>4, <1>5, <1>6, <1>7
       DEF Next, Make, Update, WaitEvent, Environment, Terminated

LEMMA SlotInvariant == Spec => []SlotInv
  <1>1. TypeOK /\ OrderInv /\ SlotInv /\ [Next]_vars => SlotInv'
    BY SlotStep
  <1> QED
    BY <1>1, InitSlots, TypeCorrect, OrderInvariant, PTL DEF Spec

\* For every number of jobs, no token of the jobserver is lost, duplicated or made up,
\* whichever commands and forks fail and whatever the other makes do.
THEOREM TokensConservedTheorem == Spec => []TokensConserved
  <1>1. SlotInv => TokensConserved
    BY DEF SlotInv
  <1> QED
    BY <1>1, SlotInvariant, PTL

\* No two jobs of this make run on the same slot; one at most runs without a token.
THEOREM OneSlotEachTheorem == Spec => []OneSlotEach
  <1>1. SlotInv => OneSlotEach
    BY DEF SlotInv
  <1> QED
    BY <1>1, SlotInvariant, PTL

-----------------------------------------------------------------------------
(***************************************************************************)
(* Errors.  An error is noted together with stop_starting, and the scan    *)
(* reaches no decision any more once that is set.                          *)
(***************************************************************************)
LEMMA UnchangedError ==
  ASSUME ErrorInv, UNCHANGED <<any_error, opt>>, stop_starting => stop_starting'
  PROVE  ErrorInv'
  BY DEF ErrorInv

LEMMA ErrorStep ==
  ASSUME TypeOK, ErrorInv, [Next]_vars
  PROVE  ErrorInv'
  <1> USE DEF vars, params, nodes, calls, loop, procs, tokens, flags, sigs, files
  <1>1. CASE \/ ScanWait \/ ScanCall \/ ScanReturn \/ ScanPending \/ ScanFailed
             \/ \E n \in Node : DcolonUpToDate(n) \/ UpToDate(n) \/ NoCommands(n) \/ NoSlot(n)
    BY <1>1, UnchangedError
       DEF ScanWait, ScanCall, ScanReturn, ScanPending, ScanFailed, DcolonUpToDate,
           UpToDate, NoCommands, NoSlot
  <1>2. ASSUME NEW n \in Node, NoRule(n) \/ ReapBad(n)
        PROVE  ErrorInv'
    <2>1. NoteError /\ opt' = opt
      <3>1. CASE NoRule(n)
        BY <3>1 DEF NoRule
      <3>2. CASE ReapBad(n)
        BY <3>2 DEF ReapBad
      <3> QED
        BY <1>2, <3>1, <3>2
    <2>2. opt.k \in BOOLEAN /\ stop_starting \in BOOLEAN
      BY MakefileType DEF TypeOK
    <2> QED
      BY <2>1, <2>2 DEF NoteError, ErrorInv
  <1>3. CASE BuildGoals
    BY <1>3, UnchangedError
       DEF BuildGoals, GoalCall, GoalReturnSerial, GoalReturnParallel, PassEnd, Drain
  <1>4. CASE \/ WaitSignal \/ NoZombie \/ Poll \/ HandleSignal
             \/ \E n \in Node : ReapOk(n)
    BY <1>4, UnchangedError DEF WaitSignal, NoZombie, Poll, HandleSignal, ReapOk
  <1>5. CASE Environment \/ UNCHANGED vars
    BY <1>5, UnchangedError
       DEF Environment, ChildWrites, ChildExits, Signal, OtherTakes, OtherReturns
  <1>6. ASSUME NEW n \in Node, NEW t \in pool \cup {NoToken}, StartJob(n, t)
        PROVE  ErrorInv'
    BY <1>6, UnchangedError DEF StartJob
  <1> QED
    BY <1>1, <1>2, <1>3, <1>4, <1>5, <1>6 DEF Next, Make, Update, WaitEvent, Terminated

LEMMA ErrorInvariant == Spec => []ErrorInv
  <1>1. Init => ErrorInv
    BY DEF Init, ErrorInv
  <1>2. TypeOK /\ ErrorInv /\ [Next]_vars => ErrorInv'
    BY ErrorStep
  <1> QED
    BY <1>1, <1>2, TypeCorrect, PTL DEF Spec

LEMMA JobsShrink ==
  ASSUME NEW n \in Node, NEW j, NEW pl, n \in jobs, JobNext(n, j, pl) \/ JobDone(n, j, pl)
  PROVE  jobs' \subseteq jobs
  BY DEF JobNext, JobDone

LEMMA NoStartAfterError ==
  ASSUME TypeOK, ErrorInv, [Next]_vars, any_error, ~opt.k
  PROVE  jobs' \subseteq jobs
  <1> USE DEF vars, params, nodes, calls, loop, procs, tokens, flags, sigs, files
  <1>1. CASE Update
    <2>1. \A n \in Node : ~Decide(n)
      BY DEF Decide, StopHere, ErrorInv
    <2>2. ScanWait \/ ScanCall \/ ScanReturn \/ ScanPending \/ ScanFailed
      BY <1>1, <2>1
         DEF Update, DcolonUpToDate, UpToDate, NoCommands, NoRule, NoSlot, StartJob
    <2> QED
      BY <2>2 DEF ScanWait, ScanCall, ScanReturn, ScanPending, ScanFailed
  <1>2. CASE BuildGoals
    BY <1>2 DEF BuildGoals, GoalCall, GoalReturnSerial, GoalReturnParallel, PassEnd, Drain
  <1>3. CASE WaitSignal \/ NoZombie \/ Poll \/ HandleSignal
    BY <1>3 DEF WaitSignal, NoZombie, Poll, HandleSignal
  <1>4. ASSUME NEW n \in Node, ReapOk(n) \/ ReapBad(n)
        PROVE  jobs' \subseteq jobs
    BY <1>4, JobsShrink DEF ReapOk, ReapBad
  <1>5. CASE Environment \/ UNCHANGED vars
    BY <1>5 DEF Environment, ChildWrites, ChildExits, Signal, OtherTakes, OtherReturns
  <1> QED
    BY <1>1, <1>2, <1>3, <1>4, <1>5 DEF Next, Make, WaitEvent, Terminated

\* Without -k, no target is started once an error has been noted, for any makefile and
\* any number of jobs in progress at that moment.
THEOREM StopOnErrorTheorem == Spec => StopOnError
  <1>1. TypeOK /\ ErrorInv /\ [Next]_vars => [any_error /\ ~opt.k => jobs' \subseteq jobs]_vars
    BY NoStartAfterError
  <1> QED
    BY <1>1, TypeCorrect, ErrorInvariant, PTL DEF Spec, StopOnError

-----------------------------------------------------------------------------
(***************************************************************************)
(* A signal.  Only the command of a job writes its target, and make dies   *)
(* of a caught signal only when all commands are gone.                     *)
(***************************************************************************)
ChildInv == \A n \in Node : child[n] # "none" => n \in jobs
DeadInv == pc = "dead" /\ caught_signal => ChildrenGone /\ SignalCleanup

LEMMA UnchangedSignal ==
  ASSUME ChildInv, DeadInv, UNCHANGED <<mk, child, jobs, job, mtime>>,
         pc' = "dead" /\ caught_signal' => pc = "dead" /\ caught_signal
  PROVE  ChildInv' /\ DeadInv'
  <1>1. ChildInv'
    BY DEF ChildInv
  <1>2. DeadInv'
    BY DEF DeadInv, ChildrenGone, SignalCleanup, Precious
  <1> QED
    BY <1>1, <1>2

\* A step that starts or ends jobs leaves make alive.
LEMMA JobChild ==
  ASSUME TypeOK, ChildInv, NEW n \in Node, NEW j, NEW pl, JobNext(n, j, pl) \/ JobDone(n, j, pl)
  PROVE  ChildInv'
  <1>1. child \in [Node -> {"none", "running", "wrote", "ok", "bad"}]
    BY DEF TypeOK
  <1>2. \/ jobs' = jobs \cup {n} /\ child' = [child EXCEPT ![n] = "running"]
        \/ jobs' = jobs \ {n} /\ child' = [child EXCEPT ![n] = "none"]
    BY DEF JobNext, JobDone
  <1> QED
    BY <1>1, <1>2 DEF ChildInv

LEMMA SignalStep ==
  ASSUME TypeOK, ChildInv, DeadInv, [Next]_vars
  PROVE  ChildInv' /\ DeadInv'
  <1> USE DEF vars, params, nodes, calls, loop, procs, tokens, flags, sigs, files
  <1>0. child \in [Node -> {"none", "running", "wrote", "ok", "bad"}] /\ jobs \subseteq Node
    BY DEF TypeOK
  <1>1. CASE \/ ScanWait \/ ScanCall \/ ScanReturn \/ ScanPending \/ ScanFailed
             \/ \E n \in Node : DcolonUpToDate(n) \/ UpToDate(n) \/ NoCommands(n) \/ NoRule(n) \/ NoSlot(n)
    BY <1>1, UnchangedSignal
       DEF ScanWait, ScanCall, ScanReturn, ScanPending, ScanFailed, DcolonUpToDate,
           UpToDate, NoCommands, NoRule, NoSlot
  <1>2. ASSUME NEW n \in Node, NEW t \in pool \cup {NoToken}, StartJob(n, t)
        PROVE  ChildInv' /\ DeadInv'
    <2>1. ChildInv'
      BY <1>2, JobChild DEF StartJob
    <2>2. pc' = "goals"
      BY <1>2 DEF StartJob, Decide, Scanning
    <2> QED
      BY <2>1, <2>2 DEF DeadInv
  <1>3. CASE BuildGoals
    <2>1. UNCHANGED <<mk, child, jobs, job, mtime>> /\ pc' # "dead"
      BY <1>3 DEF BuildGoals, GoalCall, GoalReturnSerial, GoalReturnParallel, PassEnd, Drain, InGoals
    <2> QED
      BY <2>1, UnchangedSignal
  <1>4. CASE WaitSignal \/ NoZombie \/ Poll
    <2>1. UNCHANGED <<mk, child, jobs, job, mtime>> /\ pc' # "dead"
      BY <1>4 DEF WaitSignal, NoZombie, Poll, WaitReturns
    <2> QED
      BY <2>1, UnchangedSignal
  <1>5. CASE HandleSignal
    <2>1. UNCHANGED <<mk, child, jobs, job>> /\ ChildrenGone
      BY <1>5 DEF HandleSignal
    <2>2. \A n \in jobs : Precious(n) \/ mtime'[n] \in {0, job[n].start}
      BY <1>0, <1>5 DEF HandleSignal
    <2>3. ChildInv' /\ ChildrenGone'
      BY <2>1 DEF ChildInv, ChildrenGone
    <2> QED
      BY <2>1, <2>2, <2>3 DEF DeadInv, SignalCleanup, Precious
  <1>6. ASSUME NEW n \in Node, ReapOk(n) \/ ReapBad(n)
        PROVE  ChildInv' /\ DeadInv'
    <2>1. ChildInv'
      BY <1>6, JobChild DEF ReapOk, ReapBad
    <2>2. pc' # "dead"
      BY <1>6 DEF ReapOk, ReapBad, WaitReturns
    <2> QED
      BY <2>1, <2>2 DEF DeadInv
  <1>7. ASSUME NEW n \in Node, ChildWrites(n) \/ ChildExits(n)
        PROVE  ChildInv' /\ DeadInv'
    <2>1. n \in jobs /\ child[n] \in {"running", "wrote"} /\ UNCHANGED <<mk, jobs, job, pc, caught_signal>>
          /\ \A m \in Node : m # n => child'[m] = child[m]
      BY <1>0, <1>7 DEF ChildInv, ChildWrites, ChildExits
    <2>2. ChildInv'
      BY <2>1 DEF ChildInv
    <2>3. ~(pc = "dead" /\ caught_signal)
      BY <2>1 DEF DeadInv, ChildrenGone
    <2> QED
      BY <2>1, <2>2, <2>3 DEF DeadInv
  <1>8. CASE Signal
    <2>1. UNCHANGED <<mk, child, jobs, job, mtime>> /\ ~caught_signal /\ (pc' = "dead" => ~caught_signal')
      BY <1>8 DEF Signal
    <2> QED
      BY <2>1, UnchangedSignal
  <1>9. ASSUME NEW t \in Token, OtherTakes(t) \/ OtherReturns(t)
        PROVE  ChildInv' /\ DeadInv'
    BY <1>9, UnchangedSignal DEF OtherTakes, OtherReturns
  <1>10. CASE UNCHANGED vars
    BY <1>10, UnchangedSignal
  <1> QED
    BY <1>1, <1>2, <1>3, <1>4, <1>5, <1>6, <1>7, <1>8, <1>9, <1>10
    DEF Next, Make, Update, WaitEvent, Environment, Terminated

LEMMA SignalInvariant == Spec => [](ChildInv /\ DeadInv)
  <1>1. Init => ChildInv /\ DeadInv
    BY DEF Init, ChildInv, DeadInv
  <1>2. TypeOK /\ ChildInv /\ DeadInv /\ [Next]_vars => ChildInv' /\ DeadInv'
    BY SignalStep
  <1> QED
    BY <1>1, <1>2, TypeCorrect, PTL DEF Spec

\* A make that has died of a signal it caught has left no half-made target behind, and no
\* command that could still write one, whatever makefile, jobs and other makes there are.
THEOREM SignalCleanupTheorem == Spec => []SignalCleanup
  <1>1. DeadInv => SignalCleanup
    BY DEF DeadInv, SignalCleanup
  <1> QED
    BY <1>1, SignalInvariant, PTL

-----------------------------------------------------------------------------
(***************************************************************************)
(* The walk.  What a call has passed was tried, and counts against it if   *)
(* it failed; and whatever has been visited hangs, by the call that opened *)
(* it, on a goal.  The one exception are the edges given up as circular,   *)
(* and those are to nodes that some other call is visiting.                *)
(***************************************************************************)
Good(n) == state[n] = "DONE" /\ ok[n]

\* the prerequisites a call of n has passed, and the one it has come to
Past(n, p) == \E i \in DOMAIN All(n) : i < frame[n].at /\ All(n)[i] = p
At(n, p) == frame[n].at \in DOMAIN All(n) /\ All(n)[frame[n].at] = p

\* n dropped its edge to p, and the last call of p, once it is over, was not made by n
GivenUp(n, p) == <<n, p>> \in dropped /\ (frame[p].caller # n \/ visiting[p])

\* n has been handed a result it has not looked at
Handed(n, rs) == cur = n /\ ret \in rs

Tried(n, p) ==
  \/ state[p] = "DONE" \/ GivenUp(n, p)
  \/ frame[n].pending \/ Handed(n, {"PENDING"})

Counted(n, p) ==
  \/ Good(p) \/ GivenUp(n, p)
  \/ frame[n].pending \/ frame[n].failed \/ StopHere \/ Handed(n, {"PENDING", "FAIL"})

\* Only a pending prerequisite or, without -k, an error ends the loop early.
PassedInv ==
  \A n, p \in Node :
    visiting[n] /\ Past(n, p) =>
      /\ frame[n].at <= Len(All(n)) \/ opt.k => Tried(n, p)
      /\ Counted(n, p)

ReturnInv ==
  \A n, p \in Node :
    cur = n /\ At(n, p) =>
      /\ ret = "OK" => Good(p) \/ GivenUp(n, p)
      /\ ret = "FAIL" => state[p] = "DONE"

\* The callers lead to a goal, without a circle; goals are called one after the other.
Rooted == \A S \in SUBSET Node : S # {} => \E n \in S : frame[n].caller \notin S
CallsInv ==
  /\ Rooted
  /\ cur = NoNode => \A n \in Node : ~visiting[n]
  /\ \A n \in Node :
       visiting[n] /\ frame[n].caller = NoNode => gi \in DOMAIN Goals /\ Goals[gi] = n
  /\ \A n, m \in Node : frame[n].caller = m => n \in Prereqs(m)
  /\ \A n \in Node :
       state[n] # "NEW" /\ frame[n].caller = NoNode => \E i \in DOMAIN Goals : Goals[i] = n
  /\ \A n, m \in Node : state[n] # "NEW" /\ frame[n].caller = m => state[m] # "NEW"
  /\ \A n, p \in Node : <<n, p>> \in dropped => state[p] # "NEW"

\* A node that is not done, or failed, keeps its caller from being done, or makes it fail.
CallerInv ==
  \A n, m \in Node :
    frame[n].caller = m /\ state[n] # "NEW" =>
      /\ opt.k /\ state[n] = "SCAN" => state[m] = "SCAN"
      /\ Good(n) \/ state[m] = "SCAN" \/ (state[m] = "DONE" /\ ~ok[m])

KeptInv ==
  opt.k =>
    \A n, p \in Node :
      state[n] = "DONE" /\ p \in Prereqs(n) => state[p] = "DONE" \/ <<n, p>> \in dropped

RunInv == \A n \in Node : state[n] = "RUN" => n \in jobs

WalkInv ==
  PassedInv /\ ReturnInv /\ CallsInv /\ CallerInv /\ KeptInv /\ RunInv /\ WaitBarrier

walkVars == <<mk, opt, state, ok, visiting, frame, cur, ret, dropped, gi, jobs>>

LEMMA UnchangedWalk ==
  ASSUME WalkInv, UNCHANGED walkVars, stop_starting => stop_starting'
  PROVE  WalkInv'
  <1> USE DEF walkVars
  <1>1. \A n, p : Past(n, p)' = Past(n, p) /\ At(n, p)' = At(n, p) /\ GivenUp(n, p)' = GivenUp(n, p)
    BY DEF Past, At, GivenUp, All
  <1>2. \A n : Good(n)' = Good(n) /\ All(n)' = All(n) /\ Prereqs(n)' = Prereqs(n)
    BY DEF Good, All, Prereqs
  <1>3. PassedInv'
    BY <1>1, <1>2 DEF WalkInv, PassedInv, Tried, Counted, Handed, StopHere
  <1>4. ReturnInv'
    BY <1>1, <1>2 DEF WalkInv, ReturnInv
  <1>5. CallsInv'
    BY <1>2 DEF WalkInv, CallsInv, Rooted
  <1>6. CallerInv' /\ KeptInv' /\ RunInv'
    BY <1>2 DEF WalkInv, CallerInv, KeptInv, RunInv
  <1>7. WaitBarrier'
    BY DEF WalkInv, WaitBarrier, All
  <1> QED
    BY <1>3, <1>4, <1>5, <1>6, <1>7 DEF WalkInv

LEMMA InitWalk == Init => WalkInv
  <1> SUFFICES ASSUME Init PROVE WalkInv
    OBVIOUS
  <1>1. PassedInv /\ ReturnInv /\ CallerInv /\ KeptInv /\ RunInv /\ WaitBarrier
    BY DEF Init, PassedInv, ReturnInv, CallerInv, KeptInv, RunInv, WaitBarrier, At
  <1>2. \A n \in Node : frame[n].caller = NoNode /\ ~visiting[n] /\ state[n] = "NEW"
    BY DEF Init, NewFrame
  <1>3. Rooted
    BY <1>2, NodeAssumption DEF Rooted
  <1>4. CallsInv
    BY <1>2, <1>3, NodeAssumption DEF CallsInv, Init
  <1> QED
    BY <1>1, <1>4 DEF WalkInv

\* a call of update() that is answered at once, or that opens a frame
LEMMA AnsweredWalk ==
  ASSUME TypeOK, OrderInv, WalkInv, NEW n \in Node, Call(n, cur), ret = "none",
         visiting[n] \/ state[n] \in {"RUN", "DONE"},
         cur # NoNode => At(cur, n),
         UNCHANGED <<mk, opt, ok, jobs, stop_starting, gi>>
  PROVE  WalkInv'
  <1>1. /\ UNCHANGED <<cur, frame, state, visiting>> /\ dropped \subseteq dropped'
        /\ dropped' \subseteq dropped \cup {<<cur, n>>}
        /\ visiting[n] => state[n] = "SCAN" /\ <<cur, n>> \in dropped'
        /\ <<cur, n>> \in dropped' \ dropped => visiting[n]
        /\ ret' = "OK" => Good(n) \/ visiting[n]
        /\ ret' = "FAIL" => state[n] = "DONE"
    BY DEF Call, OrderInv, StateInv, Good
  <1>2. \A m, p : Past(m, p)' = Past(m, p) /\ At(m, p)' = At(m, p)
                  /\ (GivenUp(m, p) => GivenUp(m, p)')
    BY <1>1 DEF Past, At, GivenUp, All
  <1>3. \A m : Good(m)' = Good(m) /\ All(m)' = All(m) /\ Prereqs(m)' = Prereqs(m)
    BY <1>1 DEF Good, All, Prereqs
  <1>4. PassedInv'
    BY <1>1, <1>2, <1>3 DEF WalkInv, PassedInv, Tried, Counted, Handed, StopHere
  <1>5. ReturnInv'
    <2>1. ASSUME NEW m \in Node, NEW p \in Node, cur = m, At(m, p)
          PROVE  /\ ret' = "OK" => Good(p) \/ GivenUp(m, p)'
                 /\ ret' = "FAIL" => state[p] = "DONE"
      <3>1. p = n
        BY <2>1, NodeAssumption DEF At
      <3>2. visiting[n] => GivenUp(m, n)'
        BY <1>1, <2>1 DEF GivenUp
      <3> QED
        BY <1>1, <3>1, <3>2
    <2> QED
      BY <1>1, <1>2, <1>3, <2>1 DEF ReturnInv
  <1>6. CallsInv'
    <2>1. \A m, p \in Node : <<m, p>> \in dropped' => state[p] # "NEW"
      BY <1>1 DEF WalkInv, CallsInv
    <2> QED
      BY <1>1, <1>3, <2>1 DEF WalkInv, CallsInv, Rooted
  <1>7. CallerInv' /\ KeptInv' /\ RunInv'
    BY <1>1, <1>3 DEF WalkInv, CallerInv, KeptInv, RunInv
  <1>8. WaitBarrier'
    BY <1>1 DEF WalkInv, WaitBarrier, All
  <1> QED
    BY <1>4, <1>5, <1>6, <1>7, <1>8 DEF WalkInv

LEMMA OpenedWalk ==
  ASSUME TypeOK, OrderInv, WalkInv, NEW n \in Node, ret = "none",
         ~visiting[n], state[n] \in {"NEW", "SCAN"},
         state' = [state EXCEPT ![n] = "SCAN"],
         visiting' = [visiting EXCEPT ![n] = TRUE],
         frame' = [frame EXCEPT ![n] = NewFrame(cur)],
         cur' = n,
         cur # NoNode => At(cur, n),
         cur = NoNode => gi \in DOMAIN Goals /\ Goals[gi] = n,
         UNCHANGED <<mk, opt, ok, jobs, stop_starting, gi, ret, dropped>>
  PROVE  WalkInv'
  <1>1. /\ frame'[n].at = 1 /\ frame'[n].caller = cur /\ visiting'[n] /\ state'[n] = "SCAN"
        /\ \A m \in Node : m # n => /\ frame'[m] = frame[m] /\ visiting'[m] = visiting[m]
                                    /\ state'[m] = state[m]
    BY DEF TypeOK, NewFrame
  <1>2. /\ n # NoNode /\ cur # n /\ cur \in Node \cup {NoNode}
        /\ cur # NoNode => visiting[cur] /\ state[cur] = "SCAN"
    BY NodeAssumption DEF OrderInv, StateInv, TypeOK
  <1>3. \A m : Good(m) = Good(m)' \/ m = n
    BY DEF Good, TypeOK
  <1>4. \A m : All(m)' = All(m) /\ Prereqs(m)' = Prereqs(m)
    BY DEF All, Prereqs
  <1>5. /\ \A p \in Node : ~Past(n, p)'
        /\ \A m, p \in Node : m # n => Past(m, p)' = Past(m, p)
    <2>1. ASSUME NEW p \in Node PROVE ~Past(n, p)'
      <3>1. \A i \in DOMAIN All(n) : i \in Nat /\ i >= 1
        BY PrereqType DEF TypeOK
      <3> QED
        BY <1>1, <1>4, <3>1 DEF Past
    <2> QED
      BY <1>1, <1>4, <2>1 DEF Past
  <1>6. \A m, p \in Node : GivenUp(m, p) => GivenUp(m, p)'
    BY <1>1 DEF GivenUp
  <1>7. ~Good(n) /\ state[n] # "DONE"
    BY DEF Good
  <1>8. PassedInv'
    <2>1. ASSUME NEW m \in Node, NEW p \in Node, visiting'[m], Past(m, p)'
          PROVE  /\ frame'[m].at <= Len(All(m)) \/ opt.k => Tried(m, p)'
                 /\ Counted(m, p)'
      <3>1. m # n /\ Past(m, p) /\ visiting[m] /\ frame'[m] = frame[m]
        BY <1>1, <1>5, <2>1
      <3>2. /\ frame[m].at <= Len(All(m)) \/ opt.k => Tried(m, p)
            /\ Counted(m, p)
        BY <3>1 DEF WalkInv, PassedInv
      <3>3. Tried(m, p) => Tried(m, p)'
        BY <1>1, <1>6, <1>7, <3>1 DEF Tried, Handed
      <3>4. Counted(m, p) => Counted(m, p)'
        BY <1>3, <1>6, <1>7, <3>1 DEF Counted, Handed, StopHere
      <3> QED
        BY <3>1, <3>2, <3>3, <3>4
    <2> QED
      BY <1>4, <2>1 DEF PassedInv
  <1>9. ReturnInv'
    BY DEF ReturnInv
  <1>10. CallsInv'
    <2>1. Rooted'
      <3>1. ASSUME NEW S \in SUBSET Node, S # {}
            PROVE  \E m \in S : frame'[m].caller \notin S
        <4> DEFINE V == {m \in S : visiting[m]}
        <4>1. CASE V = {} /\ n \in S
          BY <1>1, <1>2, <4>1, NodeAssumption
        <4>2. CASE n \notin S
          BY <1>1, <3>1, <4>2 DEF WalkInv, CallsInv, Rooted
        <4>3. CASE V # {}
          <5>1. PICK m \in V : frame[m].caller \notin V
            BY <4>3 DEF WalkInv, CallsInv, Rooted
          <5>2. frame[m].caller = NoNode \/ visiting[frame[m].caller]
            BY <5>1 DEF OrderInv, StackInv
          <5>3. frame[m].caller \notin S
            BY <5>1, <5>2, NodeAssumption
          <5>4. m # n /\ m \in S /\ m \in Node
            BY <5>1
          <5> QED
            BY <1>1, <5>3, <5>4
        <4> QED
          BY <4>1, <4>2, <4>3
      <3> QED
        BY <3>1 DEF Rooted
    <2>2. \A m \in Node :
            visiting'[m] /\ frame'[m].caller = NoNode => gi \in DOMAIN Goals /\ Goals[gi] = m
      BY <1>1, <1>2 DEF WalkInv, CallsInv
    <2>3. \A m, q \in Node : frame'[m].caller = q => m \in Prereqs(q)
      <3>1. cur \in Node => n \in Prereqs(cur)
        BY <1>2, NodeAssumption DEF At, Prereqs
      <3> QED
        BY <1>1, <3>1 DEF WalkInv, CallsInv
    <2>4. \A m \in Node :
            state'[m] # "NEW" /\ frame'[m].caller = NoNode => \E i \in DOMAIN Goals : Goals[i] = m
      BY <1>1, <1>2 DEF WalkInv, CallsInv
    <2>5. \A m, q \in Node : state'[m] # "NEW" /\ frame'[m].caller = q => state'[q] # "NEW"
      BY <1>1, <1>2, NodeAssumption DEF WalkInv, CallsInv
    <2>6. \A m, p \in Node : <<m, p>> \in dropped => state'[p] # "NEW"
      BY <1>1 DEF WalkInv, CallsInv
    <2> QED
      BY <1>2, <1>4, <2>1, <2>2, <2>3, <2>4, <2>5, <2>6 DEF CallsInv
  <1>11. CallerInv'
    <2>1. ASSUME NEW m \in Node, NEW q \in Node, frame'[m].caller = q, state'[m] # "NEW"
          PROVE  /\ opt.k /\ state'[m] = "SCAN" => state'[q] = "SCAN"
                 /\ Good(m)' \/ state'[q] = "SCAN" \/ (state'[q] = "DONE" /\ ~ok[q])
      <3>1. CASE m = n \/ q = n
        BY <1>1, <1>2, <2>1, <3>1, NodeAssumption
      <3>2. CASE m # n /\ q # n
        BY <1>1, <1>3, <2>1, <3>2 DEF WalkInv, CallerInv
      <3> QED
        BY <3>1, <3>2
    <2> QED
      BY <2>1 DEF CallerInv
  <1>12. KeptInv' /\ RunInv'
    <2>1. \A m \in Node : state'[m] = "DONE" <=> state[m] = "DONE"
      BY <1>1, <1>7
    <2>2. \A m \in Node : state'[m] = "RUN" => state[m] = "RUN"
      BY <1>1
    <2> QED
      BY <1>4, <2>1, <2>2 DEF WalkInv, KeptInv, RunInv
  <1>13. WaitBarrier'
    <2>1. ASSUME NEW m \in Node, visiting'[m], frame'[m].at <= Len(All(m)),
                 NEW i \in DOMAIN All(m), NEW j \in DOMAIN All(m),
                 i < j, j < frame'[m].at, All(m)[j] = Wait, All(m)[i] # Wait
          PROVE  state'[All(m)[i]] = "DONE" \/ <<m, All(m)[i]>> \in dropped
      <3>1. i \in Nat /\ j \in Nat /\ i >= 1 /\ All(m)[i] \in Node
        BY <2>1, PrereqType DEF TypeOK
      <3>2. m # n
        BY <1>1, <2>1, <3>1
      <3>3. state[All(m)[i]] = "DONE" \/ <<m, All(m)[i]>> \in dropped
        BY <1>1, <2>1, <3>2 DEF WalkInv, WaitBarrier
      <3> QED
        BY <1>1, <1>7, <3>1, <3>3
    <2> QED
      BY <1>4, <2>1 DEF WaitBarrier
  <1> QED
    BY <1>8, <1>9, <1>10, <1>11, <1>12, <1>13 DEF WalkInv

LEMMA CallWalk ==
  ASSUME TypeOK, OrderInv, WalkInv, NEW n \in Node, Call(n, cur), ret = "none",
         cur # NoNode => At(cur, n),
         cur = NoNode => gi \in DOMAIN Goals /\ Goals[gi] = n,
         UNCHANGED <<mk, opt, ok, jobs, stop_starting, gi>>
  PROVE  WalkInv'
  BY AnsweredWalk, OpenedWalk DEF Call

(***************************************************************************)
(* A node that is decided leaves nothing behind: with -k all it depends on *)
(* is done, and if its commands run, or it is made, all it called is made. *)
(***************************************************************************)
AllTried(n) ==
  opt.k =>
    /\ \A p \in Prereqs(n) : state[p] = "DONE" \/ <<n, p>> \in dropped
    /\ \A m \in Node : frame[m].caller = n => state[m] # "SCAN"
AllGood(n) == \A m \in Node : frame[m].caller = n /\ state[m] # "NEW" => Good(m)

LEMMA EndOfWalk ==
  ASSUME TypeOK, OrderInv, WalkInv, NEW n \in Node, Scanning, AtEnd, cur = n, ~frame[n].pending
  PROVE  /\ AllTried(n)
         /\ ~frame[n].failed /\ ~StopHere => AllGood(n)
  <1>1. visiting[n] /\ ret = "none" /\ n # NoNode
    BY NodeAssumption DEF OrderInv, StateInv, Scanning
  <1>2. \A p \in Prereqs(n) : Past(n, p) /\ p \in Node
    <2>1. ASSUME NEW p \in Prereqs(n)
          PROVE  Past(n, p)
      <3>1. PICK i \in DOMAIN All(n) : All(n)[i] = p
        BY <2>1 DEF Prereqs
      <3>2. i \in Nat /\ i <= Len(All(n)) /\ Len(All(n)) \in Nat /\ frame[n].at \in Nat
        BY <3>1, PrereqType DEF TypeOK
      <3>3. i < frame[n].at
        BY <3>2 DEF AtEnd
      <3> QED
        BY <3>1, <3>3 DEF Past
    <2> QED
      BY <2>1, PrereqType DEF TypeOK
  <1>3. \A m \in Node : frame[m].caller = n => m \in Prereqs(n) /\ ~visiting[m]
    BY <1>1 DEF WalkInv, CallsInv, OrderInv, StackInv
  <1>4. opt.k => \A p \in Prereqs(n) : state[p] = "DONE" \/ GivenUp(n, p)
    BY <1>1, <1>2 DEF WalkInv, PassedInv, Tried, Handed
  <1>5. ~frame[n].failed /\ ~StopHere => \A p \in Prereqs(n) : Good(p) \/ GivenUp(n, p)
    BY <1>1, <1>2 DEF WalkInv, PassedInv, Counted, Handed
  <1>6. AllTried(n)
    BY <1>3, <1>4 DEF AllTried, GivenUp
  <1>7. ~frame[n].failed /\ ~StopHere => AllGood(n)
    BY <1>3, <1>5 DEF AllGood, GivenUp
  <1> QED
    BY <1>6, <1>7

\* what a node that is decided, or whose job makes a step, leaves as it was
LEMMA DecidedWalk ==
  ASSUME TypeOK, OrderInv, WalkInv, NEW n \in Node, state[n] \in {"SCAN", "RUN"},
         UNCHANGED <<mk, opt, frame, dropped>>,
         \A m \in Node \ {n} : state'[m] = state[m] /\ ok'[m] = ok[m],
         state'[n] \in {"SCAN", "RUN", "DONE"}, state'[n] = "SCAN" => state[n] = "SCAN",
         \A m \in Node \ {n} : m \in jobs => m \in jobs',
         state'[n] = "RUN" => n \in jobs',
         state'[n] # "SCAN" => AllTried(n),
         state'[n] = "RUN" \/ Good(n)' => AllGood(n)
  PROVE  /\ \A p \in Node : state[p] = "DONE" => state'[p] = "DONE"
         /\ \A p \in Node : Good(p) => Good(p)'
         /\ CallerInv' /\ KeptInv' /\ RunInv'
         /\ \A p \in Node : state'[p] # "NEW" <=> state[p] # "NEW"
  <1>1. \A p \in Node : state[p] = "DONE" => p # n /\ state'[p] = "DONE"
    OBVIOUS
  <1>2. \A p \in Node : Good(p) => Good(p)'
    BY <1>1 DEF Good
  <1>3. CallerInv'
    <2>1. ASSUME NEW m \in Node, NEW q \in Node, frame[m].caller = q, state'[m] # "NEW"
          PROVE  /\ opt.k /\ state'[m] = "SCAN" => state'[q] = "SCAN"
                 /\ Good(m)' \/ state'[q] = "SCAN" \/ (state'[q] = "DONE" /\ ~ok'[q])
      <3>1. m # q
        <4>0. Rooted /\ {m} \in SUBSET Node /\ {m} # {}
          BY DEF WalkInv, CallsInv
        <4>1. \E k \in {m} : frame[k].caller \notin {m}
          BY <4>0 DEF Rooted
        <4> QED
          BY <2>1, <4>1
      <3>2. /\ state[m] # "NEW"
            /\ opt.k /\ state[m] = "SCAN" => state[q] = "SCAN"
            /\ Good(m) \/ state[q] = "SCAN" \/ (state[q] = "DONE" /\ ~ok[q])
        BY <2>1 DEF WalkInv, CallerInv
      <3>3. CASE q # n
        BY <1>2, <3>2, <3>3
      <3>4. CASE q = n /\ state'[n] = "SCAN"
        BY <3>4
      <3>5. CASE q = n /\ state'[n] # "SCAN"
        <4>1. state'[m] = state[m] /\ (Good(m) => Good(m)')
          BY <1>2, <3>1, <3>5
        <4>2. opt.k => state[m] # "SCAN"
          BY <2>1, <3>5 DEF AllTried
        <4>3. state'[n] = "RUN" \/ Good(n)' => Good(m)
          BY <2>1, <3>2, <3>5 DEF AllGood
        <4> QED
          BY <3>5, <4>1, <4>2, <4>3 DEF Good
      <3> QED
        BY <3>3, <3>4, <3>5
    <2> QED
      BY <2>1 DEF CallerInv
  <1>4. KeptInv'
    <2>1. ASSUME opt.k, NEW m \in Node, NEW p \in Node, state'[m] = "DONE", p \in Prereqs(m)
          PROVE  state'[p] = "DONE" \/ <<m, p>> \in dropped
      <3>1. CASE m = n
        BY <1>1, <2>1, <3>1 DEF AllTried
      <3>2. CASE m # n
        BY <1>1, <2>1, <3>2 DEF WalkInv, KeptInv
      <3> QED
        BY <3>1, <3>2
    <2> QED
      BY <2>1 DEF KeptInv, Prereqs, All
  <1>5. RunInv'
    BY DEF WalkInv, RunInv
  <1> QED
    BY <1>1, <1>2, <1>3, <1>4, <1>5

\* a call that returns
LEMMA ReturnWalk ==
  ASSUME TypeOK, OrderInv, WalkInv, NEW n \in Node, cur = n, ret = "none",
         NEW r \in {"OK", "FAIL", "PENDING"}, Return(r),
         UNCHANGED <<mk, opt, frame, dropped, gi>>,
         \A m \in Node \ {n} : state'[m] = state[m] /\ ok'[m] = ok[m],
         state'[n] \in {"SCAN", "RUN", "DONE"},
         \A m \in Node \ {n} : m \in jobs => m \in jobs',
         state'[n] = "RUN" => n \in jobs',
         state'[n] # "SCAN" => AllTried(n),
         state'[n] = "RUN" \/ Good(n)' => AllGood(n),
         stop_starting => stop_starting',
         r = "OK" => Good(n)', r = "FAIL" => state'[n] = "DONE"
  PROVE  WalkInv'
  <1> DEFINE up == frame[n].caller
  <1>1. /\ visiting[n] /\ state[n] = "SCAN" /\ n # NoNode /\ visiting \in [Node -> BOOLEAN]
        /\ up \in Node \cup {NoNode}
    BY NodeAssumption DEF OrderInv, StateInv, TypeOK
  <1>2. /\ cur' = up /\ ret' = r /\ ~visiting'[n]
        /\ \A m \in Node : m # n => visiting'[m] = visiting[m]
    BY <1>1 DEF Return
  <1>3. /\ \A p \in Node : state[p] = "DONE" => state'[p] = "DONE"
        /\ \A p \in Node : Good(p) => Good(p)'
        /\ CallerInv' /\ KeptInv' /\ RunInv'
        /\ \A p \in Node : state'[p] # "NEW" <=> state[p] # "NEW"
    BY <1>1, DecidedWalk
  <1>4. \A m, p : Past(m, p)' = Past(m, p) /\ At(m, p)' = At(m, p)
    BY DEF Past, At, All
  <1>5. \A m : All(m)' = All(m) /\ Prereqs(m)' = Prereqs(m)
    BY DEF All, Prereqs
  <1>6. PassedInv'
    <2>1. ASSUME NEW m \in Node, NEW p \in Node, visiting'[m], Past(m, p)
          PROVE  /\ frame[m].at <= Len(All(m)) \/ opt.k => Tried(m, p)'
                 /\ Counted(m, p)'
      <3>1. m # n /\ visiting[m]
        BY <1>2, <2>1
      <3>2. /\ frame[m].at <= Len(All(m)) \/ opt.k => Tried(m, p)
            /\ Counted(m, p)
        BY <2>1, <3>1 DEF WalkInv, PassedInv
      <3>3. GivenUp(m, p) => \/ GivenUp(m, p)'
                             \/ Handed(m, {"PENDING"})' /\ Handed(m, {"PENDING", "FAIL"})'
                             \/ state'[p] = "DONE" /\ (Good(p)' \/ Handed(m, {"PENDING", "FAIL"})')
        <4>1. CASE p # n
          BY <1>2, <4>1 DEF GivenUp
        <4>2. CASE p = n /\ frame[n].caller # m
          BY <1>2, <4>2 DEF GivenUp
        <4>3. CASE p = n /\ frame[n].caller = m
          <5>1. cur' = m /\ ret' = r
            BY <1>2, <4>3
          <5>2. CASE r = "OK"
            BY <4>3, <5>2 DEF Good
          <5>3. CASE r = "FAIL"
            BY <4>3, <5>1, <5>3 DEF Handed
          <5>4. CASE r = "PENDING"
            BY <4>3, <5>1, <5>4 DEF Handed
          <5> QED
            BY <5>2, <5>3, <5>4
        <4> QED
          BY <4>1, <4>2, <4>3
      <3>4. Tried(m, p) => Tried(m, p)'
        BY <1>3, <3>1, <3>3 DEF Tried, Handed
      <3>5. Counted(m, p) => Counted(m, p)'
        <4>1. ~Handed(m, {"PENDING", "FAIL"})
          BY DEF Handed
        <4>2. StopHere => StopHere'
          BY DEF StopHere
        <4> QED
          BY <1>3, <3>3, <4>1, <4>2 DEF Counted
      <3> QED
        BY <3>2, <3>4, <3>5
    <2> QED
      BY <1>4, <1>5, <2>1 DEF PassedInv
  <1>7. ReturnInv'
    <2>1. ASSUME NEW m \in Node, NEW p \in Node, cur' = m, At(m, p)
          PROVE  /\ ret' = "OK" => Good(p)'
                 /\ ret' = "FAIL" => state'[p] = "DONE"
      <3>1. p = n
        <4>1. frame[n].caller = m /\ m # NoNode
          BY <1>2, <2>1, NodeAssumption
        <4>2. All(m)[frame[m].at] = n
          BY <1>1, <4>1 DEF OrderInv, StackInv
        <4> QED
          BY <2>1, <4>2 DEF At
      <3> QED
        BY <1>2, <3>1
    <2> QED
      BY <1>4, <2>1 DEF ReturnInv
  <1>8. CallsInv'
    <2>1. Rooted'
      BY DEF WalkInv, CallsInv, Rooted
    <2>2. ASSUME cur' = NoNode, NEW m \in Node PROVE ~visiting'[m]
      <3> DEFINE V == {k \in Node : visiting'[k]}
      <3>1. SUFFICES ASSUME V # {} PROVE FALSE
        OBVIOUS
      <3>2. PICK k \in V : frame[k].caller \notin V
        BY <3>1 DEF WalkInv, CallsInv, Rooted
      <3>3. k # n /\ visiting[k]
        BY <1>2, <3>2
      <3>4. frame[k].caller # NoNode => visiting[frame[k].caller] /\ frame[k].caller # n
        BY <3>3 DEF OrderInv, StackInv
      <3>5. frame[k].caller \in Node \cup {NoNode}
        BY DEF TypeOK
      <3>6. frame[k].caller = NoNode
        BY <1>2, <3>2, <3>4, <3>5
      <3>7. Goals[gi] = k /\ Goals[gi] = n
        BY <1>1, <1>2, <2>2, <3>3, <3>6 DEF WalkInv, CallsInv
      <3> QED
        BY <3>3, <3>7
    <2>3. \A m \in Node :
            visiting'[m] /\ frame[m].caller = NoNode => gi \in DOMAIN Goals /\ Goals[gi] = m
      BY <1>2 DEF WalkInv, CallsInv
    <2> QED
      BY <1>3, <1>5, <2>1, <2>2, <2>3 DEF WalkInv, CallsInv
  <1>9. WaitBarrier'
    <2>1. ASSUME NEW m \in Node, visiting'[m], frame[m].at <= Len(All(m)),
                 NEW i \in DOMAIN All(m), NEW j \in DOMAIN All(m),
                 i < j, j < frame[m].at, All(m)[j] = Wait, All(m)[i] # Wait
          PROVE  state'[All(m)[i]] = "DONE" \/ <<m, All(m)[i]>> \in dropped
      <3>1. All(m)[i] \in Node
        BY <2>1, PrereqType DEF TypeOK
      <3>2. state[All(m)[i]] = "DONE" \/ <<m, All(m)[i]>> \in dropped
        BY <1>2, <2>1 DEF WalkInv, WaitBarrier
      <3> QED
        BY <1>3, <3>1, <3>2
    <2> QED
      BY <1>5, <2>1 DEF WaitBarrier
  <1> QED
    BY <1>3, <1>6, <1>7, <1>8, <1>9 DEF WalkInv

\* the loop over the prerequisites
LEMMA ScanWalk ==
  ASSUME TypeOK, OrderInv, WalkInv, ScanWait \/ ScanReturn
  PROVE  WalkInv'
  <1> USE DEF params, nodes, calls, loop, procs, tokens, flags, sigs, files
  <1>0. PICK n : n = cur
    OBVIOUS
  <1>1. /\ n = cur /\ cur' = n /\ cur \in Node /\ frame[cur].at \in Nat \ {0} /\ visiting[cur]
        /\ UNCHANGED <<mk, opt, state, ok, visiting, cur, dropped, gi, jobs, stop_starting>>
        /\ ret' = "none"
        /\ Len(All(cur)) \in Nat /\ DOMAIN All(cur) = 1 .. Len(All(cur))
    BY <1>0, PrereqType DEF ScanWait, ScanReturn, Scanning, TypeOK, OrderInv, StateInv
  <1>2. /\ \A m \in Node : m # cur => frame'[m] = frame[m]
        /\ \A m \in Node : frame'[m].caller = frame[m].caller
    <2>1. /\ \A m \in Node : m # cur => frame'[m] = frame[m]
          /\ frame'[cur].caller = frame[cur].caller
      BY <1>1 DEF ScanWait, ScanReturn, TypeOK
    <2> QED
      BY <2>1
  <1>3. \A m : Good(m)' = Good(m) /\ All(m)' = All(m) /\ Prereqs(m)' = Prereqs(m)
    BY <1>1 DEF Good, All, Prereqs
  <1>4. \A m, p \in Node : GivenUp(m, p)' = GivenUp(m, p)
    BY <1>1, <1>2 DEF GivenUp
  <1>5. frame[cur].at <= Len(All(cur))
    BY <1>1, NodeAssumption DEF ScanWait, ScanReturn, AtEnd, OrderInv, StackInv
  <1> DEFINE Passes == \A p \in Node : Past(n, p)' =>
                          /\ frame'[cur].at <= Len(All(cur)) \/ opt.k => Tried(n, p)'
                          /\ Counted(n, p)'
             Waits == frame'[cur].at <= Len(All(cur)) =>
                        \A i, j \in DOMAIN All(cur) :
                          i < j /\ j < frame'[cur].at /\ All(cur)[j] = Wait /\ All(cur)[i] # Wait =>
                            state[All(cur)[i]] = "DONE" \/ <<cur, All(cur)[i]>> \in dropped
  <1>6. ASSUME ScanWait
        PROVE  Passes /\ Waits
    <2>1. /\ frame'[cur].pending = frame[cur].pending /\ frame'[cur].failed = frame[cur].failed
          /\ frame'[cur].at = AfterWait /\ All(cur)[frame[cur].at] = Wait /\ ret = "none"
      BY <1>1, <1>6 DEF ScanWait, Scanning, TypeOK
    <2>2. ASSUME NEW p \in Node, Past(n, p)'
          PROVE  /\ frame'[cur].at <= Len(All(cur)) \/ opt.k => Tried(n, p)'
                 /\ Counted(n, p)'
      <3>1. CASE frame[cur].pending
        BY <1>1, <2>1, <3>1 DEF Tried, Counted
      <3>2. CASE ~frame[cur].pending
        <4>1. PICK i \in DOMAIN All(cur) : i < frame[cur].at + 1 /\ All(cur)[i] = p
          BY <1>1, <1>3, <2>1, <2>2, <3>2 DEF Past, AfterWait
        <4>2. i < frame[cur].at
          BY <1>1, <2>1, <4>1, NodeAssumption
        <4>3. Past(n, p)
          BY <1>1, <4>1, <4>2 DEF Past
        <4>4. Tried(n, p) /\ Counted(n, p)
          BY <1>1, <1>5, <4>3 DEF WalkInv, PassedInv
        <4> QED
          BY <1>1, <1>3, <1>4, <2>1, <4>4 DEF Tried, Counted, Handed, StopHere
      <3> QED
        BY <3>1, <3>2
    <2>3. ASSUME frame'[cur].at <= Len(All(cur)), NEW i \in DOMAIN All(cur), NEW j \in DOMAIN All(cur),
                 i < j, j < frame'[cur].at, All(cur)[j] = Wait, All(cur)[i] # Wait
          PROVE  state[All(cur)[i]] = "DONE" \/ <<cur, All(cur)[i]>> \in dropped
      <3>1. ~frame[cur].pending /\ j < frame[cur].at + 1
        BY <1>1, <2>1, <2>3 DEF AfterWait, Break
      <3>2. CASE j < frame[cur].at
        BY <1>1, <1>5, <2>3, <3>2 DEF WalkInv, WaitBarrier
      <3>3. CASE j = frame[cur].at
        <4>1. Past(n, All(cur)[i]) /\ All(cur)[i] \in Node
          BY <1>1, <2>3, <3>3, PrereqType DEF Past, TypeOK
        <4>2. Tried(n, All(cur)[i])
          BY <1>1, <1>5, <4>1 DEF WalkInv, PassedInv
        <4> QED
          BY <1>1, <2>1, <3>1, <4>2 DEF Tried, Handed, GivenUp
      <3> QED
        BY <1>1, <3>1, <3>2, <3>3
    <2> QED
      BY <2>2, <2>3
  <1>7. ASSUME ScanReturn
        PROVE  Passes /\ Waits
    <2>1. /\ frame'[cur].pending = (frame[cur].pending \/ ret = "PENDING")
          /\ frame'[cur].failed = (frame[cur].failed \/ ret = "FAIL")
          /\ frame'[cur].at = IF Leaves THEN Break ELSE frame[cur].at + 1
          /\ ret \in {"OK", "FAIL", "PENDING"} /\ All(cur)[frame[cur].at] # Wait
      BY <1>1, <1>7, NodeAssumption DEF ScanReturn, TypeOK, OrderInv, StackInv
    <2>2. ASSUME NEW p \in Node, Past(n, p)'
          PROVE  /\ frame'[cur].at <= Len(All(cur)) \/ opt.k => Tried(n, p)'
                 /\ Counted(n, p)'
      <3>1. CASE Leaves
        <4>1. ~(frame'[cur].at <= Len(All(cur)))
          BY <1>1, <2>1, <3>1 DEF Break
        <4>2. opt.k => frame'[cur].pending
          BY <2>1, <3>1 DEF Leaves, StopHere
        <4>3. frame'[cur].pending \/ frame'[cur].failed \/ StopHere
          BY <2>1, <3>1 DEF Leaves
        <4> QED
          BY <1>1, <4>1, <4>2, <4>3 DEF Tried, Counted, StopHere
      <3>2. CASE ~Leaves
        <4>1. PICK i \in DOMAIN All(cur) : i < frame[cur].at + 1 /\ All(cur)[i] = p
          BY <1>1, <1>3, <2>1, <2>2, <3>2 DEF Past
        <4>2. CASE i < frame[cur].at
          <5>1. Past(n, p)
            BY <1>1, <4>1, <4>2 DEF Past
          <5>2. Tried(n, p) /\ Counted(n, p)
            BY <1>1, <1>5, <5>1 DEF WalkInv, PassedInv
          <5> QED
            BY <1>1, <1>3, <1>4, <2>1, <5>2 DEF Tried, Counted, Handed, StopHere
        <4>3. CASE i = frame[cur].at
          <5>1. At(cur, p)
            BY <1>1, <1>5, <4>1, <4>3 DEF At
          <5>2. /\ ret = "OK" => Good(p) \/ GivenUp(cur, p)
                /\ ret = "FAIL" => state[p] = "DONE"
            BY <1>1, <5>1 DEF WalkInv, ReturnInv
          <5> QED
            BY <1>1, <1>3, <1>4, <2>1, <5>2 DEF Tried, Counted, Good
        <4> QED
          BY <1>1, <4>1, <4>2, <4>3
      <3> QED
        BY <3>1, <3>2
    <2>3. ASSUME frame'[cur].at <= Len(All(cur)), NEW i \in DOMAIN All(cur), NEW j \in DOMAIN All(cur),
                 i < j, j < frame'[cur].at, All(cur)[j] = Wait, All(cur)[i] # Wait
          PROVE  state[All(cur)[i]] = "DONE" \/ <<cur, All(cur)[i]>> \in dropped
      <3>1. j < frame[cur].at + 1
        BY <1>1, <2>1, <2>3 DEF Break
      <3>2. j < frame[cur].at
        BY <1>1, <2>1, <2>3, <3>1
      <3> QED
        BY <1>1, <1>5, <2>3, <3>2 DEF WalkInv, WaitBarrier
    <2> QED
      BY <2>2, <2>3
  <1>8. PassedInv'
    <2>1. ASSUME NEW m \in Node, NEW p \in Node, visiting'[m], Past(m, p)'
          PROVE  /\ frame'[m].at <= Len(All(m)) \/ opt.k => Tried(m, p)'
                 /\ Counted(m, p)'
      <3>1. CASE m = cur
        BY <1>1, <1>6, <1>7, <2>1, <3>1
      <3>2. CASE m # cur
        <4>1. Past(m, p) /\ visiting[m] /\ frame'[m] = frame[m]
          BY <1>1, <1>2, <1>3, <2>1, <3>2 DEF Past
        <4>2. /\ frame[m].at <= Len(All(m)) \/ opt.k => Tried(m, p)
              /\ Counted(m, p)
          BY <4>1 DEF WalkInv, PassedInv
        <4>3. (Tried(m, p) => Tried(m, p)') /\ (Counted(m, p) => Counted(m, p)')
          BY <1>1, <1>3, <1>4, <3>2, <4>1 DEF Tried, Counted, Handed, StopHere
        <4> QED
          BY <4>1, <4>2, <4>3
      <3> QED
        BY <3>1, <3>2
    <2> QED
      BY <1>1, <1>3, <2>1 DEF PassedInv
  <1>9. ReturnInv'
    BY <1>1 DEF ReturnInv
  <1>10. CallsInv' /\ CallerInv' /\ KeptInv' /\ RunInv'
    <2>1. Rooted'
      BY <1>2 DEF WalkInv, CallsInv, Rooted
    <2>2. CallsInv'
      BY <1>1, <1>2, <1>3, <2>1 DEF WalkInv, CallsInv
    <2>3. CallerInv'
      BY <1>1, <1>2, <1>3 DEF WalkInv, CallerInv
    <2> QED
      BY <1>1, <1>3, <2>2, <2>3 DEF WalkInv, KeptInv, RunInv
  <1>11. WaitBarrier'
    <2>1. ASSUME NEW m \in Node, visiting[m], frame'[m].at <= Len(All(m)),
                 NEW i \in DOMAIN All(m), NEW j \in DOMAIN All(m),
                 i < j, j < frame'[m].at, All(m)[j] = Wait, All(m)[i] # Wait
          PROVE  state[All(m)[i]] = "DONE" \/ <<m, All(m)[i]>> \in dropped
      <3>1. CASE m = cur
        BY <1>1, <1>6, <1>7, <2>1, <3>1
      <3>2. CASE m # cur
        BY <1>2, <2>1, <3>2 DEF WalkInv, WaitBarrier
      <3> QED
        BY <3>1, <3>2
    <2> QED
      BY <1>1, <1>3, <2>1 DEF WaitBarrier
  <1> QED
    BY <1>8, <1>9, <1>10, <1>11 DEF WalkInv

LEMMA UpdateWalk ==
  ASSUME TypeOK, OrderInv, WalkInv, Update
  PROVE  WalkInv'
  <1> USE DEF params, nodes, calls, loop, procs, tokens, flags, sigs, files
  <1>1. CASE ScanCall
    <2>1. cur \in Node /\ frame[cur].at \in DOMAIN All(cur)
      BY <1>1, PrereqType DEF ScanCall, Scanning, AtEnd, TypeOK
    <2>2. PICK n \in Node : n = All(cur)[frame[cur].at]
      BY <1>1, <2>1, PrereqType DEF ScanCall, TypeOK
    <2>3. At(cur, n) /\ cur # NoNode /\ Call(n, cur) /\ ret = "none"
      BY <1>1, <2>1, <2>2 DEF ScanCall, Scanning, At
    <2> QED
      BY <1>1, <2>3, CallWalk DEF ScanCall
  <1>2. ASSUME NEW n \in Node, cur = n, ScanPending \/ ScanFailed
        PROVE  WalkInv'
    <2>1. state[n] = "SCAN" /\ ret = "none" /\ Scanning /\ AtEnd
      BY <1>2, NodeAssumption DEF ScanPending, ScanFailed, Scanning, OrderInv, StateInv
    <2>2. CASE ScanPending
      BY <1>2, <2>1, <2>2, ReturnWalk DEF ScanPending, Good
    <2>3. CASE ScanFailed
      <3>1. AllTried(n)
        BY <1>2, <2>1, <2>3, EndOfWalk DEF ScanFailed
      <3>2. /\ \A m \in Node \ {n} : state'[m] = state[m] /\ ok'[m] = ok[m]
            /\ state'[n] = "DONE" /\ ~Good(n)'
        BY <1>2, <2>3 DEF ScanFailed, TypeOK, Good
      <3> QED
        BY <1>2, <2>1, <2>3, <3>1, <3>2, ReturnWalk DEF ScanFailed
    <2> QED
      BY <1>2, <2>2, <2>3
  <1>3. ASSUME NEW n \in Node,
               DcolonUpToDate(n) \/ UpToDate(n) \/ NoCommands(n) \/ NoRule(n) \/ NoSlot(n)
        PROVE  WalkInv'
    <2>1. Decide(n) /\ cur = n /\ ret = "none" /\ state[n] = "SCAN"
      BY <1>3, NodeAssumption
         DEF DcolonUpToDate, UpToDate, NoCommands, NoRule, NoSlot, Decide, Scanning, OrderInv, StateInv
    <2>2. \A m \in Node \ {n} : state'[m] = state[m] /\ ok'[m] = ok[m]
      BY <1>3 DEF DcolonUpToDate, UpToDate, NoCommands, NoRule, NoSlot, TypeOK
    <2>3. AllTried(n) /\ AllGood(n)
      BY <2>1, EndOfWalk DEF Decide
    <2>4. CASE DcolonUpToDate(n) \/ UpToDate(n) \/ NoCommands(n)
      <3>1. Return("OK") /\ state'[n] = "DONE" /\ Good(n)'
        BY <2>4 DEF DcolonUpToDate, UpToDate, NoCommands, TypeOK, Good
      <3>2. UNCHANGED <<mk, opt, frame, dropped, gi, jobs, stop_starting>>
        BY <2>4 DEF DcolonUpToDate, UpToDate, NoCommands
      <3> QED
        BY <2>1, <2>2, <2>3, <3>1, <3>2, ReturnWalk
    <2>5. CASE NoRule(n)
      <3>1. Return("FAIL") /\ state'[n] = "DONE"
        BY <2>5 DEF NoRule, TypeOK
      <3>2. UNCHANGED <<mk, opt, frame, dropped, gi, jobs>> /\ (stop_starting => stop_starting')
        BY <2>5 DEF NoRule, NoteError
      <3> QED
        BY <2>1, <2>2, <2>3, <3>1, <3>2, ReturnWalk
    <2>6. CASE NoSlot(n)
      <3>1. Return("PENDING") /\ state'[n] = "SCAN" /\ ~Good(n)'
        BY <2>1, <2>6 DEF NoSlot, Good
      <3>2. UNCHANGED <<mk, opt, frame, dropped, gi, jobs, stop_starting>>
        BY <2>6 DEF NoSlot
      <3> QED
        BY <2>1, <2>2, <2>3, <3>1, <3>2, ReturnWalk
    <2> QED
      BY <1>3, <2>4, <2>5, <2>6
  <1>4. ASSUME NEW n \in Node, NEW t \in pool \cup {NoToken}, StartJob(n, t)
        PROVE  WalkInv'
    <2> DEFINE j == NewJob(ToRun(n, Segs(n)), t, mtime[n])
               r == IF state'[n] # "DONE" THEN "PENDING" ELSE IF ok'[n] THEN "OK" ELSE "FAIL"
    <2>1. j \in Jobs /\ pool \ {t} \in SUBSET Token
      BY ToRunType DEF TypeOK, Jobs, NewJob
    <2>2. /\ Decide(n) /\ cur = n /\ JobNext(n, j, pool \ {t}) /\ Return(r) /\ ret = "none"
          /\ UNCHANGED <<mk, opt, frame, dropped, stop_starting, gi>>
      BY <1>4 DEF StartJob, Decide, Scanning
    <2>3. /\ \A m \in Node \ {n} : state'[m] = state[m] /\ ok'[m] = ok[m]
          /\ n \in jobs' => state'[n] = "RUN"
          /\ n \notin jobs' => state'[n] = "DONE"
      <3> HIDE DEF j
      <3> QED
        BY <2>1, <2>2, JobStep
    <2>4. AllTried(n) /\ AllGood(n)
      BY <2>2, EndOfWalk DEF Decide
    <2>5. r \in {"OK", "FAIL", "PENDING"} /\ (r = "OK" => Good(n)') /\ (r = "FAIL" => state'[n] = "DONE")
      BY DEF Good
    <2>6. \A m \in Node \ {n} : m \in jobs => m \in jobs'
      <3> HIDE DEF j
      <3> QED
        BY <2>2 DEF JobNext, JobDone
    <2> HIDE DEF r
    <2> QED
      BY <2>2, <2>3, <2>4, <2>5, <2>6, ReturnWalk
  <1>5. CASE ScanPending \/ ScanFailed
    <2>1. cur \in Node
      BY <1>5 DEF ScanPending, ScanFailed, Scanning, TypeOK
    <2> QED
      BY <1>2, <1>5, <2>1
  <1> QED
    BY <1>1, <1>3, <1>4, <1>5, ScanWalk DEF Update

LEMMA GoalsWalk ==
  ASSUME TypeOK, OrderInv, WalkInv, BuildGoals
  PROVE  WalkInv'
  <1> USE DEF params, nodes, calls, loop, procs, tokens, flags, sigs, files
  <1>1. CASE GoalCall
    <2>1. gi \in DOMAIN Goals
      BY <1>1, GoalAssumption DEF GoalCall, TypeOK
    <2>2. PICK n \in Node : n = Goals[gi]
      BY <2>1, GoalAssumption, ElementOfSeq
    <2>3. Call(n, cur) /\ cur = NoNode /\ ret = "none"
      BY <1>1, <2>2 DEF GoalCall, InGoals
    <2> QED
      BY <1>1, <2>1, <2>2, <2>3, CallWalk DEF GoalCall
  <1>2. CASE GoalReturnSerial \/ GoalReturnParallel \/ PassEnd
    <2>1. /\ cur = NoNode /\ cur' = NoNode
          /\ UNCHANGED <<mk, opt, state, ok, visiting, frame, dropped, jobs, stop_starting>>
      BY <1>2 DEF GoalReturnSerial, GoalReturnParallel, PassEnd, InGoals
    <2>2. \A n \in Node : ~visiting'[n]
      BY <2>1 DEF WalkInv, CallsInv
    <2>3. PassedInv' /\ ReturnInv' /\ WaitBarrier'
      BY <2>1, <2>2, NodeAssumption DEF PassedInv, ReturnInv, WaitBarrier
    <2>4. CallsInv'
      BY <2>1, <2>2 DEF WalkInv, CallsInv, Rooted, Prereqs, All
    <2>5. CallerInv' /\ KeptInv' /\ RunInv'
      BY <2>1 DEF WalkInv, CallerInv, KeptInv, RunInv, Good, Prereqs, All
    <2> QED
      BY <2>3, <2>4, <2>5 DEF WalkInv
  <1>3. CASE Drain
    BY <1>3, UnchangedWalk DEF Drain, walkVars
  <1> QED
    BY <1>1, <1>2, <1>3 DEF BuildGoals

LEMMA ReapWalk ==
  ASSUME TypeOK, OrderInv, WalkInv, NEW n \in Node, ReapOk(n) \/ ReapBad(n)
  PROVE  WalkInv'
  <1> USE DEF params, nodes, calls, loop, procs, tokens, flags, sigs, files
  <1>0. job[n] \in Jobs /\ pool \in SUBSET Token
    BY DEF TypeOK
  <1>1. [job[n] EXCEPT !.failed = TRUE] \in Jobs
    BY <1>0 DEF Jobs
  <1>2. /\ \A m \in Node \ {n} : state'[m] = state[m] /\ ok'[m] = ok[m]
        /\ n \in jobs' => state'[n] = "RUN"
        /\ n \notin jobs' => state'[n] = "DONE"
    BY <1>0, <1>1, JobStep DEF ReapOk, ReapBad
  <1>3. /\ n \in jobs /\ state[n] = "RUN" /\ ~visiting[n]
        /\ UNCHANGED <<mk, opt, visiting, frame, cur, ret, dropped, gi>>
        /\ stop_starting => stop_starting'
    BY DEF ReapOk, ReapBad, NoteError, OrderInv, StateInv, TypeOK
  <1>4. \A m \in Node \ {n} : m \in jobs => m \in jobs'
    BY DEF ReapOk, ReapBad, JobNext, JobDone
  <1>5. AllGood(n)
    BY <1>3 DEF WalkInv, CallerInv, AllGood
  <1>6. AllTried(n)
    <2>1. \A p \in Prereqs(n) : state[p] = "DONE" \/ <<n, p>> \in dropped
      BY <1>3 DEF OrderInv, PrereqsDone, Settled
    <2>2. \A m \in Node : frame[m].caller = n => state[m] # "SCAN"
      BY <1>5 DEF AllGood, Good
    <2> QED
      BY <2>1, <2>2 DEF AllTried
  <1>7. /\ \A p \in Node : state[p] = "DONE" => state'[p] = "DONE"
        /\ \A p \in Node : Good(p) => Good(p)'
        /\ CallerInv' /\ KeptInv' /\ RunInv'
        /\ \A p \in Node : state'[p] # "NEW" <=> state[p] # "NEW"
    BY <1>2, <1>3, <1>4, <1>5, <1>6, DecidedWalk
  <1>8. \A m, p : /\ Past(m, p)' = Past(m, p) /\ At(m, p)' = At(m, p)
                  /\ GivenUp(m, p)' = GivenUp(m, p)
    BY <1>3 DEF Past, At, All, GivenUp
  <1>9. \A m : All(m)' = All(m) /\ Prereqs(m)' = Prereqs(m)
    BY <1>3 DEF All, Prereqs
  <1>10. PassedInv'
    <2>1. ASSUME NEW m \in Node, NEW p \in Node, visiting[m], Past(m, p)
          PROVE  /\ frame[m].at <= Len(All(m)) \/ opt.k => Tried(m, p)'
                 /\ Counted(m, p)'
      <3>1. /\ frame[m].at <= Len(All(m)) \/ opt.k => Tried(m, p)
            /\ Counted(m, p)
        BY <2>1 DEF WalkInv, PassedInv
      <3>2. Tried(m, p) => Tried(m, p)'
        BY <1>3, <1>7, <1>8 DEF Tried, Handed
      <3>3. Counted(m, p) => Counted(m, p)'
        BY <1>3, <1>7, <1>8 DEF Counted, Handed, StopHere
      <3> QED
        BY <3>1, <3>2, <3>3
    <2> QED
      BY <1>3, <1>8, <1>9, <2>1 DEF PassedInv
  <1>11. ReturnInv'
    BY <1>3, <1>7, <1>8 DEF WalkInv, ReturnInv
  <1>12. CallsInv'
    BY <1>3, <1>7, <1>9 DEF WalkInv, CallsInv, Rooted
  <1>13. WaitBarrier'
    <2>1. ASSUME NEW m \in Node, visiting[m], frame[m].at <= Len(All(m)),
                 NEW i \in DOMAIN All(m), NEW j \in DOMAIN All(m),
                 i < j, j < frame[m].at, All(m)[j] = Wait, All(m)[i] # Wait
          PROVE  state'[All(m)[i]] = "DONE" \/ <<m, All(m)[i]>> \in dropped
      <3>1. All(m)[i] \in Node
        BY <2>1, PrereqType DEF TypeOK
      <3>2. state[All(m)[i]] = "DONE" \/ <<m, All(m)[i]>> \in dropped
        BY <2>1 DEF WalkInv, WaitBarrier
      <3> QED
        BY <1>7, <3>1, <3>2
    <2> QED
      BY <1>3, <1>9, <2>1 DEF WaitBarrier
  <1> QED
    BY <1>7, <1>10, <1>11, <1>12, <1>13 DEF WalkInv

LEMMA WalkStep ==
  ASSUME TypeOK, OrderInv, WalkInv, [Next]_vars
  PROVE  WalkInv'
  <1> USE DEF vars, params, nodes, calls, loop, procs, tokens, flags, sigs, files
  <1>1. CASE WaitSignal \/ NoZombie \/ Poll \/ HandleSignal
    BY <1>1, UnchangedWalk DEF WaitSignal, NoZombie, Poll, HandleSignal, walkVars
  <1>2. CASE Environment
    BY <1>2, UnchangedWalk
       DEF Environment, ChildWrites, ChildExits, Signal, OtherTakes, OtherReturns, walkVars
  <1>3. CASE UNCHANGED vars
    BY <1>3, UnchangedWalk DEF walkVars
  <1>4. CASE \E n \in Node : ReapOk(n) \/ ReapBad(n)
    BY <1>4, ReapWalk
  <1>5. CASE Update \/ BuildGoals
    BY <1>5, UpdateWalk, GoalsWalk
  <1> QED
    BY <1>1, <1>2, <1>3, <1>4, <1>5 DEF Next, Make, WaitEvent, Terminated

LEMMA WalkInvariant == Spec => []WalkInv
  <1>1. TypeOK /\ OrderInv /\ WalkInv /\ [Next]_vars => WalkInv'
    BY WalkStep
  <1> QED
    BY <1>1, InitWalk, TypeCorrect, OrderInvariant, PTL DEF Spec

-----------------------------------------------------------------------------
(***************************************************************************)
(* The loop of build_goals: make waits only while it has a job, and stops  *)
(* walking only when every goal is done or, without -k, after an error.    *)
(***************************************************************************)
IdleInv ==
  /\ pc \notin {"goals", "dead"} => cur = NoNode /\ ret = "none" /\ done
  /\ Serial => done

SomePending == ret = "PENDING" \/ ~done \/ \E n \in Node : visiting[n] /\ frame[n].pending

BusyInv == IdleInv /\ NoStall /\ (pc = "goals" /\ SomePending => jobs # {})

LEMMA UnchangedBusy ==
  ASSUME BusyInv, UNCHANGED <<mk, opt, visiting, frame, cur, ret, done, jobs>>,
         pc' = pc \/ pc' = "dead"
  PROVE  BusyInv'
  BY DEF BusyInv, IdleInv, NoStall, SomePending, Serial

LEMMA CallBusy ==
  ASSUME TypeOK, WalkInv, BusyInv, NEW n \in Node, NEW m, Call(n, m), pc = "goals", ret = "none",
         UNCHANGED <<mk, opt, done, pc, jobs>>
  PROVE  BusyInv'
  <1>1. CASE visiting[n] \/ state[n] \in {"RUN", "DONE"}
    <2>1. ret' = "PENDING" => state[n] = "RUN"
      BY <1>1 DEF Call
    <2>2. ret' = "PENDING" => jobs # {}
      BY <2>1 DEF WalkInv, RunInv
    <2>3. UNCHANGED <<frame, visiting>>
      BY <1>1 DEF Call
    <2> QED
      BY <2>2, <2>3 DEF BusyInv, IdleInv, NoStall, SomePending, Serial
  <1>2. CASE /\ visiting' = [visiting EXCEPT ![n] = TRUE]
             /\ frame' = [frame EXCEPT ![n] = NewFrame(m)] /\ UNCHANGED ret
    <2>1. ~frame'[n].pending /\ \A k \in Node : k # n => frame'[k] = frame[k] /\ visiting'[k] = visiting[k]
      BY <1>2 DEF TypeOK, NewFrame
    <2> QED
      BY <1>2, <2>1 DEF BusyInv, IdleInv, NoStall, SomePending, Serial
  <1> QED
    BY <1>1, <1>2 DEF Call

LEMMA UpdateBusy ==
  ASSUME TypeOK, OrderInv, WalkInv, BusyInv, Update
  PROVE  BusyInv'
  <1> USE DEF params, nodes, calls, loop, procs, tokens, flags, sigs, files
  <1>0. /\ pc = "goals" /\ pc' = "goals" /\ UNCHANGED <<mk, opt, done>> /\ cur \in Node
        /\ visiting \in [Node -> BOOLEAN]
    <2>1. CASE ScanWait \/ ScanCall \/ ScanReturn \/ ScanPending \/ ScanFailed
      BY <2>1 DEF ScanWait, ScanCall, ScanReturn, ScanPending, ScanFailed, Scanning, TypeOK
    <2>2. ASSUME NEW n \in Node,
                 DcolonUpToDate(n) \/ UpToDate(n) \/ NoCommands(n) \/ NoRule(n) \/ NoSlot(n)
          PROVE  pc = "goals" /\ pc' = "goals" /\ UNCHANGED <<mk, opt, done>> /\ cur \in Node
      BY <2>2 DEF DcolonUpToDate, UpToDate, NoCommands, NoRule, NoSlot, Decide, Scanning
    <2>3. ASSUME NEW n \in Node, NEW t \in pool \cup {NoToken}, StartJob(n, t)
          PROVE  pc = "goals" /\ pc' = "goals" /\ UNCHANGED <<mk, opt, done>> /\ cur \in Node
      BY <2>3 DEF StartJob, Decide, Scanning
    <2>4. visiting \in [Node -> BOOLEAN]
      BY DEF TypeOK
    <2> QED
      BY <2>1, <2>2, <2>3, <2>4 DEF Update
  <1>1. SUFFICES SomePending' => jobs' # {}
    BY <1>0 DEF BusyInv, IdleInv, NoStall, Serial
  <1>2. CASE ScanCall
    <2>1. frame[cur].at \in DOMAIN All(cur)
      BY <1>2, PrereqType DEF ScanCall, Scanning, AtEnd, TypeOK
    <2>2. PICK n \in Node : n = All(cur)[frame[cur].at]
      BY <1>0, <1>2, <2>1, PrereqType DEF ScanCall, TypeOK
    <2>3. BusyInv'
      BY <1>0, <1>2, <2>2, CallBusy DEF ScanCall, Scanning
    <2> QED
      BY <1>0, <2>3 DEF BusyInv
  <1>3. CASE ScanWait \/ ScanReturn
    <2>1. /\ \A n \in Node : n # cur => frame'[n] = frame[n]
          /\ frame'[cur].pending => frame[cur].pending \/ ret = "PENDING"
          /\ UNCHANGED <<visiting, done, jobs>> /\ ret' = "none" /\ visiting[cur]
      BY <1>0, <1>3, NodeAssumption DEF ScanWait, ScanReturn, Scanning, TypeOK, OrderInv, StateInv
    <2>2. SomePending' => SomePending
      BY <1>0, <2>1 DEF SomePending
    <2> QED
      BY <1>0, <2>1, <2>2 DEF BusyInv
  <1>4. ASSUME NEW r, Return(r), UNCHANGED frame, r = "PENDING" => jobs' # {}, jobs \subseteq jobs'
        PROVE  SomePending' => jobs' # {}
    <2>1. /\ ret' = r /\ \A n \in Node : visiting'[n] => visiting[n]
      BY <1>0, <1>4 DEF Return
    <2>2. SomePending' => SomePending \/ r = "PENDING"
      BY <1>0, <1>4, <2>1 DEF SomePending
    <2> QED
      BY <1>0, <1>4, <2>2 DEF BusyInv
  <1>5. CASE ScanPending \/ ScanFailed
    <2>1. ScanPending => jobs # {}
      BY <1>0, NodeAssumption DEF ScanPending, BusyInv, SomePending, OrderInv, StateInv
    <2> QED
      BY <1>4, <1>5, <2>1 DEF ScanPending, ScanFailed
  <1>6. ASSUME NEW n \in Node,
               DcolonUpToDate(n) \/ UpToDate(n) \/ NoCommands(n) \/ NoRule(n) \/ NoSlot(n)
        PROVE  SomePending' => jobs' # {}
    <2>1. NoSlot(n) => jobs # {}
      BY DEF NoSlot, Slot
    <2> QED
      BY <1>4, <1>6, <2>1 DEF DcolonUpToDate, UpToDate, NoCommands, NoRule, NoSlot
  <1>7. ASSUME NEW n \in Node, NEW t \in pool \cup {NoToken}, StartJob(n, t)
        PROVE  SomePending' => jobs' # {}
    <2> DEFINE j == NewJob(ToRun(n, Segs(n)), t, mtime[n])
               r == IF state'[n] # "DONE" THEN "PENDING" ELSE IF ok'[n] THEN "OK" ELSE "FAIL"
    <2>1. j \in Jobs /\ pool \ {t} \in SUBSET Token
      BY ToRunType DEF TypeOK, Jobs, NewJob
    <2>2. /\ JobNext(n, j, pool \ {t}) /\ Return(r) /\ UNCHANGED frame
          /\ state[n] = "SCAN"
      BY <1>7, NodeAssumption DEF StartJob, Decide, Scanning, OrderInv, StateInv
    <2> HIDE DEF j
    <2>3. n \notin jobs' => state'[n] = "DONE"
      BY <2>1, <2>2, JobStep
    <2>4. n \notin jobs
      BY <2>2 DEF OrderInv, StateInv
    <2>5. jobs \subseteq jobs'
      BY <2>2, <2>4 DEF JobNext, JobDone
    <2> QED
      BY <1>4, <2>2, <2>3, <2>5
  <1> QED
    BY <1>2, <1>3, <1>5, <1>6, <1>7 DEF Update

LEMMA BusyStep ==
  ASSUME TypeOK, OrderInv, WalkInv, BusyInv, [Next]_vars
  PROVE  BusyInv'
  <1> USE DEF vars, params, nodes, calls, loop, procs, tokens, flags, sigs, files
  <1>1. CASE GoalCall
    <2>1. gi \in DOMAIN Goals
      BY <1>1, GoalAssumption DEF GoalCall, TypeOK
    <2>2. PICK n \in Node : n = Goals[gi]
      BY <2>1, GoalAssumption, ElementOfSeq
    <2> QED
      BY <1>1, <2>2, CallBusy DEF GoalCall, InGoals
  <1>2. CASE GoalReturnSerial \/ GoalReturnParallel \/ PassEnd
    <2>1. /\ pc = "goals" /\ cur = NoNode /\ cur' = NoNode /\ ret' = "none"
          /\ UNCHANGED <<mk, opt, visiting, frame, jobs>>
      BY <1>2 DEF GoalReturnSerial, GoalReturnParallel, PassEnd, InGoals
    <2>2. \A n \in Node : ~visiting[n]
      BY <2>1 DEF WalkInv, CallsInv
    <2>3. CASE GoalReturnSerial
      <3>1. done /\ UNCHANGED done
        BY <2>3 DEF GoalReturnSerial, BusyInv, IdleInv
      <3>2. pc' = "wait" => jobs # {}
        BY <2>1, <2>3 DEF GoalReturnSerial, BusyInv, SomePending
      <3>3. pc' \in {"goals", "wait", "drain"}
        BY <2>1, <2>3 DEF GoalReturnSerial
      <3> QED
        BY <2>1, <2>2, <3>1, <3>2, <3>3 DEF BusyInv, IdleInv, NoStall, SomePending, Serial
    <2>4. CASE GoalReturnParallel
      <3>1. ~Serial /\ pc' = "goals" /\ (~done' => jobs # {})
        BY <2>1, <2>4 DEF GoalReturnParallel, BusyInv, SomePending
      <3> QED
        BY <2>1, <2>2, <3>1 DEF BusyInv, IdleInv, NoStall, SomePending, Serial
    <2>5. CASE PassEnd
      <3>1. done' /\ pc' \in {"wait", "drain"} /\ (pc' = "wait" => jobs # {})
        BY <2>1, <2>5 DEF PassEnd, BusyInv, SomePending
      <3> QED
        BY <2>1, <2>2, <3>1 DEF BusyInv, IdleInv, NoStall, SomePending, Serial
    <2> QED
      BY <1>2, <2>3, <2>4, <2>5
  <1>3. CASE Drain \/ WaitSignal \/ NoZombie \/ Poll \/ HandleSignal
    <2>1. /\ pc \in {"drain", "wait", "reap", "poll", "killing"}
          /\ UNCHANGED <<mk, opt, visiting, frame, cur, ret, done, jobs>>
          /\ pc' \in {"wait", "reap", "poll"} => jobs # {}
      <3>1. CASE Drain
        BY <3>1 DEF Drain
      <3>2. CASE WaitSignal
        BY <3>2 DEF WaitSignal, BusyInv, NoStall
      <3>3. CASE NoZombie
        BY <3>3 DEF NoZombie
      <3>4. CASE Poll
        BY <3>4 DEF Poll, BusyInv, NoStall
      <3>5. CASE HandleSignal
        BY <3>5 DEF HandleSignal
      <3> QED
        BY <1>3, <3>1, <3>2, <3>3, <3>4, <3>5
    <2>2. cur = NoNode /\ ret = "none" /\ done /\ \A n \in Node : ~visiting[n]
      BY <2>1 DEF BusyInv, IdleInv, WalkInv, CallsInv
    <2> QED
      BY <2>1, <2>2 DEF BusyInv, IdleInv, NoStall, SomePending, Serial
  <1>4. ASSUME NEW n \in Node, ReapOk(n) \/ ReapBad(n)
        PROVE  BusyInv'
    <2>1. /\ pc = "reap" /\ pc' \in {"drain", "goals"}
          /\ UNCHANGED <<mk, opt, visiting, frame, cur, ret, done>>
      BY <1>4 DEF ReapOk, ReapBad, WaitReturns
    <2>2. cur = NoNode /\ ret = "none" /\ done /\ \A m \in Node : ~visiting[m]
      BY <2>1 DEF BusyInv, IdleInv, WalkInv, CallsInv
    <2> QED
      BY <2>1, <2>2 DEF BusyInv, IdleInv, NoStall, SomePending, Serial
  <1>5. CASE Environment \/ UNCHANGED vars
    BY <1>5, UnchangedBusy
       DEF Environment, ChildWrites, ChildExits, Signal, OtherTakes, OtherReturns
  <1> QED
    BY <1>1, <1>2, <1>3, <1>4, <1>5, UpdateBusy DEF Next, Make, BuildGoals, WaitEvent, Terminated

LEMMA BusyInvariant == Spec => []BusyInv
  <1>1. Init => BusyInv
    BY DEF Init, BusyInv, IdleInv, NoStall, SomePending
  <1>2. TypeOK /\ OrderInv /\ WalkInv /\ BusyInv /\ [Next]_vars => BusyInv'
    BY BusyStep
  <1> QED
    BY <1>1, <1>2, TypeCorrect, OrderInvariant, WalkInvariant, PTL DEF Spec

-----------------------------------------------------------------------------
(***************************************************************************)
(* Failures.  A failure that is noted leaves a failed node, and one that   *)
(* is not noted can only come from fork().                                 *)
(***************************************************************************)
Clean ==
  /\ ret # "FAIL"
  /\ \A n \in Node : (state[n] = "DONE" => ok[n]) /\ (visiting[n] => ~frame[n].failed)

FailInv ==
  /\ stop_starting => any_error /\ ~opt.k
  /\ any_error => \E n \in Node : state[n] = "DONE" /\ ~ok[n]
  /\ ~any_error /\ ~ForkFails => Clean
  /\ \A n \in jobs : ~job[n].failed

\* What is done stays done, with its verdict.
DoneKept == \A n \in Node : state[n] = "DONE" => state'[n] = "DONE" /\ ok'[n] = ok[n]

LEMMA UpdateKeeps ==
  ASSUME TypeOK, OrderInv, Update
  PROVE  DoneKept
  <1> USE DEF params, nodes, calls, loop, procs, tokens, flags, sigs, files
  <1>1. CASE ScanWait \/ ScanReturn \/ ScanPending
    BY <1>1 DEF ScanWait, ScanReturn, ScanPending, DoneKept
  <1>2. CASE ScanCall
    <2>1. state' = state \/ \E n \in Node \cup {Wait} :
                              state[n] \in {"NEW", "SCAN"} /\ state' = [state EXCEPT ![n] = "SCAN"]
      <3>1. cur \in Node /\ frame[cur].at \in DOMAIN All(cur)
        BY <1>2, PrereqType DEF ScanCall, Scanning, AtEnd, TypeOK
      <3>2. All(cur)[frame[cur].at] \in Node
        BY <1>2, <3>1, PrereqType DEF ScanCall, TypeOK
      <3> QED
        BY <1>2, <3>2 DEF ScanCall, Call
    <2> QED
      BY <1>2, <2>1 DEF ScanCall, DoneKept, TypeOK
  <1>3. CASE ScanFailed
    <2>1. state[cur] = "SCAN" /\ cur \in Node
      BY <1>3 DEF ScanFailed, Scanning, TypeOK, OrderInv, StateInv
    <2> QED
      BY <1>3, <2>1 DEF ScanFailed, DoneKept, TypeOK
  <1>4. ASSUME NEW n \in Node,
               DcolonUpToDate(n) \/ UpToDate(n) \/ NoCommands(n) \/ NoRule(n) \/ NoSlot(n)
        PROVE  DoneKept
    <2>1. state[n] = "SCAN"
      BY <1>4, NodeAssumption
         DEF DcolonUpToDate, UpToDate, NoCommands, NoRule, NoSlot, Decide, Scanning, OrderInv, StateInv
    <2>2. \A m \in Node \ {n} : state'[m] = state[m] /\ ok'[m] = ok[m]
      BY <1>4 DEF DcolonUpToDate, UpToDate, NoCommands, NoRule, NoSlot, TypeOK
    <2> QED
      BY <2>1, <2>2 DEF DoneKept
  <1>5. ASSUME NEW n \in Node, NEW t \in pool \cup {NoToken}, StartJob(n, t)
        PROVE  DoneKept
    <2> DEFINE j == NewJob(ToRun(n, Segs(n)), t, mtime[n])
    <2>1. j \in Jobs /\ pool \ {t} \in SUBSET Token
      BY ToRunType DEF TypeOK, Jobs, NewJob
    <2>2. JobNext(n, j, pool \ {t}) /\ state[n] = "SCAN"
      BY <1>5, NodeAssumption DEF StartJob, Decide, Scanning, OrderInv, StateInv
    <2> HIDE DEF j
    <2>3. \A m \in Node \ {n} : state'[m] = state[m] /\ ok'[m] = ok[m]
      BY <2>1, <2>2, JobStep
    <2> QED
      BY <2>2, <2>3 DEF DoneKept
  <1> QED
    BY <1>1, <1>2, <1>3, <1>4, <1>5 DEF Update

LEMMA DoneStays ==
  ASSUME TypeOK, OrderInv, [Next]_vars
  PROVE  DoneKept
  <1> USE DEF vars, params, nodes, calls, loop, procs, tokens, flags, sigs, files
  <1>1. CASE GoalCall
    <2>1. gi \in DOMAIN Goals
      BY <1>1, GoalAssumption DEF GoalCall, TypeOK
    <2>2. PICK n \in Node : n = Goals[gi]
      BY <2>1, GoalAssumption, ElementOfSeq
    <2>3. Call(n, NoNode) /\ UNCHANGED ok
      BY <1>1, <2>2 DEF GoalCall
    <2> QED
      BY <2>3 DEF Call, DoneKept, TypeOK
  <1>2. CASE GoalReturnSerial \/ GoalReturnParallel \/ PassEnd \/ Drain
    BY <1>2 DEF GoalReturnSerial, GoalReturnParallel, PassEnd, Drain, DoneKept
  <1>3. CASE WaitSignal \/ NoZombie \/ Poll \/ HandleSignal
    BY <1>3 DEF WaitSignal, NoZombie, Poll, HandleSignal, DoneKept
  <1>4. ASSUME NEW n \in Node, ReapOk(n) \/ ReapBad(n)
        PROVE  DoneKept
    <2>1. job[n] \in Jobs /\ pool \in SUBSET Token
      BY DEF TypeOK
    <2>2. [job[n] EXCEPT !.failed = TRUE] \in Jobs
      BY <2>1 DEF Jobs
    <2>3. \A m \in Node \ {n} : state'[m] = state[m] /\ ok'[m] = ok[m]
      BY <1>4, <2>1, <2>2, JobStep DEF ReapOk, ReapBad
    <2>4. state[n] = "RUN"
      BY <1>4 DEF ReapOk, ReapBad, OrderInv, StateInv
    <2> QED
      BY <2>3, <2>4 DEF DoneKept
  <1>5. CASE Environment \/ UNCHANGED vars
    BY <1>5 DEF Environment, ChildWrites, ChildExits, Signal, OtherTakes, OtherReturns, DoneKept
  <1> QED
    BY <1>1, <1>2, <1>3, <1>4, <1>5, UpdateKeeps DEF Next, Make, BuildGoals, WaitEvent, Terminated

\* a step of a job that has not failed, and the end of one that has
LEMMA JobVerdict ==
  ASSUME TypeOK, NEW n \in Node, NEW j \in Jobs, NEW pl \in SUBSET Token, ~j.failed,
         \A m \in jobs : ~job[m].failed
  PROVE  /\ JobNext(n, j, pl) \/ JobDone(n, [j EXCEPT !.failed = TRUE], pl) =>
              \A m \in jobs' : ~job'[m].failed
         /\ JobNext(n, j, pl) /\ ~ForkFails => state'[n] = "RUN" \/ (state'[n] = "DONE" /\ ok'[n])
         /\ JobDone(n, [j EXCEPT !.failed = TRUE], pl) => state'[n] = "DONE" /\ ~ok'[n]
  <1>1. [j EXCEPT !.failed = TRUE] \in Jobs /\ [j EXCEPT !.failed = TRUE].failed
    BY DEF Jobs
  <1>2. ASSUME NEW k \in Jobs, JobDone(n, k, pl)
        PROVE  /\ \A m \in jobs' : ~job'[m].failed
               /\ state'[n] = "DONE" /\ (ok'[n] <=> ~k.failed)
    <2>1. jobs' = jobs \ {n} /\ \A m \in jobs \ {n} : job'[m] = job[m]
      BY <1>2 DEF JobDone, TypeOK
    <2>2. PICK executed, t : FinishNode(n, ~k.failed, executed, t)
      <3>1. CASE ~k.failed /\ opt.mode = "t" /\ ~mk[n].phony
        <4>1. PICK t : FinishNode(n, TRUE, k.executed, t)
          BY <1>2, <3>1 DEF JobDone
        <4>2. (~k.failed) = TRUE
          BY <3>1
        <4> QED
          BY <4>1, <4>2
      <3>2. CASE ~(~k.failed /\ opt.mode = "t" /\ ~mk[n].phony)
        BY <1>2, <3>2 DEF JobDone
      <3> QED
        BY <3>1, <3>2
    <2>3. state'[n] = "DONE" /\ ok'[n] = ~k.failed
      BY <2>2 DEF FinishNode, TypeOK
    <2> QED
      BY <2>1, <2>3
  <1>3. CASE /\ jobs' = jobs \cup {n} /\ state' = [state EXCEPT ![n] = "RUN"]
             /\ LET x == FirstLine(j.left)
                    line == mk[n].rules[x[1]].cmds[x[2]]
                IN job' = [job EXCEPT ![n] = [j EXCEPT !.left = @ \ {x},
                                                        !.ignore = "-" \in line,
                                                        !.executed = TRUE]]
    <2> DEFINE x == FirstLine(j.left)
               k == [j EXCEPT !.left = @ \ {x},
                              !.ignore = "-" \in mk[n].rules[x[1]].cmds[x[2]],
                              !.executed = TRUE]
    <2>1. ~k.failed
      BY DEF Jobs
    <2> HIDE DEF k
    <2>2. job' = [job EXCEPT ![n] = k]
      BY <1>3 DEF k
    <2>3. state'[n] = "RUN" /\ jobs' = jobs \cup {n}
      BY <1>3 DEF TypeOK
    <2>5. job'[n] = k /\ \A m \in jobs \ {n} : job'[m] = job[m]
      BY <2>2 DEF TypeOK
    <2>6. \A m \in jobs' : ~job'[m].failed
      BY <2>1, <2>3, <2>5
    <2>4. ~JobDone(n, [j EXCEPT !.failed = TRUE], pl)
      BY <1>1, <1>2, <2>3
    <2> QED
      BY <2>3, <2>4, <2>6
  <1>4. CASE JobDone(n, j, pl) \/ JobDone(n, [j EXCEPT !.failed = TRUE], pl)
    <2>1. \A m \in jobs' : ~job'[m].failed
      BY <1>1, <1>2, <1>4
    <2>2. JobDone(n, [j EXCEPT !.failed = TRUE], pl) => state'[n] = "DONE" /\ ~ok'[n]
      BY <1>1, <1>2
    <2>3. JobNext(n, j, pl) /\ ~ForkFails /\ ~JobDone(n, j, pl) => state'[n] = "RUN"
      BY DEF JobNext, TypeOK
    <2>4. JobDone(n, j, pl) => state'[n] = "DONE" /\ ok'[n]
      BY <1>2
    <2> QED
      BY <2>1, <2>2, <2>3, <2>4
  <1> QED
    BY <1>3, <1>4 DEF JobNext

\* most steps note no error, start no job and hand out no failure
LEMMA QuietFail ==
  ASSUME FailInv, DoneKept, UNCHANGED <<opt, stop_starting, any_error, jobs, job>>,
         ~any_error /\ ~ForkFails => Clean'
  PROVE  FailInv'
  BY DEF FailInv, DoneKept

LEMMA CallFail ==
  ASSUME TypeOK, FailInv, DoneKept, NEW n \in Node, NEW m, Call(n, m), ret = "none",
         UNCHANGED <<opt, ok, stop_starting, any_error, jobs, job>>
  PROVE  FailInv'
  <1> SUFFICES ASSUME ~any_error, ~ForkFails PROVE Clean'
    BY QuietFail
  <1>0. Clean
    BY DEF FailInv
  <1>1. CASE visiting[n] \/ state[n] \in {"RUN", "DONE"}
    BY <1>0, <1>1 DEF Call, Clean
  <1>2. CASE /\ visiting' = [visiting EXCEPT ![n] = TRUE]
             /\ state' = [state EXCEPT ![n] = "SCAN"]
             /\ frame' = [frame EXCEPT ![n] = NewFrame(m)] /\ UNCHANGED ret
    <2>1. ~frame'[n].failed /\ state'[n] = "SCAN"
          /\ \A k \in Node : k # n => frame'[k] = frame[k] /\ visiting'[k] = visiting[k] /\ state'[k] = state[k]
      BY <1>2 DEF TypeOK, NewFrame
    <2> QED
      BY <1>0, <1>2, <2>1 DEF Clean
  <1> QED
    BY <1>1, <1>2 DEF Call

\* the end of a call that has failed nobody
LEMMA ReturnClean ==
  ASSUME TypeOK, Clean, NEW n \in Node, cur = n, NEW r \in {"OK", "PENDING"}, Return(r),
         UNCHANGED frame,
         \A m \in Node \ {n} : state'[m] = state[m] /\ ok'[m] = ok[m],
         state'[n] = "DONE" => ok'[n]
  PROVE  Clean'
  <1>1. \A m \in Node : visiting'[m] => visiting[m]
    BY DEF Return, TypeOK
  <1>2. ret' # "FAIL"
    BY DEF Return
  <1> QED
    BY <1>1, <1>2 DEF Clean

LEMMA UpdateFail ==
  ASSUME TypeOK, OrderInv, FailInv, Update
  PROVE  FailInv'
  <1> USE DEF params, nodes, calls, loop, procs, tokens, flags, sigs, files
  <1>0. DoneKept
    BY UpdateKeeps
  <1>1. CASE ScanCall
    <2>1. cur \in Node /\ frame[cur].at \in DOMAIN All(cur)
      BY <1>1, PrereqType DEF ScanCall, Scanning, AtEnd, TypeOK
    <2>2. All(cur)[frame[cur].at] \in Node
      BY <1>1, <2>1, PrereqType DEF ScanCall, TypeOK
    <2> QED
      BY <1>0, <1>1, <2>2, CallFail DEF ScanCall, Scanning
  <1>2. CASE ScanWait \/ ScanReturn
    <2>1. /\ \A n \in Node : n # cur => frame'[n] = frame[n]
          /\ cur \in Node /\ (frame'[cur].failed => frame[cur].failed \/ ret = "FAIL")
          /\ UNCHANGED <<visiting, state, ok>> /\ ret' = "none" /\ visiting[cur]
      BY <1>2, NodeAssumption DEF ScanWait, ScanReturn, Scanning, TypeOK, OrderInv, StateInv
    <2>2. Clean => Clean'
      BY <2>1 DEF Clean
    <2> QED
      BY <1>0, <1>2, <2>2, QuietFail DEF ScanWait, ScanReturn, FailInv
  <1>3. CASE ScanPending
    <2>1. PICK n \in Node : cur = n /\ state[n] = "SCAN"
      BY <1>3 DEF ScanPending, Scanning, TypeOK, OrderInv, StateInv
    <2>2. Clean => Clean'
      BY <1>3, <2>1, ReturnClean DEF ScanPending
    <2> QED
      BY <1>0, <1>3, <2>2, QuietFail DEF ScanPending, FailInv
  <1>4. CASE ScanFailed
    <2>1. cur \in Node /\ visiting[cur]
      BY <1>4 DEF ScanFailed, Scanning, TypeOK, OrderInv, StateInv
    <2>2. any_error \/ ForkFails
      BY <1>4, <2>1 DEF ScanFailed, StopHere, FailInv, Clean
    <2> QED
      BY <1>0, <1>4, <2>2, QuietFail DEF ScanFailed
  <1>5. ASSUME NEW n \in Node, DcolonUpToDate(n) \/ UpToDate(n) \/ NoCommands(n) \/ NoSlot(n)
        PROVE  FailInv'
    <2>1. cur = n /\ state[n] = "SCAN"
      BY <1>5, NodeAssumption
         DEF DcolonUpToDate, UpToDate, NoCommands, NoSlot, Decide, Scanning, OrderInv, StateInv
    <2>2. /\ \A m \in Node \ {n} : state'[m] = state[m] /\ ok'[m] = ok[m]
          /\ state'[n] = "DONE" => ok'[n]
      BY <1>5, <2>1 DEF DcolonUpToDate, UpToDate, NoCommands, NoSlot, TypeOK
    <2>3. \E r \in {"OK", "PENDING"} : Return(r)
      BY <1>5 DEF DcolonUpToDate, UpToDate, NoCommands, NoSlot
    <2>4. UNCHANGED <<frame, opt, stop_starting, any_error, jobs, job>>
      BY <1>5 DEF DcolonUpToDate, UpToDate, NoCommands, NoSlot
    <2>5. Clean => Clean'
      BY <2>1, <2>2, <2>3, <2>4, ReturnClean
    <2> QED
      BY <1>0, <2>4, <2>5, QuietFail DEF FailInv
  <1>6. ASSUME NEW n \in Node, NoRule(n)
        PROVE  FailInv'
    <2>1. /\ any_error' /\ state'[n] = "DONE" /\ ~ok'[n] /\ UNCHANGED <<opt, jobs, job>>
          /\ stop_starting' => ~opt.k \/ stop_starting
      BY <1>6 DEF NoRule, NoteError, TypeOK
    <2> QED
      BY <2>1 DEF FailInv
  <1>7. ASSUME NEW n \in Node, NEW t \in pool \cup {NoToken}, StartJob(n, t)
        PROVE  FailInv'
    <2> DEFINE j == NewJob(ToRun(n, Segs(n)), t, mtime[n])
               r == IF state'[n] # "DONE" THEN "PENDING" ELSE IF ok'[n] THEN "OK" ELSE "FAIL"
    <2>1. j \in Jobs /\ ~j.failed /\ pool \ {t} \in SUBSET Token
      BY ToRunType DEF TypeOK, Jobs, NewJob
    <2>2. /\ JobNext(n, j, pool \ {t}) /\ cur = n /\ Return(r)
          /\ UNCHANGED <<opt, frame, stop_starting, any_error>>
      BY <1>7 DEF StartJob, Decide
    <2> HIDE DEF j
    <2>3. \A m \in Node \ {n} : state'[m] = state[m] /\ ok'[m] = ok[m]
      BY <2>1, <2>2, JobStep
    <2>4. /\ \A m \in jobs' : ~job'[m].failed
          /\ ~ForkFails => state'[n] = "RUN" \/ (state'[n] = "DONE" /\ ok'[n])
      BY <2>1, <2>2, JobVerdict DEF FailInv
    <2>5. ~ForkFails => r \in {"OK", "PENDING"} /\ (state'[n] = "DONE" => ok'[n])
      BY <2>4
    <2> HIDE DEF r
    <2>6. ~ForkFails /\ Clean => Clean'
      BY <2>2, <2>3, <2>5, ReturnClean
    <2> QED
      BY <1>0, <2>2, <2>4, <2>6 DEF FailInv, DoneKept
  <1> QED
    BY <1>1, <1>2, <1>3, <1>4, <1>5, <1>6, <1>7 DEF Update

LEMMA FailStep ==
  ASSUME TypeOK, OrderInv, FailInv, [Next]_vars
  PROVE  FailInv'
  <1> USE DEF vars, params, nodes, calls, loop, procs, tokens, flags, sigs, files
  <1>0. DoneKept
    BY DoneStays
  <1>1. CASE GoalCall
    <2>1. gi \in DOMAIN Goals
      BY <1>1, GoalAssumption DEF GoalCall, TypeOK
    <2>2. Goals[gi] \in Node
      BY <2>1, GoalAssumption, ElementOfSeq
    <2> QED
      BY <1>0, <1>1, <2>2, CallFail DEF GoalCall, InGoals
  <1>2. CASE \/ GoalReturnSerial \/ GoalReturnParallel \/ PassEnd \/ Drain
             \/ WaitSignal \/ NoZombie \/ Poll \/ HandleSignal
    <2>1. /\ UNCHANGED <<opt, state, ok, visiting, frame, stop_starting, any_error, jobs, job>>
          /\ ret' \in {ret, "none"}
      <3>1. CASE GoalReturnSerial \/ GoalReturnParallel \/ PassEnd \/ Drain
        BY <3>1 DEF GoalReturnSerial, GoalReturnParallel, PassEnd, Drain
      <3>2. CASE WaitSignal \/ NoZombie \/ Poll \/ HandleSignal
        BY <3>2 DEF WaitSignal, NoZombie, Poll, HandleSignal
      <3> QED
        BY <1>2, <3>1, <3>2
    <2>2. Clean => Clean'
      BY <2>1 DEF Clean
    <2> QED
      BY <1>0, <2>1, <2>2, QuietFail DEF FailInv
  <1>3. ASSUME NEW n \in Node, ReapOk(n)
        PROVE  FailInv'
    <2>1. /\ n \in jobs /\ job[n] \in Jobs /\ ~job[n].failed /\ pool \in SUBSET Token
          /\ JobNext(n, job[n], pool)
          /\ UNCHANGED <<opt, visiting, frame, ret, stop_starting, any_error>>
      BY <1>3 DEF ReapOk, TypeOK, FailInv
    <2>2. \A m \in Node \ {n} : state'[m] = state[m] /\ ok'[m] = ok[m]
      BY <2>1, JobStep
    <2>3. /\ \A m \in jobs' : ~job'[m].failed
          /\ ~ForkFails => state'[n] = "RUN" \/ (state'[n] = "DONE" /\ ok'[n])
      BY <2>1, JobVerdict DEF FailInv
    <2>4. ~ForkFails /\ Clean => Clean'
      BY <2>1, <2>2, <2>3 DEF Clean
    <2> QED
      BY <1>0, <2>1, <2>3, <2>4 DEF FailInv, DoneKept
  <1>4. ASSUME NEW n \in Node, ReapBad(n)
        PROVE  FailInv'
    <2>1. /\ n \in jobs /\ job[n] \in Jobs /\ ~job[n].failed /\ pool \in SUBSET Token
          /\ JobDone(n, [job[n] EXCEPT !.failed = TRUE], pool)
          /\ any_error' /\ opt' = opt /\ (stop_starting' => ~opt.k \/ stop_starting)
      BY <1>4 DEF ReapBad, NoteError, TypeOK, FailInv
    <2>2. /\ \A m \in jobs' : ~job'[m].failed
          /\ state'[n] = "DONE" /\ ~ok'[n] /\ n \in Node
      BY <2>1, JobVerdict DEF FailInv
    <2> QED
      BY <2>1, <2>2 DEF FailInv
  <1>5. CASE Environment \/ UNCHANGED vars
    <2>1. UNCHANGED <<opt, state, ok, visiting, frame, ret, stop_starting, any_error, jobs, job>>
      BY <1>5 DEF Environment, ChildWrites, ChildExits, Signal, OtherTakes, OtherReturns
    <2> QED
      BY <2>1 DEF FailInv, Clean
  <1> QED
    BY <1>1, <1>2, <1>3, <1>4, <1>5, UpdateFail DEF Next, Make, BuildGoals, WaitEvent, Terminated

LEMMA FailInvariant == Spec => []FailInv
  <1>1. Init => FailInv
    BY DEF Init, FailInv, Clean
  <1>2. TypeOK /\ OrderInv /\ FailInv /\ [Next]_vars => FailInv'
    BY FailStep
  <1> QED
    BY <1>1, <1>2, TypeCorrect, OrderInvariant, PTL DEF Spec

-----------------------------------------------------------------------------
(***************************************************************************)
(* The goals.  Unless an error ends it, the walk passes a goal only when   *)
(* the goal is done, and make leaves the loop only past the last goal.     *)
(***************************************************************************)
Completes == opt.k \/ (~any_error /\ ~ForkFails)
GoalsDone == \A i \in DOMAIN Goals : state[Goals[i]] = "DONE"

GoalInv ==
  /\ cur = NoNode /\ ret \in {"OK", "FAIL"} =>
       gi \in DOMAIN Goals /\ state[Goals[gi]] = "DONE"
  /\ done => \A i \in DOMAIN Goals : i < gi => state[Goals[i]] = "DONE"
  /\ Completes => (pc \in {"drain", "exit"} => draining) /\ (draining => GoalsDone)

LEMMA GoalType == \A i \in DOMAIN Goals : Goals[i] \in Node
  BY GoalAssumption, ElementOfSeq

\* steps that leave the loop of build_goals where it is
LEMMA QuietGoal ==
  ASSUME GoalInv, DoneKept, UNCHANGED <<opt, gi, done, draining>>,
         any_error => any_error',
         pc' \in {"drain", "exit"} => pc \in {"drain", "exit"} \/ draining,
         cur' = NoNode /\ ret' \in {"OK", "FAIL"} =>
           \/ cur = NoNode /\ ret \in {"OK", "FAIL"}
           \/ gi \in DOMAIN Goals /\ state'[Goals[gi]] = "DONE"
  PROVE  GoalInv'
  <1>1. \A i \in DOMAIN Goals : state[Goals[i]] = "DONE" => state'[Goals[i]] = "DONE"
    BY GoalType DEF DoneKept
  <1>2. Completes' => Completes
    BY DEF Completes
  <1> QED
    BY <1>1, <1>2 DEF GoalInv, GoalsDone

LEMMA UpdateGoal ==
  ASSUME TypeOK, OrderInv, WalkInv, FailInv, GoalInv, Update
  PROVE  GoalInv'
  <1> USE DEF params, nodes, calls, loop, procs, tokens, flags, sigs, files
  <1>0. DoneKept
    BY UpdateKeeps
  <1>1. CASE ScanWait \/ ScanReturn \/ ScanPending
    <2>1. UNCHANGED <<opt, gi, done, draining, any_error, pc>> /\ ret' \in {"none", "PENDING"}
      BY <1>1 DEF ScanWait, ScanReturn, ScanPending, Scanning, Return
    <2> QED
      BY <1>0, <2>1, QuietGoal
  <1>2. CASE ScanCall
    <2>1. cur \in Node /\ frame[cur].at \in DOMAIN All(cur) /\ cur # NoNode
      BY <1>2, NodeAssumption, PrereqType DEF ScanCall, Scanning, AtEnd, TypeOK
    <2>2. All(cur)[frame[cur].at] \in Node
      BY <1>2, <2>1, PrereqType DEF ScanCall, TypeOK
    <2>3. cur' # NoNode
      BY <1>2, <2>1, <2>2, NodeAssumption DEF ScanCall, Call
    <2> QED
      BY <1>0, <1>2, <2>3, QuietGoal DEF ScanCall
  <1>3. ASSUME NEW n \in Node, cur = n, visiting[n], NEW r, Return(r),
               r \in {"OK", "FAIL"} => state'[n] = "DONE",
               UNCHANGED <<opt, gi, done, draining, pc>>, any_error => any_error'
        PROVE  GoalInv'
    <2>1. cur' = NoNode => gi \in DOMAIN Goals /\ Goals[gi] = n
      BY <1>3 DEF Return, WalkInv, CallsInv
    <2> QED
      BY <1>0, <1>3, <2>1, QuietGoal DEF Return
  <1>4. CASE ScanFailed
    <2>1. cur \in Node /\ visiting[cur]
      BY <1>4 DEF ScanFailed, Scanning, TypeOK, OrderInv, StateInv
    <2> QED
      BY <1>3, <1>4, <2>1 DEF ScanFailed, TypeOK
  <1>5. ASSUME NEW n \in Node,
               DcolonUpToDate(n) \/ UpToDate(n) \/ NoCommands(n) \/ NoRule(n) \/ NoSlot(n)
        PROVE  GoalInv'
    <2>1. cur = n /\ visiting[n]
      BY <1>5, NodeAssumption
         DEF DcolonUpToDate, UpToDate, NoCommands, NoRule, NoSlot, Decide, Scanning, OrderInv, StateInv
    <2>2. \E r : Return(r) /\ (r \in {"OK", "FAIL"} => state'[n] = "DONE")
      BY <1>5 DEF DcolonUpToDate, UpToDate, NoCommands, NoRule, NoSlot, TypeOK
    <2>3. UNCHANGED <<opt, gi, done, draining, pc>> /\ (any_error => any_error')
      BY <1>5 DEF DcolonUpToDate, UpToDate, NoCommands, NoRule, NoSlot, NoteError
    <2> QED
      BY <1>3, <2>1, <2>2, <2>3
  <1>6. ASSUME NEW n \in Node, NEW t \in pool \cup {NoToken}, StartJob(n, t)
        PROVE  GoalInv'
    <2>1. cur = n /\ visiting[n] /\ UNCHANGED <<opt, gi, done, draining, pc, any_error>>
      BY <1>6, NodeAssumption DEF StartJob, Decide, Scanning, OrderInv, StateInv
    <2>2. \E r : Return(r) /\ (r \in {"OK", "FAIL"} => state'[n] = "DONE")
      BY <1>6 DEF StartJob
    <2> QED
      BY <1>3, <2>1, <2>2
  <1> QED
    BY <1>1, <1>2, <1>4, <1>5, <1>6 DEF Update

LEMMA LoopGoal ==
  ASSUME TypeOK, OrderInv, WalkInv, BusyInv, FailInv, GoalInv, BuildGoals
  PROVE  GoalInv'
  <1> USE DEF params, nodes, calls, loop, procs, tokens, flags, sigs, files
  <1>0. Len(Goals) \in Nat /\ DOMAIN Goals = 1 .. Len(Goals) /\ gi \in Nat \ {0}
    BY GoalAssumption DEF TypeOK
  <1>1. CASE GoalCall
    <2>1. gi \in DOMAIN Goals /\ cur = NoNode
      BY <1>0, <1>1 DEF GoalCall, InGoals
    <2>2. PICK n \in Node : n = Goals[gi]
      BY <2>1, GoalType
    <2>3. Call(n, NoNode) /\ ~visiting[n] /\ ret = "none"
          /\ UNCHANGED <<opt, ok, gi, done, draining, pc, any_error>>
      BY <1>1, <2>1, <2>2 DEF GoalCall, InGoals, WalkInv, CallsInv
    <2>4. /\ DoneKept
          /\ cur' = NoNode /\ ret' \in {"OK", "FAIL"} => state'[n] = "DONE"
      <3>1. CASE state[n] \in {"RUN", "DONE"}
        BY <2>3, <3>1 DEF Call, DoneKept
      <3>2. CASE /\ state[n] \in {"NEW", "SCAN"} /\ state' = [state EXCEPT ![n] = "SCAN"]
                 /\ UNCHANGED ret
        BY <2>3, <3>2 DEF DoneKept, TypeOK
      <3> QED
        BY <2>3, <3>1, <3>2 DEF Call
    <2> QED
      BY <2>1, <2>2, <2>3, <2>4, QuietGoal
  <1>2. CASE GoalReturnSerial \/ GoalReturnParallel \/ PassEnd
    <2>1. cur = NoNode /\ ret' = "none" /\ UNCHANGED <<opt, state, any_error>> /\ pc = "goals"
      BY <1>2 DEF GoalReturnSerial, GoalReturnParallel, PassEnd, InGoals
    <2>2. CASE GoalReturnSerial
      <3>1. CASE ret = "PENDING"
        BY <2>1, <2>2, <3>1 DEF GoalReturnSerial, GoalInv, Completes, GoalsDone
      <3>2. CASE ret = "FAIL" /\ ~opt.k
        <4>1. ~Completes
          BY <3>2 DEF Completes, FailInv, Clean
        <4>2. ~Completes' /\ UNCHANGED <<gi, done>>
          BY <2>1, <2>2, <3>2, <4>1 DEF GoalReturnSerial, Completes
        <4> QED
          BY <2>1, <4>2 DEF GoalInv
      <3>3. CASE ret # "PENDING" /\ ~(ret = "FAIL" /\ ~opt.k)
        <4>1. gi' = gi + 1 /\ UNCHANGED <<pc, draining, done>> /\ ret \in {"OK", "FAIL"}
          BY <2>2, <3>3 DEF GoalReturnSerial, TypeOK
        <4>2. \A i \in DOMAIN Goals : i < gi + 1 => i < gi \/ i = gi
          BY <1>0
        <4> QED
          BY <2>1, <4>1, <4>2 DEF GoalInv, Completes, GoalsDone
      <3> QED
        BY <3>1, <3>2, <3>3
    <2>3. CASE GoalReturnParallel
      <3>1. gi' = gi + 1 /\ UNCHANGED <<pc, draining>>
            /\ (done' => done /\ ret \in {"OK", "FAIL"})
        BY <2>3 DEF GoalReturnParallel, TypeOK
      <3>2. \A i \in DOMAIN Goals : i < gi + 1 => i < gi \/ i = gi
        BY <1>0
      <3> QED
        BY <2>1, <3>1, <3>2 DEF GoalInv, Completes, GoalsDone
    <2>4. CASE PassEnd
      <3>1. \A i \in DOMAIN Goals : i < gi /\ ~(i < 1)
        BY <1>0, <2>4 DEF PassEnd
      <3>2. done => GoalsDone
        BY <3>1 DEF GoalInv, GoalsDone
      <3>3. \/ done /\ pc' = "drain" /\ draining' = TRUE
            \/ pc' = "wait" /\ gi' = 1 /\ draining' = draining
        BY <2>4 DEF PassEnd
      <3> QED
        BY <2>1, <3>1, <3>2, <3>3 DEF GoalInv, Completes, GoalsDone
    <2> QED
      BY <1>2, <2>2, <2>3, <2>4
  <1>3. CASE Drain
    <2>1. DoneKept
      BY <1>3 DEF Drain, DoneKept
    <2> QED
      BY <1>3, <2>1, QuietGoal DEF Drain
  <1> QED
    BY <1>1, <1>2, <1>3 DEF BuildGoals

\* wait_event returns to the end of the loop only when all is done, or after an error
LEMMA WaitGoal ==
  ASSUME BusyInv, FailInv', GoalInv, DoneKept, WaitReturns, LoopExit,
         pc \in {"reap", "poll"}, UNCHANGED <<opt, gi, done, cur, ret>>, any_error => any_error'
  PROVE  GoalInv'
  <1>1. \A i \in DOMAIN Goals : state[Goals[i]] = "DONE" => state'[Goals[i]] = "DONE"
    BY GoalType DEF DoneKept
  <1>2. Completes' => Completes /\ ~stop_starting'
    BY DEF Completes, FailInv
  <1>3. Completes' => pc' = (IF draining THEN "drain" ELSE "goals")
    BY <1>2 DEF WaitReturns
  <1>4. Completes' => (draining' <=> draining)
    BY <1>3 DEF LoopExit
  <1>5. ret' = "none"
    BY DEF BusyInv, IdleInv
  <1> QED
    BY <1>1, <1>2, <1>3, <1>4, <1>5 DEF GoalInv, GoalsDone

LEMMA GoalStep ==
  ASSUME TypeOK, OrderInv, WalkInv, BusyInv, FailInv, FailInv', GoalInv, [Next]_vars
  PROVE  GoalInv'
  <1> USE DEF vars, params, nodes, calls, loop, procs, tokens, flags, sigs, files
  <1>0. DoneKept
    BY DoneStays
  <1>1. CASE WaitSignal \/ NoZombie \/ HandleSignal
    BY <1>0, <1>1, QuietGoal DEF WaitSignal, NoZombie, HandleSignal
  <1>2. CASE Poll
    <2>1. CASE WaitReturns /\ LoopExit
      BY <1>0, <1>2, <2>1, WaitGoal DEF Poll
    <2>2. CASE pc' = "wait" /\ UNCHANGED <<stop_starting, jobs, draining>>
      BY <1>0, <1>2, <2>2, QuietGoal DEF Poll
    <2> QED
      BY <1>2, <2>1, <2>2 DEF Poll
  <1>3. ASSUME NEW n \in Node, ReapOk(n) \/ ReapBad(n)
        PROVE  GoalInv'
    BY <1>0, <1>3, WaitGoal DEF ReapOk, ReapBad, NoteError
  <1>4. CASE Environment \/ UNCHANGED vars
    <2>1. UNCHANGED <<opt, gi, done, draining, any_error, cur, ret>> /\ pc' \in {pc, "dead"}
      BY <1>4 DEF Environment, ChildWrites, ChildExits, Signal, OtherTakes, OtherReturns
    <2> QED
      BY <1>0, <2>1, QuietGoal
  <1> QED
    BY <1>1, <1>2, <1>3, <1>4, UpdateGoal, LoopGoal DEF Next, Make, WaitEvent, Terminated

LEMMA GoalInvariant == Spec => []GoalInv
  <1>1. Init => GoalInv
    BY GoalAssumption DEF Init, GoalInv
  <1>2. TypeOK /\ OrderInv /\ WalkInv /\ BusyInv /\ FailInv /\ FailInv' /\ GoalInv /\ [Next]_vars
          => GoalInv'
    BY GoalStep
  <1> QED
    BY <1>1, <1>2, TypeCorrect, OrderInvariant, WalkInvariant, BusyInvariant, FailInvariant, PTL
       DEF Spec

-----------------------------------------------------------------------------
(* What holds when make exits.                                             *)

ExitInv ==
  pc = "exit" =>
    /\ jobs = {}
    /\ status = 2 <=> any_error
    /\ status = 0 /\ opt.mode = "q" => ~question_outdated

LEMMA ExitStep ==
  ASSUME TypeOK, ExitInv, [Next]_vars
  PROVE  ExitInv'
  <1> USE DEF vars, params, nodes, calls, loop, procs, tokens, flags, sigs, files
  <1>1. CASE pc' # "exit"
    BY <1>1 DEF ExitInv
  <1>2. CASE Drain
    BY <1>2 DEF Drain, ExitInv
  <1>3. CASE Update
    <2>1. pc = "goals"
      BY <1>3 DEF Update, ScanWait, ScanCall, ScanReturn, ScanPending, ScanFailed, DcolonUpToDate,
                  UpToDate, NoCommands, NoRule, NoSlot, StartJob, Decide, Scanning
    <2>2. pc' = pc
      <3>1. CASE ScanWait \/ ScanCall \/ ScanReturn \/ ScanPending \/ ScanFailed
        BY <3>1 DEF ScanWait, ScanCall, ScanReturn, ScanPending, ScanFailed
      <3>2. ASSUME NEW n \in Node,
                   DcolonUpToDate(n) \/ UpToDate(n) \/ NoCommands(n) \/ NoRule(n) \/ NoSlot(n)
            PROVE  pc' = pc
        BY <3>2 DEF DcolonUpToDate, UpToDate, NoCommands, NoRule, NoSlot
      <3>3. ASSUME NEW n \in Node, NEW t \in pool \cup {NoToken}, StartJob(n, t)
            PROVE  pc' = pc
        BY <3>3 DEF StartJob
      <3> QED
        BY <1>3, <3>1, <3>2, <3>3 DEF Update
    <2> QED
      BY <1>1, <2>1, <2>2
  <1>4. CASE GoalCall \/ GoalReturnSerial \/ GoalReturnParallel \/ PassEnd
    <2>1. pc' # "exit"
      BY <1>4 DEF GoalCall, GoalReturnSerial, GoalReturnParallel, PassEnd, InGoals
    <2> QED
      BY <1>1, <2>1
  <1>5. CASE WaitEvent
    <2>1. pc' # "exit"
      BY <1>5 DEF WaitEvent, WaitSignal, NoZombie, Poll, HandleSignal, ReapOk, ReapBad, WaitReturns
    <2> QED
      BY <1>1, <2>1
  <1>6. CASE Environment \/ UNCHANGED vars
    BY <1>6 DEF Environment, ChildWrites, ChildExits, Signal, OtherTakes, OtherReturns, ExitInv
  <1> QED
    BY <1>2, <1>3, <1>4, <1>5, <1>6 DEF Next, Make, BuildGoals, Terminated

LEMMA ExitInvariant == Spec => []ExitInv
  <1>1. Init => ExitInv
    BY DEF Init, ExitInv
  <1>2. TypeOK /\ ExitInv /\ [Next]_vars => ExitInv'
    BY ExitStep
  <1> QED
    BY <1>1, <1>2, TypeCorrect, PTL DEF Spec

\* with -k nothing that was visited is left undecided: its callers would lead to a goal
LEMMA AllReached ==
  ASSUME TypeOK, WalkInv, GoalInv, ExitInv
  PROVE  KeepGoing
  <1> SUFFICES ASSUME pc = "exit", opt.k
               PROVE  /\ \A g \in DOMAIN Goals : state[Goals[g]] = "DONE"
                      /\ \A n \in Node : state[n] = "DONE" => \A p \in Prereqs(n) : state[p] = "DONE"
    BY DEF KeepGoing
  <1>1. GoalsDone /\ jobs = {}
    BY DEF GoalInv, Completes, ExitInv
  <1>2. \A n \in Node : state[n] # "SCAN"
    <2> DEFINE S == {n \in Node : state[n] = "SCAN"}
    <2>1. SUFFICES ASSUME S # {} PROVE FALSE
      OBVIOUS
    <2>2. PICK n \in S : frame[n].caller \notin S
      BY <2>1 DEF WalkInv, CallsInv, Rooted
    <2>3. CASE frame[n].caller = NoNode
      <3>1. PICK i \in DOMAIN Goals : Goals[i] = n
        BY <2>2, <2>3 DEF WalkInv, CallsInv
      <3> QED
        BY <1>1, <2>2, <3>1 DEF GoalsDone
    <2>4. CASE frame[n].caller \in Node
      BY <2>2, <2>4 DEF WalkInv, CallerInv
    <2> QED
      BY <2>2, <2>3, <2>4 DEF TypeOK
  <1>3. ASSUME NEW n \in Node, state[n] = "DONE", NEW p \in Prereqs(n)
        PROVE  state[p] = "DONE"
    <2>1. p \in Node
      BY <1>3, PrereqType DEF TypeOK
    <2>2. state[p] # "NEW"
      BY <1>3, <2>1 DEF WalkInv, KeptInv, CallsInv
    <2>3. state[p] # "RUN"
      BY <1>1, <2>1 DEF WalkInv, RunInv
    <2> QED
      BY <1>2, <2>1, <2>2, <2>3 DEF TypeOK
  <1> QED
    BY <1>1, <1>3 DEF GoalsDone

\* For every makefile, every -j and every failure: nothing to the right of a .WAIT is
\* visited before what stands to its left is over, make never waits without a job that
\* will wake it, and with -k it exits only when everything has been tried.
THEOREM OrderlyTheorem == Spec => []Orderly
  <1>1. TypeOK /\ WalkInv /\ BusyInv /\ GoalInv /\ ExitInv => Orderly
    BY AllReached DEF Orderly, WalkInv, BusyInv
  <1> QED
    BY <1>1, TypeCorrect, WalkInvariant, BusyInvariant, GoalInvariant, ExitInvariant, PTL

\* an error reaches a goal, through the callers of the node that failed
LEMMA StatusTrue ==
  ASSUME TypeOK, WalkInv, FailInv, GoalInv, ExitInv, ~ForkFails
  PROVE  ExitStatus
  <1> SUFFICES ASSUME pc = "exit"
               PROVE  any_error <=> \E g \in DOMAIN Goals : ~Good(Goals[g])
    BY DEF ExitStatus, ExitInv, Good
  <1>1. ASSUME any_error
        PROVE  \E g \in DOMAIN Goals : ~Good(Goals[g])
    <2> DEFINE S == {n \in Node : state[n] # "NEW" /\ ~Good(n)}
    <2>1. S # {}
      BY <1>1 DEF FailInv, Good
    <2>2. PICK n \in S : frame[n].caller \notin S
      BY <2>1 DEF WalkInv, CallsInv, Rooted
    <2>3. CASE frame[n].caller = NoNode
      BY <2>2, <2>3 DEF WalkInv, CallsInv
    <2>4. CASE frame[n].caller \in Node
      BY <2>2, <2>4 DEF WalkInv, CallerInv, Good
    <2> QED
      BY <2>2, <2>3, <2>4 DEF TypeOK
  <1>2. ASSUME ~any_error
        PROVE  \A g \in DOMAIN Goals : Good(Goals[g])
    <2>1. GoalsDone /\ Clean
      BY <1>2 DEF GoalInv, Completes, FailInv
    <2> QED
      BY <2>1, GoalType DEF GoalsDone, Clean, Good
  <1> QED
    BY <1>1, <1>2

-----------------------------------------------------------------------------
(***************************************************************************)
(* Times.  While a node is scanned, and from when it is made, make knows   *)
(* the time its file has; so what was up to date when it was decided is    *)
(* up to date at the end.                                                  *)
(***************************************************************************)
TimeInv ==
  pc # "dead" =>
    \A n \in Node : /\ state[n] = "NEW" => known[n] = Unknown
                    /\ state[n] = "SCAN" \/ Good(n) => known[n] = mtime[n]

Younger(n) ==
  mtime[n] > 0 /\ \A p \in Prereqs(n) : Good(p) /\ 0 < mtime[p] /\ mtime[p] < mtime[n]

Plain(n) == Len(mk[n].rules) = 1 /\ ~mk[n].dcolon
MadeNow(n) == made[n] /\ (opt.mode = "q" => question_outdated)

DateInv ==
  pc # "dead" /\ dropped = {} =>
    \A n \in Node : Good(n) /\ Plain(n) => MadeNow(n) \/ Younger(n)

LEMMA UnchangedDate ==
  ASSUME TimeInv, DateInv,
         UNCHANGED <<mk, opt, state, ok, known, made, mtime, question_outdated>>,
         dropped \subseteq dropped', pc' # "dead" => pc # "dead"
  PROVE  TimeInv' /\ DateInv'
  <1>1. \A n : /\ Good(n)' = Good(n) /\ Plain(n)' = Plain(n) /\ MadeNow(n)' = MadeNow(n)
               /\ Younger(n)' = Younger(n)
    BY DEF Good, Plain, MadeNow, Younger, Prereqs, All
  <1>2. dropped' = {} => dropped = {}
    OBVIOUS
  <1>3. TimeInv'
    BY <1>1 DEF TimeInv
  <1> QED
    BY <1>1, <1>2, <1>3 DEF DateInv

\* a step that changes one node, which is not done yet
LEMMA NodeDate ==
  ASSUME TypeOK, TimeInv, DateInv, NEW n \in Node, state[n] # "DONE",
         UNCHANGED <<mk, opt>>, question_outdated => question_outdated',
         dropped \subseteq dropped', pc # "dead",
         \A m \in Node : m # n => /\ state'[m] = state[m] /\ ok'[m] = ok[m]
                                  /\ known'[m] = known[m] /\ made'[m] = made[m]
                                  /\ mtime'[m] = mtime[m],
         state'[n] # "NEW",
         state'[n] = "SCAN" \/ Good(n)' => known'[n] = mtime'[n],
         Good(n)' /\ Plain(n) /\ dropped' = {} => MadeNow(n)' \/ Younger(n)'
  PROVE  TimeInv' /\ DateInv'
  <1>1. \A m \in Node : m # n => Good(m)' = Good(m) /\ (MadeNow(m) => MadeNow(m)')
    BY DEF Good, MadeNow
  <1>2. \A m : Plain(m)' = Plain(m) /\ Prereqs(m)' = Prereqs(m)
    BY DEF Plain, Prereqs, All
  <1>3. \A m \in Node : m # n /\ Younger(m) => Younger(m)'
    <2>1. ASSUME NEW m \in Node, m # n, Younger(m)
          PROVE  Younger(m)'
      <3>1. \A p \in Prereqs(m) : p \in Node /\ p # n
        BY <2>1, PrereqType DEF Younger, Good, TypeOK
      <3> QED
        BY <1>1, <1>2, <2>1, <3>1 DEF Younger
    <2> QED
      BY <2>1
  <1>4. TimeInv'
    BY <1>1 DEF TimeInv
  <1>5. DateInv'
    BY <1>1, <1>2, <1>3 DEF DateInv
  <1> QED
    BY <1>4, <1>5

\* what a step of a job does to the times
LEMMA JobTimes ==
  ASSUME TypeOK, NEW n \in Node, NEW j \in Jobs, NEW pl \in SUBSET Token,
         JobNext(n, j, pl) \/ JobDone(n, j, pl)
  PROVE  /\ \A m \in Node : m # n => /\ state'[m] = state[m] /\ ok'[m] = ok[m]
                                     /\ known'[m] = known[m] /\ made'[m] = made[m]
                                     /\ mtime'[m] = mtime[m]
         /\ state'[n] \in {"RUN", "DONE"}
         /\ Good(n)' => known'[n] = mtime'[n] /\ made'[n] /\ (opt.mode = "q" => question_outdated')
         /\ question_outdated => question_outdated'
  <1> DEFINE Others == \A m \in Node : m # n => /\ state'[m] = state[m] /\ ok'[m] = ok[m]
                                                /\ known'[m] = known[m] /\ made'[m] = made[m]
                                                /\ mtime'[m] = mtime[m]
             Mine == /\ state'[n] \in {"RUN", "DONE"}
                     /\ Good(n)' => /\ known'[n] = mtime'[n] /\ made'[n]
                                    /\ opt.mode = "q" => question_outdated'
                     /\ question_outdated => question_outdated'
  <1>1. ASSUME NEW k \in Jobs, JobDone(n, k, pl)
        PROVE  Others /\ Mine
    <2>0. question_outdated' = (question_outdated \/ opt.mode = "q")
      BY <1>1 DEF JobDone
    <2>1. PICK good, t :
            /\ FinishNode(n, good, k.executed, t)
            /\ mtime' = [mtime EXCEPT ![n] = t] \/ (mtime' = mtime /\ t = mtime[n])
      <3>1. CASE ~k.failed /\ opt.mode = "t" /\ ~mk[n].phony
        <4>1. PICK t : mtime' = [mtime EXCEPT ![n] = t] /\ FinishNode(n, TRUE, k.executed, t)
          BY <1>1, <3>1 DEF JobDone
        <4> QED
          BY <4>1
      <3>2. CASE ~(~k.failed /\ opt.mode = "t" /\ ~mk[n].phony)
        <4>1. mtime' = mtime /\ FinishNode(n, ~k.failed, k.executed, mtime[n])
          BY <1>1, <3>2 DEF JobDone, files
        <4> QED
          BY <4>1
      <3> QED
        BY <3>1, <3>2
    <2>2. mtime'[n] = t /\ \A m \in Node : m # n => mtime'[m] = mtime[m]
      BY <2>1 DEF TypeOK
    <2>3. /\ \A m \in Node : m # n => /\ state'[m] = state[m] /\ ok'[m] = ok[m]
                                      /\ known'[m] = known[m] /\ made'[m] = made[m]
          /\ state'[n] = "DONE" /\ ok'[n] = good
          /\ good => known'[n] = t /\ made'[n]
      BY <2>1 DEF FinishNode, TypeOK
    <2> QED
      BY <2>0, <2>2, <2>3 DEF Good
  <1>2. [j EXCEPT !.failed = TRUE] \in Jobs
    BY DEF Jobs
  <1>3. CASE JobDone(n, j, pl) \/ JobDone(n, [j EXCEPT !.failed = TRUE], pl)
    BY <1>1, <1>2, <1>3
  <1>4. CASE /\ state' = [state EXCEPT ![n] = "RUN"]
             /\ UNCHANGED <<ok, made, known, newer, question_outdated, files>>
    BY <1>4 DEF TypeOK, Good, files
  <1> QED
    BY <1>3, <1>4 DEF JobNext

LEMMA CallDate ==
  ASSUME TypeOK, TimeInv, DateInv, NEW n \in Node, NEW m, Call(n, m),
         UNCHANGED <<mk, opt, ok, made, mtime, question_outdated, pc>>, pc # "dead"
  PROVE  TimeInv' /\ DateInv'
  <1>1. dropped \subseteq dropped'
    BY DEF Call
  <1>2. CASE UNCHANGED <<state, known>>
    BY <1>1, <1>2, UnchangedDate
  <1>3. CASE /\ state[n] \in {"NEW", "SCAN"}
             /\ known' = [known EXCEPT ![n] = IF known[n] = Unknown THEN mtime[n] ELSE known[n]]
             /\ state' = [state EXCEPT ![n] = "SCAN"]
    <2>1. /\ \A k \in Node : k # n => state'[k] = state[k] /\ known'[k] = known[k]
          /\ state'[n] = "SCAN" /\ known'[n] = mtime[n]
      BY <1>3 DEF TypeOK, TimeInv
    <2> QED
      BY <1>1, <1>3, <2>1, NodeDate DEF Good
  <1> QED
    BY <1>2, <1>3 DEF Call

\* the decisions that start no job
LEMMA DecideDate ==
  ASSUME TypeOK, OrderInv, TimeInv, DateInv, NEW n \in Node,
         DcolonUpToDate(n) \/ UpToDate(n) \/ NoCommands(n) \/ NoRule(n) \/ NoSlot(n)
  PROVE  TimeInv' /\ DateInv'
  <1> USE DEF params, nodes, calls, loop, procs, tokens, flags, sigs, files
  <1>1. /\ Decide(n) /\ pc = "goals" /\ state[n] = "SCAN" /\ known[n] = mtime[n]
    <2>1. Decide(n)
      BY DEF DcolonUpToDate, UpToDate, NoCommands, NoRule, NoSlot
    <2>2. pc = "goals" /\ state[n] = "SCAN"
      BY <2>1, NodeAssumption DEF Decide, Scanning, OrderInv, StateInv
    <2> QED
      BY <2>1, <2>2 DEF TimeInv
  <1>2. UNCHANGED <<mk, opt, mtime, question_outdated, dropped, pc>>
    BY DEF DcolonUpToDate, UpToDate, NoCommands, NoRule, NoSlot, NoteError
  <1>3. \A m \in Node : m # n => /\ state'[m] = state[m] /\ ok'[m] = ok[m]
                                 /\ known'[m] = known[m] /\ made'[m] = made[m]
    BY DEF DcolonUpToDate, UpToDate, NoCommands, NoRule, NoSlot, TypeOK
  <1>4. state'[n] \in {"SCAN", "DONE"} /\ (state'[n] = "SCAN" \/ Good(n)' => known'[n] = mtime'[n])
    BY <1>1 DEF DcolonUpToDate, UpToDate, NoCommands, NoRule, NoSlot, TypeOK, Good
  <1>5. ASSUME Good(n)', Plain(n), dropped = {}
        PROVE  Younger(n)'
    <2>1. UpToDate(n)
      <3>1. ~NoRule(n) /\ ~NoSlot(n)
        BY <1>1, <1>5 DEF NoRule, NoSlot, Good, TypeOK
      <3>2. ~DcolonUpToDate(n)
        BY <1>5 DEF DcolonUpToDate, Plain
      <3>3. mk[n].rules \in Seq([pre : SUBSET Node, cmds : Seq(Lines)])
        BY MakefileType DEF TypeOK
      <3>4. ~NoCommands(n)
        BY <1>5, <3>3 DEF NoCommands, Plain, Segs
      <3> QED
        BY <3>1, <3>2, <3>4
    <2>2. ASSUME NEW p \in Prereqs(n)
          PROVE  Good(p) /\ p # n /\ p \in Node /\ 0 < mtime[p] /\ mtime[p] < mtime[n]
      <3>1. Good(p) /\ p \in Node
        BY <1>1, <1>5, <2>2, EndOfScan, PrereqType DEF Settled, Good, TypeOK
      <3>2. known[p] = mtime[p] /\ mtime[p] \in Nat /\ mtime[n] \in Nat
        BY <1>1, <3>1 DEF TimeInv, TypeOK
      <3>3. ~IsNewer(p, n)
        BY <2>1, <2>2 DEF UpToDate, Outdated
      <3> QED
        BY <1>1, <3>1, <3>2, <3>3 DEF IsNewer, Good
    <2>3. mtime[n] > 0
      BY <1>1, <2>1 DEF UpToDate, Outdated, TypeOK
    <2>4. \A p \in Prereqs(n) : Good(p)'
      BY <1>3, <2>2 DEF Good
    <2> QED
      BY <1>2, <2>2, <2>3, <2>4 DEF Younger, Prereqs, All
  <1> QED
    BY <1>1, <1>2, <1>3, <1>4, <1>5, NodeDate

LEMMA DateStep ==
  ASSUME TypeOK, OrderInv, ChildInv, TimeInv, DateInv, [Next]_vars
  PROVE  TimeInv' /\ DateInv'
  <1> USE DEF vars, params, nodes, calls, loop, procs, tokens, flags, sigs, files
  <1>1. CASE \/ ScanWait \/ ScanReturn \/ ScanPending
             \/ GoalReturnSerial \/ GoalReturnParallel \/ PassEnd \/ Drain
    <2>1. UNCHANGED <<mk, opt, state, ok, known, made, mtime, question_outdated, dropped>>
          /\ pc # "dead"
      BY <1>1 DEF ScanWait, ScanReturn, ScanPending, Scanning, InGoals,
                  GoalReturnSerial, GoalReturnParallel, PassEnd, Drain
    <2> QED
      BY <2>1, UnchangedDate
  <1>2. CASE ScanCall
    <2>1. cur \in Node /\ frame[cur].at \in DOMAIN All(cur)
      BY <1>2, PrereqType DEF ScanCall, Scanning, AtEnd, TypeOK
    <2>2. All(cur)[frame[cur].at] \in Node
      BY <1>2, <2>1, PrereqType DEF ScanCall, TypeOK
    <2> QED
      BY <1>2, <2>2, CallDate DEF ScanCall, Scanning
  <1>3. CASE GoalCall
    <2>1. gi \in DOMAIN Goals
      BY <1>3, GoalAssumption DEF GoalCall, TypeOK
    <2>2. Goals[gi] \in Node
      BY <2>1, GoalType
    <2> QED
      BY <1>3, <2>2, CallDate DEF GoalCall, InGoals
  <1>4. CASE ScanFailed
    <2>1. PICK n \in Node : cur = n /\ state[n] = "SCAN" /\ pc = "goals"
      BY <1>4 DEF ScanFailed, Scanning, TypeOK, OrderInv, StateInv
    <2>2. /\ \A m \in Node : m # n => state'[m] = state[m] /\ ok'[m] = ok[m]
          /\ state'[n] = "DONE" /\ ~Good(n)'
      BY <1>4, <2>1 DEF ScanFailed, TypeOK, Good
    <2> QED
      BY <1>4, <2>1, <2>2, NodeDate DEF ScanFailed
  <1>5. ASSUME NEW n \in Node, NEW t \in pool \cup {NoToken}, StartJob(n, t)
        PROVE  TimeInv' /\ DateInv'
    <2> DEFINE j == NewJob(ToRun(n, Segs(n)), t, mtime[n])
    <2>1. j \in Jobs /\ pool \ {t} \in SUBSET Token
      BY ToRunType DEF TypeOK, Jobs, NewJob
    <2>2. /\ JobNext(n, j, pool \ {t}) /\ state[n] = "SCAN" /\ pc = "goals"
          /\ UNCHANGED <<mk, opt, dropped>>
      BY <1>5, NodeAssumption DEF StartJob, Decide, Scanning, OrderInv, StateInv
    <2> HIDE DEF j
    <2>3. /\ \A m \in Node : m # n => /\ state'[m] = state[m] /\ ok'[m] = ok[m]
                                      /\ known'[m] = known[m] /\ made'[m] = made[m]
                                      /\ mtime'[m] = mtime[m]
          /\ state'[n] \in {"RUN", "DONE"}
          /\ Good(n)' => known'[n] = mtime'[n] /\ made'[n] /\ (opt.mode = "q" => question_outdated')
          /\ question_outdated => question_outdated'
      BY <2>1, <2>2, JobTimes
    <2> QED
      BY <2>2, <2>3, NodeDate DEF MadeNow
  <1>6. ASSUME NEW n \in Node, ReapOk(n) \/ ReapBad(n)
        PROVE  TimeInv' /\ DateInv'
    <2>1. job[n] \in Jobs /\ pool \in SUBSET Token
      BY DEF TypeOK
    <2>2. [job[n] EXCEPT !.failed = TRUE] \in Jobs
      BY <2>1 DEF Jobs
    <2>3. state[n] = "RUN" /\ pc = "reap" /\ UNCHANGED <<mk, opt, dropped>>
      BY <1>6 DEF ReapOk, ReapBad, OrderInv, StateInv
    <2>4. /\ \A m \in Node : m # n => /\ state'[m] = state[m] /\ ok'[m] = ok[m]
                                      /\ known'[m] = known[m] /\ made'[m] = made[m]
                                      /\ mtime'[m] = mtime[m]
          /\ state'[n] \in {"RUN", "DONE"}
          /\ Good(n)' => known'[n] = mtime'[n] /\ made'[n] /\ (opt.mode = "q" => question_outdated')
          /\ question_outdated => question_outdated'
      <3>1. CASE ReapOk(n)
        BY <2>1, <3>1, JobTimes DEF ReapOk
      <3>2. CASE ReapBad(n)
        BY <2>1, <2>2, <3>2, JobTimes DEF ReapBad
      <3> QED
        BY <1>6, <3>1, <3>2
    <2> QED
      BY <2>3, <2>4, NodeDate DEF MadeNow
  <1>7. CASE WaitSignal \/ NoZombie \/ Poll \/ HandleSignal
    <2>1. CASE WaitSignal \/ NoZombie \/ Poll
      <3>1. UNCHANGED <<mk, opt, state, ok, known, made, mtime, question_outdated, dropped>>
            /\ pc # "dead"
        BY <2>1 DEF WaitSignal, NoZombie, Poll
      <3> QED
        BY <3>1, UnchangedDate
    <2>2. CASE HandleSignal
      BY <2>2 DEF HandleSignal, TimeInv, DateInv
    <2> QED
      BY <1>7, <2>1, <2>2
  <1>8. ASSUME NEW n \in Node, ChildWrites(n)
        PROVE  TimeInv' /\ DateInv'
    <2>1. n \in jobs /\ state[n] = "RUN"
      BY <1>8 DEF ChildWrites, ChildInv, OrderInv, StateInv
    <2>2. \A m \in Node : m # n => mtime'[m] = mtime[m]
      BY <1>8 DEF ChildWrites, TypeOK
    <2>3. UNCHANGED <<mk, opt, state, ok, known, made, question_outdated, dropped, pc>>
      BY <1>8 DEF ChildWrites
    <2>4. CASE pc = "dead"
      BY <2>3, <2>4 DEF TimeInv, DateInv
    <2>5. CASE pc # "dead"
      BY <2>1, <2>2, <2>3, <2>5, NodeDate DEF Good
    <2> QED
      BY <2>4, <2>5
  <1>9. CASE \/ Signal \/ (\E n \in Node : ChildExits(n))
             \/ (\E t \in Token : OtherTakes(t) \/ OtherReturns(t)) \/ UNCHANGED vars
    <2>1. UNCHANGED <<mk, opt, state, ok, known, made, mtime, question_outdated, dropped>>
          /\ pc' \in {pc, "dead"}
      BY <1>9 DEF Signal, ChildExits, OtherTakes, OtherReturns
    <2> QED
      BY <2>1, UnchangedDate
  <1> QED
    BY <1>1, <1>2, <1>3, <1>4, <1>5, <1>6, <1>7, <1>8, <1>9, DecideDate
       DEF Next, Make, Update, BuildGoals, WaitEvent, Environment, Terminated

LEMMA DateInvariant == Spec => [](TimeInv /\ DateInv)
  <1>1. Init => TimeInv /\ DateInv
    BY DEF Init, TimeInv, DateInv, Good
  <1>2. TypeOK /\ OrderInv /\ ChildInv /\ TimeInv /\ DateInv /\ [Next]_vars => TimeInv' /\ DateInv'
    BY DateStep
  <1> QED
    BY <1>1, <1>2, TypeCorrect, OrderInvariant, SignalInvariant, PTL DEF Spec

\* When make says that all is well, no fork having failed, it is: the goals are made, and
\* every target with commands was made now or is younger than all it depends on.
THEOREM VerdictTrueTheorem == ASSUME ~ForkFails PROVE Spec => []VerdictTrue
  <1>1. TypeOK /\ WalkInv /\ FailInv /\ GoalInv /\ ExitInv /\ DateInv => VerdictTrue
    <2> SUFFICES ASSUME TypeOK, WalkInv, FailInv, GoalInv, ExitInv, DateInv
                 PROVE  VerdictTrue
      OBVIOUS
    <2>1. ExitStatus
      BY StatusTrue
    <2>2. UpToDateAtExit
      <3> SUFFICES ASSUME pc = "exit", status = 0, dropped = {}, NEW n \in Node,
                          state[n] = "DONE", Plain(n)
                   PROVE  \/ made[n] /\ opt.mode # "q"
                          \/ mtime[n] > 0 /\ \A p \in Prereqs(n) : 0 < mtime[p] /\ mtime[p] < mtime[n]
        BY DEF UpToDateAtExit, Plain
      <3>1. ~any_error /\ (opt.mode = "q" => ~question_outdated)
        BY DEF ExitInv
      <3>2. Good(n)
        BY <3>1 DEF FailInv, Clean, Good
      <3>3. MadeNow(n) \/ Younger(n)
        BY <3>2 DEF DateInv
      <3> QED
        BY <3>1, <3>3 DEF MadeNow, Younger
    <2> QED
      BY <2>1, <2>2 DEF VerdictTrue
  <1> QED
    BY <1>1, TypeCorrect, WalkInvariant, FailInvariant, GoalInvariant, ExitInvariant,
       DateInvariant, PTL
=============================================================================
