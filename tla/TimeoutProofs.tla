---------------------------- MODULE TimeoutProofs ----------------------------
(***************************************************************************)
(* Proofs about timeout, for any options but -s CHLD, any set of signals   *)
(* that are passed on, whoever sends them when, and a utility that         *)
(* survives any of them, is stopped, or ends at any time.                  *)
(***************************************************************************)
EXTENDS Timeout, SequenceTheorems, TLAPS

-----------------------------------------------------------------------------
(* The inductive invariant.                                                *)

\* Why a signal is sent to the utility.
Reason(s) ==
  \/ s = "CONT"
  \/ s \in asked
  \/ s = opt.sig /\ timed_out
  \/ s = "KILL" /\ kill_sent

\* Everything that is sent or about to be sent has a reason; nothing is pending but what
\* others sent, and for a moment what timeout sends to its own group.
SignalInv ==
  /\ \A i \in 1 .. Len(todo) : Reason(todo[i])
  /\ \A s \in received : Reason(s)
  /\ cpending \subseteq received
  /\ \A s \in pending \ (asked \cup {"CHLD"}) : pc = "discard" /\ s = Sig
  /\ pc \in {"kill", "discard", "restore"} => todo # <<>>
  /\ "CHLD" \notin ignoring

\* A time is up when its signal is sent, and the -k time is set when the first is sent.
TimeInv ==
  /\ timed_out => first_sent /\ opt.limit > 0 /\ clock >= deadline
  /\ kill_sent => first_sent /\ HaveK /\ kill_deadline > 0 /\ clock >= kill_deadline
  /\ first_sent /\ HaveK /\ pc \in {"wait", "until", "block"} => kill_deadline > 0
  /\ pc = "fork" => ~first_sent

\* The end of the utility is not missed: when main waits for a signal, SIGCHLD is pending.
ChildInv ==
  /\ child = "none" <=> pc = "fork"
  /\ child = "gone" <=> pc = "exit"
  /\ child = "zombie" /\ pc \in {"until", "block"} => "CHLD" \in pending
  /\ child \in {"zombie", "gone"} =>
       /\ cause \in {"exit"} \cup received
       /\ timed_out => ended >= deadline
  /\ pc = "exit" => status = Status

Inv == TypeOK /\ SignalInv /\ TimeInv /\ ChildInv

-----------------------------------------------------------------------------
(* What the smaller operators do.                                          *)

\* While SIGCHLD is not ignored, the end of the utility is pending for timeout.
LEMMA EndWaits ==
  ASSUME "CHLD" \notin ignoring, NEW s, End(s)
  PROVE  child' = "zombie" /\ cause' = s /\ ended' = clock /\ pending' = pending \cup {"CHLD"}
BY DEF End, Chld

\* A signal that is sent ends the utility at once, makes it run, becomes pending, or
\* finds nobody there.
Posted(s) ==
  \/ /\ Alive /\ s = "KILL"
     /\ received' = received \cup {s} /\ UNCHANGED cpending
     /\ child' = "zombie" /\ cause' = s /\ ended' = clock
     /\ pending' = pending \cup {"CHLD"}
  \/ /\ Alive /\ Alive'
     /\ received' = received \cup {s}
     /\ cpending \subseteq cpending' /\ cpending' \subseteq cpending \cup ({s} \cap Passed)
     /\ UNCHANGED <<cause, ended, pending>>
  \/ /\ ~Alive
     /\ UNCHANGED <<child, cause, ended, pending, cpending, received>>

LEMMA PostDoes ==
  ASSUME TypeOK, "CHLD" \notin ignoring, NEW s \in Sent, Post(s)
  PROVE  Posted(s) /\ child' \in {"none", "starting", "running", "stopped", "zombie", "gone"}
<1>1. CASE Alive /\ s = "KILL"
  <2>1. End(s) /\ UNCHANGED cpending /\ received' = received \cup {s}
    BY <1>1, PassedAssumption DEF Post
  <2>2. child' = "zombie" /\ cause' = s /\ ended' = clock /\ pending' = pending \cup {"CHLD"}
    BY <2>1, EndWaits
  <2> QED  BY <1>1, <2>1, <2>2 DEF Posted
<1>2. CASE Alive /\ s = "CONT"
  <2>1. /\ received' = received \cup {s}
        /\ child' = IF child = "stopped" THEN "running" ELSE child
        /\ UNCHANGED <<cause, ended, pending, cpending>>
    BY <1>2, PassedAssumption DEF Post
  <2> QED  BY <1>2, <2>1 DEF Posted, Alive
<1>3. CASE Alive /\ s \in Passed
  <2>1. /\ received' = received \cup {s}
        /\ cpending' = cpending \cup {s} /\ UNCHANGED <<child, cause, ended, pending>>
    BY <1>3, PassedAssumption DEF Post
  <2> QED  BY <1>3, <2>1 DEF Posted, Alive
<1>4. CASE Alive /\ s = "CHLD"
  <2>1. /\ received' = received \cup {s}
        /\ UNCHANGED <<child, cause, ended, pending, cpending>>
    BY <1>4, PassedAssumption DEF Post
  <2> QED  BY <1>4, <2>1 DEF Posted, Alive
<1>5. CASE ~Alive
  <2>1. UNCHANGED <<child, cause, ended, pending, cpending, received>>
    BY <1>5 DEF Post
  <2> QED  BY <1>5, <2>1 DEF Posted, TypeOK
<1> QED  BY <1>1, <1>2, <1>3, <1>4, <1>5 DEF Sent

\* A signal with its SIGCONT is at most two signals, each of them with a reason.
LEMMA WithContType ==
  ASSUME NEW s \in Sent
  PROVE  /\ WithCont(s) \in Seq(Sent) /\ Len(WithCont(s)) \in {1, 2}
         /\ \A i \in 1 .. Len(WithCont(s)) : WithCont(s)[i] \in {s, "CONT"}
<1>1. CASE s = "CONT"
  BY <1>1 DEF WithCont, Sent
<1>2. CASE s # "CONT"
  <2>1. WithCont(s) = <<s, "CONT">>
    BY <1>2 DEF WithCont
  <2>2. "CONT" \in Sent
    BY DEF Sent
  <2> QED  BY <2>1, <2>2
<1> QED  BY <1>1, <1>2

\* What is left to send after the first signal is sent.
LEMMA TailType ==
  ASSUME TypeOK, todo # <<>>
  PROVE  /\ Sig \in Sent /\ Sig = todo[1] /\ 1 \in 1 .. Len(todo)
         /\ Tail(todo) \in Seq(Sent) /\ Len(Tail(todo)) <= 2
         /\ \A i \in 1 .. Len(Tail(todo)) : i + 1 \in 1 .. Len(todo) /\ Tail(todo)[i] = todo[i + 1]
<1>1. todo \in Seq(Sent) /\ Len(todo) <= 2
  BY DEF TypeOK
<1>2. Len(todo) \in Nat /\ Len(todo) > 0
  BY <1>1
<1>3. Sig = todo[1] /\ Sig \in Sent
  BY <1>1, <1>2 DEF Sig
<1>4. Tail(todo) \in Seq(Sent) /\ Len(Tail(todo)) = Len(todo) - 1
  BY <1>1, <1>2
<1> QED  BY <1>1, <1>2, <1>3, <1>4

-----------------------------------------------------------------------------
(* The steps.                                                              *)

LEMMA InitInv == Init => Inv
<1> SUFFICES ASSUME Init
             PROVE  Inv
  OBVIOUS
<1>1. TypeOK
  <2>1. todo = <<>> /\ todo \in Seq(Sent) /\ Len(todo) <= 2
    BY DEF Init
  <2>2. /\ first_sent \in BOOLEAN /\ timed_out \in BOOLEAN /\ kill_sent \in BOOLEAN
        /\ moved \in BOOLEAN /\ stopped \in BOOLEAN
    BY Zenon DEF Init
  <2> QED  BY <2>1, <2>2 DEF Init, TypeOK
<1>2. SignalInv /\ TimeInv /\ ChildInv
  BY DEF Init, SignalInv, TimeInv, ChildInv
<1> QED  BY <1>1, <1>2 DEF Inv

\* The signals to be sent, the signals sent and the reasons for them do not go away.
LEMMA ReasonStays ==
  ASSUME opt' = opt, asked \subseteq asked', timed_out => timed_out', kill_sent => kill_sent'
  PROVE  \A s : Reason(s) => Reason(s)'
BY DEF Reason

-----------------------------------------------------------------------------
(* The utility.                                                            *)

\* A step in which the utility ends, and timeout does nothing.
LEMMA EndInv ==
  ASSUME Inv, Alive, NEW s \in {"exit"} \cup received, End(s),
         cpending' \subseteq cpending,
         UNCHANGED <<opt, survives, main, times, ignoring, moved, received, env>>
  PROVE  Inv'
<1>1. child' = "zombie" /\ cause' = s /\ ended' = clock /\ pending' = pending \cup {"CHLD"}
  BY EndWaits DEF Inv, SignalInv
<1> USE <1>1 DEF main, times, env, Inv
<1>2. TypeOK'
  BY DEF TypeOK, Sent
<1>3. SignalInv'
  BY DEF SignalInv, Reason, Sig
<1>4. TimeInv'
  BY DEF TimeInv, HaveK
<1>5. ChildInv'
  BY DEF ChildInv, Status, Alive, TimeInv, TypeOK
<1> QED  BY <1>2, <1>3, <1>4, <1>5

\* A step in which the utility does not end, and timeout does nothing.
LEMMA GoesOnInv ==
  ASSUME Inv, Alive, Alive', cpending' \subseteq cpending, stopped' \in BOOLEAN,
         UNCHANGED <<opt, survives, main, times, ignoring, pending, moved, cause, ended, received,
                     asked, clock>>
  PROVE  Inv'
<1> USE DEF main, times, Inv
<1>2. TypeOK'
  BY DEF TypeOK, Alive
<1>3. SignalInv'
  BY DEF SignalInv, Reason, Sig
<1>4. TimeInv'
  BY DEF TimeInv, HaveK
<1>5. ChildInv'
  BY DEF ChildInv, Status, Alive
<1> QED  BY <1>2, <1>3, <1>4, <1>5

LEMMA ExecInv == Inv /\ Exec => Inv'
<1> SUFFICES ASSUME Inv, Exec
             PROVE  Inv'
  OBVIOUS
<1>1. Alive
  BY DEF Exec, Alive
<1>2. CASE cpending = {}
  <2>1. child' = "running" /\ Alive' /\ cpending' = cpending /\ stopped' = stopped
    BY <1>2 DEF Exec, Alive, env
  <2>2. UNCHANGED <<opt, survives, main, times, ignoring, pending, moved, cause, ended, received,
                    asked, clock>>
    BY <1>2 DEF Exec, env
  <2>3. stopped' \in BOOLEAN
    BY <2>1 DEF Inv, TypeOK
  <2> QED  BY <1>1, <2>1, <2>2, <2>3, GoesOnInv
<1>3. CASE cpending # {}
  <2>1. PICK s \in cpending : End(s)
    BY <1>3 DEF Exec
  <2>2. /\ UNCHANGED <<opt, survives, main, times, ignoring, moved, received, env>>
        /\ cpending' \subseteq cpending
    BY <1>3 DEF Exec
  <2>3. s \in {"exit"} \cup received
    BY DEF Inv, SignalInv
  <2> QED  BY <1>1, <2>1, <2>2, <2>3, EndInv
<1> QED  BY <1>2, <1>3

LEMMA DeliverInv ==
  ASSUME Inv, NEW s, Deliver(s)
  PROVE  Inv'
<1>1. Alive /\ s \in cpending /\ cpending' \subseteq cpending
  BY DEF Deliver, Alive
<1>2. CASE s \in survives
  <2>1. child' = child /\ Alive' /\ stopped' = stopped
    BY <1>1, <1>2 DEF Deliver, Alive, env
  <2>2. UNCHANGED <<opt, survives, main, times, ignoring, pending, moved, cause, ended, received,
                    asked, clock>>
    BY <1>2 DEF Deliver, env
  <2>3. stopped' \in BOOLEAN
    BY <2>1 DEF Inv, TypeOK
  <2> QED  BY <1>1, <2>1, <2>2, <2>3, GoesOnInv
<1>3. CASE s \notin survives
  <2>1. End(s) /\ UNCHANGED <<opt, survives, main, times, ignoring, moved, received, env>>
    BY <1>3 DEF Deliver
  <2>2. s \in {"exit"} \cup received
    BY <1>1 DEF Inv, SignalInv
  <2> QED  BY <1>1, <2>1, <2>2, EndInv
<1> QED  BY <1>2, <1>3

LEMMA ExitInv == Inv /\ Exit => Inv'
<1> SUFFICES ASSUME Inv, Exit
             PROVE  Inv'
  OBVIOUS
<1>1. /\ Alive /\ End("exit") /\ cpending' \subseteq cpending
      /\ UNCHANGED <<opt, survives, main, times, ignoring, moved, received, env>>
  BY DEF Exit, Alive
<1> QED  BY <1>1, EndInv

LEMMA StopInv == Inv /\ Stop => Inv'
<1> SUFFICES ASSUME Inv, Stop
             PROVE  Inv'
  OBVIOUS
<1>1. Alive /\ Alive' /\ cpending' \subseteq cpending /\ stopped' \in BOOLEAN
  BY DEF Stop, Alive
<1>2. UNCHANGED <<opt, survives, main, times, ignoring, pending, moved, cause, ended, received,
                  asked, clock>>
  BY DEF Stop
<1> QED  BY <1>1, <1>2, GoesOnInv

-----------------------------------------------------------------------------
(* main.                                                                   *)

LEMMA ForkInv == Inv /\ Fork => Inv'
<1> SUFFICES ASSUME Inv, Fork
             PROVE  Inv'
  OBVIOUS
<1> USE DEF Inv, Fork, env
<1>0. opt.limit \in Nat
  BY OptionAssumption DEF TypeOK
<1>1. TypeOK'
  BY <1>0 DEF TypeOK
<1>2. SignalInv'
  BY DEF SignalInv, Reason, Sig
<1>3. TimeInv'
  BY DEF TimeInv, HaveK
<1>4. ChildInv'
  BY DEF ChildInv
<1> QED  BY <1>1, <1>2, <1>3, <1>4

LEMMA WaitInv == Inv /\ Wait => Inv'
<1> SUFFICES ASSUME Inv, Wait
             PROVE  Inv'
  OBVIOUS
<1> USE DEF Inv, Wait, times, env
<1>0. child \in {"starting", "running", "stopped", "zombie"}
  BY DEF ChildInv, TypeOK
<1>1. CASE child = "zombie"
  <2>1. pc' = "exit" /\ child' = "gone" /\ status' = Status
    BY <1>1
  <2>2. Status \in {"exit", "124"} \cup Sent
    BY <1>1 DEF Status, ChildInv, TypeOK
  <2>3. TypeOK'
    BY <2>1, <2>2 DEF TypeOK
  <2>4. SignalInv'
    BY <2>1 DEF SignalInv, Reason, Sig
  <2>5. TimeInv'
    BY <2>1 DEF TimeInv, HaveK
  <2>6. Status' = Status
    BY DEF Status
  <2>7. ChildInv'
    BY <1>1, <2>1, <2>6 DEF ChildInv
  <2> QED  BY <2>3, <2>4, <2>5, <2>7
<1>2. CASE child # "zombie"
  <2>1. pc' = "until" /\ UNCHANGED <<child, status>>
    BY <1>0, <1>2
  <2>3. TypeOK'
    BY <2>1 DEF TypeOK
  <2>4. SignalInv'
    BY <2>1 DEF SignalInv, Reason, Sig
  <2>5. TimeInv'
    BY <2>1 DEF TimeInv, HaveK
  <2>7. ChildInv'
    BY <1>0, <1>2, <2>1 DEF ChildInv
  <2> QED  BY <2>3, <2>4, <2>5, <2>7
<1> QED  BY <1>1, <1>2

LEMMA UntilInv == Inv /\ Until => Inv'
<1> SUFFICES ASSUME Inv, Until
             PROVE  Inv'
  OBVIOUS
<1> USE DEF Inv, Until, times, util, env
<1>1. TypeOK'
  BY DEF TypeOK
<1>2. SignalInv'
  BY DEF SignalInv, Reason, Sig
<1>3. TimeInv'
  BY DEF TimeInv, HaveK
<1>4. ChildInv'
  BY DEF ChildInv
<1> QED  BY <1>1, <1>2, <1>3, <1>4

\* sigtimedwait ends with a signal or with a time that is up: what is to be sent has a reason.
LEMMA TakeInv == Inv /\ Take => Inv'
<1> SUFFICES ASSUME Inv, Take
             PROVE  Inv'
  OBVIOUS
<1> USE DEF Inv, Take, util, env
<1>0. PICK s \in pending :
        /\ pending' = pending \ {s}
        /\ IF s = "CHLD"
           THEN pc' = "wait" /\ UNCHANGED <<todo, first_sent>>
           ELSE pc' = "send" /\ todo' = WithCont(s) /\ first_sent' = TRUE
  OBVIOUS
<1>1. CASE s = "CHLD"
  <2>1. pc' = "wait" /\ UNCHANGED <<todo, first_sent>>
    BY <1>0, <1>1
  <2>2. TypeOK'
    BY <1>0, <2>1 DEF TypeOK
  <2>3. SignalInv'
    BY <1>0, <2>1 DEF SignalInv, Reason, Sig
  <2>4. TimeInv'
    BY <2>1 DEF TimeInv, HaveK
  <2>5. ChildInv'
    BY <2>1 DEF ChildInv
  <2> QED  BY <2>2, <2>3, <2>4, <2>5
<1>2. CASE s # "CHLD"
  <2>1. pc' = "send" /\ todo' = WithCont(s) /\ first_sent' = TRUE
    BY <1>0, <1>2
  <2>2. s \in Sent /\ s \in asked
    BY <1>0, <1>2 DEF TypeOK, SignalInv
  <2>3. /\ todo' \in Seq(Sent) /\ Len(todo') <= 2
        /\ \A i \in 1 .. Len(todo') : todo'[i] \in {s, "CONT"}
    BY <2>1, <2>2, WithContType
  <2>4. TypeOK'
    BY <1>0, <2>1, <2>3 DEF TypeOK
  <2>5. SignalInv'
    BY <1>0, <2>1, <2>2, <2>3 DEF SignalInv, Reason, Sig
  <2>6. TimeInv'
    BY <2>1 DEF TimeInv, HaveK
  <2>7. ChildInv'
    BY <2>1 DEF ChildInv, Status
  <2> QED  BY <2>4, <2>5, <2>6, <2>7
<1> QED  BY <1>1, <1>2

LEMMA TimeUpInv == Inv /\ TimeUp => Inv'
<1> SUFFICES ASSUME Inv, TimeUp
             PROVE  Inv'
  OBVIOUS
<1>1. /\ todo' \in Seq(Sent) /\ Len(todo') <= 2
      /\ \A i \in 1 .. Len(todo') : todo'[i] \in {opt.sig, "CONT"}
  <2>1. opt.sig \in Sent
    BY OptionAssumption DEF Inv, TypeOK
  <2>2. todo' = WithCont(opt.sig)
    BY DEF TimeUp
  <2> QED  BY <2>1, <2>2, WithContType
<1> USE DEF Inv, TimeUp, util, env
<1>2. TypeOK'
  BY <1>1 DEF TypeOK
<1>3. SignalInv'
  BY <1>1 DEF SignalInv, Reason, Sig
<1>4. TimeInv'
  BY DEF TimeInv, HaveK, ForLimit, LimitUp
<1>5. child \notin {"zombie", "gone"}
  BY DEF ChildInv
<1>6. ChildInv'
  BY <1>5 DEF ChildInv
<1> QED  BY <1>2, <1>3, <1>4, <1>6

LEMMA KillTimeUpInv == Inv /\ KillTimeUp => Inv'
<1> SUFFICES ASSUME Inv, KillTimeUp
             PROVE  Inv'
  OBVIOUS
<1> USE DEF Inv, KillTimeUp, util, env
<1>1. /\ todo' \in Seq(Sent) /\ Len(todo') <= 2
      /\ \A i \in 1 .. Len(todo') : todo'[i] = "KILL"
  BY DEF Sent
<1>2. TypeOK'
  BY <1>1 DEF TypeOK
<1>3. SignalInv'
  BY <1>1 DEF SignalInv, Reason, Sig
<1>4. TimeInv'
  BY DEF TimeInv, HaveK, ForKill, KillUp
<1>5. ChildInv'
  BY DEF ChildInv
<1> QED  BY <1>2, <1>3, <1>4, <1>5

LEMMA AllSentInv == Inv /\ AllSent => Inv'
<1> SUFFICES ASSUME Inv, AllSent
             PROVE  Inv'
  OBVIOUS
<1> USE DEF Inv, AllSent, util, env
<1>0. opt.ktime \in Nat /\ clock \in Nat /\ kill_deadline \in Nat
  BY OptionAssumption DEF TypeOK
<1>1. TypeOK'
  BY <1>0 DEF TypeOK
<1>2. SignalInv'
  BY DEF SignalInv, Reason, Sig
<1>3. TimeInv'
  BY <1>0 DEF TimeInv, HaveK
<1>4. ChildInv'
  BY DEF ChildInv
<1> QED  BY <1>1, <1>2, <1>3, <1>4

-----------------------------------------------------------------------------
(* The rest of the system.                                                 *)

LEMMA AskInv ==
  ASSUME Inv, NEW s \in Passed, Ask(s)
  PROVE  Inv'
<1> USE DEF Inv, Ask, main, times, util
<1>0. /\ s \in Sent /\ s \in Asked /\ asked' = asked \cup {s}
      /\ pending \subseteq pending' /\ pending' \subseteq pending \cup {s}
  BY DEF Sent
<1>1. TypeOK'
  BY <1>0 DEF TypeOK
<1>2. SignalInv'
  BY <1>0 DEF SignalInv, Reason, Sig
<1>3. TimeInv'
  BY DEF TimeInv, HaveK
<1>4. ChildInv'
  BY <1>0 DEF ChildInv, Status
<1> QED  BY <1>1, <1>2, <1>3, <1>4

LEMMA TickInv == Inv /\ Tick => Inv'
<1> SUFFICES ASSUME Inv, Tick
             PROVE  Inv'
  OBVIOUS
<1> USE DEF Inv, Tick, main, times, util
<1>0. deadline \in Nat /\ kill_deadline \in Nat /\ clock \in Nat
  BY DEF TypeOK
<1>1. TypeOK'
  BY DEF TypeOK
<1>2. SignalInv'
  BY DEF SignalInv, Reason, Sig
<1>3. TimeInv'
  BY <1>0 DEF TimeInv, HaveK
<1>4. ChildInv'
  BY DEF ChildInv, Status
<1> QED  BY <1>1, <1>2, <1>3, <1>4

-----------------------------------------------------------------------------
(* send_signal.                                                            *)

\* What is to be sent has a reason; it is SIGCHLD only with -s CHLD.
LEMMA SigHasReason ==
  ASSUME Inv, todo # <<>>
  PROVE  Sig \in Sent /\ Reason(Sig) /\ (NoChld => Sig # "CHLD")
<1>1. Sig \in Sent /\ Sig = todo[1] /\ 1 \in 1 .. Len(todo)
  BY TailType DEF Inv
<1>2. Reason(Sig)
  BY <1>1 DEF Inv, SignalInv
<1>3. opt \in Options /\ "CHLD" \notin asked
  BY PassedAssumption DEF Inv, TypeOK
<1>4. NoChld => Sig # "CHLD"
  BY <1>2, <1>3 DEF NoChld, Reason
<1> QED  BY <1>1, <1>2, <1>4

\* The first signal is sent: the others keep their reasons.
LEMMA TailReason ==
  ASSUME Inv, todo # <<>>, todo' = Tail(todo), opt' = opt, asked' = asked,
         timed_out' = timed_out, kill_sent' = kill_sent
  PROVE  /\ todo' \in Seq(Sent) /\ Len(todo') <= 2
         /\ (\A i \in 1 .. Len(todo) : Reason(todo[i]))'
<1>1. /\ Tail(todo) \in Seq(Sent) /\ Len(Tail(todo)) <= 2
      /\ \A i \in 1 .. Len(Tail(todo)) : i + 1 \in 1 .. Len(todo) /\ Tail(todo)[i] = todo[i + 1]
  BY TailType DEF Inv
<1>2. \A s : Reason(s) => Reason(s)'
  BY ReasonStays
<1>3. \A i \in 1 .. Len(Tail(todo)) : Reason(Tail(todo)[i])
  BY <1>1 DEF Inv, SignalInv
<1> QED  BY <1>1, <1>2, <1>3 DEF Reason

\* What is sent to the utility alone or to its group, in the steps that send it.
LEMMA PostInv ==
  ASSUME Inv, pc \in {"send", "kill"}, todo # <<>>, Post(Sig),
         UNCHANGED <<opt, survives, times, ignoring, env>>
  PROVE  /\ child' \in {"none", "starting", "running", "stopped", "zombie", "gone"}
         /\ cause' \in {"none", "exit"} \cup Sent /\ ended' \in Nat
         /\ cpending' \subseteq Passed /\ received' \subseteq Sent /\ pending' \subseteq Sent
         /\ cpending' \subseteq received'
         /\ \A s \in received' : Reason(s)'
         /\ pending' \subseteq pending \cup {"CHLD"}
         /\ child' # "none" /\ child' # "gone"
         /\ child' = "zombie" =>
              /\ cause' \in {"exit"} \cup received'
              /\ timed_out' => ended' >= deadline'
<1>1. Sig \in Sent /\ Reason(Sig)
  BY SigHasReason
<1>2. Posted(Sig) /\ child' \in {"none", "starting", "running", "stopped", "zombie", "gone"}
  BY <1>1, PostDoes DEF Inv, SignalInv
<1>3. \A s : Reason(s) => Reason(s)'
  BY ReasonStays DEF times, env
<1>4. child # "none" /\ child # "gone"
  BY DEF Inv, ChildInv
<1>5. received' \subseteq received \cup {Sig}
  BY <1>2 DEF Posted
<1>6. \A s \in received' : Reason(s)'
  BY <1>1, <1>3, <1>5 DEF Inv, SignalInv
<1>7. CASE /\ Alive /\ Sig = "KILL"
           /\ received' = received \cup {Sig} /\ UNCHANGED cpending
           /\ child' = "zombie" /\ cause' = Sig /\ ended' = clock
           /\ pending' = pending \cup {"CHLD"}
  <2>1. timed_out' => ended' >= deadline'
    BY <1>7 DEF times, Inv, TimeInv
  <2>2. "CHLD" \in Sent
    BY DEF Sent
  <2> QED  BY <1>1, <1>6, <1>7, <2>1, <2>2 DEF Inv, TypeOK, SignalInv
<1>8. CASE /\ Alive /\ Alive'
           /\ received' = received \cup {Sig}
           /\ cpending \subseteq cpending' /\ cpending' \subseteq cpending \cup ({Sig} \cap Passed)
           /\ UNCHANGED <<cause, ended, pending>>
  BY <1>1, <1>2, <1>6, <1>8 DEF Inv, TypeOK, SignalInv, Alive
<1>9. CASE /\ ~Alive
           /\ UNCHANGED <<child, cause, ended, pending, cpending, received>>
  <2>1. timed_out' = timed_out /\ deadline' = deadline
    BY DEF times
  <2> QED  BY <1>4, <1>6, <1>9, <2>1 DEF Inv, TypeOK, SignalInv, ChildInv
<1> QED  BY <1>2, <1>7, <1>8, <1>9 DEF Posted

LEMMA SendToChildInv == Inv /\ SendToChild => Inv'
<1> SUFFICES ASSUME Inv, SendToChild
             PROVE  Inv'
  OBVIOUS
<1>1. /\ pc = "send" /\ pc' = "send" /\ todo # <<>> /\ todo' = Tail(todo) /\ Post(Sig)
      /\ UNCHANGED <<opt, survives, status, times, ignoring, moved, env>>
  BY DEF SendToChild, Sending
<1>2. /\ todo' \in Seq(Sent) /\ Len(todo') <= 2
      /\ (\A i \in 1 .. Len(todo) : Reason(todo[i]))'
  BY <1>1, TailReason DEF times, env
<1>3. /\ child' \in {"none", "starting", "running", "stopped", "zombie", "gone"}
      /\ cause' \in {"none", "exit"} \cup Sent /\ ended' \in Nat
      /\ cpending' \subseteq Passed /\ received' \subseteq Sent /\ pending' \subseteq Sent
      /\ cpending' \subseteq received'
      /\ \A s \in received' : Reason(s)'
      /\ pending' \subseteq pending \cup {"CHLD"}
      /\ child' # "none" /\ child' # "gone"
      /\ child' = "zombie" =>
           /\ cause' \in {"exit"} \cup received'
           /\ timed_out' => ended' >= deadline'
  BY <1>1, PostInv
<1>4. TypeOK'
  BY <1>1, <1>2, <1>3 DEF Inv, TypeOK, times, env
<1>5. SignalInv'
  BY <1>1, <1>2, <1>3 DEF Inv, SignalInv, env
<1>6. TimeInv'
  BY <1>1 DEF Inv, TimeInv, HaveK, times, env
<1>7. ChildInv'
  BY <1>1, <1>3 DEF Inv, ChildInv
<1> QED  BY <1>4, <1>5, <1>6, <1>7 DEF Inv

LEMMA SendKillInv == Inv /\ SendKill => Inv'
<1> SUFFICES ASSUME Inv, SendKill
             PROVE  Inv'
  OBVIOUS
<1>1. /\ pc = "send" /\ todo # <<>> /\ todo' = Tail(todo) /\ Post(Sig)
      /\ moved' = ~opt.leader
      /\ \/ pc' = "killed" /\ status' = "KILL"
         \/ UNCHANGED <<pc, status>>
      /\ UNCHANGED <<opt, survives, times, ignoring, env>>
  BY DEF SendKill, Sending
<1>2. /\ todo' \in Seq(Sent) /\ Len(todo') <= 2
      /\ (\A i \in 1 .. Len(todo) : Reason(todo[i]))'
  BY <1>1, TailReason DEF times, env
<1>3. /\ child' \in {"none", "starting", "running", "stopped", "zombie", "gone"}
      /\ cause' \in {"none", "exit"} \cup Sent /\ ended' \in Nat
      /\ cpending' \subseteq Passed /\ received' \subseteq Sent /\ pending' \subseteq Sent
      /\ cpending' \subseteq received'
      /\ \A s \in received' : Reason(s)'
      /\ pending' \subseteq pending \cup {"CHLD"}
      /\ child' # "none" /\ child' # "gone"
      /\ child' = "zombie" =>
           /\ cause' \in {"exit"} \cup received'
           /\ timed_out' => ended' >= deadline'
  BY <1>1, PostInv
<1>4. TypeOK'
  <2>1. moved' \in BOOLEAN
    BY <1>1, Zenon
  <2>2. pc' \in {"send", "killed"} /\ status' \in {"none", "exit", "124", "125"} \cup Sent
    BY <1>1 DEF Inv, TypeOK, Sent
  <2> QED  BY <1>1, <1>2, <1>3, <2>1, <2>2 DEF Inv, TypeOK, times, env
<1>5. SignalInv'
  BY <1>1, <1>2, <1>3 DEF Inv, SignalInv, env
<1>6. TimeInv'
  BY <1>1 DEF Inv, TimeInv, HaveK, times, env
<1>7. ChildInv'
  BY <1>1, <1>3 DEF Inv, ChildInv
<1> QED  BY <1>4, <1>5, <1>6, <1>7 DEF Inv

\* Here -s CHLD would do harm: SIGCHLD is ignored until it is sent.
LEMMA SigIgnInv == NoChld /\ Inv /\ SigIgn => Inv'
<1> SUFFICES ASSUME NoChld, Inv, SigIgn
             PROVE  Inv'
  OBVIOUS
<1>0. pc = "send" /\ todo # <<>> /\ Sig \in Sent /\ Sig # "CHLD"
  BY SigHasReason DEF SigIgn, Sending
<1> USE DEF Inv, SigIgn, times, util, env
<1>1. TypeOK'
  BY <1>0 DEF TypeOK, Ignored
<1>2. SignalInv'
  BY <1>0 DEF SignalInv, Reason, Sig, Ignored
<1>3. TimeInv'
  BY DEF TimeInv, HaveK
<1>4. ChildInv'
  BY <1>0 DEF ChildInv
<1> QED  BY <1>1, <1>2, <1>3, <1>4

LEMMA KillGroupInv == Inv /\ KillGroup => Inv'
<1> SUFFICES ASSUME Inv, KillGroup
             PROVE  Inv'
  OBVIOUS
<1>1. /\ pc = "kill" /\ pc' = "discard" /\ todo # <<>> /\ todo' = todo
      /\ UNCHANGED <<opt, survives, status, times, ignoring, moved, env>>
  BY DEF KillGroup, Inv, SignalInv
<1>2. Sig \in Sent /\ Reason(Sig) /\ Sig' = Sig
  BY <1>1, SigHasReason DEF Sig
<1>3. \A s : Reason(s) => Reason(s)'
  BY <1>1, ReasonStays DEF times, env
<1>4. /\ child' \in {"none", "starting", "running", "stopped", "zombie", "gone"}
      /\ cause' \in {"none", "exit"} \cup Sent /\ ended' \in Nat
      /\ cpending' \subseteq Passed /\ received' \subseteq Sent /\ pending' \subseteq Sent
      /\ cpending' \subseteq received'
      /\ \A s \in received' : Reason(s)'
      /\ pending' \subseteq pending \cup {"CHLD", Sig}
      /\ child' # "none" /\ child' # "gone"
      /\ child' = "zombie" =>
           /\ cause' \in {"exit"} \cup received'
           /\ timed_out' => ended' >= deadline'
  <2>1. CASE Post(Sig)
    BY <1>1, <2>1, PostInv
  <2>2. CASE /\ Sig # "CONT" /\ Alive
             /\ received' = received \cup {Sig}
             /\ cpending' = cpending \cup ({Sig} \cap Passed)
             /\ pending' = pending \cup {Sig}
             /\ UNCHANGED <<child, cause, ended>>
    <3>1. \A s \in received' : Reason(s)'
      BY <1>2, <1>3, <2>2 DEF Inv, SignalInv
    <3>2. child' \in {"starting", "running", "stopped"}
      BY <2>2 DEF Alive
    <3> QED  BY <1>2, <2>2, <3>1, <3>2 DEF Inv, TypeOK, SignalInv
  <2> QED  BY <2>1, <2>2 DEF KillGroup
<1>5. TypeOK'
  BY <1>1, <1>4 DEF Inv, TypeOK, times, env
<1>6. SignalInv'
  <2>1. (\A i \in 1 .. Len(todo) : Reason(todo[i]))'
    BY <1>1, <1>3 DEF Inv, SignalInv, Reason
  <2>2. \A s \in pending' \ (asked' \cup {"CHLD"}) : s = Sig'
    BY <1>1, <1>2, <1>4 DEF Inv, SignalInv, env
  <2> QED  BY <1>1, <1>4, <2>1, <2>2 DEF Inv, SignalInv
<1>7. TimeInv'
  BY <1>1 DEF Inv, TimeInv, HaveK, times, env
<1>8. ChildInv'
  BY <1>1, <1>4 DEF Inv, ChildInv
<1> QED  BY <1>5, <1>6, <1>7, <1>8 DEF Inv

\* What timeout sent to its own group is discarded here.
LEMMA DiscardInv == Inv /\ Discard => Inv'
<1> SUFFICES ASSUME Inv, Discard
             PROVE  Inv'
  OBVIOUS
<1> USE DEF Inv, Discard, times, util, env
<1>1. TypeOK'
  BY DEF TypeOK, Discarded
<1>2. SignalInv'
  BY DEF SignalInv, Reason, Sig, Discarded
<1>3. TimeInv'
  BY DEF TimeInv, HaveK
<1>4. ChildInv'
  BY DEF ChildInv
<1> QED  BY <1>1, <1>2, <1>3, <1>4

LEMMA RestoreInv == Inv /\ Restore => Inv'
<1> SUFFICES ASSUME Inv, Restore
             PROVE  Inv'
  OBVIOUS
<1>1. /\ pc = "restore" /\ pc' = "send" /\ todo # <<>> /\ todo' = Tail(todo) /\ ignoring' = {}
      /\ UNCHANGED <<opt, survives, status, times, pending, moved, util, env>>
  BY DEF Restore, Inv, SignalInv
<1>2. /\ todo' \in Seq(Sent) /\ Len(todo') <= 2
      /\ (\A i \in 1 .. Len(todo) : Reason(todo[i]))'
  BY <1>1, TailReason DEF times, env
<1>3. TypeOK'
  BY <1>1, <1>2 DEF Inv, TypeOK, times, util, env
<1>4. SignalInv'
  BY <1>1, <1>2 DEF Inv, SignalInv, Reason, times, util, env
<1>5. TimeInv'
  BY <1>1 DEF Inv, TimeInv, HaveK, times, env
<1>6. ChildInv'
  BY <1>1 DEF Inv, ChildInv, util, times
<1> QED  BY <1>3, <1>4, <1>5, <1>6 DEF Inv

-----------------------------------------------------------------------------
(* The theorem.                                                            *)

LEMMA StepInv == NoChld /\ Inv /\ [Next]_vars => Inv'
<1> SUFFICES ASSUME NoChld, Inv, [Next]_vars
             PROVE  Inv'
  OBVIOUS
<1>1. CASE Main
  <2>1. CASE SendSignal
    BY <2>1, SendToChildInv, SendKillInv, SigIgnInv, KillGroupInv, DiscardInv, RestoreInv
    DEF SendSignal
  <2> QED
    BY <1>1, <2>1, ForkInv, WaitInv, UntilInv, TakeInv, TimeUpInv, KillTimeUpInv, AllSentInv
    DEF Main
<1>2. CASE Utility
  BY <1>2, ExecInv, DeliverInv DEF Utility
<1>3. CASE Exit \/ Stop \/ Tick
  BY <1>3, ExitInv, StopInv, TickInv
<1>4. CASE \E s \in Passed : Ask(s)
  BY <1>4, AskInv
<1>5. CASE UNCHANGED vars
  <2>1. UNCHANGED <<opt, survives, pc, todo, status, first_sent, timed_out, kill_sent, deadline,
                    kill_deadline, ignoring, pending, moved, child, cause, ended, cpending,
                    received, asked, stopped, clock>>
    BY <1>5 DEF vars, main, times, util, env
  <2>2. TypeOK'
    BY <2>1 DEF Inv, TypeOK
  <2>3. SignalInv' /\ TimeInv'
    BY <2>1 DEF Inv, SignalInv, TimeInv, Reason, Sig, HaveK
  <2>4. ChildInv'
    BY <2>1 DEF Inv, ChildInv, Status
  <2> QED  BY <2>2, <2>3, <2>4 DEF Inv
<1> QED  BY <1>1, <1>2, <1>3, <1>4, <1>5 DEF Next

\* What is promised follows: a signal that was sent has its reason, whose time is up; the
\* status is that of a utility that was not lost, and nothing timeout sent is pending.
LEMMA InvImplies == Inv => TimeoutTrue
<1> SUFFICES ASSUME Inv
             PROVE  TimeoutTrue
  OBVIOUS
<1>1. NotTooEarly
  <2>1. kill_sent => first_sent /\ clock >= kill_deadline
    BY DEF Inv, TimeInv
  <2>2. ASSUME opt.sig \in received \ (asked \cup {"CONT"})
        PROVE  (opt.limit > 0 /\ clock >= deadline) \/ (opt.sig = "KILL" /\ kill_sent)
    <3>1. Reason(opt.sig)
      BY <2>2 DEF Inv, SignalInv
    <3>2. timed_out \/ (opt.sig = "KILL" /\ kill_sent)
      BY <2>2, <3>1 DEF Reason
    <3> QED  BY <3>2 DEF Inv, TimeInv
  <2> QED  BY <2>1, <2>2 DEF NotTooEarly
<1>2. pc = "exit" => /\ status = Status
                     /\ cause \in {"exit"} \cup received
                     /\ timed_out => ended >= deadline
  BY DEF Inv, ChildInv
<1>3. received \subseteq Sent /\ "124" \notin Sent /\ "125" \notin Sent
  BY PassedAssumption DEF Inv, TypeOK, Sent
<1>4. StatusTrue
  BY <1>2, <1>3 DEF StatusTrue, Status, Inv, TimeInv
<1>5. ChildKept
  BY <1>2, <1>3 DEF ChildKept, Status
<1>6. NoEcho
  BY DEF NoEcho, Inv, SignalInv
<1> QED  BY <1>1, <1>4, <1>5, <1>6 DEF TimeoutTrue, Inv

\* timeout tells the truth, sends nothing too early, keeps its child and does not take
\* its own signals for others': for any command lines but -s CHLD, any signals and any
\* times, in every state that timeout's loop and send_signal reach.
THEOREM TimeoutTrueTheorem == NoChld /\ Spec => []TimeoutTrue
<1> SUFFICES ASSUME NoChld
             PROVE  Spec => []TimeoutTrue
  OBVIOUS
<1>1. Init => Inv
  BY InitInv
<1>2. Inv /\ [Next]_vars => Inv'
  BY StepInv
<1>3. Inv => TimeoutTrue
  BY InvImplies
<1> QED  BY <1>1, <1>2, <1>3, PTL DEF Spec

\* A utility that has ended is reported: the step that ends timeout's loop takes its
\* status, and nothing but that step or SIGKILL to timeout's own group ends the loop.
THEOREM EndTheorem ==
  NoChld /\ Spec => [][pc' = "exit" /\ pc # "exit" => child = "zombie" /\ status' = Status]_vars
<1> SUFFICES ASSUME NoChld
             PROVE  Spec => [][pc' = "exit" /\ pc # "exit" => child = "zombie" /\ status' = Status]_vars
  OBVIOUS
<1>1. Init => Inv
  BY InitInv
<1>2. Inv /\ [Next]_vars => Inv'
  BY StepInv
<1>3. Inv /\ [Next]_vars => [pc' = "exit" /\ pc # "exit" => child = "zombie" /\ status' = Status]_vars
  <2> SUFFICES ASSUME Inv, Next, pc' = "exit", pc # "exit"
               PROVE  child = "zombie" /\ status' = Status
    OBVIOUS
  <2>1. Wait
    BY DEF Next, Main, Utility, SendSignal, Fork, Until, Take, TimeUp, KillTimeUp, AllSent,
           SendToChild, SendKill, SigIgn, KillGroup, Discard, Restore, Exec, Deliver, Exit, Stop,
           Tick, Ask, main
  <2> QED  BY <2>1 DEF Wait, Inv, ChildInv
<1> QED  BY <1>1, <1>2, <1>3, PTL DEF Spec

==============================================================================
