------------------------------ MODULE Timeout ------------------------------
(***************************************************************************)
(* timeout (timeout/timeout.c): main's loop of waitpid and sigtimedwait,   *)
(* and send_signal, beside the utility it runs, the clock and the people   *)
(* who send timeout a signal or stop the utility.                          *)
(*                                                                         *)
(* timeout takes its signals with sigtimedwait, so a signal sent to it is  *)
(* pending until then, unless its disposition is SIG_IGN at that moment.   *)
(* Signals are not queued: a set holds them.                               *)
(***************************************************************************)
EXTENDS Integers, Sequences

CONSTANTS
  Options,      \* the command lines considered: records [f, p, limit, ktime, leader, sig],
                \* where "leader" says that timeout led its process group from the start
  Passed,       \* the signals passed on (not inherited as ignored)
  Asked,        \* those that somebody sends to timeout, once each
  MayStop       \* may the utility be stopped?

Sent == Passed \cup {"KILL", "CONT", "CHLD"}

ASSUME PassedAssumption == Passed \cap {"KILL", "CONT", "CHLD", "exit", "none", "124", "125"} = {} /\ Asked \subseteq Passed
ASSUME OptionAssumption ==
  Options \subseteq [f : BOOLEAN, p : BOOLEAN, limit : Nat, ktime : Nat, leader : BOOLEAN, sig : Sent]
\* with -s CHLD, SIGCHLD is ignored while it is sent: a utility that ends then is lost
NoChld == \A o \in Options : o.sig # "CHLD"
ASSUME StopAssumption == MayStop \in BOOLEAN

VARIABLES
  opt, survives,        \* the options; the signals that do not end the utility
  pc, todo, status,     \* main; the signals it is about to send
  first_sent, timed_out, kill_sent, deadline, kill_deadline,
  ignoring, pending,    \* the dispositions that are SIG_IGN, the pending signals
  moved,                \* timeout has gone back to its old process group
  child, cause, ended,  \* the utility: its state, what ended it and when
  cpending, received,   \* its pending signals; all that were sent to it
  asked, stopped,       \* the signals sent to timeout so far; was the utility stopped?
  clock

main  == <<pc, todo, status>>
times == <<first_sent, timed_out, kill_sent, deadline, kill_deadline>>
util  == <<child, cause, ended, cpending, received>>
env   == <<asked, stopped, clock>>
vars  == <<opt, survives, main, times, ignoring, pending, moved, util, env>>

Init ==
  /\ opt \in Options /\ survives \in SUBSET Passed
  /\ pc = "fork" /\ todo = <<>> /\ status = "none"
  /\ first_sent = FALSE /\ timed_out = FALSE /\ kill_sent = FALSE
  /\ deadline = 0 /\ kill_deadline = 0
  /\ ignoring = {} /\ pending = {} /\ moved = FALSE
  /\ child = "none" /\ cause = "none" /\ ended = 0 /\ cpending = {} /\ received = {}
  /\ asked = {} /\ stopped = FALSE /\ clock = 0

-----------------------------------------------------------------------------
(* The utility.                                                            *)

Alive == child \in {"starting", "running", "stopped"}

\* SIGCHLD is blocked, and so it is pending until it is taken
ChldOnlyInWait == IF pc = "block" THEN {"CHLD"} ELSE {}
Chld == {"CHLD"}

\* the utility ends; with SIGCHLD ignored there is nothing left to wait for
End(s) ==
  /\ cause' = s /\ ended' = clock
  /\ IF "CHLD" \in ignoring
     THEN child' = "gone" /\ UNCHANGED pending
     ELSE child' = "zombie" /\ pending' = pending \cup Chld

\* kill: s is sent to the utility
Post(s) ==
  /\ received' = IF Alive THEN received \cup {s} ELSE received
  /\ CASE Alive /\ s = "KILL" ->
            End(s) /\ UNCHANGED cpending
       [] Alive /\ s = "CONT" ->
            /\ child' = IF child = "stopped" THEN "running" ELSE child
            /\ UNCHANGED <<cause, ended, pending, cpending>>
       [] Alive /\ s \in Passed ->
            cpending' = cpending \cup {s} /\ UNCHANGED <<child, cause, ended, pending>>
       [] OTHER ->
            UNCHANGED <<child, cause, ended, pending, cpending>>

\* the child sets its dispositions, unblocks the signals and executes the utility
Exec ==
  /\ child = "starting"
  /\ IF cpending = {}
     THEN child' = "running" /\ UNCHANGED <<cause, ended, pending>>
     ELSE \E s \in cpending : End(s)
  /\ UNCHANGED <<opt, survives, main, times, ignoring, moved, cpending, received, env>>

Deliver(s) ==
  /\ child = "running" /\ s \in cpending
  /\ cpending' = cpending \ {s}
  /\ IF s \in survives THEN UNCHANGED <<child, cause, ended, pending>> ELSE End(s)
  /\ UNCHANGED <<opt, survives, main, times, ignoring, moved, received, env>>

Exit ==
  /\ child = "running"
  /\ End("exit")
  /\ UNCHANGED <<opt, survives, main, times, ignoring, moved, cpending, received, env>>

\* somebody stops the utility, once (a pending signal is delivered before a later SIGSTOP)
Stop ==
  /\ MayStop /\ ~stopped /\ child = "running" /\ cpending = {}
  /\ stopped' = TRUE
  /\ child' = "stopped"
  /\ UNCHANGED <<opt, survives, main, times, ignoring, pending, moved, cause, ended, cpending,
                 received, asked, clock>>

-----------------------------------------------------------------------------
(* main.                                                                   *)

Fork ==
  /\ pc = "fork"
  /\ child' = "starting"
  /\ deadline' = clock + opt.limit
  /\ pc' = "wait"
  /\ UNCHANGED <<opt, survives, todo, status, first_sent, timed_out, kill_sent, kill_deadline,
                 ignoring, pending, moved, cause, ended, cpending, received, env>>

\* the status: 124 when the limit was reached, else the utility's or its signal
Status == IF timed_out /\ ~opt.p THEN "124" ELSE cause

\* waitpid(WNOHANG), at the start of each turn
Wait ==
  /\ pc = "wait"
  /\ CASE child = "zombie" ->
            /\ pc' = "exit" /\ child' = "gone"
            /\ status' = Status
       [] child = "gone" -> pc' = "exit" /\ status' = "125" /\ UNCHANGED child    \* ECHILD
       [] OTHER -> pc' = "until" /\ UNCHANGED <<child, status>>
  /\ UNCHANGED <<opt, survives, todo, times, ignoring, pending, moved, cause, ended, cpending,
                 received, env>>

\* the time to wait is computed; then sigtimedwait is called
Until ==
  /\ pc = "until"
  /\ pc' = "block"
  /\ UNCHANGED <<opt, survives, todo, status, times, ignoring, pending, moved, util, env>>

\* SIGCONT follows every signal but itself
WithCont(s) == IF s = "CONT" THEN <<s>> ELSE <<s, "CONT">>

\* sigtimedwait takes a pending signal: SIGCHLD, or one to pass on
Take ==
  /\ pc = "block"
  /\ \E s \in pending :
       /\ pending' = pending \ {s}
       /\ IF s = "CHLD"
          THEN pc' = "wait" /\ UNCHANGED <<todo, first_sent>>
          ELSE pc' = "send" /\ todo' = WithCont(s) /\ first_sent' = TRUE
  /\ UNCHANGED <<opt, survives, status, timed_out, kill_sent, deadline, kill_deadline, ignoring,
                 moved, util, env>>

\* which of the two times is waited for
HaveK == opt.ktime > 0
ForLimit == ~first_sent /\ opt.limit > 0
ForKill == first_sent /\ HaveK /\ ~kill_sent
LimitUp == clock >= deadline
KillUp == clock >= kill_deadline

TimeUp ==
  /\ pc = "block" /\ pending = {} /\ ForLimit /\ LimitUp
  /\ timed_out' = TRUE /\ first_sent' = TRUE
  /\ todo' = WithCont(opt.sig)
  /\ pc' = "send"
  /\ UNCHANGED <<opt, survives, status, kill_sent, deadline, kill_deadline, ignoring, pending,
                 moved, util, env>>

KillTimeUp ==
  /\ pc = "block" /\ pending = {} /\ ForKill /\ KillUp
  /\ kill_sent' = TRUE
  /\ todo' = <<"KILL">>
  /\ pc' = "send"
  /\ UNCHANGED <<opt, survives, status, first_sent, timed_out, deadline, kill_deadline, ignoring,
                 pending, moved, util, env>>

\* all is sent; the -k time runs from the first signal on
AllSent ==
  /\ pc = "send" /\ todo = <<>>
  /\ pc' = "wait"
  /\ kill_deadline' = IF kill_deadline = 0 THEN clock + opt.ktime ELSE kill_deadline
  /\ UNCHANGED <<opt, survives, todo, status, first_sent, timed_out, kill_sent, deadline, ignoring,
                 pending, moved, util, env>>

-----------------------------------------------------------------------------
(* send_signal.                                                            *)

Sending == pc = "send" /\ todo # <<>>
Sig == Head(todo)

\* to the child only; or to the process group it is in, which timeout has left
SendToChild ==
  /\ Sending
  /\ opt.f \/ (moved /\ Sig # "KILL")
  /\ Post(Sig)
  /\ todo' = Tail(todo)
  /\ UNCHANGED <<opt, survives, pc, status, times, ignoring, moved, env>>

\* SIGKILL cannot be ignored: leave the group first, or be killed as well
SendKill ==
  /\ Sending /\ ~opt.f /\ Sig = "KILL"
  /\ Post(Sig)
  /\ todo' = Tail(todo)
  /\ moved' = ~opt.leader
  /\ IF opt.leader
     THEN pc' = "killed" /\ status' = "KILL"
     ELSE UNCHANGED <<pc, status>>
  /\ UNCHANGED <<opt, survives, times, ignoring, env>>

\* the other signals are ignored while they are sent; a pending one is discarded
Ignored == {Sig}
SigIgn ==
  /\ Sending /\ ~opt.f /\ ~moved /\ Sig # "KILL"
  /\ ignoring' = Ignored
  /\ pending' = pending \ {Sig}
  /\ pc' = "kill"
  /\ UNCHANGED <<opt, survives, todo, status, times, moved, util, env>>

\* kill(0, sig) reaches timeout, too: a blocked signal may be kept although it is ignored
KillGroup ==
  /\ pc = "kill"
  /\ \/ Post(Sig)
     \/ /\ Sig # "CONT" /\ Alive
        /\ received' = received \cup {Sig}
        /\ cpending' = cpending \cup ({Sig} \cap Passed)
        /\ pending' = pending \cup {Sig}
        /\ UNCHANGED <<child, cause, ended>>
  /\ pc' = "discard"
  /\ UNCHANGED <<opt, survives, todo, status, times, ignoring, moved, env>>

KeepEcho == pending
Discarded == pending \ {Sig}
Discard ==
  /\ pc = "discard"
  /\ pending' = Discarded
  /\ pc' = "restore"
  /\ UNCHANGED <<opt, survives, todo, status, times, ignoring, moved, util, env>>

Restore ==
  /\ pc = "restore"
  /\ ignoring' = {}
  /\ todo' = Tail(todo)
  /\ pc' = "send"
  /\ UNCHANGED <<opt, survives, status, times, pending, moved, util, env>>

-----------------------------------------------------------------------------
(* The rest of the system.                                                 *)

Ask(s) ==
  /\ s \in Asked \ asked /\ pc \notin {"exit", "killed"}
  /\ asked' = asked \cup {s}
  /\ \/ pending' = pending \cup {s}
     \/ s \in ignoring /\ UNCHANGED pending
  /\ UNCHANGED <<opt, survives, main, times, ignoring, moved, util, stopped, clock>>

\* the clock stops when no time that is waited for lies ahead (a bound)
Tick ==
  /\ pc # "fork" /\ (clock <= deadline \/ clock <= kill_deadline)
  /\ clock' = clock + 1
  /\ UNCHANGED <<opt, survives, main, times, ignoring, pending, moved, util, asked, stopped>>

SendSignal == SendToChild \/ SendKill \/ SigIgn \/ KillGroup \/ Discard \/ Restore
Main == Fork \/ Wait \/ Until \/ Take \/ TimeUp \/ KillTimeUp \/ AllSent \/ SendSignal
Utility == Exec \/ \E s \in Passed : Deliver(s)

Next == Main \/ Utility \/ Exit \/ Stop \/ Tick \/ \E s \in Passed : Ask(s)

\* timeout and the utility run, signals are delivered, time goes by; the utility need
\* not end, and nobody needs to send it anything
Fairness == WF_vars(Main) /\ WF_vars(Utility) /\ WF_vars(Tick)

Spec == Init /\ [][Next]_vars /\ Fairness
-----------------------------------------------------------------------------
(* Properties.                                                             *)

Over == pc \in {"exit", "killed"}

\* The type invariant: main is at one of its system calls, and at most two signals are
\* still to be sent.
TypeOK ==
  /\ opt \in Options /\ survives \subseteq Passed
  /\ pc \in {"fork", "wait", "until", "block", "send", "kill", "discard", "restore", "exit", "killed"}
  /\ todo \in Seq(Sent) /\ Len(todo) <= 2
  /\ status \in {"none", "exit", "124", "125"} \cup Sent
  /\ first_sent \in BOOLEAN /\ timed_out \in BOOLEAN /\ kill_sent \in BOOLEAN
  /\ deadline \in Nat /\ kill_deadline \in Nat
  /\ ignoring \subseteq Sent /\ pending \subseteq Sent /\ moved \in BOOLEAN
  /\ child \in {"none", "starting", "running", "stopped", "zombie", "gone"}
  /\ cause \in {"none", "exit"} \cup Sent /\ ended \in Nat
  /\ cpending \subseteq Passed /\ received \subseteq Sent
  /\ asked \subseteq Asked /\ stopped \in BOOLEAN /\ clock \in Nat

\* Nothing is sent to the utility too early: neither the signal of -s before the limit
\* nor SIGKILL before the -k time after the first signal, unless somebody asked for it.
NotTooEarly ==
  /\ opt.sig \in received \ (asked \cup {"CONT"}) =>
       (opt.limit > 0 /\ clock >= deadline) \/ (opt.sig = "KILL" /\ kill_sent)
  /\ kill_sent => first_sent /\ clock >= kill_deadline

\* The status: 124 is only said of a utility that was still there at the limit, and
\* one that was ended by a signal nobody sent to it is not reported.
StatusTrue ==
  pc = "exit" =>
    /\ status = "124" => opt.limit > 0 /\ ended >= deadline
    /\ status \notin {"exit", "124", "125"} => status \in received

\* A status of the utility or 124, whatever happens: timeout does not lose its child.
ChildKept == pc = "exit" => status # "125"

\* timeout does not answer to its own signals: what it sends to its process group is never
\* taken for a signal to pass on.
NoEcho == pc \in {"wait", "until", "block"} => pending \subseteq asked \cup {"CHLD"}

\* timeout tells the truth, is not too early, and keeps what is its own.
TimeoutTrue == TypeOK /\ NotTooEarly /\ StatusTrue /\ ChildKept /\ NoEcho

\* A utility that does not survive the signal of -s does not outlive the time limit, even
\* if it is stopped ...
Limited == opt.limit > 0 /\ opt.sig \in (Passed \ survives) \cup {"KILL"}

=============================================================================
