------------------------------ MODULE MCDaemons ------------------------------
(* at and batch with atd on their spool, and crond with crontab, for TLC,     *)
(* with faults.  A behaviour is one part's; the variables of the other stay   *)
(* as they are.                                                               *)
EXTENDS AtSpool, Crond, TLC

CONSTANTS alice, bob, crontab

VARIABLE part
all == <<part, vars, cronVars>>

----------------------------------------------------------------------------
(* at and batch: two submissions of batch jobs, a daemon and an atd -s.      *)
(* One job is removed, processes are killed and forks fail.                  *)
Batch == [s \in Sub |-> "b"]
\* The two submissions are alike.
Submissions == Permutations(Sub)

----------------------------------------------------------------------------
(* The crontabs.  A table is replaced, and crontab and crond are killed, or  *)
(* one of crond's calls fails and it is killed; also crond -s.               *)
Both == {alice, bob}
Quiet(ms) == [at |-> ms, input |-> "short", mails |-> FALSE]
Mails(ms) == [at |-> ms, input |-> "short", mails |-> TRUE]
Reads(ms) == [at |-> ms, input |-> "long", mails |-> FALSE]
Text(ls) == [lines |-> ls, valid |-> TRUE]
Bad   == [lines |-> <<Reads({1})>>, valid |-> FALSE]
Pair  == Text(<<Mails({1}), Reads({1})>>)
Twice == Text(<<Quiet({1, 2})>>)
ThreeTexts == {Pair, Twice, Bad}
PairTwice == (alice :> Pair) @@ (bob :> Twice)
Replace == [user : {alice}, op : {"install"}]
Killed == {crontab, "crond"}

\* Where a call fails the clock goes to 2 and no crontab is killed.
OneFault == failures' = 0 \/ (wallclock' <= 2 /\ crontab \notin killed')

----------------------------------------------------------------------------
FaultsInit ==
  /\ Init /\ CronInit
  /\ part \in {"at", "cron"} /\ (part = "at" => ~opt_s)
FaultsNext ==
  /\ \/ part = "at" /\ Next /\ UNCHANGED cronVars
     \/ part = "cron" /\ CronNext /\ OneFault /\ UNCHANGED vars
  /\ UNCHANGED part
FaultsSpec == FaultsInit /\ [][FaultsNext]_all
=============================================================================
