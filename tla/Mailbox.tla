-------------------------------- MODULE Mailbox --------------------------------
(***************************************************************************)
(* mailx on the system mailbox: a session reads it, changes the states of  *)
(* the messages, and on quit moves, drops and keeps them, while mail is    *)
(* delivered and other sessions do the same.                               *)
(*                                                                         *)
(* The mailbox and mbox are sequences of messages, each with its Status    *)
(* field, N for none; a message is its number.  Messages have lengths,     *)
(* since mailx tells by the length of the file that mail has arrived.      *)
(***************************************************************************)
EXTENDS Naturals, Sequences, FiniteSets

CONSTANTS
  Sessions,     \* those who may read the mailbox, at most once at a time each
  MaxMail,      \* bound: messages delivered
  MaxOpens,     \* bound: sessions started
  MaxMailCommands,  \* bound: commands of all sessions
  MaxFaults     \* bound: sessions killed, disks full, locks given up

None == "none"
Mailer == "mailer"
Dead == "dead"     \* a session that was killed

ASSUME MailboxBounds ==
  {MaxMail, MaxOpens, MaxMailCommands, MaxFaults} \subseteq Nat /\ {None, Mailer, Dead} \cap Sessions = {}

VARIABLES
  opts,     \* the variables hold, keep, keepsave and append, and whether MBOX is the mailbox
  path,     \* the inode the name of the mailbox leads to, 0 for none
  inodes,   \* the contents of each inode
  flk,      \* who holds the fcntl lock of each inode
  dot,      \* who has made the .lock file, or None
  mbox,     \* the contents of mbox
  filed,    \* the messages that are in files of the user's
  mailer,   \* the delivery that is going on: where it is, and its inode
  mail,     \* the messages delivered so far
  mpc, mb, size, fd, out,      \* by session: where it is, the messages, the length read,
                              \* the file and the text it writes back
  opens, given, faults,
  seen,     \* history: the messages the user has read or asked to move
  dropped,  \* history: the messages the user has deleted
  risks     \* history: what has happened of the things that lose mail

mailVars == <<opts, path, inodes, flk, dot, mbox, filed, mailer, mail, mpc, mb, size, fd, out,
          opens, given, faults, seen, dropped, risks>>
files == <<path, inodes, mbox, filed>>
locks == <<flk, dot>>
history == <<seen, dropped, risks>>

--------------------------------------------------------------------------------
(* Messages and files. *)

\* As stored, in characters of any size; the lengths only have to be different.
Length(x) == CASE x.status = "N" -> 4 [] x.status = "O" -> 6 [] OTHER -> 7
LengthOf(file) == Cardinality({c \in (DOMAIN file) \X (1..7) : c[2] <= Length(file[c[1]])})
IdsOf(file) == {file[i].id : i \in DOMAIN file}

\* The messages that begin at or after an offset.
After(file, off) ==
  LET first == {i \in DOMAIN file : LengthOf(SubSeq(file, 1, i - 1)) >= off}
  IN SubSeq(file, Len(file) + 1 - Cardinality(first), Len(file))

Box == IF path = 0 THEN <<>> ELSE inodes[path]

--------------------------------------------------------------------------------
(* Reading the mailbox. *)

StateOf(status) == CASE status = "N" -> "new" [] status = "O" -> "unread" [] OTHER -> "read"
parse_messages(file) ==
  [i \in DOMAIN file |-> [id |-> file[i].id, status |-> file[i].status, state |-> StateOf(file[i].status),
                          prev |-> "new", to_mbox |-> FALSE, touched |-> FALSE]]

Goes(s, where) == mpc' = [mpc EXCEPT ![s] = where]

mailbox_open(s) ==
  /\ mpc[s] = "idle" /\ opens < MaxOpens
  /\ Box # <<>>
  /\ flk[path] = None
  /\ mb' = [mb EXCEPT ![s] = parse_messages(Box)]
  /\ size' = [size EXCEPT ![s] = LengthOf(Box)]
  /\ opens' = opens + 1
  /\ Goes(s, "command")
  /\ UNCHANGED <<opts, files, locks, mailer, mail, fd, out, given, faults, history>>

--------------------------------------------------------------------------------
(* Commands. *)

Fresh == {"new", "unread"}

mark_read(m) == [m EXCEPT !.state = IF @ \in Fresh THEN "read" ELSE @]
DeleteMsg(m) == [m EXCEPT !.prev = IF m.state # "deleted" THEN m.state ELSE @,
                       !.state = "deleted", !.to_mbox = FALSE, !.touched = FALSE]
Undelete(m) == [m EXCEPT !.state = "read"]
Save(m) == [m EXCEPT !.state = "saved"]
Hold(m) == [m EXCEPT !.prev = IF m.state # "preserved" THEN m.state ELSE @,
                     !.state = "preserved", !.to_mbox = FALSE, !.touched = FALSE]
ToMbox(m) == [m EXCEPT !.state = IF @ # "preserved" THEN @ ELSE IF m.prev \in Fresh THEN "read" ELSE m.prev,
                       !.to_mbox = TRUE, !.touched = FALSE]
Touch(m) == [m EXCEPT !.state = IF @ = "preserved" THEN m.prev ELSE @, !.touched = TRUE]

\* One message is named; all but undelete take one that is not deleted.
Applied(op, m) ==
  CASE op = "print" -> mark_read(m)  [] op = "delete" -> DeleteMsg(m)  [] op = "undelete" -> Undelete(m)
    [] op = "save" -> Save(m)  [] op = "copy" -> mark_read(m)  [] op = "hold" -> Hold(m)
    [] op = "mbox" -> ToMbox(m)  [] OTHER -> Touch(m)

execute(s) ==
  /\ mpc[s] = "command" /\ given < MaxMailCommands
  /\ \E i \in DOMAIN mb[s], op \in {"print", "delete", "undelete", "save", "copy", "hold", "mbox", "touch"} :
       LET m == mb[s][i]
       IN /\ (op = "undelete") <=> (m.state = "deleted")
          /\ mb' = [mb EXCEPT ![s][i] = Applied(op, m)]
          /\ filed' = IF op \in {"save", "copy"} THEN filed \cup {m.id} ELSE filed
          /\ seen' = IF op \in {"delete", "hold"} THEN seen ELSE seen \cup {m.id}
  /\ given' = given + 1
  /\ UNCHANGED <<opts, path, inodes, mbox, locks, mailer, mail, mpc, size, fd, out, opens, faults, dropped, risks>>

--------------------------------------------------------------------------------
(* Quit.  What becomes of each message. *)

Drops(m) == m.state = "deleted" \/ (m.state = "saved" /\ ~opts.keepsave)
Moves(m) ==
  /\ m.state # "deleted"
  /\ IF m.state = "saved" THEN opts.keepsave
     ELSE \/ m.to_mbox
          \/ m.state # "preserved" /\ (m.touched \/ m.state = "read") /\ ~opts.hold
Keeps(m) == ~Drops(m) /\ ~Moves(m)

status_value(m) ==
  CASE m.state \in Fresh -> "O"
    [] m.state = "preserved" -> IF m.prev \in Fresh THEN "O" ELSE "RO"
    [] OTHER -> "RO"
Written(m) == [id |-> m.id, status |-> status_value(m)]

InOrder(K) == [n \in 1..Cardinality(K) |-> CHOOSE i \in K : Cardinality({k \in K : k <= i}) = n]
Kept(s) ==
  LET k == InOrder({i \in DOMAIN mb[s] : Keeps(mb[s][i])}) IN [n \in DOMAIN k |-> Written(mb[s][k[n]])]
Moved(s) ==
  LET k == InOrder({i \in DOMAIN mb[s] : Moves(mb[s][i])}) IN [n \in DOMAIN k |-> [id |-> mb[s][k[n]].id, status |-> "RO"]]
HasChanged(s) == \E i \in DOMAIN mb[s] : LET m == mb[s][i] IN ~Keeps(m) \/ m.status # status_value(m)

Over(s) ==
  /\ Goes(s, "idle")
  /\ mb' = [mb EXCEPT ![s] = <<>>] /\ size' = [size EXCEPT ![s] = 0]
  /\ fd' = [fd EXCEPT ![s] = 0] /\ out' = [out EXCEPT ![s] = <<>>]

Fault == faults < MaxFaults /\ faults' = faults + 1

\* quit, exit, and a mailbox that has not changed.
QuitMail(s) ==
  /\ mpc[s] = "command"
  /\ \/ /\ HasChanged(s)
        /\ Goes(s, IF Moved(s) = <<>> \/ opts.same THEN "dotlock" ELSE "mbox")
        /\ UNCHANGED <<mb, size, fd, out>>
     \/ Over(s)
  /\ UNCHANGED <<opts, files, locks, mailer, mail, opens, given, faults, history>>

\* A write of mbox that fails has written what there was room for: as much as
\* mbox had before.
add_to_mbox(s) ==
  /\ mpc[s] = "mbox"
  /\ LET all == IF opts.append THEN mbox \o Moved(s) ELSE Moved(s) \o mbox
     IN \/ /\ mbox' = all
           /\ Goes(s, "dotlock")
           /\ UNCHANGED <<mb, size, fd, out, faults, risks>>
        \/ /\ Fault
           /\ mbox' = SubSeq(all, 1, Len(mbox))
           /\ risks' = IF mbox' # mbox THEN risks \cup {"mbox full"} ELSE risks
           /\ Over(s)
  /\ UNCHANGED <<opts, path, inodes, filed, locks, mailer, mail, opens, given, seen, dropped>>

\* Ten tries.  The lock of one who is gone is removed, at the second look:
\* whoever holds it by then.
dotlock(s) ==
  /\ mpc[s] \in {"dotlock", "stale"}
  /\ \/ /\ mpc[s] = "dotlock" /\ dot = None
        /\ dot' = s /\ Goes(s, "open")
        /\ UNCHANGED <<faults, risks>>
     \/ /\ mpc[s] = "dotlock" /\ dot = Dead
        /\ Goes(s, "stale")
        /\ UNCHANGED <<dot, faults, risks>>
     \/ /\ mpc[s] = "stale"
        /\ dot' = None /\ Goes(s, "dotlock")
        /\ risks' = IF dot \in {None, Dead} THEN risks ELSE risks \cup {"lock removed"}
        /\ UNCHANGED faults
     \/ /\ mpc[s] = "dotlock" /\ dot # None /\ Fault
        /\ risks' = risks \cup {"no lock"} /\ Goes(s, "open")
        /\ UNCHANGED dot
  /\ UNCHANGED <<opts, files, flk, mailer, mail, mb, size, fd, out, opens, given, seen, dropped>>

\* A file that is made is a new inode.
Created == Len(inodes) + 1
Open(f) ==
  IF path # 0 THEN f = path /\ UNCHANGED <<path, inodes, flk>>
  ELSE /\ f = Created
       /\ path' = f /\ inodes' = Append(inodes, <<>>) /\ flk' = Append(flk, None)

OpenBox(s) ==
  /\ mpc[s] = "open"
  /\ \E f \in 1..Created : Open(f) /\ fd' = [fd EXCEPT ![s] = f]
  /\ Goes(s, "lock")
  /\ UNCHANGED <<opts, mbox, filed, dot, mailer, mail, mb, size, out, opens, given, faults, history>>

lock_fd(s) ==
  /\ mpc[s] = "lock" /\ flk[fd[s]] = None
  /\ flk' = [flk EXCEPT ![fd[s]] = s]
  /\ Goes(s, "rewrite")
  /\ UNCHANGED <<opts, files, dot, mailer, mail, mb, size, fd, out, opens, given, faults, history>>

\* Mail that has arrived is what the file has beyond the length that was read.
ArrivedForgotten(s) == <<>>
Arrived(s) == LET now == inodes[fd[s]] IN IF LengthOf(now) > size[s] THEN After(now, size[s]) ELSE <<>>
NewText(s) == Kept(s) \o Arrived(s)
RiskOf(s) ==
  (IF \E t \in Sessions \ {s} : mpc[t] # "idle" THEN {"two sessions"} ELSE {})
    \cup (IF opts.same /\ Moved(s) # <<>> THEN {"same file"} ELSE {})

\* An empty mailbox goes; else it is written over.
rewrite_file(s) ==
  /\ mpc[s] = "rewrite"
  /\ LET text == NewText(s)
     IN /\ out' = [out EXCEPT ![s] = text]
        /\ IF text = <<>> /\ ~opts.keep
             THEN /\ path' = 0 /\ UNCHANGED inodes
                  /\ Goes(s, "close")
             ELSE /\ inodes' = [inodes EXCEPT ![fd[s]] = text \o After(@, LengthOf(text))]
                  /\ Goes(s, "truncate") /\ UNCHANGED path
  /\ risks' = risks \cup RiskOf(s)
  /\ dropped' = dropped \cup {mb[s][i].id : i \in {j \in DOMAIN mb[s] : mb[s][j].state = "deleted"}}
  /\ UNCHANGED <<opts, mbox, filed, locks, mailer, mail, mb, size, fd, opens, given, faults, seen>>

Truncate(s) ==
  /\ mpc[s] = "truncate"
  /\ inodes' = [inodes EXCEPT ![fd[s]] = out[s]]
  /\ Goes(s, "close")
  /\ UNCHANGED <<opts, path, mbox, filed, locks, mailer, mail, mb, size, fd, out, opens, given, faults, history>>

Close(s) ==
  /\ mpc[s] = "close"
  /\ flk' = [flk EXCEPT ![fd[s]] = None]
  /\ Goes(s, "unlock")
  /\ UNCHANGED <<opts, files, dot, mailer, mail, mb, size, fd, out, opens, given, faults, history>>

dotunlock(s) ==
  /\ mpc[s] = "unlock"
  /\ dot' = IF dot = s THEN None ELSE dot
  /\ Over(s)
  /\ UNCHANGED <<opts, files, flk, mailer, mail, opens, given, faults, history>>

Kill(s) ==
  /\ mpc[s] # "idle" /\ Fault
  /\ flk' = [f \in DOMAIN flk |-> IF flk[f] = s THEN None ELSE flk[f]]
  /\ dot' = IF dot = s THEN Dead ELSE dot
  /\ Over(s)
  /\ UNCHANGED <<opts, files, mailer, mail, opens, given, history>>

--------------------------------------------------------------------------------
(* Delivery: the mailer takes both locks, then appends. *)

At(where) == mailer' = [mailer EXCEPT !.at = where]

Deliver ==
  /\ UNCHANGED <<opts, mbox, filed, mpc, mb, size, fd, out, opens, given, faults, history>>
  /\ \/ /\ mailer.at = "idle" /\ mail < MaxMail /\ dot \in {None, Dead}
        /\ dot' = Mailer /\ At("open")
        /\ UNCHANGED <<path, inodes, flk, mail>>
     \/ /\ mailer.at = "open"
        /\ \E f \in 1..Created : Open(f) /\ mailer' = [at |-> "lock", fd |-> f]
        /\ UNCHANGED <<dot, mail>>
     \/ /\ mailer.at = "lock" /\ flk[mailer.fd] = None
        /\ inodes' = [inodes EXCEPT ![mailer.fd] = Append(@, [id |-> mail + 1, status |-> "N"])]
        /\ mail' = mail + 1 /\ At("unlock")
        /\ UNCHANGED <<path, locks>>
     \/ /\ mailer.at = "unlock"
        /\ dot' = None /\ mailer' = [at |-> "idle", fd |-> 0]
        /\ UNCHANGED <<path, inodes, flk, mail>>

--------------------------------------------------------------------------------

MailInit ==
  /\ opts \in [hold : BOOLEAN, keep : BOOLEAN, keepsave : BOOLEAN, append : BOOLEAN, same : BOOLEAN]
  /\ path = 0 /\ inodes = <<>> /\ flk = <<>> /\ dot = None
  /\ mbox = <<>> /\ filed = {}
  /\ mailer = [at |-> "idle", fd |-> 0] /\ mail = 0
  /\ mpc = [s \in Sessions |-> "idle"] /\ mb = [s \in Sessions |-> <<>>]
  /\ size = [s \in Sessions |-> 0] /\ fd = [s \in Sessions |-> 0] /\ out = [s \in Sessions |-> <<>>]
  /\ opens = 0 /\ given = 0 /\ faults = 0
  /\ seen = {} /\ dropped = {} /\ risks = {}

Session(s) ==
  \/ mailbox_open(s) \/ execute(s) \/ QuitMail(s)
  \/ add_to_mbox(s) \/ dotlock(s) \/ OpenBox(s) \/ lock_fd(s)
  \/ rewrite_file(s) \/ Truncate(s) \/ Close(s) \/ dotunlock(s)
  \/ Kill(s)

MailNext == Deliver \/ \E s \in Sessions : Session(s)

MailSpec == MailInit /\ [][MailNext]_mailVars

--------------------------------------------------------------------------------

Statuses == {"N", "O", "RO"}
States == {"new", "unread", "read", "deleted", "saved", "preserved"}
Stored == [id : 1..MaxMail, status : Statuses]
Message == [id : 1..MaxMail, status : Statuses, state : States, prev : States, to_mbox : BOOLEAN, touched : BOOLEAN]
Inodes == 1..Len(inodes)

\* The type invariant.
MailTypeOK ==
  /\ opts \in [hold : BOOLEAN, keep : BOOLEAN, keepsave : BOOLEAN, append : BOOLEAN, same : BOOLEAN]
  /\ inodes \in Seq(Seq(Stored)) /\ path \in 0..Len(inodes)
  /\ flk \in [Inodes -> Sessions \cup {None}] /\ dot \in Sessions \cup {None, Mailer, Dead}
  /\ mbox \in Seq(Stored) /\ filed \subseteq 1..MaxMail
  /\ mailer \in [at : {"idle", "open", "lock", "unlock"}, fd : Nat] /\ mail \in 0..MaxMail
  /\ mpc \in [Sessions -> {"idle", "command", "mbox", "dotlock", "stale", "open", "lock", "rewrite", "truncate",
                          "close", "unlock"}]
  /\ mb \in [Sessions -> Seq(Message)] /\ size \in [Sessions -> Nat] /\ fd \in [Sessions -> Nat]
  /\ out \in [Sessions -> Seq(Stored)]
  /\ opens \in 0..MaxOpens /\ given \in 0..MaxMailCommands /\ faults \in 0..MaxFaults
  /\ seen \subseteq 1..MaxMail /\ dropped \subseteq 1..MaxMail
  /\ risks \subseteq {"mbox full", "lock removed", "no lock", "two sessions", "same file"}

\* Every message that was delivered is in the mailbox, in mbox or in a file of
\* the user's, or the user has deleted it: whatever the variables say, also
\* when a session is killed or mbox cannot be written.  It takes one of the
\* risks to lose one: a second session on the same mailbox, MBOX naming the
\* mailbox, no room in an mbox that is written over, a .lock file that is
\* not waited for any longer, or is removed as stale when it is a new one.
NoMailLost == risks = {} => 1..mail \subseteq IdsOf(Box) \cup IdsOf(mbox) \cup filed \cup dropped

\* Between quits a message is in one place, unless a session was killed.
Resting == \A s \in Sessions : mpc[s] \in {"idle", "command"}
Distinct(file) == \A i, j \in DOMAIN file : file[i].id = file[j].id => i = j
OnePlace ==
  Resting /\ faults = 0 /\ risks = {} =>
    /\ Distinct(Box \o mbox)
    /\ dropped \cap IdsOf(Box \o mbox) = {}

\* What the user has neither read nor asked to move stays in the mailbox.
UnreadStay == IdsOf(mbox) \subseteq seen

\* A message is lost only through one of the known holes, is kept in one place, and
\* stays in the system mailbox until it is read (quit in msg.c).
MailKept == MailTypeOK /\ NoMailLost /\ OnePlace /\ UnreadStay

================================================================================
