-------------------------------- MODULE SccsLock --------------------------------
(***************************************************************************)
(* get -e, delta, unget, rmdel and admin of several users on one SCCS      *)
(* file: the s-file, which is replaced through the x-file, the p-file with *)
(* the edits that are open, which is replaced through the q-file, and the  *)
(* z-file that locks both, while commands are killed and writes fail.      *)
(*                                                                         *)
(* The text of the versions is in SccsWeave; here a version is its delta.  *)
(* The d, c, f, l and v flags and the list of users are left out: they     *)
(* only refuse a command.                                                  *)
(***************************************************************************)
EXTENDS Naturals, Sequences, FiniteSets, FiniteSetsExt

CONSTANTS
  Users,       \* each runs one command at a time, in a directory of his own
  Requests,    \* the SIDs that are asked for with -r: tuples of 0 to 4 numbers
  MaxCmds,     \* bound: commands started
  MaxFaults    \* bound: commands killed and writes that fail

ASSUME UsersAssumption == "none" \notin Users
ASSUME LockBounds == MaxCmds \in Nat /\ MaxFaults \in Nat
ASSUME RequestsAssumption == \A r \in Requests : r \in Seq(Nat) /\ Len(r) <= 4

None == "none"

VARIABLES
  sfile,    \* the s-file: the delta table by serial, the j flag, whether all of it is there
  xfile,    \* a new version of it: who makes it, and what
  pfile,    \* the p-file: the open edits (an empty one does not exist)
  qfile,    \* a new version of it, likewise
  zfile,    \* who made the lock, or None
  gfile,    \* by user: is there a writable g-file
  pc, cmd,  \* by user: where the command is, and its arguments
  sf, pf,   \* by user: what it has read
  edit,     \* by user: the edit it makes or ends
  cmds, faults,
  stolen    \* history: a lock was taken away from a command that is running

vars == <<sfile, xfile, pfile, qfile, zfile, gfile, pc, cmd, sf, pf, edit, cmds, faults, stolen>>

--------------------------------------------------------------------------------
(* SIDs and the table of the standard. *)

R(s) == s[1]
L(s) == s[2]
B(s) == s[3]
S(s) == s[4]
Trunk(s) == B(s) = 0
Release(r, l) == <<r, l, 0, 0>>

\* sid_parse
Parsed(r) == [i \in 1..4 |-> IF i <= Len(r) THEN r[i] ELSE 0]

is_d(f) == {k \in DOMAIN f.d : f.d[k].type = "D"}
Sid(f, k) == f.d[k].sid
Highest(ks, Rank(_)) == IF ks = {} THEN 0 ELSE CHOOSE k \in ks : \A i \in ks : Rank(i) <= Rank(k)
by_sid(f, s) == Highest({k \in is_d(f) : Sid(f, k) = s}, LAMBDA k : k)

TrunkOf(f) == {k \in is_d(f) : Trunk(Sid(f, k))}
top_trunk(f, r) == Highest({k \in TrunkOf(f) : R(Sid(f, k)) = r}, LAMBDA k : L(Sid(f, k)))
max_release(f) == Max({0} \cup {R(Sid(f, k)) : k \in TrunkOf(f)})

\* The serial of the delta to get, 0 for none.
choose(f, r) ==
  LET s == Parsed(r)  mr == max_release(f)
      below == {x \in 1..R(s) - 1 : top_trunk(f, x) # 0}
  IN CASE mr = 0 -> 0
       [] mr > 0 /\ Len(r) = 0 -> top_trunk(f, mr)
       [] mr > 0 /\ Len(r) = 1 ->
            IF top_trunk(f, R(s)) # 0 THEN top_trunk(f, R(s))
            ELSE IF R(s) > mr THEN top_trunk(f, mr)
            ELSE IF below = {} THEN 0 ELSE top_trunk(f, Max(below))
       [] mr > 0 /\ Len(r) = 3 ->
            Highest({k \in is_d(f) : SubSeq(Sid(f, k), 1, 3) = r}, LAMBDA k : S(Sid(f, k)))
       [] OTHER -> by_sid(f, s)

sid_taken(f, reserved, s) == by_sid(f, s) # 0 \/ s \in reserved

new_branch(f, g, reserved) ==
  LET branches == {s \in {Sid(f, k) : k \in is_d(f)} \cup {s \in reserved : S(s) > 0} :
                     R(s) = R(g) /\ L(s) = L(g)}
  IN <<R(g), L(g), Max({0} \cup {B(s) : s \in branches}) + 1, 1>>

\* The SID of the new delta after got.
new_sid(f, r, got, want_branch, reserved) ==
  LET g == Sid(f, got)  n == Len(r)
      trunk == Trunk(g)
      succ == {k \in is_d(f) : /\ f.d[k].pred = got
                               /\ IF trunk THEN Trunk(Sid(f, k))
                                  ELSE SubSeq(Sid(f, k), 1, 3) = SubSeq(g, 1, 3)}
      branch == \/ want_branch
                \/ succ # {}
                \/ trunk /\ n = 1 /\ r[1] < R(g)
                \/ /\ trunk /\ n = 1 /\ r[1] = R(g) /\ r[1] < max_release(f)
                   /\ top_trunk(f, r[1]) = got
      next == IF ~trunk THEN <<R(g), L(g), B(g), S(g) + 1>>
              ELSE IF n = 1 /\ r[1] > R(g) THEN Release(r[1], 1)
              ELSE Release(R(g), L(g) + 1)
  IN IF branch \/ sid_taken(f, reserved, next) THEN new_branch(f, g, reserved) ELSE next

--------------------------------------------------------------------------------
(* A command: it reads the s-file, then takes the lock. *)

NoCmd == [op |-> None]
Commands ==
  [op : {"get"}, r : Requests, b : BOOLEAN] \cup [op : {"delta", "unget"}, r : Requests]
    \cup [op : {"rmdel"}, r : Requests] \cup [op : {"admin"}]

Goes(u, where) == pc' = [pc EXCEPT ![u] = where]
Does(u, op) == cmd[u].op = op

Start(u) ==
  /\ pc[u] = "idle" /\ cmds < MaxCmds
  /\ \E c \in Commands :
       /\ c.op = "rmdel" => Len(c.r) \in {2, 4}
       /\ cmd' = [cmd EXCEPT ![u] = c]
       /\ Goes(u, IF c.op = "unget" THEN "lock" ELSE "read")
  /\ cmds' = cmds + 1
  /\ UNCHANGED <<sfile, xfile, pfile, qfile, zfile, gfile, sf, pf, edit, faults, stolen>>

\* A command that is over remembers nothing.
NoFile == [d |-> <<>>, j |-> FALSE, whole |-> FALSE]
NoX == [by |-> None, f |-> NoFile]
NoEdit == [got |-> <<>>, new |-> <<>>, user |-> None]
Over(u) ==
  /\ Goes(u, "idle")
  /\ cmd' = [cmd EXCEPT ![u] = NoCmd] /\ sf' = [sf EXCEPT ![u] = NoFile]
  /\ pf' = [pf EXCEPT ![u] = {}] /\ edit' = [edit EXCEPT ![u] = NoEdit]

sfile_read(u) ==
  /\ pc[u] = "read"
  /\ \/ /\ sfile.whole
        /\ sf' = [sf EXCEPT ![u] = sfile]
        /\ Goes(u, "lock")
        /\ UNCHANGED <<cmd, pf, edit>>
     \/ ~sfile.whole /\ Over(u)
  /\ UNCHANGED <<sfile, xfile, pfile, qfile, zfile, gfile, cmds, faults, stolen>>

lock_sccs(u) ==
  /\ pc[u] = "lock"
  /\ \/ /\ zfile = None
        /\ zfile' = u
        /\ Goes(u, "locking")
        /\ UNCHANGED <<cmd, sf, pf, edit>>
     \/ zfile # None /\ Over(u) /\ UNCHANGED zfile
  /\ UNCHANGED <<sfile, xfile, pfile, qfile, gfile, cmds, faults, stolen>>

\* locked = 1 and the handlers.
Locked(u) ==
  /\ pc[u] = "locking"
  /\ Goes(u, "locked")
  /\ UNCHANGED <<sfile, xfile, pfile, qfile, zfile, gfile, cmd, sf, pf, edit, cmds, faults, stolen>>

locked(u) == pc[u] \notin {"idle", "read", "lock", "locking"}

--------------------------------------------------------------------------------
(* What the commands find under the lock. *)

\* get -e: the delta, the new SID; an edit of it must not be open.
\* Mutant: the new SIDs of the open edits are not taken.
GetEditFree(u) ==
  LET f == sf[u]  got == choose(f, cmd[u].r)
  IN [got |-> Sid(f, got), user |-> u, new |-> new_sid(f, cmd[u].r, got, cmd[u].b, {})]

GetEdit(u) ==
  LET f == sf[u]  got == choose(f, cmd[u].r)
  IN [got |-> Sid(f, got), user |-> u,
      new |-> new_sid(f, cmd[u].r, got, cmd[u].b, {e.new : e \in pfile})]
MayGet(u) ==
  LET got == choose(sf[u], cmd[u].r)
  IN /\ got # 0
     /\ sf[u].j \/ \A e \in pfile : e.got # Sid(sf[u], got)
     /\ ~gfile[u]

\* delta and unget: the one edit of the user's.
OwnEdits(u) ==
  {e \in pfile : e.user = u /\ (cmd[u].r = <<>> \/ Parsed(cmd[u].r) \in {e.got, e.new})}
OneEdit(u) == Cardinality(OwnEdits(u)) = 1
TheEdit(u) == CHOOSE e \in OwnEdits(u) : TRUE

MayDelta(u) ==
  /\ OneEdit(u)
  /\ by_sid(sf[u], TheEdit(u).got) # 0
  /\ by_sid(sf[u], TheEdit(u).new) = 0
  /\ gfile[u]

\* rmdel: the last delta of its branch, of which no edit is open.
Leaf(f, k) == \A i \in is_d(f) : f.d[i].pred # k
MayRemove(u) ==
  LET s == Parsed(cmd[u].r)  k == by_sid(sf[u], s)
  IN k # 0 /\ Leaf(sf[u], k) /\ \A e \in pfile : s \notin {e.got, e.new}

\* The new version of the s-file.
NewFile(u) ==
  LET f == sf[u]  e == edit[u]
  IN CASE Does(u, "delta") ->
            [f EXCEPT !.d = Append(@, [sid |-> e.new, pred |-> by_sid(f, e.got), type |-> "D"])]
       [] Does(u, "rmdel") -> [f EXCEPT !.d[by_sid(f, Parsed(cmd[u].r))].type = "R"]
       [] Does(u, "admin") -> [f EXCEPT !.j = ~@]

\* The p-file that is left, or the one with a new entry.
NewEdits(u) == IF Does(u, "get") THEN pf[u] \cup {edit[u]} ELSE pf[u] \ {edit[u]}

Decide(u) ==
  /\ pc[u] = "locked"
  /\ pf' = [pf EXCEPT ![u] = pfile]
  /\ LET goes(e, where) == edit' = [edit EXCEPT ![u] = e] /\ Goes(u, where)
     IN \/ Does(u, "get") /\ MayGet(u) /\ goes(GetEdit(u), "write g")
        \/ Does(u, "delta") /\ MayDelta(u) /\ goes(TheEdit(u), "open x")
        \/ Does(u, "unget") /\ OneEdit(u) /\ goes(TheEdit(u), "write q")
        \/ Does(u, "rmdel") /\ MayRemove(u) /\ goes(NoEdit, "open x")
        \/ Does(u, "admin") /\ goes(NoEdit, "open x")
        \/ /\ \/ Does(u, "get") /\ ~MayGet(u)
              \/ Does(u, "delta") /\ ~MayDelta(u)
              \/ Does(u, "unget") /\ ~OneEdit(u)
              \/ Does(u, "rmdel") /\ ~MayRemove(u)
           /\ goes(NoEdit, "unlock")
  /\ UNCHANGED <<sfile, xfile, pfile, qfile, zfile, gfile, cmd, sf, cmds, faults, stolen>>

--------------------------------------------------------------------------------
(* The files are replaced. *)

Fault == faults < MaxFaults /\ faults' = faults + 1

\* get -e: the g-file is written before the edit is entered.
WriteG(u) ==
  /\ pc[u] = "write g"
  /\ gfile' = [gfile EXCEPT ![u] = TRUE]
  /\ \/ Goes(u, "write q") /\ UNCHANGED faults
     \/ Fault /\ Goes(u, "unlock")
  /\ UNCHANGED <<sfile, xfile, pfile, qfile, zfile, cmd, sf, pf, edit, cmds, stolen>>

\* An x-file that was left behind goes.
OpenX(u) ==
  /\ pc[u] = "open x"
  /\ xfile' = [by |-> u, f |-> [NewFile(u) EXCEPT !.whole = FALSE]]
  /\ Goes(u, "write x")
  /\ UNCHANGED <<sfile, pfile, qfile, zfile, gfile, cmd, sf, pf, edit, cmds, faults, stolen>>

\* Mutant: delta goes on when the s-file could not be written.
WriteXGoesOn(u) ==
  /\ pc[u] = "write x"
  /\ \/ /\ xfile' = IF xfile.by = u THEN [xfile EXCEPT !.f.whole = TRUE] ELSE xfile
        /\ Goes(u, "rename x") /\ UNCHANGED faults
     \/ Fault /\ xfile' = NoX /\ Goes(u, IF Does(u, "delta") THEN "write q" ELSE "unlock")
  /\ UNCHANGED <<sfile, pfile, qfile, zfile, gfile, cmd, sf, pf, edit, cmds, stolen>>

\* The write goes to the file that was opened, not to one that has its name by now.
WriteX(u) ==
  /\ pc[u] = "write x"
  /\ \/ /\ xfile' = IF xfile.by = u THEN [xfile EXCEPT !.f.whole = TRUE] ELSE xfile
        /\ Goes(u, "rename x") /\ UNCHANGED faults
     \/ Fault /\ xfile' = NoX /\ Goes(u, "unlock")
  /\ UNCHANGED <<sfile, pfile, qfile, zfile, gfile, cmd, sf, pf, edit, cmds, stolen>>

RenameX(u) ==
  /\ pc[u] = "rename x"
  /\ IF xfile.by = None THEN Goes(u, "unlock") /\ UNCHANGED sfile
     ELSE /\ sfile' = xfile.f
          /\ Goes(u, IF Does(u, "delta") THEN "write q" ELSE "unlock")
  /\ xfile' = NoX
  /\ UNCHANGED <<pfile, qfile, zfile, gfile, cmd, sf, pf, edit, cmds, faults, stolen>>

\* What follows a p-file that could not be written: delta goes on.
AfterFailedQ(u) == IF Does(u, "delta") THEN "unlink g" ELSE "unlock"
AfterQ(u) == IF Does(u, "get") THEN "unlock" ELSE "unlink g"

\* The last edit: the p-file goes.
UnlinkP(u) ==
  /\ pc[u] = "write q" /\ NewEdits(u) = {}
  /\ pfile' = {}
  /\ Goes(u, AfterQ(u))
  /\ UNCHANGED <<sfile, xfile, qfile, zfile, gfile, cmd, sf, pf, edit, cmds, faults, stolen>>

WriteQ(u) ==
  /\ pc[u] = "write q" /\ NewEdits(u) # {}
  /\ \/ qfile' = NewEdits(u) /\ Goes(u, "rename q") /\ UNCHANGED faults
     \/ Fault /\ qfile' = {} /\ Goes(u, AfterFailedQ(u))
  /\ UNCHANGED <<sfile, xfile, pfile, zfile, gfile, cmd, sf, pf, edit, cmds, stolen>>

RenameQ(u) ==
  /\ pc[u] = "rename q"
  /\ IF qfile = {} THEN Goes(u, AfterFailedQ(u)) /\ UNCHANGED pfile
     ELSE pfile' = qfile /\ Goes(u, AfterQ(u))
  /\ qfile' = {}
  /\ UNCHANGED <<sfile, xfile, zfile, gfile, cmd, sf, pf, edit, cmds, faults, stolen>>

UnlinkG(u) ==
  /\ pc[u] = "unlink g"
  /\ gfile' = [gfile EXCEPT ![u] = FALSE]
  /\ Goes(u, "unlock")
  /\ UNCHANGED <<sfile, xfile, pfile, qfile, zfile, cmd, sf, pf, edit, cmds, faults, stolen>>

\* The z-file goes; locked = 0.
unlock_sccs(u) ==
  /\ pc[u] = "unlock"
  /\ zfile' = None
  /\ stolen' = (stolen \/ zfile # u)
  /\ Goes(u, "unlocked")
  /\ UNCHANGED <<sfile, xfile, pfile, qfile, gfile, cmd, sf, pf, edit, cmds, faults>>

Unlocked(u) ==
  /\ pc[u] = "unlocked"
  /\ Over(u)
  /\ UNCHANGED <<sfile, xfile, pfile, qfile, zfile, gfile, cmds, faults, stolen>>

--------------------------------------------------------------------------------
(* Commands that are killed. *)

Kill(u) ==
  /\ pc[u] # "idle" /\ Fault
  /\ Over(u)
  /\ UNCHANGED <<sfile, xfile, pfile, qfile, zfile, gfile, cmds, stolen>>

\* The handler removes the z-file, also one that another command has made
\* since this one removed its own.
on_signal(u) ==
  /\ locked(u) /\ Fault
  /\ zfile' = None
  /\ stolen' = (stolen \/ zfile \notin {u, None})
  /\ Over(u)
  /\ UNCHANGED <<sfile, xfile, pfile, qfile, gfile, cmds>>

\* A user removes a lock whose command is gone.
Holds(u) == zfile = u /\ pc[u] \notin {"idle", "read", "lock", "unlocked"}
RemoveLock ==
  /\ zfile # None /\ ~Holds(zfile)
  /\ zfile' = None
  /\ UNCHANGED <<sfile, xfile, pfile, qfile, gfile, pc, cmd, sf, pf, edit, cmds, faults, stolen>>

--------------------------------------------------------------------------------

\* A file with one or two deltas, of which nothing is edited.
First == [sid |-> Release(1, 1), pred |-> 0, type |-> "D"]
Second == [sid |-> Release(1, 2), pred |-> 1, type |-> "D"]

Init ==
  /\ \E d \in {<<First>>, <<First, Second>>}, j \in BOOLEAN : sfile = [d |-> d, j |-> j, whole |-> TRUE]
  /\ xfile = NoX /\ pfile = {} /\ qfile = {} /\ zfile = None
  /\ gfile = [u \in Users |-> FALSE]
  /\ pc = [u \in Users |-> "idle"] /\ cmd = [u \in Users |-> NoCmd]
  /\ sf = [u \in Users |-> NoFile] /\ pf = [u \in Users |-> {}] /\ edit = [u \in Users |-> NoEdit]
  /\ cmds = 0 /\ faults = 0 /\ stolen = FALSE

Write(u) == OpenX(u) \/ WriteX(u) \/ RenameX(u) \/ WriteG(u) \/ UnlinkP(u) \/ WriteQ(u) \/ RenameQ(u) \/ UnlinkG(u)

Step(u) ==
  \/ Start(u) \/ sfile_read(u) \/ lock_sccs(u) \/ Locked(u) \/ Decide(u) \/ Write(u)
  \/ unlock_sccs(u) \/ Unlocked(u) \/ Kill(u) \/ on_signal(u)

Next == RemoveLock \/ \E u \in Users : Step(u)

Spec == Init /\ [][Next]_vars

--------------------------------------------------------------------------------

Sids == Nat \X Nat \X Nat \X Nat
File == [d : Seq([sid : Sids, pred : Nat, type : {"D", "R"}]), j : BOOLEAN, whole : BOOLEAN]
Edits == [got : Sids, new : Sids, user : Users]
AnyEdit == Edits \cup {NoEdit}
AnyCommand == Commands \cup {NoCmd}
Places == {"idle", "read", "lock", "locking", "locked", "write g", "open x", "write x", "rename x", "write q",
           "rename q", "unlink g", "unlock", "unlocked"}
TypeOK ==
  /\ sfile \in File /\ xfile \in [by : Users \cup {None}, f : File]
  /\ pfile \in SUBSET Edits /\ qfile \in SUBSET Edits /\ zfile \in Users \cup {None}
  /\ gfile \in [Users -> BOOLEAN] /\ pc \in [Users -> Places] /\ cmd \in [Users -> AnyCommand]
  /\ sf \in [Users -> File] /\ pf \in [Users -> SUBSET Edits] /\ edit \in [Users -> AnyEdit]
  /\ cmds \in 0..MaxCmds /\ faults \in 0..MaxFaults /\ stolen \in BOOLEAN

Working(u) == locked(u) /\ pc[u] # "unlocked"

\* One command at a time works on the files, so that no new SID is given to
\* two edits, nor to an edit and a delta that its command has seen: each open
\* edit can be checked in.  And without the j flag a delta has one edit.
Reserved ==
  ~stolen =>
    /\ \A u, v \in Users : Working(u) /\ Working(v) => u = v
    /\ \A e, f \in pfile : e # f => e.new # f.new

\* The s-file is always a whole version, whose SIDs are unique and in which
\* no delta has lost its predecessor.
Sound(f) ==
  /\ f.whole
  /\ \A k, i \in is_d(f) : k # i => Sid(f, k) # Sid(f, i)
  /\ \A k \in is_d(f) : f.d[k].pred \in {0} \cup (is_d(f) \cap 1..k - 1)
WholeFile == ~stolen => Sound(sfile)

\* TypeOK, Reserved and WholeFile.
FileKept == TypeOK /\ Reserved /\ WholeFile

\* Work is kept: a g-file goes only when its text is a delta of the s-file, or
\* by unget; an edit of the p-file likewise.
MadeDelta(e) == by_sid(sfile, e.new) # 0
KeptWork ==
  /\ \A u \in Users : gfile[u] /\ ~gfile'[u] => Does(u, "unget") \/ MadeDelta(edit[u])
  /\ \A e \in pfile \ pfile' :
       \E u \in Users : edit[u] = e /\ e.user = u /\ (Does(u, "unget") \/ MadeDelta(e))
WorkKept == [][~stolen => KeptWork]_vars

================================================================================
