-------------------------------- MODULE TreeWalk --------------------------------
(* rm -r, mv to another file system and cp -R: walks of a hierarchy relative to *)
(* open directories, of which a few are kept open, while other processes move   *)
(* directories about. mv duplicates and then removes; cp duplicates into what   *)
(* is there; rm removes.                                                        *)
EXTENDS Integers, Sequences, FiniteSets, SequencesExt, TLC

CONSTANTS
  Nodes,          \* the files
  Source, Dest,   \* the last components of the operands
  MaxOpen,        \* directory descriptors kept open
  Partial,        \* the data of a file that could not be written in full
  MaxMoves, MaxFull  \* what others do, and the times the disk is full

VARIABLES
  kind, ents, data,  \* the file system: a link's data is the file it leads to
  tool, opt,         \* rm, mv or cp; its options, and the directories of the operands
  phase,             \* "start", "dup", "remove", "done"
  stk,               \* the directories the walk is in
  nopen,             \* the count of open descriptors of each stack
  looked,            \* the file that was found by fstatat(), not yet acted on
  made,              \* the directories that this cp made
  res, status,       \* of the walk, and of the tool
  moves, full
fsvars == <<kind, ents, data>>
vars == <<kind, ents, data, tool, opt, phase, stk, nopen, looked, made, res, status, moves, full>>

None == 0
Closed == 0
Nothing == [n |-> Source, x |-> -1]
Dirs == {n \in Nodes : kind[n] = "dir"}
Has(d, n) == n \in DOMAIN ents[d]
Removed(f, n) == [m \in DOMAIN f \ {n} |-> f[m]]
ParentOf(x) == LET ps == {d \in Dirs : \E n \in DOMAIN ents[d] : ents[d][n] = x} IN
               IF ps = {} THEN None ELSE CHOOSE d \in ps : TRUE
Followed(x) == IF kind[x] = "lnk" THEN data[x] ELSE x
Fresh == {n \in Nodes : kind[n] = "free"}
New == CHOOSE n \in Fresh : \A m \in Fresh : n <= m

-----------------------------------------------------------------------------
(* The stacks: a level has a source and, when something is copied, a           *)
(* destination; either descriptor may be closed.                                *)

Top == stk[Len(stk)]
SrcDir == IF stk = <<>> THEN opt.from ELSE Top.s
DstDir == IF stk = <<>> THEN opt.to ELSE Top.d

\* The shallowest open level, other than the top, that may be closed.
Victims(st, side) == {i \in 1..(Len(st) - 1) : st[i][side] # Closed /\ (side = "s" => ~st[i].pinned)}
Pushed(st, side, n) ==
  LET v == Victims(st, side)
  IN IF n[side] + 1 > MaxOpen /\ v # {}
     THEN [st |-> [st EXCEPT ![CHOOSE i \in v : \A j \in v : i <= j][side] = Closed], n |-> n]
     ELSE [st |-> st, n |-> [n EXCEPT ![side] = @ + 1]]
ds_push(st, n, level, both) ==
  LET p == Pushed(Append(st, level), "s", n) IN IF both THEN Pushed(p.st, "d", p.n) ELSE p

\* Mutant: any directory is taken for the one below.
ReopenedAny(st, side, n) ==
  LET k == Len(st)
      up == IF st[k][side] = Closed THEN None ELSE ParentOf(st[k][side])
  IN IF k < 2 \/ st[k - 1][side] # Closed THEN [ok |-> TRUE, st |-> st, n |-> [n EXCEPT ![side] = @ - 1]]
     ELSE IF up # None THEN [ok |-> TRUE, st |-> [st EXCEPT ![k - 1][side] = up], n |-> n]
     ELSE [ok |-> FALSE, st |-> st, n |-> [n EXCEPT ![side] = @ - 1]]
\* Leaving the top level: the one below is opened again as its ".." if it was
\* closed, and must be the same directory.
Reopened(st, side, n) ==
  LET k == Len(st)
      below == st[k - 1][IF side = "s" THEN "src" ELSE "dst"]
      up == IF st[k][side] = Closed THEN None ELSE ParentOf(st[k][side])
  IN IF k < 2 \/ st[k - 1][side] # Closed THEN [ok |-> TRUE, st |-> st, n |-> [n EXCEPT ![side] = @ - 1]]
     ELSE IF up = below THEN [ok |-> TRUE, st |-> [st EXCEPT ![k - 1][side] = up], n |-> n]
     ELSE [ok |-> FALSE, st |-> st, n |-> [n EXCEPT ![side] = @ - 1]]
ds_pop(st, n, both) ==
  LET d == IF both THEN Reopened(st, "d", n) ELSE [ok |-> TRUE, st |-> st, n |-> n]
      s == Reopened(d.st, "s", d.n)
  IN [ok |-> s.ok /\ d.ok, st |-> SubSeq(s.st, 1, Len(st) - 1), n |-> s.n]

Copying == phase = "dup"
\* A file is done with: the directory it is in has it on its account.
Told(st, ok) == IF st = <<>> THEN st ELSE [st EXCEPT ![Len(st)].ok = @ /\ ok]
Return(ok) ==
  /\ stk' = Told(stk, ok)
  /\ res' = IF stk = <<>> THEN res /\ ok ELSE res
Failed == Return(FALSE) /\ status' = 1
Skipped(ok) == Return(ok) /\ UNCHANGED status

-----------------------------------------------------------------------------
(* The walk.                                                                    *)

\* mv: rename() fails, for the other file system; a file of the new name that
\* is there is removed first. cp: nothing is copied into itself.
RECURSIVE Above(_)
Above(x) == IF x = None THEN {} ELSE {x} \union Above(ParentOf(x))
Start ==
  /\ phase = "start"
  /\ LET there == Has(opt.to, Dest)
         old == IF there THEN ents[opt.to][Dest] ELSE None
         dir(x) == kind[x] = "dir"
     IN CASE tool = "rm" -> phase' = "remove" /\ UNCHANGED <<ents, status>>
          [] tool = "cp" -> phase' = "dup" /\ UNCHANGED <<ents, status>>
          [] tool = "mv" /\ ~there -> phase' = "dup" /\ UNCHANGED <<ents, status>>
          [] tool = "mv" /\ there ->
               IF dir(old) # dir(ents[opt.from][Source]) \/ (dir(old) /\ DOMAIN ents[old] # {})
               THEN phase' = "done" /\ status' = 1 /\ UNCHANGED ents
               ELSE phase' = "dup" /\ ents' = [ents EXCEPT ![opt.to] = Removed(@, Dest)] /\ UNCHANGED status
  /\ looked' = [n |-> Source, x |-> None]
  /\ UNCHANGED <<kind, data, tool, opt, stk, nopen, made, res, moves, full>>

\* The next name of the directory on top; its descriptor may have been lost.
Next1 ==
  /\ stk # <<>> /\ looked = Nothing /\ Top.left # {}
  /\ \E n \in Top.left :
       LET st == [stk EXCEPT ![Len(stk)].left = @ \ {n}]
           lost == Top.s = Closed \/ (Copying /\ Top.d = Closed)
       IN IF lost \/ (tool = "mv" /\ Copying /\ ~Top.ok)
          THEN /\ stk' = Told(st, FALSE)
               /\ status' = IF tool = "rm" THEN 1 ELSE status
               /\ UNCHANGED looked
          ELSE stk' = st /\ looked' = [n |-> n, x |-> None] /\ UNCHANGED status
  /\ UNCHANGED <<kind, ents, data, tool, opt, phase, nopen, made, res, moves, full>>

\* fstatat(): what the name is. cp follows a link as its options say.
Follows == tool = "cp" /\ Copying /\ opt.L
Look ==
  /\ looked # Nothing /\ looked.x = None
  /\ IF Has(SrcDir, looked.n)
     THEN looked' = [looked EXCEPT !.x = IF Follows THEN Followed(ents[SrcDir][looked.n]) ELSE ents[SrcDir][looked.n]]
          /\ UNCHANGED <<stk, res, status>>
     ELSE looked' = Nothing /\ Failed
  /\ UNCHANGED <<kind, ents, data, tool, opt, phase, nopen, made, moves, full>>

Found == looked # Nothing /\ looked.x # None
ThereNow == Has(SrcDir, looked.n)
Now == IF Follows THEN Followed(ents[SrcDir][looked.n]) ELSE ents[SrcDir][looked.n]
Acted == looked' = Nothing /\ UNCHANGED <<tool, opt, phase, moves>>

Level(s, d) ==
  [src |-> s, s |-> s, dst |-> d, d |-> d, name |-> looked.n, left |-> DOMAIN ents[s], ok |-> TRUE, pinned |-> FALSE]
Enter(s, d, both, vialink) ==
  LET st == IF vialink /\ stk # <<>> THEN [stk EXCEPT ![Len(stk)].pinned = TRUE] ELSE stk
      p == ds_push(st, nopen, Level(s, d), both)
  IN stk' = p.st /\ nopen' = p.n

\* rm, and the end of mv: a file is unlinked, a directory entered; with -i
\* the user is asked.
RemoveFile ==
  /\ Found /\ phase = "remove" /\ kind[looked.x] # "dir"
  /\ \/ /\ ThereNow /\ kind[Now] # "dir"
        /\ ents' = [ents EXCEPT ![SrcDir] = Removed(@, looked.n)]
        /\ Skipped(TRUE)
     \/ ~(ThereNow /\ kind[Now] # "dir") /\ Failed /\ UNCHANGED ents
     \/ opt.i /\ Skipped(FALSE) /\ UNCHANGED ents
  /\ Acted /\ UNCHANGED <<kind, data, nopen, made, full>>
RemoveDir ==
  /\ Found /\ phase = "remove" /\ kind[looked.x] = "dir"
  /\ \/ ~(ThereNow /\ Now = looked.x) /\ Failed /\ UNCHANGED nopen
     \/ ThereNow /\ Now = looked.x /\ Enter(looked.x, None, FALSE, FALSE) /\ UNCHANGED <<res, status>>
     \/ opt.i /\ ThereNow /\ Now = looked.x /\ DOMAIN ents[Now] # {} /\ Skipped(FALSE) /\ UNCHANGED nopen
  /\ Acted /\ UNCHANGED <<kind, ents, data, made, full>>
LeaveRemoved ==
  /\ phase = "remove" /\ stk # <<>> /\ looked = Nothing /\ Top.left = {}
  /\ LET p == ds_pop(stk, nopen, FALSE)
         dir == IF p.st = <<>> THEN opt.from ELSE p.st[Len(p.st)].s
         gone == p.ok /\ Top.ok
         can == dir # Closed /\ Has(dir, Top.name) /\ kind[ents[dir][Top.name]] = "dir"
                /\ DOMAIN ents[ents[dir][Top.name]] = {}
         back(ok) == stk' = Told(p.st, ok) /\ res' = IF p.st = <<>> THEN res /\ ok ELSE res
     IN /\ nopen' = p.n
        /\ \/ gone /\ can /\ ents' = [ents EXCEPT ![dir] = Removed(@, Top.name)] /\ back(TRUE) /\ UNCHANGED status
           \/ ~(gone /\ can) /\ back(FALSE) /\ status' = (IF p.ok /\ ~Top.ok THEN status ELSE 1) /\ UNCHANGED ents
           \/ opt.i /\ gone /\ back(FALSE) /\ UNCHANGED <<ents, status>>
  /\ UNCHANGED <<kind, data, tool, opt, phase, looked, made, moves, full>>

\* A file that is not a directory is duplicated: a regular file or a link. mv
\* finds none of the name; cp writes into the one there is, through a link,
\* or replaces a link or its target. The disk may be full.
Target == IF phase # "dup" \/ DstDir = None THEN looked.n ELSE IF stk = <<>> THEN Dest ELSE looked.n
DstHas == Has(DstDir, Target)
DstNow == ents[DstDir][Target]
Make(k, v) == /\ kind' = [kind EXCEPT ![New] = k] /\ data' = [data EXCEPT ![New] = v]
              /\ ents' = [ents EXCEPT ![DstDir] = (Target :> New) @@ @]
Same == tool = "cp" /\ DstHas /\ (IF kind[looked.x] = "lnk" THEN DstNow ELSE Followed(DstNow)) = looked.x
CopyFile ==
  /\ Found /\ Copying /\ kind[looked.x] # "dir"
  /\ IF Same \/ ~ThereNow \/ (tool = "mv" /\ DstHas) THEN Failed /\ UNCHANGED <<fsvars, full>>
     ELSE IF kind[Now] = "dir" THEN Failed /\ UNCHANGED <<fsvars, full>>
     ELSE IF kind[looked.x] = "lnk"
          THEN IF DstHas /\ kind[DstNow] = "dir" THEN Failed /\ UNCHANGED <<fsvars, full>>
               ELSE Make("lnk", data[Now]) /\ Skipped(TRUE) /\ UNCHANGED full
     ELSE IF DstHas
          THEN IF kind[Followed(DstNow)] = "dir" THEN Failed /\ UNCHANGED <<fsvars, full>>
               ELSE /\ data' = [data EXCEPT ![Followed(DstNow)] = data[Now]]
                    /\ Skipped(TRUE) /\ UNCHANGED <<kind, ents, full>>
     ELSE \/ Make("reg", data[Now]) /\ Skipped(TRUE) /\ UNCHANGED full
          \/ full < MaxFull /\ full' = full + 1 /\ Make("reg", Partial) /\ Failed
  /\ Acted /\ UNCHANGED <<nopen, made>>

\* A directory: mv makes it; cp uses one that is there, and does not enter one
\* it has made, one it is in, or the destination itself.
InStack(x) == \E i \in DOMAIN stk : stk[i].src = x
IntoItself == tool = "cp" /\ stk = <<>> /\ looked.x \in Above(opt.to)
CopyDir ==
  /\ Found /\ Copying /\ kind[looked.x] = "dir"
  /\ LET linked == ThereNow /\ kind[ents[SrcDir][looked.n]] = "lnk"
         there == IF stk = <<>> /\ DstHas THEN Followed(DstNow) ELSE IF DstHas THEN DstNow ELSE None
     IN IF tool = "cp" /\ ~Same /\ looked.x \in made THEN Skipped(TRUE) /\ UNCHANGED <<fsvars, nopen, made>>
        ELSE IF Same \/ IntoItself \/ (tool = "cp" /\ InStack(looked.x)) \/ ~ThereNow \/ (ThereNow /\ Now # looked.x)
                \/ (DstHas /\ (tool = "mv" \/ kind[there] # "dir"))
        THEN Failed /\ UNCHANGED <<fsvars, nopen, made>>
        ELSE IF DstHas
        THEN Enter(looked.x, there, TRUE, linked) /\ UNCHANGED <<kind, ents, data, made, res, status>>
        ELSE /\ Make("dir", None) /\ made' = made \union {New}
             /\ Enter(looked.x, New, TRUE, linked) /\ UNCHANGED <<res, status>>
  /\ Acted /\ UNCHANGED full
LeaveCopied ==
  /\ Copying /\ stk # <<>> /\ looked = Nothing /\ Top.left = {}
  /\ LET p == ds_pop(stk, nopen, TRUE)
         ok == p.ok /\ Top.ok
     IN /\ stk' = Told(p.st, ok) /\ nopen' = p.n
        /\ res' = IF p.st = <<>> THEN res /\ ok ELSE res
        /\ status' = IF p.ok THEN status ELSE 1
  /\ UNCHANGED <<kind, ents, data, tool, opt, phase, looked, made, moves, full>>

\* Mutant: mv removes the source whatever was duplicated.
OverAnyway ==
  /\ phase \in {"dup", "remove"} /\ stk = <<>> /\ looked = Nothing
  /\ IF tool = "mv" /\ Copying 
     THEN phase' = "remove" /\ looked' = [n |-> Source, x |-> None] /\ UNCHANGED status
     ELSE phase' = "done" /\ status' = (IF res THEN status ELSE IF Copying /\ tool = "mv" THEN 1 ELSE status) /\ UNCHANGED looked
  /\ UNCHANGED <<kind, ents, data, tool, opt, stk, nopen, made, res, moves, full>>
\* The walk is over: mv removes the source if all of it was duplicated.
Over ==
  /\ phase \in {"dup", "remove"} /\ stk = <<>> /\ looked = Nothing
  /\ IF tool = "mv" /\ Copying /\ res
     THEN phase' = "remove" /\ looked' = [n |-> Source, x |-> None] /\ UNCHANGED status
     ELSE phase' = "done" /\ status' = (IF res THEN status ELSE IF Copying /\ tool = "mv" THEN 1 ELSE status) /\ UNCHANGED looked
  /\ UNCHANGED <<kind, ents, data, tool, opt, stk, nopen, made, res, moves, full>>

\* Another process moves a file to another directory.
Moved(p, n, q) ==
  /\ moves < MaxMoves /\ moves' = moves + 1
  /\ Has(p, n) /\ ~Has(q, n) /\ ents[p][n] \notin Above(q)
  /\ ents' = [ents EXCEPT ![p] = Removed(@, n), ![q] = (n :> ents[p][n]) @@ @]
  /\ UNCHANGED <<kind, data, tool, opt, phase, stk, nopen, looked, made, res, status, full>>

Walk == \/ Start \/ Next1 \/ Look \/ RemoveFile \/ RemoveDir \/ LeaveRemoved
        \/ CopyFile \/ CopyDir \/ LeaveCopied \/ Over
================================================================================
