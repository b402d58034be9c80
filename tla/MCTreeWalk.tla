------------------------------- MODULE MCTreeWalk -------------------------------
(* The walks of small hierarchies, with other processes that move directories.  *)
EXTENDS TreeWalk

VARIABLES below,  \* the files that were at any time below the source
          into,   \* and below the destination
          old     \* the file system at the start

\* 1: the root; t: 2 with a directory in a directory in a directory; o: 3 with
\* the same names; c: a destination there already; w: the directory of one.
Tree(links) ==
  [n \in Nodes |-> CASE n = 1 -> ("t" :> 2 @@ "o" :> 3 @@ "w" :> 14)
                     [] n = 2 -> ("d" :> 4 @@ "x" :> 5)
                     [] n = 3 -> ("d" :> 8 @@ "x" :> 9)
                     [] n = 4 -> ("d" :> 6) @@ (IF links = 0 THEN <<>> ELSE "l" :> 12)
                     [] n = 6 -> ("d" :> 7 @@ "x" :> 10)
                     [] n = 7 -> ("x" :> 11)
                     [] n = 14 -> (IF links = 3 THEN ("c" :> 13) ELSE <<>>)
                     [] OTHER -> <<>>]
KindAt(n, links) == IF n \in {1, 2, 3, 4, 6, 7, 8, 14} THEN "dir" ELSE IF n \in {5, 9, 10, 11} THEN "reg"
                    ELSE IF n = 12 /\ links # 0 THEN "lnk" ELSE IF n = 13 /\ links = 3 THEN "dir" ELSE "free"
\* The link leads to the root, to another directory, or to a file.
DataAt(n, links) == IF n = 12 THEN (CASE links = 1 -> 1 [] links = 2 -> 3 [] links = 3 -> 9 [] OTHER -> None)
                    ELSE IF KindAt(n, links) = "reg" THEN n ELSE None

RECURSIVE Reach(_, _, _)
Reach(k, e, S) == LET more == UNION {{e[d][n] : n \in DOMAIN e[d]} : d \in {x \in S : k[x] = "dir"}}
                  IN IF more \subseteq S THEN S ELSE Reach(k, e, S \union more)
Tasks == {[tool |-> "rm", i |-> ask, L |-> FALSE, from |-> 1, to |-> 1, links |-> l] : ask \in BOOLEAN, l \in {0, 2}}
         \union {[tool |-> "mv", i |-> FALSE, L |-> FALSE, from |-> 1, to |-> 14, links |-> l] : l \in {0, 2, 3}}
         \union {[tool |-> "cp", i |-> FALSE, L |-> f, from |-> 1, to |-> to, links |-> l] :
                   f \in BOOLEAN, l \in {0, 1, 2, 3}, to \in {14}}
         \union {[tool |-> "cp", i |-> FALSE, L |-> FALSE, from |-> 1, to |-> 6, links |-> l] : l \in {0, 3}}

MCInit ==
  \E t \in Tasks :
    /\ tool = t.tool /\ opt = t
    /\ kind = [n \in Nodes |-> KindAt(n, t.links)]
    /\ ents = Tree(t.links)
    /\ data = [n \in Nodes |-> DataAt(n, t.links)]
    /\ phase = "start" /\ stk = <<>> /\ nopen = [s |-> 0, d |-> 0] /\ looked = Nothing /\ made = {}
    /\ res = TRUE /\ status = 0 /\ moves = 0 /\ full = 0
    /\ below = Reach(kind, ents, {2}) /\ into = {} /\ old = [kind |-> kind, ents |-> ents, data |-> data]

\* Others move directories anywhere, but for mv only out of the hierarchy: what
\* is put into it after it was duplicated is removed with it; and not while a
\* link that leads round is followed.
DstRoot == IF Has(opt.to, Dest) THEN {Followed(ents[opt.to][Dest])} ELSE {}
Others == \E p \in Dirs \intersect Reach(kind, ents, {1}) : \E n \in DOMAIN ents[p] : \E q \in ({1, 3, 4, 6} \intersect Reach(kind, ents, {1})) \ {p} :
            /\ kind[ents[p][n]] = "dir" /\ p # 1 /\ ~(opt.L /\ opt.links = 1) /\ phase # "done"
            /\ tool = "mv" => q \notin Reach(kind, ents, {2}) \union into
            /\ Moved(p, n, q)
MCNext == /\ Walk \/ Others
          /\ below' = below \union Reach(kind', ents', {2})
          /\ into' = IF tool = "rm" THEN {} ELSE Reach(kind', ents', into \union DstRoot')
          /\ UNCHANGED old
MCSpec == MCInit /\ [][MCNext]_<<vars, below, into, old>>

-----------------------------------------------------------------------------
\* rm.c, mv.c: whatever is moved, an entry is only removed from a directory that
\* was at some time below the operand, or is the operand.
Gone == {<<d, n>> \in Dirs \X {"t", "o", "d", "x", "l", "c", "w"} : Has(d, n) /\ n \notin DOMAIN ents'[d]}
\* cp.c, mv.c: and only made in one that was below the destination.
Added == {d \in Dirs : DOMAIN ents'[d] \ DOMAIN ents[d] # {}}
Inside ==
  moves' = moves => /\ phase = "remove" => \A g \in Gone : g[1] \in below \/ g = <<opt.from, Source>>
                    /\ phase = "dup" => \A d \in Added : d \in into \/ d = opt.to
OnlyInside == [][Inside]_<<vars, below, into, old>>

\* mv.c: the source is removed only if all of it was duplicated: the data of
\* each of its files is, at every moment, somewhere.
Content(n) == \E m \in Reach(kind, ents, {1}) : kind[m] = "reg" /\ data[m] = n
NothingLost == tool = "mv" => \A n \in {5, 10, 11} : Content(n)

\* Undisturbed, each tool does all of its work, and nothing else.
RECURSIVE SameTree(_, _, _)
SameTree(x, y, links) ==
  LET a == IF links THEN (IF old.kind[x] = "lnk" THEN old.data[x] ELSE x) ELSE x
  IN /\ old.kind[a] = kind[y]
     /\ kind[y] = "dir" => /\ DOMAIN old.ents[a] = DOMAIN ents[y]
                           /\ \A n \in DOMAIN ents[y] : SameTree(old.ents[a][n], ents[y][n], links)
     /\ kind[y] # "dir" => data[y] = old.data[a]
Outside == Reach(old.kind, old.ents, {1}) \ Reach(old.kind, old.ents, {2})
Undisturbed == \A n \in Outside \ ({opt.from, opt.to} \union into) : ents[n] = old.ents[n] /\ data[n] = old.data[n]
Loop == opt.L /\ opt.links = 1
AllDone ==
  phase = "done" /\ moves = 0 /\ full = 0 =>
    /\ Undisturbed
    /\ tool = "rm" /\ ~opt.i => status = 0 /\ ~Has(opt.from, Source)
    /\ tool = "mv" /\ opt.links # 3 => status = 0 /\ ~Has(opt.from, Source) /\ SameTree(2, ents[opt.to][Dest], FALSE)
    /\ tool = "cp" /\ opt.to = 14 /\ ~Loop => status = 0 /\ SameTree(2, ents[opt.to][Dest], opt.L)
    /\ tool = "cp" /\ (opt.to = 6 \/ Loop) => status = 1
    /\ tool = "cp" => \A n \in Reach(old.kind, old.ents, {2}) : ents[n] = old.ents[n] /\ data[n] = old.data[n]
================================================================================
