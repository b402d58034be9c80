-------------------------------- MODULE MCSccs --------------------------------
(* The weave of an SCCS file and the files beside it, for TLC.  A behaviour   *)
(* is about one of them; the other's variables stay as they are.              *)
EXTENDS SccsLock, TLC

CONSTANTS a, b, ann, bob

VARIABLES part, d, body

weave == <<d, body>>
all == <<part, weave, vars>>

Weave == INSTANCE SccsWeave WITH Lines <- {a, b}, MaxLines <- 2, MaxTotal <- 2, MaxDeltas <- 4, MaxLists <- 2

MCUsers == {ann, bob}
MCRequests == {<<>>, <<2>>}

ASSUME Bounds == Weave!WeaveBounds

Symmetry == Permutations({a, b}) \union Permutations({ann, bob})

MCInit ==
  \/ part = "weave" /\ Weave!Init /\ Init /\ sfile.d = <<First>> /\ sfile.j
  \/ part = "lock" /\ Init /\ d = 0 /\ body = 0
MCNext ==
  \/ part = "weave" /\ Weave!Next /\ UNCHANGED <<part, vars>>
  \/ part = "lock" /\ Next /\ UNCHANGED <<part, weave>>
MCSpec == MCInit /\ [][MCNext]_all

\* Each version that was checked in can be got again, whatever deltas follow
\* (VersionsKept of SccsWeave: weave.c).
VersionsKept == part = "weave" => Weave!VersionsKept
=============================================================================
