---------------------------- MODULE AtSpoolProofs ----------------------------
(***************************************************************************)
(* Proofs about the spool of at and atd, for every number of submissions,  *)
(* of at -r and of atd's, any times and queues, whatever is killed and     *)
(* whichever forks fail -- as long as at is not killed between the         *)
(* truncation of the counter and the write, which lets two jobs have one   *)
(* ID.                                                                     *)
(***************************************************************************)
EXTENDS AtSpool, FiniteSetTheorems, TLAPS

-----------------------------------------------------------------------------
(* The inductive invariant.                                                *)

\* The lock is held from the read of the counter to the write.  A number is given once:
\* the one that is about to be written is above all others, and so is the next.
NumberInv ==
  /\ \A s \in Sub : spc[s] \in {"read", "write"} => lock = s
  /\ \A s \in Sub : spc[s] \in {"idle", "lock", "read"} => num[s] = 0
  /\ \A s \in Sub : spc[s] \in {"write", "create", "rename", "told"} => num[s] # 0
  /\ \A s, u \in Sub : num[s] # 0 /\ num[s] = num[u] => s = u
  /\ \A s, u \in Sub : spc[s] = "write" => num[u] <= num[s]
  /\ (\A s \in Sub : spc[s] # "write") => \A u \in Sub : num[u] <= seq
  /\ \A s \in Sub : spc[s] # "idle" => when[s] \in Times

\* A file has the ID of its job.
Holds(f, i, s) == f[i] = s => i = Id(s) /\ num[s] # 0
Unrun(s) == spc[s] = "told" /\ ran[s] = 0 /\ s \notin removed
FileInv ==
  /\ \A i \in Ids, s \in Sub : Holds(tmp, i, s) /\ Holds(file, i, s) /\ Holds(claim, i, s)
  /\ \A i \in Ids, s \in Sub : tmp[i] = s => spc[s] \in {"rename", "failed"}
  /\ \A s \in Sub : spc[s] = "rename" => tmp[Id(s)] = s
  /\ \A i \in Ids, s \in Sub : file[i] = s => Unrun(s) /\ claim[i] = None
  /\ \A i \in Ids, s \in Sub : claim[i] = s => spc[s] = "told" /\ s \notin removed

\* A job is run once, and not when it was removed.
RanInv ==
  /\ \A s \in Sub : ran[s] \in {0, 1} /\ (shell[s] = "none" <=> ran[s] = 0)
  /\ \A s \in Sub : ran[s] = 1 \/ s \in removed => spc[s] = "told"
  /\ \A s \in Sub : s \in removed => ran[s] = 0
  /\ \A a \in Atd : \A x \in runs[a] : x.id = Id(x.sub) /\ ran[x.sub] = 1

\* What is listed is a job that was submitted, so that no two have the same place in the order.
Told(x) == \E s \in Sub : spc[s] = "told" /\ x = [id |-> Id(s), when |-> when[s]]
ListInv == \A a \in Atd : \A x \in list[a] \cup todo[a] : Told(x)

\* The job that is about to be run is claimed and was not run yet; nobody else is about
\* to run it; if it is of queue b, no other of it is running.
ForkInv ==
  /\ \A a \in Atd : apc[a] = "fork" =>
       \A x \in todo[a] : IsNext(a, x) =>
         /\ claim[x.id] # None /\ ran[claim[x.id]] = 0
         /\ ~Held(a, x)
  /\ \A a, b \in Atd : apc[a] = "fork" /\ apc[b] = "fork" /\ a # b =>
       \A x \in todo[a], y \in todo[b] : IsNext(a, x) /\ IsNext(b, y) => x.id # y.id

Inv == TypeOK /\ NumberInv /\ FileInv /\ RanInv /\ ListInv /\ ForkInv /\ BatchOneAtATime

-----------------------------------------------------------------------------
(* Numbers and IDs.                                                        *)

LEMMA Numbers ==
  Number \subseteq Nat \ {0} /\ Cardinality(Sub) \in Nat
  BY SubAssumption, FS_CardinalityType DEF Number

\* A submission with a number has an ID, and no other has it.
LEMMA IdOf ==
  ASSUME TypeOK, NumberInv, NEW s \in Sub, num[s] # 0
  PROVE  /\ Id(s) \in Ids /\ Id(s)[1] = num[s] /\ Id(s)[2] = Queue[s]
         /\ \A u \in Sub : Id(s) = Id(u) \/ num[s] = num[u] => s = u
  <1>1. num[s] \in Number /\ Queue[s] \in {"a", "b"}
    BY QueueAssumption DEF TypeOK
  <1>2. \A u \in Sub : Id(u)[1] = num[u]
    BY DEF Id
  <1> QED
    BY <1>1, <1>2 DEF Id, Ids, NumberInv

LEMMA ListedType ==
  ASSUME TypeOK, NumberInv, NEW x, Told(x)
  PROVE  x \in Listed /\ x.id \in Ids /\ x.when \in Times
  <1> PICK s \in Sub : spc[s] = "told" /\ x = [id |-> Id(s), when |-> when[s]]
    BY DEF Told
  <1>1. num[s] # 0 /\ when[s] \in Times
    BY DEF NumberInv
  <1> QED
    BY <1>1, IdOf DEF Listed

\* cmp_jobs has one least job.
LEMMA OneNext ==
  ASSUME TypeOK, NumberInv, ListInv, NEW a \in Atd, NEW x \in todo[a], NEW y \in todo[a],
         IsNext(a, x), IsNext(a, y)
  PROVE  x = y
  <1> PICK s \in Sub : spc[s] = "told" /\ x = [id |-> Id(s), when |-> when[s]]
    BY DEF ListInv, Told
  <1> PICK u \in Sub : spc[u] = "told" /\ y = [id |-> Id(u), when |-> when[u]]
    BY DEF ListInv, Told
  <1>1. num[s] # 0 /\ num[u] # 0 /\ num[s] \in Nat /\ num[u] \in Nat
    BY Numbers DEF NumberInv, TypeOK
  <1>2. when[s] \in Nat /\ when[u] \in Nat
    BY DEF NumberInv, Times
  <1>3. ~Before(x, y) /\ ~Before(y, x)
    BY DEF IsNext
  <1>4. when[s] = when[u] /\ num[s] = num[u]
    BY <1>1, <1>2, <1>3, IdOf DEF Before
  <1> QED
    BY <1>1, <1>4, IdOf

-----------------------------------------------------------------------------
(* Steps of at.                                                            *)

\* What is not at's does not change when a submission that is not yet told gets on.
LEMMA AtFrame ==
  ASSUME Inv, UNCHANGED <<claim, atd, ran, removed>>,
         \A s \in Sub : shell'[s] = "none" <=> shell[s] = "none",
         \A s \in Sub : spc[s] = "told" =>
           spc'[s] = "told" /\ num'[s] = num[s] /\ when'[s] = when[s]
  PROVE  RanInv' /\ ListInv' /\ ForkInv' /\ BatchOneAtATime'
  <1> USE DEF Inv, atd
  <1>1. \A s \in Sub : spc[s] = "told" => Id(s)' = Id(s)
    BY DEF Id
  <1>2. RanInv'
    <2>1. \A a \in Atd : \A x \in runs[a] : x.id = Id(x.sub)'
      BY <1>1 DEF RanInv, TypeOK
    <2> QED
      BY <2>1 DEF RanInv
  <1>3. \A x : Told(x) => Told(x)'
    BY <1>1 DEF Told
  <1>4. ListInv'
    BY <1>3 DEF ListInv
  <1>5. ForkInv'
    BY DEF ForkInv, IsNext, Held, BatchRunning
  <1>6. BatchOneAtATime'
    BY DEF BatchOneAtATime
  <1> QED
    BY <1>2, <1>4, <1>5, <1>6

\* The files stay as they are when only a submission without files gets on.
LEMMA FilesStay ==
  ASSUME Inv, UNCHANGED <<tmp, file, claim, ran, removed>>,
         NEW s \in Sub, spc[s] \in {"idle", "lock", "read", "write", "create"} \/ spc'[s] = "failed",
         spc[s] # "told", spc'[s] \notin {"rename", "told"},
         \A u \in Sub \ {s} : spc'[u] = spc[u],
         \A u \in Sub : num[u] # 0 => num'[u] = num[u]
  PROVE  FileInv'
  <1> USE DEF Inv
  <1>1. \A u \in Sub : num[u] # 0 => Id(u)' = Id(u)
    BY DEF Id
  <1>2. \A u \in Sub : Unrun(u) => Unrun(u)'
    BY DEF Unrun
  <1>3. \A i \in Ids, u \in Sub : (Holds(tmp, i, u) /\ Holds(file, i, u) /\ Holds(claim, i, u))'
    BY <1>1 DEF Holds, FileInv
  <1>4. \A u \in Sub : spc'[u] = "rename" => spc[u] = "rename" /\ num[u] # 0
    BY DEF NumberInv
  <1>5. \A i \in Ids, u \in Sub : tmp[i] = u => spc'[u] \in {"rename", "failed"}
    BY DEF FileInv
  <1> QED
    BY <1>1, <1>2, <1>3, <1>4, <1>5 DEF FileInv

LEMMA BeginStep ==
  ASSUME Inv, NEW s \in Sub, Begin(s)
  PROVE  Inv'
  <1> USE DEF Inv, Begin, atr, shells
  <1>1. TypeOK'
    BY DEF TypeOK, atd
  <1>2. NumberInv'
    BY DEF NumberInv, TypeOK
  <1>3. FileInv'
    BY FilesStay DEF TypeOK
  <1>4. RanInv' /\ ListInv' /\ ForkInv' /\ BatchOneAtATime'
    BY AtFrame DEF TypeOK
  <1> QED
    BY <1>1, <1>2, <1>3, <1>4

LEMMA LockStep ==
  ASSUME Inv, NEW s \in Sub, LockSeq(s)
  PROVE  Inv'
  <1> USE DEF Inv, LockSeq, Unlocked, atr, shells
  <1>1. TypeOK'
    BY DEF TypeOK, atd
  <1>2. NumberInv'
    BY SubAssumption DEF NumberInv, TypeOK
  <1>3. FileInv'
    BY FilesStay DEF TypeOK
  <1>4. RanInv' /\ ListInv' /\ ForkInv' /\ BatchOneAtATime'
    BY AtFrame DEF TypeOK
  <1> QED
    BY <1>1, <1>2, <1>3, <1>4

\* The number that is read is above all that were given: only one can be between the read
\* and the write.
LEMMA ReadStep ==
  ASSUME Inv, NEW s \in Sub, ReadSeq(s)
  PROVE  Inv'
  <1> USE DEF Inv, ReadSeq, atr, shells
  <1>1. TypeOK'
    BY DEF TypeOK, atd
  <1>2. num[s] = 0 /\ \A u \in Sub : spc[u] # "write"
    BY DEF NumberInv
  <1>3. seq \in Nat /\ seq + 1 \in Nat \ {0} /\ \A u \in Sub : num[u] \in Nat /\ num[u] <= seq
    <2>1. seq \in {0} \cup Number /\ \A u \in Sub : num[u] \in {0} \cup Number
      BY DEF TypeOK
    <2>2. \A u \in Sub : num[u] <= seq
      BY <1>2 DEF NumberInv
    <2>3. \A n \in {0} \cup Number : n \in Nat /\ n + 1 \in Nat \ {0}
      BY Numbers
    <2> QED
      BY <2>1, <2>2, <2>3
  <1>4. /\ num'[s] = seq + 1 /\ spc'[s] = "write"
        /\ \A u \in Sub \ {s} : num'[u] = num[u] /\ spc'[u] = spc[u]
    BY DEF TypeOK
  <1>5. NumberInv'
    BY <1>2, <1>3, <1>4 DEF NumberInv
  <1>6. FileInv'
    BY <1>2, <1>4, FilesStay
  <1>7. RanInv' /\ ListInv' /\ ForkInv' /\ BatchOneAtATime'
    BY <1>4, AtFrame
  <1> QED
    BY <1>1, <1>5, <1>6, <1>7

LEMMA WriteStep ==
  ASSUME Inv, NEW s \in Sub, WriteSeq(s)
  PROVE  Inv'
  <1> USE DEF Inv, WriteSeq, atr, shells
  <1>1. TypeOK'
    BY DEF TypeOK, atd
  <1>2. lock = s /\ \A u \in Sub \ {s} : spc[u] \notin {"read", "write"}
    BY DEF NumberInv
  <1>3. spc'[s] = "create" /\ \A u \in Sub \ {s} : spc'[u] = spc[u]
    BY DEF TypeOK
  <1>4. NumberInv'
    BY <1>2, <1>3 DEF NumberInv
  <1>5. FileInv'
    BY <1>3, FilesStay
  <1>6. RanInv' /\ ListInv' /\ ForkInv' /\ BatchOneAtATime'
    BY <1>3, AtFrame
  <1> QED
    BY <1>1, <1>4, <1>5, <1>6

LEMMA CreateStep ==
  ASSUME Inv, NEW s \in Sub, Create(s)
  PROVE  Inv'
  <1> USE DEF Inv, Create, atr, shells
  <1>1. num[s] # 0 /\ Id(s) \in Ids
    BY IdOf DEF NumberInv
  <1>2. TypeOK'
    BY <1>1 DEF TypeOK, atd
  <1>3. spc'[s] \in {"rename", "failed"} /\ \A u \in Sub \ {s} : spc'[u] = spc[u]
    BY DEF TypeOK
  <1>4. NumberInv'
    BY <1>1, <1>3 DEF NumberInv
  <1>5. FileInv'
    <2>1. CASE tmp[Id(s)] # None
      BY <2>1, <1>3, FilesStay DEF TypeOK
    <2>2. CASE tmp[Id(s)] = None
      <3>1. tmp'[Id(s)] = s /\ spc'[s] = "rename" /\ \A i \in Ids \ {Id(s)} : tmp'[i] = tmp[i]
        BY <2>2, <1>1 DEF TypeOK
      <3>2. \A i \in Ids, u \in Sub : (Holds(tmp, i, u) /\ Holds(file, i, u) /\ Holds(claim, i, u))'
        BY <3>1, <1>1 DEF Holds, FileInv, Id
      <3>3. \A i \in Ids, u \in Sub : tmp'[i] = u => spc'[u] \in {"rename", "failed"}
        BY <3>1, <1>3 DEF FileInv
      <3>4. \A u \in Sub : spc'[u] = "rename" => tmp'[Id(u)'] = u
        <4>1. \A u \in Sub \ {s} : spc[u] = "rename" => num[u] # 0 /\ tmp[Id(u)] = u
          BY DEF FileInv, NumberInv
        <4> QED
          BY <4>1, <3>1, <1>3, <1>1, <2>2, SubAssumption, IdOf DEF Id
      <3>5. \A u \in Sub : Unrun(u) => Unrun(u)'
        BY <1>3 DEF Unrun
      <3> QED
        BY <3>2, <3>3, <3>4, <3>5, <1>3 DEF FileInv
    <2> QED
      BY <2>1, <2>2
  <1>6. RanInv' /\ ListInv' /\ ForkInv' /\ BatchOneAtATime'
    BY <1>3, AtFrame
  <1> QED
    BY <1>2, <1>4, <1>5, <1>6

\* rename gives the file a name that nobody has had.
LEMMA PublishStep ==
  ASSUME Inv, NEW s \in Sub, Publish(s)
  PROVE  Inv'
  <1> USE DEF Inv, Publish, atr, shells
  <1>1. num[s] # 0 /\ Id(s) \in Ids /\ tmp[Id(s)] = s
    BY IdOf DEF NumberInv, FileInv
  <1>2. TypeOK'
    BY <1>1 DEF TypeOK, atd
  <1>3. spc'[s] = "told" /\ \A u \in Sub \ {s} : spc'[u] = spc[u]
    BY DEF TypeOK
  <1>4. NumberInv'
    BY <1>1, <1>3 DEF NumberInv
  <1>5. /\ file'[Id(s)] = s /\ tmp'[Id(s)] = None
        /\ \A i \in Ids \ {Id(s)} : tmp'[i] = tmp[i] /\ file'[i] = file[i]
    BY <1>1 DEF TypeOK
  <1>6. claim[Id(s)] = None
    <2>1. \A u \in Sub : claim[Id(s)] = u => u = s /\ spc[u] = "told"
      BY <1>1, IdOf DEF FileInv, Holds
    <2> QED
      BY <2>1, <1>1 DEF TypeOK
  <1>7. Unrun(s)'
    BY <1>3 DEF Unrun, RanInv, TypeOK
  <1>8. FileInv'
    <2>1. \A i \in Ids, u \in Sub : (Holds(tmp, i, u) /\ Holds(file, i, u) /\ Holds(claim, i, u))'
      BY <1>1, <1>5, SubAssumption DEF Holds, FileInv, Id
    <2>2. \A i \in Ids, u \in Sub : tmp'[i] = u => spc'[u] \in {"rename", "failed"}
      <3>1. \A i \in Ids \ {Id(s)} : tmp[i] # s
        BY <1>1 DEF FileInv, Holds
      <3> QED
        BY <3>1, <1>3, <1>5, SubAssumption DEF FileInv
    <2>3. \A u \in Sub : spc'[u] = "rename" => tmp'[Id(u)'] = u
      <3>1. \A u \in Sub \ {s} : spc[u] = "rename" => Id(u) \in Ids /\ Id(u) # Id(s) /\ tmp[Id(u)] = u
        BY <1>1, IdOf DEF FileInv, NumberInv
      <3> QED
        BY <3>1, <1>3, <1>5 DEF Id
    <2>4. \A u \in Sub : Unrun(u) => Unrun(u)'
      BY <1>3 DEF Unrun
    <2>5. \A i \in Ids, u \in Sub : file'[i] = u => Unrun(u)' /\ claim'[i] = None
      BY <1>5, <1>6, <1>7, <2>4 DEF FileInv
    <2> QED
      BY <2>1, <2>2, <2>3, <2>5, <1>3 DEF FileInv
  <1>9. RanInv' /\ ListInv' /\ ForkInv' /\ BatchOneAtATime'
    BY <1>3, AtFrame
  <1> QED
    BY <1>2, <1>4, <1>8, <1>9

\* An at that is killed leaves the counter whole.
LEMMA KillAtStep ==
  ASSUME Inv, ~TornCounter, NEW s \in Sub, KillAt(s)
  PROVE  Inv'
  <1> USE DEF Inv, KillAt, atr, shells
  <1>1. TypeOK'
    BY BoundAssumption DEF TypeOK, atd
  <1>2. /\ spc[s] \notin {"write", "told"} /\ spc'[s] = "failed" /\ when[s] \in Times
        /\ \A u \in Sub \ {s} : spc'[u] = spc[u]
    BY DEF TypeOK, NumberInv
  <1>3. \A u \in Sub \ {s} : spc[u] \in {"read", "write"} => lock' = u
    BY DEF NumberInv
  <1>4. NumberInv'
    BY <1>2, <1>3 DEF NumberInv
  <1>5. FileInv'
    BY <1>2, FilesStay
  <1>6. RanInv' /\ ListInv' /\ ForkInv' /\ BatchOneAtATime'
    BY <1>2, AtFrame
  <1> QED
    BY <1>1, <1>4, <1>5, <1>6

-----------------------------------------------------------------------------
(* Steps of at -r and atd.                                                 *)

\* at's variables are not touched.
LEMMA NumbersStay ==
  ASSUME Inv, UNCHANGED at
  PROVE  NumberInv' /\ \A s \in Sub : Id(s)' = Id(s)
  BY DEF Inv, at, NumberInv, Id

\* What an atd that is not about to run a job looks at, without any file.
LEMMA LookStep ==
  ASSUME Inv, UNCHANGED <<at, file, claim, removed, shells>>, NEW a \in Atd,
         list' \in [Atd -> SUBSET Listed], todo' \in [Atd -> SUBSET Listed],
         \A x \in list'[a] \cup todo'[a] : Told(x), apc'[a] # "fork", runs'[a] \subseteq runs[a],
         \A b \in Atd \ {a} :
           apc'[b] = apc[b] /\ list'[b] = list[b] /\ todo'[b] = todo[b] /\ runs'[b] = runs[b]
  PROVE  NumberInv' /\ FileInv' /\ RanInv' /\ ListInv' /\ ForkInv' /\ BatchOneAtATime'
  <1> USE DEF Inv, at, shells
  <1>1. NumberInv' /\ \A s \in Sub : Id(s)' = Id(s)
    BY NumbersStay
  <1>2. FileInv'
    BY <1>1 DEF FileInv, Holds, Unrun
  <1>3. RanInv'
    <2>1. \A b \in Atd : \A x \in runs'[b] : x.id = Id(x.sub)' /\ ran'[x.sub] = 1
      <3>1. \A b \in Atd : runs'[b] \subseteq runs[b] /\ \A x \in runs[b] : x.sub \in Sub
        BY DEF TypeOK
      <3> QED
        BY <3>1, <1>1 DEF RanInv
    <2> QED
      BY <2>1 DEF RanInv
  <1>4. ListInv'
    <2>1. \A x : Told(x)' <=> Told(x)
      BY <1>1 DEF Told
    <2> QED
      BY <2>1 DEF ListInv
  <1>5. ForkInv'
    BY DEF ForkInv, IsNext, Held, BatchRunning
  <1>6. BatchOneAtATime'
    BY DEF BatchOneAtATime
  <1> QED
    BY <1>1, <1>2, <1>3, <1>4, <1>5, <1>6

LEMMA RemoverStep ==
  ASSUME Inv, NEW r \in Remover, FindJob(r) \/ RemoveJob(r)
  PROVE  Inv'
  <1> USE DEF Inv, shells, atd
  <1>1. UNCHANGED <<clock, crashes, at, claim, atd, shells>>
    BY DEF FindJob, RemoveJob
  <1>2. NumberInv' /\ \A s \in Sub : Id(s)' = Id(s)
    BY <1>1, NumbersStay
  <1>3. ListInv' /\ ForkInv' /\ BatchOneAtATime'
    <2>1. \A x : Told(x)' <=> Told(x)
      BY <1>1, <1>2 DEF Told, at
    <2>2. ListInv'
      BY <1>1, <2>1 DEF ListInv
    <2> QED
      BY <1>1, <2>2 DEF ForkInv, IsNext, Held, BatchRunning, BatchOneAtATime
  <1>4. CASE FindJob(r)
    <2>1. TypeOK'
      BY <1>4 DEF FindJob, TypeOK, at
    <2>2. FileInv' /\ RanInv'
      BY <1>1, <1>2, <1>4 DEF FindJob, FileInv, RanInv, Holds, Unrun, TypeOK, at
    <2> QED
      BY <1>2, <1>3, <2>1, <2>2
  <1>5. CASE RemoveJob(r)
    <2> DEFINE i == target[r]
    <2> USE <1>5 DEF RemoveJob
    <2>1. i \in Ids /\ file[i] \in Sub \cup {None} /\ removed' = removed \cup ({file[i]} \ {None})
          /\ file'[i] = None /\ \A j \in Ids \ {i} : file'[j] = file[j]
      BY DEF TypeOK
    <2>2. TypeOK'
      BY DEF TypeOK, at
    <2>3. ASSUME NEW s \in Sub, s \in removed' \ removed
          PROVE  /\ s = file[i] /\ Unrun(s) /\ i = Id(s) /\ claim[i] = None
                 /\ \A j \in Ids : file'[j] # s /\ claim[j] # s
      <3>1. s = file[i]
        BY <2>1, <2>3
      <3>2. Unrun(s) /\ i = Id(s) /\ claim[i] = None
        BY <2>1, <3>1 DEF FileInv, Holds
      <3>3. \A j \in Ids : file'[j] # s /\ claim[j] # s
        BY <2>1, <3>1, <3>2, SubAssumption DEF FileInv, Holds
      <3> QED
        BY <3>1, <3>2, <3>3
    <2>4. FileInv'
      <3>1. \A j \in Ids, s \in Sub : (Holds(tmp, j, s) /\ Holds(file, j, s) /\ Holds(claim, j, s))'
        BY <1>1, <1>2, <2>1, SubAssumption DEF FileInv, Holds, at
      <3>2. \A j \in Ids, s \in Sub : file'[j] = s => Unrun(s)' /\ claim'[j] = None
        BY <1>1, <2>1, <2>3, SubAssumption DEF FileInv, Unrun, at
      <3>3. \A j \in Ids, s \in Sub : claim'[j] = s => spc'[s] = "told" /\ s \notin removed'
        BY <1>1, <2>3 DEF FileInv, at
      <3> QED
        BY <1>1, <1>2, <3>1, <3>2, <3>3 DEF FileInv, at
    <2>5. RanInv'
      <3>1. \A s \in Sub : s \in removed' => ran'[s] = 0 /\ spc'[s] = "told"
        BY <1>1, <2>3 DEF RanInv, Unrun, at
      <3>2. \A a \in Atd : \A x \in runs'[a] : x.id = Id(x.sub)' /\ ran'[x.sub] = 1
        BY <1>1, <1>2 DEF RanInv, TypeOK
      <3> QED
        BY <1>1, <3>1, <3>2 DEF RanInv, at
    <2> QED
      BY <1>2, <1>3, <2>2, <2>4, <2>5
  <1> QED
    BY <1>4, <1>5

\* atd forgets, reads the directory, passes over a job, ends a scan.
LEMMA QuietStep ==
  ASSUME Inv, NEW a \in Atd,
         \/ StartOnce(a) \/ Reaped(a) \/ OpenSpool(a) \/ SortJobs(a) \/ EndScan(a) \/ KillAtd(a)
         \/ NotDue(a) \/ Hold(a)
  PROVE  Inv'
  <1> USE DEF Inv
  <1>1. UNCHANGED <<at, file, claim, removed, shells>>
    BY DEF StartOnce, Reaped, OpenSpool, SortJobs, EndScan, KillAtd, NotDue, Hold, atr, shells
  <1>2. /\ list' \in [Atd -> SUBSET Listed] /\ todo' \in [Atd -> SUBSET Listed]
        /\ runs' \in [Atd -> SUBSET [id : Ids, sub : Sub]]
        /\ \A b \in Atd : /\ list'[b] \cup todo'[b] \subseteq list[b] \cup todo[b]
                          /\ runs'[b] \subseteq runs[b]
        /\ \A b \in Atd \ {a} : list'[b] = list[b] /\ todo'[b] = todo[b] /\ runs'[b] = runs[b]
    BY DEF StartOnce, Reaped, OpenSpool, SortJobs, EndScan, KillAtd, NotDue, Hold, Drop, TypeOK
  <1>3. apc'[a] # "fork" /\ \A b \in Atd \ {a} : apc'[b] = apc[b]
    BY DEF StartOnce, Reaped, OpenSpool, SortJobs, EndScan, KillAtd, NotDue, Hold, Goto, TypeOK
  <1>4. NumberInv' /\ FileInv' /\ RanInv' /\ ListInv' /\ ForkInv' /\ BatchOneAtATime'
    BY <1>1, <1>2, <1>3, LookStep DEF ListInv
  <1>5. /\ apc' \in [Atd -> {"idle", "reap", "scan", "list", "start", "fork", "exit"}]
        /\ unread' \in [Atd -> SUBSET Ids]
    BY DEF StartOnce, Reaped, OpenSpool, SortJobs, EndScan, KillAtd, NotDue, Hold, Goto, TypeOK
  <1>6. now' \in [Atd -> {0} \cup Times] /\ wake' \in [Atd -> 0 .. MaxTime + 1]
    <2>1. MaxTime \in Nat /\ Times \subseteq 0 .. MaxTime + 1
      BY BoundAssumption DEF Times
    <2>2. \A b \in Atd : LookAgain(b) \in 0 .. MaxTime + 1
      BY <2>1 DEF LookAgain, TypeOK, Times
    <2>3. \A x \in todo[a] : x.when \in 0 .. MaxTime + 1
      <3>1. \A x \in Listed : x.when \in Times
        BY DEF Listed
      <3> QED
        BY <2>1, <3>1 DEF TypeOK
    <2> QED
      BY <2>1, <2>2, <2>3 DEF StartOnce, Reaped, OpenSpool, SortJobs, EndScan, KillAtd, NotDue, Hold, TypeOK
  <1>7. clock' = clock /\ crashes' \in 0 .. MaxCrashes /\ UNCHANGED <<rpc, target>>
    BY BoundAssumption
       DEF StartOnce, Reaped, OpenSpool, SortJobs, EndScan, KillAtd, NotDue, Hold, atr, TypeOK
  <1>8. TypeOK'
    BY <1>1, <1>2, <1>5, <1>6, <1>7 DEF TypeOK, at, shells
  <1> QED
    BY <1>4, <1>8

\* readdir and job_read: what is listed is a file.
LEMMA ReadJobStep ==
  ASSUME Inv, NEW a \in Atd, NEW i \in Ids, ReadJob(a, i)
  PROVE  Inv'
  <1> USE DEF Inv, ReadJob
  <1> DEFINE x == [id |-> i, when |-> when[file[i]]]
  <1>1. UNCHANGED <<clock, crashes, at, file, claim, atr, apc, todo, now, runs, wake, shells>>
    OBVIOUS
  <1>2. file[i] # None => Told(x) /\ x \in Listed
    <2>1. file[i] # None => file[i] \in Sub /\ i = Id(file[i]) /\ spc[file[i]] = "told"
      BY DEF TypeOK, FileInv, Holds, Unrun
    <2>2. file[i] # None => Told(x)
      BY <2>1 DEF Told
    <2> QED
      BY <2>2, ListedType
  <1>3. list' \in [Atd -> SUBSET Listed] /\ unread' \in [Atd -> SUBSET Ids]
    BY <1>2 DEF TypeOK
  <1>4. \A y \in list'[a] \cup todo'[a] : Told(y)
    BY <1>2 DEF ListInv, TypeOK
  <1>5. NumberInv' /\ FileInv' /\ RanInv' /\ ListInv' /\ ForkInv' /\ BatchOneAtATime'
    BY <1>3, <1>4, LookStep DEF TypeOK, atr
  <1>6. TypeOK'
    BY <1>1, <1>3 DEF TypeOK, at, atr, shells
  <1> QED
    BY <1>5, <1>6

\* A job that has ended loses its file, which is nobody else's.
LEMMA ReapStep ==
  ASSUME Inv, NEW a \in Atd, Reap(a)
  PROVE  Inv'
  <1> USE DEF Inv
  <1> PICK x \in Finished(a) : /\ runs' = [runs EXCEPT ![a] = @ \ {x}]
                               /\ claim' = [claim EXCEPT ![x.id] = None]
    BY DEF Reap
  <1>1. UNCHANGED <<clock, crashes, at, file, atr, apc, unread, list, todo, now, wake, shells>>
    BY DEF Reap
  <1>2. x \in runs[a] /\ x.id \in Ids /\ x.sub \in Sub /\ x.id = Id(x.sub) /\ ran[x.sub] = 1
    BY DEF Finished, TypeOK, RanInv
  <1>3. claim'[x.id] = None /\ \A i \in Ids \ {x.id} : claim'[i] = claim[i]
    BY <1>2 DEF TypeOK
  <1>4. \A b \in Atd : runs'[b] \subseteq runs[b]
    BY DEF TypeOK
  <1>5. NumberInv' /\ \A s \in Sub : Id(s)' = Id(s)
    BY <1>1, NumbersStay
  <1>6. TypeOK'
    BY <1>1 DEF TypeOK, at, atr, shells
  <1>7. FileInv'
    BY <1>1, <1>3, <1>5, SubAssumption DEF FileInv, Holds, Unrun, at, atr, shells
  <1>8. RanInv'
    <2>1. \A b \in Atd : \A y \in runs'[b] : y.id = Id(y.sub)' /\ ran'[y.sub] = 1
      BY <1>1, <1>4, <1>5 DEF RanInv, TypeOK, shells
    <2> QED
      BY <1>1, <2>1 DEF RanInv, at, atr, shells
  <1>9. ListInv'
    BY <1>1, <1>5 DEF ListInv, Told, at
  <1>10. ForkInv'
    <2>1. ASSUME NEW b \in Atd, apc[b] = "fork", NEW y \in todo[b], IsNext(b, y)
          PROVE  claim'[y.id] = claim[y.id]
      <3>1. claim[y.id] # None /\ ran[claim[y.id]] = 0 /\ y.id \in Ids
        BY <2>1 DEF ForkInv, TypeOK, Listed
      <3>2. claim[y.id] \in Sub /\ y.id = Id(claim[y.id]) /\ num[claim[y.id]] # 0
        BY <3>1 DEF TypeOK, FileInv, Holds
      <3>3. y.id # x.id
        BY <1>2, <3>1, <3>2, IdOf
      <3> QED
        BY <1>3, <3>1, <3>3
    <2>2. \A b \in Atd : \A y : Held(b, y)' => Held(b, y)
      BY <1>4 DEF Held, BatchRunning
    <2>3. \A b \in Atd : \A y : IsNext(b, y)' <=> IsNext(b, y)
      BY <1>1 DEF IsNext
    <2> QED
      BY <1>1, <2>1, <2>2, <2>3 DEF ForkInv, shells
  <1>11. BatchOneAtATime'
    BY <1>4 DEF BatchOneAtATime
  <1> QED
    BY <1>5, <1>6, <1>7, <1>8, <1>9, <1>10, <1>11

\* rename: whoever succeeds has the job, which was never run.
LEMMA ClaimStep ==
  ASSUME Inv, NEW a \in Atd, ClaimJob(a)
  PROVE  Inv'
  <1> USE DEF Inv
  <1> PICK x \in todo[a] :
        /\ IsNext(a, x) /\ x.when <= now[a] /\ ~Held(a, x)
        /\ IF Claimable(x.id)
           THEN /\ claim' = [claim EXCEPT ![x.id] = IF file[x.id] # None THEN file[x.id] ELSE @]
                /\ file' = [file EXCEPT ![x.id] = None]
                /\ Goto(a, "fork")
                /\ UNCHANGED todo
           ELSE Drop(a, x) /\ UNCHANGED <<claim, file, apc>>
    BY DEF ClaimJob, IsNext
  <1>1. UNCHANGED <<clock, crashes, at, atr, unread, list, now, runs, wake, shells>> /\ apc[a] = "start"
    BY DEF ClaimJob
  <1>2. CASE file[x.id] = None
    <2>1. Drop(a, x) /\ UNCHANGED <<claim, file, apc>>
      BY <1>2 DEF Claimable
    <2>2. todo' \in [Atd -> SUBSET Listed] /\ todo'[a] \subseteq todo[a] /\ \A b \in Atd \ {a} : todo'[b] = todo[b]
      BY <2>1 DEF Drop, TypeOK
    <2>3. TypeOK'
      BY <1>1, <2>1, <2>2 DEF TypeOK, at, atr, shells
    <2>4. NumberInv' /\ FileInv' /\ RanInv' /\ ListInv' /\ ForkInv' /\ BatchOneAtATime'
      BY <1>1, <2>1, <2>2, LookStep DEF TypeOK, ListInv, atr
    <2> QED
      BY <2>3, <2>4
  <1>3. CASE file[x.id] # None
    <2> DEFINE i == x.id
               s == file[i]
    <2>1. i \in Ids /\ s \in Sub /\ i = Id(s) /\ Unrun(s) /\ claim[i] = None
      BY <1>3 DEF TypeOK, Listed, FileInv, Holds
    <2>2. /\ claim'[i] = s /\ file'[i] = None
          /\ \A j \in Ids \ {i} : claim'[j] = claim[j] /\ file'[j] = file[j]
      BY <1>3, <2>1 DEF TypeOK, Claimable
    <2>3. apc'[a] = "fork" /\ todo' = todo /\ \A b \in Atd \ {a} : apc'[b] = apc[b]
      BY <1>3 DEF Claimable, Goto, TypeOK
    <2>4. TypeOK'
      BY <1>1, <1>3, <2>1 DEF TypeOK, at, atr, shells, Claimable, Goto
    <2>5. NumberInv' /\ \A u \in Sub : Id(u)' = Id(u)
      BY <1>1, NumbersStay
    <2>6. FileInv'
      <3>1. \A j \in Ids, u \in Sub : (Holds(tmp, j, u) /\ Holds(file, j, u) /\ Holds(claim, j, u))'
        BY <1>1, <2>1, <2>2, <2>5, SubAssumption DEF FileInv, Holds, at
      <3>2. \A j \in Ids, u \in Sub : file'[j] = u => Unrun(u)' /\ claim'[j] = None
        BY <1>1, <2>1, <2>2, SubAssumption DEF FileInv, Unrun, at, atr, shells
      <3>3. \A j \in Ids, u \in Sub : claim'[j] = u => spc'[u] = "told" /\ u \notin removed'
        BY <1>1, <2>1, <2>2 DEF FileInv, Unrun, at, atr
      <3> QED
        BY <1>1, <2>5, <3>1, <3>2, <3>3 DEF FileInv, at
    <2>7. RanInv'
      BY <1>1, <2>5 DEF RanInv, TypeOK, at, atr, shells
    <2>8. ListInv'
      BY <1>1, <2>3, <2>5 DEF ListInv, Told, at
    <2>9. ForkInv'
      <3>1. ASSUME NEW b \in Atd \ {a}, apc'[b] = "fork", NEW y \in todo'[b], IsNext(b, y)'
            PROVE  /\ claim'[y.id] # None /\ ran'[claim'[y.id]] = 0 /\ ~Held(b, y)' /\ y.id # i
        <4>1. apc[b] = "fork" /\ y \in todo[b] /\ IsNext(b, y)
          BY <2>3, <3>1 DEF IsNext
        <4>2. claim[y.id] # None /\ ran[claim[y.id]] = 0 /\ ~Held(b, y) /\ y.id \in Ids
          BY <4>1 DEF ForkInv, TypeOK, Listed
        <4> QED
          BY <1>1, <2>1, <2>2, <4>2 DEF Held, BatchRunning, shells
      <3>2. ASSUME NEW y \in todo'[a], IsNext(a, y)'
            PROVE  /\ y.id = i /\ claim'[y.id] # None /\ ran'[claim'[y.id]] = 0 /\ ~Held(a, y)'
        <4>1. y = x
          BY <2>3, <3>2, OneNext DEF IsNext
        <4> QED
          BY <1>1, <2>1, <2>2, <4>1, SubAssumption DEF Unrun, Held, BatchRunning, shells
      <3>3. ASSUME NEW b \in Atd \ {a}, NEW c \in Atd \ {a}, b # c, apc'[b] = "fork", apc'[c] = "fork",
                   NEW y \in todo'[b], NEW z \in todo'[c], IsNext(b, y)', IsNext(c, z)'
            PROVE  y.id # z.id
        BY <2>3, <3>3 DEF ForkInv, IsNext
      <3> QED
        BY <3>1, <3>2, <3>3 DEF ForkInv
    <2>10. BatchOneAtATime'
      BY <1>1 DEF BatchOneAtATime
    <2> QED
      BY <2>4, <2>5, <2>6, <2>7, <2>8, <2>9, <2>10
  <1> QED
    BY <1>2, <1>3

\* What atd knows of a job that it has claimed: it is the job of that ID, it was not run,
\* and no other atd is about to run it.
Claimed(a, x) ==
  LET s == claim[x.id]
  IN /\ x \in todo[a] /\ x.id \in Ids
     /\ s \in Sub /\ x.id = Id(s) /\ Unrun(s) /\ ~Held(a, x) /\ file[x.id] = None
     /\ \A i \in Ids : file[i] # s /\ (claim[i] = s => i = x.id)
     /\ \A b \in Atd \ {a} : apc[b] = "fork" => \A y \in todo[b] : IsNext(b, y) => y.id # x.id

LEMMA ClaimedNext ==
  ASSUME Inv, NEW a \in Atd, apc[a] = "fork", NEW x \in todo[a], IsNext(a, x)
  PROVE  Claimed(a, x)
  <1> USE DEF Inv
  <1> DEFINE s == claim[x.id]
  <1>1. x.id \in Ids /\ s # None /\ ran[s] = 0 /\ ~Held(a, x)
    BY DEF ForkInv, TypeOK, Listed
  <1>2. s \in Sub /\ x.id = Id(s) /\ Unrun(s)
    BY <1>1 DEF TypeOK, FileInv, Holds, Unrun
  <1>3. file[x.id] = None
    BY <1>1, <1>2, SubAssumption DEF FileInv, TypeOK
  <1>4. \A i \in Ids : file[i] # s /\ (claim[i] = s => i = x.id)
    BY <1>2, <1>3, SubAssumption DEF FileInv, Holds
  <1>5. \A b \in Atd \ {a} : apc[b] = "fork" => \A y \in todo[b] : IsNext(b, y) => y.id # x.id
    BY DEF ForkInv
  <1> QED
    BY <1>1, <1>2, <1>3, <1>4, <1>5 DEF Claimed

\* The others are as before when one that was at its fork goes on, whatever becomes of its job.
LEMMA ForkOver ==
  ASSUME Inv, NEW a \in Atd, NEW x, Claimed(a, x), UNCHANGED <<list, num, spc, when>>,
         Goto(a, "start"), Drop(a, x), \A b \in Atd \ {a} : runs'[b] = runs[b],
         \A i \in Ids \ {x.id} : claim'[i] = claim[i],
         \A s \in Sub \ {claim[x.id]} : ran'[s] = ran[s]
  PROVE  ListInv' /\ ForkInv'
  <1> USE DEF Inv
  <1>1. apc'[a] = "start" /\ \A b \in Atd \ {a} : apc'[b] = apc[b] /\ todo'[b] = todo[b]
    BY DEF Goto, Drop, TypeOK
  <1>2. ListInv'
    <2>1. \A y : Told(y)' <=> Told(y)
      BY DEF Told, Id
    <2>2. \A b \in Atd : todo'[b] \subseteq todo[b]
      BY <1>1 DEF Drop, TypeOK
    <2> QED
      BY <2>1, <2>2 DEF ListInv
  <1>3. ASSUME NEW b \in Atd \ {a}, apc[b] = "fork", NEW y \in todo[b], IsNext(b, y)
        PROVE  claim'[y.id] # None /\ ran'[claim'[y.id]] = 0 /\ ~Held(b, y)'
    <2>1. claim[y.id] # None /\ ran[claim[y.id]] = 0 /\ ~Held(b, y) /\ y.id \in Ids /\ y.id # x.id
      BY <1>3 DEF ForkInv, TypeOK, Listed, Claimed
    <2>2. claim'[y.id] = claim[y.id] /\ claim[y.id] \in Sub \ {claim[x.id]}
      BY <2>1 DEF Claimed, TypeOK
    <2> QED
      BY <2>1, <2>2 DEF Held, BatchRunning
  <1>4. ForkInv'
    <2>1. \A b \in Atd \ {a} : \A y : IsNext(b, y)' <=> IsNext(b, y)
      BY <1>1 DEF IsNext
    <2>2. \A b, c \in Atd \ {a} : apc[b] = "fork" /\ apc[c] = "fork" /\ b # c =>
            \A y \in todo[b], z \in todo[c] : IsNext(b, y) /\ IsNext(c, z) => y.id # z.id
      BY DEF ForkInv
    <2> QED
      BY <1>1, <1>3, <2>1, <2>2 DEF ForkInv
  <1> QED
    BY <1>2, <1>4

\* The shell is started: the first time, and with no other batch job of this atd.
LEMMA RunStep ==
  ASSUME Inv, NEW a \in Atd, RunJob(a)
  PROVE  Inv'
  <1> USE DEF Inv
  <1> PICK x \in todo[a] :
        /\ IsNext(a, x) /\ Drop(a, x)
        /\ LET s == claim[x.id]
           IN /\ shell' = [shell EXCEPT ![s] = "running"]
              /\ ran' = [ran EXCEPT ![s] = @ + 1]
              /\ runs' = [runs EXCEPT ![a] = @ \cup {[id |-> x.id, sub |-> s]}]
    BY DEF RunJob
  <1> DEFINE s == claim[x.id]
             r == [id |-> x.id, sub |-> s]
  <1>1. /\ UNCHANGED <<clock, crashes, at, file, claim, atr, unread, list, now, wake>>
        /\ apc[a] = "fork" /\ Goto(a, "start")
    BY DEF RunJob
  <1>2. Claimed(a, x)
    BY <1>1, ClaimedNext
  <1>3. x.id \in Ids /\ s \in Sub /\ x.id = Id(s) /\ Unrun(s) /\ ~Held(a, x) /\ ran[s] = 0
    BY <1>2 DEF Claimed, Unrun
  <1>4. /\ ran'[s] = 1 /\ \A u \in Sub \ {s} : ran'[u] = ran[u]
        /\ shell'[s] = "running" /\ \A u \in Sub \ {s} : shell'[u] = shell[u]
        /\ runs'[a] = runs[a] \cup {r} /\ \A b \in Atd \ {a} : runs'[b] = runs[b]
    BY <1>3 DEF TypeOK
  <1>5. TypeOK'
    BY <1>1, <1>3 DEF TypeOK, at, atr, Goto, Drop
  <1>6. NumberInv' /\ \A u \in Sub : Id(u)' = Id(u)
    BY <1>1, NumbersStay
  <1>7. FileInv'
    <2>1. \A i \in Ids, u \in Sub : file[i] = u => u # s
      BY <1>2 DEF Claimed
    <2>2. \A u \in Sub \ {s} : Unrun(u) => Unrun(u)'
      BY <1>1, <1>4 DEF Unrun, at, atr
    <2> QED
      BY <1>1, <1>6, <2>1, <2>2 DEF FileInv, Holds, at, atr
  <1>8. RanInv'
    <2>1. ASSUME NEW b \in Atd, NEW y \in runs'[b]
          PROVE  y.id = Id(y.sub)' /\ ran'[y.sub] = 1
      <3>1. y = r \/ y \in runs[b]
        BY <1>4
      <3>2. CASE y \in runs[b]
        BY <3>2, <1>4, <1>6 DEF RanInv, TypeOK
      <3> QED
        BY <3>1, <3>2, <1>3, <1>4, <1>6
    <2>2. spc'[s] = "told" /\ s \notin removed'
      BY <1>1, <1>3 DEF Unrun, at, atr
    <2> QED
      BY <1>1, <1>3, <1>4, <2>1, <2>2 DEF RanInv, at, atr
  <1>9. ListInv' /\ ForkInv'
    BY <1>1, <1>2, <1>4, ForkOver DEF at
  <1>10. BatchOneAtATime'
    <2>1. \A y \in runs'[a], z \in runs'[a] : y.id[2] = "b" /\ z.id[2] = "b" => y = z
      BY <1>3, <1>4 DEF BatchOneAtATime, Held, BatchRunning
    <2> QED
      BY <1>4, <2>1 DEF BatchOneAtATime
  <1> QED
    BY <1>5, <1>6, <1>7, <1>8, <1>9, <1>10

\* The job gets its name back, which is free.
LEMMA ForkFailureStep ==
  ASSUME Inv, NEW a \in Atd, ForkFailure(a)
  PROVE  Inv'
  <1> USE DEF Inv
  <1> PICK x \in todo[a] : /\ IsNext(a, x) /\ Drop(a, x)
                           /\ GiveBack(x.id)
                           /\ claim' = [claim EXCEPT ![x.id] = None]
    BY DEF ForkFailure
  <1> DEFINE s == claim[x.id]
  <1>1. /\ UNCHANGED <<clock, crashes, at, atr, unread, list, now, runs, wake, shells>>
        /\ apc[a] = "fork" /\ Goto(a, "start")
    BY DEF ForkFailure
  <1>2. Claimed(a, x)
    BY <1>1, ClaimedNext
  <1>3. x.id \in Ids /\ s \in Sub /\ x.id = Id(s) /\ Unrun(s)
    BY <1>2 DEF Claimed
  <1>4. /\ file'[x.id] = s /\ claim'[x.id] = None
        /\ \A i \in Ids \ {x.id} : file'[i] = file[i] /\ claim'[i] = claim[i]
    BY <1>3 DEF TypeOK, GiveBack
  <1>5. TypeOK'
    BY <1>1, <1>3 DEF TypeOK, at, atr, shells, Goto, Drop, GiveBack
  <1>6. NumberInv' /\ \A u \in Sub : Id(u)' = Id(u)
    BY <1>1, NumbersStay
  <1>7. FileInv'
    <2>1. num[s] # 0
      BY <1>3 DEF NumberInv, Unrun
    <2>2. \A i \in Ids, u \in Sub : (Holds(tmp, i, u) /\ Holds(file, i, u) /\ Holds(claim, i, u))'
      BY <1>1, <1>3, <1>4, <1>6, <2>1, SubAssumption DEF FileInv, Holds, at
    <2>3. \A i \in Ids, u \in Sub : file'[i] = u => Unrun(u)' /\ claim'[i] = None
      BY <1>1, <1>3, <1>4 DEF FileInv, Unrun, at, atr, shells
    <2>4. \A i \in Ids, u \in Sub : claim'[i] = u => spc'[u] = "told" /\ u \notin removed'
      BY <1>1, <1>4, SubAssumption DEF FileInv, at, atr
    <2> QED
      BY <1>1, <1>6, <2>2, <2>3, <2>4 DEF FileInv, at
  <1>8. RanInv'
    BY <1>1, <1>6 DEF RanInv, TypeOK, at, atr, shells
  <1>9. ListInv' /\ ForkInv'
    BY <1>1, <1>2, <1>4, ForkOver DEF at, shells
  <1>10. BatchOneAtATime'
    BY <1>1 DEF BatchOneAtATime
  <1> QED
    BY <1>5, <1>6, <1>7, <1>8, <1>9, <1>10

LEMMA OpenFailureStep ==
  ASSUME Inv, NEW a \in Atd, OpenFailure(a)
  PROVE  Inv'
  <1> USE DEF Inv
  <1> PICK x \in todo[a] : /\ IsNext(a, x) /\ Drop(a, x)
                           /\ claim' = [claim EXCEPT ![x.id] = None]
                           /\ removed' = removed \cup {claim[x.id]}
    BY DEF OpenFailure
  <1> DEFINE s == claim[x.id]
  <1>1. /\ UNCHANGED <<clock, crashes, at, file, rpc, target, unread, list, now, runs, wake, shells>>
        /\ apc[a] = "fork" /\ Goto(a, "start")
    BY DEF OpenFailure
  <1>2. Claimed(a, x)
    BY <1>1, ClaimedNext
  <1>3. /\ x.id \in Ids /\ s \in Sub /\ x.id = Id(s) /\ Unrun(s)
        /\ \A i \in Ids : file[i] # s /\ (claim[i] = s => i = x.id)
    BY <1>2 DEF Claimed
  <1>4. claim'[x.id] = None /\ \A i \in Ids \ {x.id} : claim'[i] = claim[i]
    BY <1>3 DEF TypeOK
  <1>5. TypeOK'
    BY <1>1, <1>3 DEF TypeOK, at, shells, Goto, Drop
  <1>6. NumberInv' /\ \A u \in Sub : Id(u)' = Id(u)
    BY <1>1, NumbersStay
  <1>7. FileInv'
    <2>1. \A i \in Ids, u \in Sub : (Holds(tmp, i, u) /\ Holds(file, i, u) /\ Holds(claim, i, u))'
      BY <1>1, <1>4, <1>6, SubAssumption DEF FileInv, Holds, at
    <2>2. \A i \in Ids, u \in Sub : file'[i] = u => Unrun(u)' /\ claim'[i] = None
      BY <1>1, <1>3, <1>4 DEF FileInv, Unrun, at, shells
    <2>3. \A i \in Ids, u \in Sub : claim'[i] = u => spc'[u] = "told" /\ u \notin removed'
      BY <1>1, <1>3, <1>4, SubAssumption DEF FileInv, at
    <2> QED
      BY <1>1, <1>6, <2>1, <2>2, <2>3 DEF FileInv, at
  <1>8. RanInv'
    <2>1. \A b \in Atd : \A y \in runs'[b] : y.id = Id(y.sub)' /\ ran'[y.sub] = 1
      BY <1>1, <1>6 DEF RanInv, TypeOK, shells
    <2> QED
      BY <1>1, <1>3, <2>1 DEF RanInv, Unrun, at, shells
  <1>9. ListInv' /\ ForkInv'
    BY <1>1, <1>2, <1>4, ForkOver DEF at, shells
  <1>10. BatchOneAtATime'
    BY <1>1 DEF BatchOneAtATime
  <1> QED
    BY <1>5, <1>6, <1>7, <1>8, <1>9, <1>10

LEMMA OutsideStep ==
  ASSUME Inv, (\E s \in Sub : EndShell(s)) \/ Tick \/ UNCHANGED vars
  PROVE  Inv'
  <1> USE DEF Inv
  <1>1. UNCHANGED <<crashes, at, file, claim, atr, atd, ran>>
    BY DEF EndShell, Tick, vars, shells
  <1>2. /\ shell' \in [Sub -> {"none", "running", "done"}]
        /\ \A s \in Sub : shell'[s] = "none" <=> shell[s] = "none"
    BY DEF EndShell, Tick, vars, shells, TypeOK
  <1>3. clock' \in Times
    BY BoundAssumption DEF EndShell, Tick, vars, TypeOK, Times
  <1>4. TypeOK'
    BY <1>1, <1>2, <1>3 DEF TypeOK, at, atr, atd
  <1>5. NumberInv' /\ \A u \in Sub : Id(u)' = Id(u)
    BY <1>1, NumbersStay
  <1>6. FileInv'
    BY <1>1, <1>5 DEF FileInv, Holds, Unrun, at, atr
  <1>7. RanInv' /\ ListInv' /\ ForkInv' /\ BatchOneAtATime'
    BY <1>1, <1>2, AtFrame DEF at, atr
  <1> QED
    BY <1>4, <1>5, <1>6, <1>7

-----------------------------------------------------------------------------
(* The theorems.                                                           *)

LEMMA InvInit == Init => Inv
  <1> SUFFICES ASSUME Init
               PROVE  Inv
    OBVIOUS
  <1> USE DEF Init
  <1>1. Cardinality(Sub) \in Nat \ {0}
    BY SubAssumption, FS_EmptySet, FS_CardinalityType
  <1>2. <<1, "a">> \in Ids
    BY <1>1 DEF Ids, Number
  <1>3. TypeOK
    BY <1>2, BoundAssumption DEF TypeOK, Times
  <1>4. NumberInv
    BY DEF NumberInv
  <1>5. FileInv /\ RanInv
    BY SubAssumption DEF FileInv, Holds, RanInv
  <1>6. ListInv /\ ForkInv /\ BatchOneAtATime
    BY DEF ListInv, ForkInv, BatchOneAtATime
  <1> QED
    BY <1>3, <1>4, <1>5, <1>6 DEF Inv

LEMMA InvNext ==
  ASSUME ~TornCounter, Inv, [Next]_vars
  PROVE  Inv'
  <1>1. ASSUME NEW s \in Sub, At(s)
        PROVE  Inv'
    BY <1>1, BeginStep, LockStep, ReadStep, WriteStep, CreateStep, PublishStep DEF At
  <1>2. ASSUME NEW a \in Atd, StartOnce(a) \/ Daemon(a)
        PROVE  Inv'
    BY <1>2, QuietStep, ReadJobStep, ReapStep, ClaimStep, RunStep DEF Daemon
  <1>3. ASSUME Failures
        PROVE  Inv'
    BY <1>3, KillAtStep, ForkFailureStep, OpenFailureStep, QuietStep DEF Failures
  <1> QED
    BY <1>1, <1>2, <1>3, RemoverStep, OutsideStep DEF Next

\* Every file of the spool is a whole job; a job is started at most once, whoever lists it,
\* claims it, forgets it or is killed; and an atd has one batch job at a time.
THEOREM RightOnceTheorem == ~TornCounter /\ Spec => []RightOnce
  <1> SUFFICES ASSUME ~TornCounter
               PROVE  Spec => []RightOnce
    OBVIOUS
  <1>1. Inv /\ [Next]_vars => Inv'
    BY InvNext
  <1>2. Inv => RightOnce
    <2> SUFFICES ASSUME Inv, NEW s \in Sub
                 PROVE  ran[s] <= 1
      BY DEF Inv, RightOnce, RunOnce
    <2> QED
      BY DEF Inv, RanInv
  <1> QED
    BY InvInit, <1>1, <1>2, PTL DEF Spec

-----------------------------------------------------------------------------
(* The spool implements JobQueue.                                          *)

\* The steps that are not seen: nothing comes into the spool, leaves it or is removed, or
\* only the file of a job that was run.
LEMMA Unseen ==
  ASSUME Inv, UNCHANGED <<shell, removed>>,
         \A s \in Sub : shell[s] = "none" => (InSpool(s)' <=> InSpool(s))
  PROVE  phase' = phase
  BY DEF phase

LEMMA SeenStep ==
  ASSUME NEW s \in Sub, NEW from, NEW to, phase[s] = from, phase'[s] = to,
         \A u \in Sub \ {s} : phase'[u] = phase[u]
  PROVE  Jobs!Step(s, from, to)
  <1>1. phase = [u \in Sub |-> phase[u]] /\ phase' = [u \in Sub |-> phase'[u]]
    BY DEF phase
  <1>2. phase' = [phase EXCEPT ![s] = to]
    BY <1>1
  <1> QED
    BY <1>2 DEF Jobs!Step

LEMMA Others ==
  ASSUME NEW s \in Sub,
         \A u \in Sub \ {s} : /\ shell'[u] = shell[u] /\ (u \in removed' <=> u \in removed)
                              /\ shell[u] = "none" => (InSpool(u)' <=> InSpool(u))
  PROVE  \A u \in Sub \ {s} : phase'[u] = phase[u]
  BY DEF phase

LEMMA PublishSubmits ==
  ASSUME Inv, Inv', NEW s \in Sub, Publish(s)
  PROVE  Jobs!Submit(s)
  <1> USE DEF Inv, Publish, atr, shells
  <1>1. num[s] # 0 /\ Id(s) \in Ids /\ tmp[Id(s)] = s /\ spc[s] = "rename"
    BY IdOf DEF NumberInv, FileInv
  <1>2. file'[Id(s)] = s /\ \A i \in Ids \ {Id(s)} : file'[i] = file[i]
    BY <1>1 DEF TypeOK
  <1>3. \A u \in Sub : file[Id(s)] # u
    <2>1. \A u \in Sub : file[Id(s)] = u => u = s /\ spc[u] = "told"
      BY <1>1, IdOf DEF FileInv, Holds, Unrun
    <2> QED
      BY <2>1, <1>1
  <1>4. shell[s] = "none" /\ s \notin removed
    BY <1>1 DEF RanInv, TypeOK
  <1>5. ~InSpool(s) /\ InSpool(s)'
    BY <1>1, <1>2 DEF InSpool, FileInv, Unrun
  <1>6. phase[s] = "none" /\ phase'[s] = "waiting"
    BY <1>4, <1>5 DEF phase
  <1>7. \A u \in Sub \ {s} : InSpool(u)' <=> InSpool(u)
    BY <1>2, <1>3, <1>1 DEF InSpool
  <1>8. \A u \in Sub \ {s} : phase'[u] = phase[u]
    BY <1>7, Others
  <1> QED
    BY <1>6, <1>8, SeenStep DEF Jobs!Submit

LEMMA RemoveJobRemoves ==
  ASSUME Inv, NEW r \in Remover, RemoveJob(r)
  PROVE  (\E s \in Sub : Jobs!Remove(s)) \/ phase' = phase
  <1> USE DEF Inv, RemoveJob, at, shells
  <1> DEFINE i == target[r]
             s == file[i]
  <1>1. /\ i \in Ids /\ s \in Sub \cup {None} /\ removed' = removed \cup ({s} \ {None})
        /\ file'[i] = None /\ \A j \in Ids \ {i} : file'[j] = file[j]
    BY DEF TypeOK
  <1>2. CASE s = None
    BY <1>1, <1>2, SubAssumption, Unseen DEF InSpool
  <1>3. CASE s # None
    <2>1. s \in Sub /\ Unrun(s) /\ shell[s] = "none" /\ InSpool(s)
      BY <1>1, <1>3 DEF FileInv, InSpool, RanInv, Unrun
    <2>2. phase[s] = "waiting" /\ phase'[s] = "removed"
      <3>1. s \notin removed /\ s \in removed' /\ shell' = shell
        BY <1>1, <1>3, <2>1 DEF Unrun
      <3> HIDE DEF s
      <3> QED
        BY <2>1, <3>1 DEF phase
    <2>3. \A u \in Sub \ {s} : InSpool(u)' <=> InSpool(u)
      BY <1>1, SubAssumption DEF InSpool
    <2>4. \A u \in Sub \ {s} : phase'[u] = phase[u]
      BY <1>1, <2>3, <2>1, Others
    <2>5. Jobs!Remove(s)
      BY <2>1, <2>2, <2>4, SeenStep DEF Jobs!Remove
    <2> QED
      BY <2>1, <2>5
  <1> QED
    BY <1>2, <1>3

LEMMA RunStarts ==
  ASSUME Inv, NEW a \in Atd, RunJob(a)
  PROVE  \E s \in Sub : Jobs!Start(s)
  <1> PICK x \in todo[a] :
        /\ IsNext(a, x)
        /\ shell' = [shell EXCEPT ![claim[x.id]] = "running"]
    BY DEF RunJob
  <1>1. UNCHANGED <<file, claim, removed>> /\ apc[a] = "fork"
    BY DEF RunJob, atr
  <1> DEFINE s == claim[x.id]
  <1>2. s \in Sub /\ x.id \in Ids /\ Unrun(s) /\ shell[s] = "none"
    BY <1>1, ClaimedNext DEF Claimed, Inv, RanInv, Unrun
  <1>3. InSpool(s) /\ s \notin removed
    BY <1>2 DEF InSpool, Unrun
  <1>4. shell'[s] = "running" /\ \A u \in Sub \ {s} : shell'[u] = shell[u]
    BY <1>2 DEF Inv, TypeOK
  <1>5. phase[s] = "waiting" /\ phase'[s] = "running"
    <2> HIDE DEF s
    <2> QED
      BY <1>2, <1>3, <1>4 DEF phase
  <1>6. \A u \in Sub \ {s} : phase'[u] = phase[u]
    BY <1>1, <1>2, <1>4, Others DEF InSpool
  <1> QED
    BY <1>2, <1>5, <1>6, SeenStep DEF Jobs!Start

LEMMA OpenFailureRemoves ==
  ASSUME Inv, NEW a \in Atd, OpenFailure(a)
  PROVE  \E s \in Sub : Jobs!Remove(s)
  <1> PICK x \in todo[a] : /\ IsNext(a, x)
                           /\ claim' = [claim EXCEPT ![x.id] = None]
                           /\ removed' = removed \cup {claim[x.id]}
    BY DEF OpenFailure
  <1>1. UNCHANGED <<file, shell>> /\ apc[a] = "fork"
    BY DEF OpenFailure, shells
  <1> DEFINE s == claim[x.id]
  <1>2. s \in Sub /\ x.id \in Ids /\ Unrun(s) /\ shell[s] = "none"
    BY <1>1, ClaimedNext DEF Claimed, Inv, RanInv, Unrun
  <1>3. InSpool(s) /\ s \notin removed /\ s \in removed'
    BY <1>2 DEF InSpool, Unrun
  <1>4. phase[s] = "waiting" /\ phase'[s] = "removed"
    <2> HIDE DEF s
    <2> QED
      BY <1>1, <1>2, <1>3 DEF phase
  <1>5. \A i \in Ids \ {x.id} : claim'[i] = claim[i]
    BY <1>2 DEF Inv, TypeOK
  <1>6. \A u \in Sub \ {s} : InSpool(u)' <=> InSpool(u)
    BY <1>1, <1>2, <1>5, SubAssumption DEF InSpool, Inv, TypeOK
  <1>7. \A u \in Sub \ {s} : phase'[u] = phase[u]
    BY <1>1, <1>2, <1>6, Others
  <1> QED
    BY <1>2, <1>4, <1>7, SeenStep DEF Jobs!Remove

LEMMA EndFinishes ==
  ASSUME Inv, NEW s \in Sub, EndShell(s)
  PROVE  Jobs!Finish(s)
  <1>1. shell[s] = "running" /\ shell'[s] = "done" /\ \A u \in Sub \ {s} : shell'[u] = shell[u]
    BY DEF EndShell, Inv, TypeOK
  <1>2. phase[s] = "running" /\ phase'[s] = "done"
    BY <1>1 DEF phase
  <1>3. \A u \in Sub \ {s} : phase'[u] = phase[u]
    BY <1>1, Others DEF EndShell, InSpool, atr
  <1> QED
    BY <1>2, <1>3, SeenStep DEF Jobs!Finish

\* A claim, a claim that is given back and a claim of a job that has ended are not seen.
LEMMA ClaimUnseen ==
  ASSUME Inv, NEW a \in Atd, ClaimJob(a) \/ ForkFailure(a) \/ Reap(a)
  PROVE  phase' = phase
  <1> USE DEF Inv
  <1>1. UNCHANGED <<shell, removed>>
    BY DEF ClaimJob, ForkFailure, Reap, shells, atr
  <1>2. CASE ClaimJob(a)
    <2> PICK x \in todo[a] :
          IF file[x.id] # None
          THEN /\ claim' = [claim EXCEPT ![x.id] = file[x.id]]
               /\ file' = [file EXCEPT ![x.id] = None]
          ELSE UNCHANGED <<claim, file>>
      BY <1>2 DEF ClaimJob, IsNext, Claimable
    <2>1. x.id \in Ids /\ (file[x.id] # None => claim[x.id] = None)
      BY DEF TypeOK, Listed, FileInv
    <2>2. \A s \in Sub : InSpool(s)' <=> InSpool(s)
      BY <2>1, SubAssumption DEF InSpool, TypeOK
    <2> QED
      BY <1>1, <2>2, Unseen
  <1>3. CASE ForkFailure(a)
    <2> PICK x \in todo[a] : /\ IsNext(a, x)
                             /\ file' = [file EXCEPT ![x.id] = claim[x.id]]
                             /\ claim' = [claim EXCEPT ![x.id] = None]
      BY <1>3 DEF ForkFailure, GiveBack
    <2>1. x.id \in Ids /\ file[x.id] = None
      BY <1>3, ClaimedNext DEF ForkFailure, Claimed
    <2>2. \A s \in Sub : InSpool(s)' <=> InSpool(s)
      BY <2>1, SubAssumption DEF InSpool, TypeOK
    <2> QED
      BY <1>1, <2>2, Unseen
  <1>4. CASE Reap(a)
    <2> PICK x \in Finished(a) : claim' = [claim EXCEPT ![x.id] = None]
      BY <1>4 DEF Reap
    <2>1. /\ x.id \in Ids /\ x.sub \in Sub /\ x.id = Id(x.sub) /\ shell[x.sub] # "none"
          /\ num[x.sub] # 0
      BY DEF Finished, TypeOK, RanInv, NumberInv
    <2>2. \A s \in Sub : claim[x.id] = s => s = x.sub
      BY <2>1, IdOf DEF FileInv, Holds
    <2>3. \A s \in Sub \ {x.sub} : InSpool(s)' <=> InSpool(s)
      BY <1>4, <2>1, <2>2, SubAssumption DEF InSpool, TypeOK, Reap
    <2> QED
      BY <1>1, <2>1, <2>3, Unseen
  <1> QED
    BY <1>2, <1>3, <1>4

LEMMA Refines ==
  ASSUME Inv, Inv', [Next]_vars
  PROVE  [Jobs!Next]_phase
  <1>1. \A s \in Sub : Jobs!Submit(s) \/ Jobs!Start(s) \/ Jobs!Finish(s) \/ Jobs!Remove(s) => Jobs!Next
    BY DEF Jobs!Next
  <1>2. ASSUME UNCHANGED <<file, claim, removed, shell>>
        PROVE  phase' = phase
    BY <1>2, Unseen DEF InSpool
  <1>3. ASSUME NEW s \in Sub, At(s) \/ EndShell(s) \/ KillAt(s)
        PROVE  [Jobs!Next]_phase
    <2>1. CASE Publish(s) \/ EndShell(s)
      BY <2>1, <1>1, PublishSubmits, EndFinishes
    <2>2. CASE Begin(s) \/ LockSeq(s) \/ ReadSeq(s) \/ WriteSeq(s) \/ Create(s) \/ KillAt(s)
      BY <2>2, <1>2 DEF Begin, LockSeq, ReadSeq, WriteSeq, Create, KillAt, atr, shells
    <2> QED
      BY <1>3, <2>1, <2>2 DEF At
  <1>4. ASSUME NEW r \in Remover, FindJob(r) \/ RemoveJob(r)
        PROVE  [Jobs!Next]_phase
    BY <1>4, <1>1, <1>2, RemoveJobRemoves DEF FindJob, shells
  <1>5. ASSUME NEW a \in Atd, StartOnce(a) \/ Daemon(a) \/ ForkFailure(a) \/ OpenFailure(a) \/ KillAtd(a)
        PROVE  [Jobs!Next]_phase
    <2>1. CASE ClaimJob(a) \/ ForkFailure(a) \/ Reap(a) \/ RunJob(a) \/ OpenFailure(a)
      BY <2>1, <1>1, ClaimUnseen, RunStarts, OpenFailureRemoves
    <2>2. CASE \/ StartOnce(a) \/ Reaped(a) \/ OpenSpool(a) \/ SortJobs(a) \/ EndScan(a) \/ KillAtd(a)
               \/ NotDue(a) \/ Hold(a) \/ \E i \in Ids : ReadJob(a, i)
      BY <2>2, <1>2
         DEF StartOnce, Reaped, OpenSpool, SortJobs, EndScan, KillAtd, NotDue, Hold, ReadJob, atr, shells
    <2> QED
      BY <1>5, <2>1, <2>2 DEF Daemon
  <1>6. CASE Tick \/ UNCHANGED vars
    BY <1>6, <1>2 DEF Tick, vars, atr, shells
  <1> QED
    BY <1>3, <1>4, <1>5, <1>6 DEF Next, Failures

\* What was submitted stays until it is run, or removed by at -r or by an atd that cannot
\* open it; what was removed is not run, and what runs cannot be removed.
THEOREM JobsKeptTheorem == ~TornCounter /\ Spec => JobsKept
  <1> SUFFICES ASSUME ~TornCounter
               PROVE  Spec => JobsKept
    OBVIOUS
  <1>1. Init => Jobs!Init
    BY SubAssumption DEF Init, Jobs!Init, phase, InSpool
  <1>2. Inv /\ [Next]_vars => Inv'
    BY InvNext
  <1>3. Inv /\ Inv' /\ [Next]_vars => [Jobs!Next]_phase
    BY Refines
  <1> QED
    BY InvInit, <1>1, <1>2, <1>3, PTL DEF Spec, JobsKept, Jobs!Spec

-----------------------------------------------------------------------------
(* The order of a scan.  A fork that fails breaks it: the job that gets    *)
(* its name back is passed over until the next scan.                       *)

Due(a, x) == x.when <= now[a] /\ ~Held(a, x)

\* The jobs that the scan has passed are gone, or have to wait: what is about to be run is due.
Scanned(a) ==
  /\ todo[a] \subseteq list[a]
  /\ \A x \in list[a] \ todo[a] : Due(a, x) => file[x.id] = None
  /\ apc[a] = "fork" => \A x \in todo[a] : IsNext(a, x) => Due(a, x)
ScanInv == \A a \in Atd : apc[a] \in {"start", "fork"} => Scanned(a)

\* What is listed and has lost its file does not get it back.
LEMMA GoneStays ==
  ASSUME ~ForkFails, Inv, [Next]_vars, NEW a \in Atd, NEW x \in list[a] \cup todo[a], file[x.id] = None
  PROVE  file'[x.id] = None
  <1> USE DEF Inv
  <1>1. x.id \in Ids
    BY DEF TypeOK, Listed
  <1>2. ASSUME NEW s \in Sub, Publish(s)
        PROVE  file'[x.id] = None
    <2>1. spc[s] = "rename" /\ num[s] # 0 /\ Id(s) \in Ids
      BY <1>2, IdOf DEF Publish, NumberInv
    <2> PICK u \in Sub : spc[u] = "told" /\ x.id = Id(u)
      BY DEF ListInv, Told
    <2>2. u # s /\ num[u] # 0
      BY <2>1 DEF NumberInv
    <2>3. x.id # Id(s)
      BY <2>1, <2>2, IdOf
    <2> QED
      BY <1>1, <1>2, <2>1, <2>3 DEF Publish, TypeOK
  <1>3. ASSUME NEW s \in Sub, At(s) \/ EndShell(s) \/ KillAt(s)
        PROVE  file'[x.id] = None
    BY <1>2, <1>3 DEF At, Begin, LockSeq, ReadSeq, WriteSeq, Create, EndShell, KillAt
  <1>4. ASSUME NEW r \in Remover, FindJob(r) \/ RemoveJob(r)
        PROVE  file'[x.id] = None
    BY <1>1, <1>4 DEF FindJob, RemoveJob, TypeOK
  <1>5. ASSUME NEW b \in Atd, ClaimJob(b)
        PROVE  file'[x.id] = None
    BY <1>1, <1>5 DEF ClaimJob, TypeOK
  <1>6. ASSUME NEW b \in Atd, StartOnce(b) \/ Daemon(b) \/ ForkFailure(b) \/ OpenFailure(b) \/ KillAtd(b)
        PROVE  file'[x.id] = None
    BY <1>5, <1>6 DEF Daemon, StartOnce, Reap, Reaped, OpenSpool, ReadJob, SortJobs, NotDue, Hold,
                      RunJob, EndScan, ForkFailure, OpenFailure, KillAtd
  <1>7. CASE Tick \/ UNCHANGED vars
    BY <1>7 DEF Tick, vars
  <1> QED
    BY <1>3, <1>4, <1>6, <1>7 DEF Next, Failures

\* Nobody but an atd itself changes what it knows.
LEMMA OwnOnly ==
  ASSUME Inv, NEW a \in Atd, [Next]_vars,
         ~(StartOnce(a) \/ Daemon(a) \/ ForkFailure(a) \/ OpenFailure(a) \/ KillAtd(a))
  PROVE  /\ apc'[a] = apc[a] /\ list'[a] = list[a] /\ todo'[a] = todo[a]
         /\ runs'[a] = runs[a] /\ now'[a] = now[a]
  <1> DEFINE Own == /\ apc'[a] = apc[a] /\ list'[a] = list[a] /\ todo'[a] = todo[a]
                    /\ runs'[a] = runs[a] /\ now'[a] = now[a]
  <1>1. UNCHANGED atd => Own
    BY DEF atd
  <1>2. ASSUME NEW b \in Atd, StartOnce(b) \/ Daemon(b) \/ ForkFailure(b) \/ OpenFailure(b) \/ KillAtd(b)
        PROVE  Own
    <2>1. a # b
      BY <1>2
    <2>2. a \in DOMAIN apc /\ a \in DOMAIN list /\ a \in DOMAIN todo /\ a \in DOMAIN runs /\ a \in DOMAIN now
      BY DEF Inv, TypeOK
    <2>3. CASE StartOnce(b) \/ KillAtd(b) \/ OpenFailure(b)
      BY <2>1, <2>2, <2>3 DEF StartOnce, KillAtd, OpenFailure, Goto, Drop
    <2>4. CASE Reap(b) \/ Reaped(b) \/ OpenSpool(b) \/ SortJobs(b) \/ EndScan(b)
      BY <2>1, <2>2, <2>4 DEF Reap, Reaped, OpenSpool, SortJobs, EndScan, Goto
    <2>5. CASE (\E i \in Ids : ReadJob(b, i)) \/ NotDue(b) \/ Hold(b)
      BY <2>1, <2>2, <2>5 DEF ReadJob, NotDue, Hold, Drop
    <2>6. CASE ClaimJob(b) \/ RunJob(b) \/ ForkFailure(b)
      BY <2>1, <2>2, <2>6 DEF ClaimJob, RunJob, ForkFailure, Goto, Drop
    <2> QED
      BY <1>2, <2>3, <2>4, <2>5, <2>6 DEF Daemon
  <1>3. ASSUME NEW s \in Sub, At(s) \/ EndShell(s) \/ KillAt(s)
        PROVE  UNCHANGED atd
    BY <1>3 DEF At, Begin, LockSeq, ReadSeq, WriteSeq, Create, Publish, EndShell, KillAt
  <1>4. ASSUME NEW r \in Remover, FindJob(r) \/ RemoveJob(r)
        PROVE  UNCHANGED atd
    BY <1>4 DEF FindJob, RemoveJob
  <1>5. CASE Tick \/ UNCHANGED vars
    BY <1>1, <1>5 DEF Tick, vars
  <1> QED
    BY <1>1, <1>2, <1>3, <1>4, <1>5 DEF Next, Failures

LEMMA ScanStep ==
  ASSUME ~ForkFails, Inv, ScanInv, [Next]_vars, NEW a \in Atd, apc'[a] \in {"start", "fork"}
  PROVE  Scanned(a)'
  <1> USE DEF Inv
  <1>1. CASE ~(StartOnce(a) \/ Daemon(a) \/ ForkFailure(a) \/ OpenFailure(a) \/ KillAtd(a))
    <2>1. /\ apc'[a] = apc[a] /\ list'[a] = list[a] /\ todo'[a] = todo[a]
          /\ runs'[a] = runs[a] /\ now'[a] = now[a]
      BY <1>1, OwnOnly
    <2>2. \A x : (Due(a, x)' <=> Due(a, x)) /\ (IsNext(a, x)' <=> IsNext(a, x))
      BY <2>1 DEF Due, Held, BatchRunning, IsNext
    <2> QED
      BY <2>1, <2>2, GoneStays DEF ScanInv, Scanned
  <1>2. CASE SortJobs(a)
    BY <1>2 DEF SortJobs, Scanned, Goto, TypeOK
  <1>3. CASE NotDue(a) \/ Hold(a)
    <2> PICK x \in todo[a] : ~Due(a, x) /\ Drop(a, x)
      BY <1>3 DEF NotDue, Hold, Due, TypeOK, Listed, Times
    <2>1. /\ apc[a] = "start" /\ apc'[a] = "start" /\ list'[a] = list[a] /\ todo'[a] = todo[a] \ {x}
          /\ runs'[a] = runs[a] /\ now'[a] = now[a] /\ file' = file
      BY <1>3 DEF NotDue, Hold, Drop, TypeOK
    <2>2. \A y : Due(a, y)' <=> Due(a, y)
      BY <2>1 DEF Due, Held, BatchRunning
    <2> QED
      BY <2>1, <2>2 DEF ScanInv, Scanned
  <1>4. CASE ClaimJob(a)
    <2> PICK x \in todo[a] :
          /\ IsNext(a, x) /\ Due(a, x)
          /\ IF file[x.id] # None
             THEN Goto(a, "fork") /\ UNCHANGED todo
             ELSE Drop(a, x) /\ UNCHANGED <<file, apc>>
      BY <1>4 DEF ClaimJob, IsNext, Due, Claimable
    <2>1. apc[a] = "start" /\ list'[a] = list[a] /\ runs'[a] = runs[a] /\ now'[a] = now[a]
      BY <1>4 DEF ClaimJob
    <2>2. \A y : Due(a, y)' <=> Due(a, y)
      BY <2>1 DEF Due, Held, BatchRunning
    <2>3. \A y \in list[a] : file[y.id] = None => file'[y.id] = None
      BY GoneStays
    <2>4. CASE file[x.id] = None
      BY <2>1, <2>2, <2>3, <2>4 DEF ScanInv, Scanned, Drop, TypeOK
    <2>5. CASE file[x.id] # None
      <3>1. todo' = todo
        BY <2>5
      <3>2. \A y \in todo[a] : IsNext(a, y)' => y = x
        BY <3>1, OneNext DEF IsNext
      <3> QED
        BY <2>1, <2>2, <2>3, <3>1, <3>2 DEF ScanInv, Scanned
    <2> QED
      BY <2>4, <2>5
  <1>5. CASE RunJob(a) \/ OpenFailure(a)
    <2> PICK x \in todo[a] : IsNext(a, x) /\ Drop(a, x)
      BY <1>5 DEF RunJob, OpenFailure
    <2>1. apc[a] = "fork" /\ list'[a] = list[a] /\ now'[a] = now[a] /\ file' = file
      BY <1>5 DEF RunJob, OpenFailure
    <2>2. apc'[a] = "start" /\ todo'[a] = todo[a] \ {x}
      BY <1>5 DEF RunJob, OpenFailure, Goto, Drop, TypeOK
    <2>3. runs[a] \subseteq runs'[a]
      BY <1>5 DEF RunJob, OpenFailure, TypeOK
    <2>4. file[x.id] = None
      BY <2>1, ClaimedNext DEF Claimed
    <2>5. \A y : Due(a, y)' => Due(a, y)
      BY <2>1, <2>3 DEF Due, Held, BatchRunning
    <2> QED
      BY <2>1, <2>2, <2>4, <2>5 DEF ScanInv, Scanned
  <1>6. CASE \/ StartOnce(a) \/ Reap(a) \/ Reaped(a) \/ OpenSpool(a) \/ EndScan(a) \/ KillAtd(a)
             \/ ForkFailure(a) \/ \E i \in Ids : ReadJob(a, i)
    BY <1>6 DEF StartOnce, Reap, Reaped, OpenSpool, EndScan, KillAtd, ForkFailure, ReadJob, Goto, TypeOK
  <1> QED
    BY <1>1, <1>2, <1>3, <1>4, <1>5, <1>6 DEF Daemon

LEMMA ScanNext ==
  ASSUME ~ForkFails, Inv, ScanInv, [Next]_vars
  PROVE  ScanInv'
  BY ScanStep DEF ScanInv

LEMMA StartedInOrder ==
  ASSUME Inv, ScanInv, [Next]_vars
  PROVE  InOrder
  <1> USE DEF Inv
  <1> SUFFICES ASSUME NEW a \in Atd, NEW x \in list[a], NEW y \in list[a], NEW r \in runs'[a] \ runs[a],
                      x.id[2] = "b", y.id[2] = "b", Before(x, y), r.id = y.id
               PROVE  file[x.id] = None
    BY DEF InOrder
  <1>1. RunJob(a)
    <2>1. StartOnce(a) \/ Daemon(a) \/ ForkFailure(a) \/ OpenFailure(a) \/ KillAtd(a)
      BY OwnOnly
    <2>2. ~(\/ StartOnce(a) \/ Reap(a) \/ Reaped(a) \/ OpenSpool(a) \/ SortJobs(a) \/ NotDue(a) \/ Hold(a)
            \/ ClaimJob(a) \/ EndScan(a) \/ ForkFailure(a) \/ OpenFailure(a) \/ KillAtd(a)
            \/ \E i \in Ids : ReadJob(a, i))
      BY DEF StartOnce, Reap, Reaped, OpenSpool, SortJobs, NotDue, Hold, ClaimJob, EndScan, ForkFailure,
             OpenFailure, KillAtd, ReadJob, TypeOK
    <2> QED
      BY <2>1, <2>2 DEF Daemon
  <1> PICK z \in todo[a] :
        /\ IsNext(a, z)
        /\ runs' = [runs EXCEPT ![a] = @ \cup {[id |-> z.id, sub |-> claim[z.id]]}]
    BY <1>1 DEF RunJob
  <1>2. Scanned(a) /\ Due(a, z)
    BY <1>1 DEF ScanInv, Scanned, RunJob
  <1>3. y = z
    <2>1. y.id = z.id
      BY DEF TypeOK
    <2> PICK s \in Sub : spc[s] = "told" /\ y = [id |-> Id(s), when |-> when[s]]
      BY DEF ListInv, Told
    <2> PICK u \in Sub : spc[u] = "told" /\ z = [id |-> Id(u), when |-> when[u]]
      BY DEF ListInv, Told
    <2>2. num[s] # 0
      BY DEF NumberInv
    <2> QED
      BY <2>1, <2>2, IdOf
  <1>4. x \notin todo[a]
    BY <1>3 DEF IsNext
  <1>5. x.when <= y.when /\ x.when \in Nat /\ y.when \in Nat /\ now[a] \in Nat
    <2>1. x.when \in Times /\ y.when \in Times /\ now[a] \in {0} \cup Times
      BY DEF TypeOK, Listed
    <2> QED
      BY <2>1 DEF Before, Times
  <1>6. Due(a, x)
    BY <1>2, <1>3, <1>5 DEF Due, Held
  <1> QED
    BY <1>2, <1>4, <1>6 DEF Scanned

LEMMA OnceStep ==
  ASSUME ~ForkFails, Inv, ScanInv, OnceComplete, [Next]_vars
  PROVE  OnceComplete'
  <1> USE DEF Inv
  <1> SUFFICES ASSUME NEW a \in Once, apc'[a] = "exit"
               PROVE  /\ runs'[a] = {}
                      /\ \A x \in list'[a] : x.when <= now'[a] => file'[x.id] = None
    BY DEF OnceComplete
  <1>1. a \in Atd
    BY OnceAssumption
  <1>2. CASE ~(StartOnce(a) \/ Daemon(a) \/ ForkFailure(a) \/ OpenFailure(a) \/ KillAtd(a))
    <2>1. /\ apc'[a] = apc[a] /\ list'[a] = list[a] /\ runs'[a] = runs[a] /\ now'[a] = now[a]
      BY <1>1, <1>2, OwnOnly
    <2> QED
      BY <1>1, <2>1, GoneStays DEF OnceComplete
  <1>3. CASE EndScan(a)
    <2>1. /\ todo[a] = {} /\ AllDone(a) /\ apc[a] = "start"
          /\ UNCHANGED <<list, runs, now, file>>
      BY <1>1, <1>3 DEF EndScan, Goto, TypeOK
    <2>2. runs[a] = {} /\ Scanned(a)
      BY <1>1, <2>1 DEF AllDone, ScanInv
    <2>3. \A x \in list[a] : x.when <= now[a] => Due(a, x)
      BY <2>2 DEF Due, Held, BatchRunning
    <2> QED
      BY <2>1, <2>2, <2>3 DEF Scanned
  <1>4. CASE \/ StartOnce(a) \/ Reap(a) \/ Reaped(a) \/ OpenSpool(a) \/ SortJobs(a) \/ NotDue(a) \/ Hold(a)
             \/ ClaimJob(a) \/ RunJob(a) \/ ForkFailure(a) \/ OpenFailure(a) \/ KillAtd(a)
             \/ \E i \in Ids : ReadJob(a, i)
    BY <1>1, <1>4 DEF StartOnce, Reap, Reaped, OpenSpool, SortJobs, NotDue, Hold, ClaimJob, RunJob,
      ForkFailure, OpenFailure, KillAtd, ReadJob, Goto, TypeOK
  <1> QED
    BY <1>2, <1>3, <1>4 DEF Daemon

\* When forks succeed, an atd starts the batch jobs in order, and atd -s leaves nothing
\* that was due, whatever other atd's, submissions and removals do meanwhile, and whatever
\* is killed.
THEOREM OrderTheorem == ~TornCounter /\ ~ForkFails /\ Spec => [][InOrder]_vars /\ []OnceComplete
  <1> SUFFICES ASSUME ~TornCounter, ~ForkFails
               PROVE  Spec => [][InOrder]_vars /\ []OnceComplete
    OBVIOUS
  <1>1. Init => ScanInv /\ OnceComplete
    BY OnceAssumption DEF Init, ScanInv, OnceComplete
  <1>2. Inv /\ [Next]_vars => Inv'
    BY InvNext
  <1>3. Inv /\ ScanInv /\ [Next]_vars => ScanInv' /\ InOrder
    BY ScanNext, StartedInOrder
  <1>4. Inv /\ ScanInv /\ OnceComplete /\ [Next]_vars => OnceComplete'
    BY OnceStep
  <1> QED
    BY InvInit, <1>1, <1>2, <1>3, <1>4, PTL DEF Spec

==============================================================================
