---------------------------- MODULE SccsLockProofs ----------------------------
(***************************************************************************)
(* Proofs about the lock of an SCCS file, for every number of users,       *)
(* commands and faults: the files are kept whole, a new SID is given once, *)
(* and work is not lost, as long as nobody's lock is taken away.           *)
(***************************************************************************)
EXTENDS SccsLock, FiniteSetTheorems, SequenceTheorems, WellFoundedInduction, TLAPS

-----------------------------------------------------------------------------
(* The inductive invariant.                                                *)

\* From lock_sccs to unlock_sccs.
Inside == Places \ {"idle", "read", "lock", "unlocked"}
WritingX == {"open x", "write x", "rename x"}
WritingQ == {"write q", "rename q"}
Writing == {"write g", "unlink g"} \cup WritingX \cup WritingQ

\* The edits are finitely many; a command is where its kind can be, and an edit that it
\* makes or ends is its user's.
CommandOf(u) ==
  /\ pc[u] # "idle" => cmd[u] \in Commands
  /\ pc[u] = "write g" => Does(u, "get")
  /\ pc[u] \in WritingX => Does(u, "delta") \/ Does(u, "rmdel") \/ Does(u, "admin")
  /\ pc[u] \in WritingQ => Does(u, "get") \/ Does(u, "delta") \/ Does(u, "unget")
  /\ pc[u] = "unlink g" => Does(u, "delta") \/ Does(u, "unget")
  /\ pc[u] \in Writing /\ (Does(u, "get") \/ Does(u, "delta") \/ Does(u, "unget")) =>
       edit[u] \in Edits /\ edit[u].user = u
CommandInv ==
  /\ IsFiniteSet(pfile) /\ IsFiniteSet(qfile) /\ \A u \in Users : IsFiniteSet(pf[u])
  /\ \A u \in Users : CommandOf(u)

\* The lock is of the command that is inside.
LockInv == \A u \in Users : pc[u] \in Inside => zfile = u

\* The p-file is as the command that writes has read it, the q-file is what it has
\* written, and a new edit's SID is not taken.
EditInv(u) ==
  /\ pc[u] \in Writing \ {"unlink g"} => pf[u] = pfile
  /\ pc[u] = "rename q" => qfile = NewEdits(u)
  /\ pc[u] \in Writing /\ Does(u, "get") => \A e \in pfile : e.new # edit[u].new

\* The s-file that was read is sound, and so is what is made of it; the delta of an
\* edit that is ended is in the s-file.
FileInv(u) ==
  /\ pc[u] \in Places \ {"idle", "read"} /\ ~Does(u, "unget") => Sound(sf[u])
  /\ pc[u] \in WritingX /\ Does(u, "delta") =>
       by_sid(sf[u], edit[u].got) # 0 /\ by_sid(sf[u], edit[u].new) = 0
  /\ pc[u] \in WritingX /\ Does(u, "rmdel") =>
       by_sid(sf[u], Parsed(cmd[u].r)) # 0 /\ Leaf(sf[u], by_sid(sf[u], Parsed(cmd[u].r)))
  /\ pc[u] = "write x" => xfile = [by |-> u, f |-> [NewFile(u) EXCEPT !.whole = FALSE]]
  /\ pc[u] = "rename x" => xfile = [by |-> u, f |-> NewFile(u)]
  /\ pc[u] \in WritingQ \cup {"unlink g"} /\ Does(u, "delta") => MadeDelta(edit[u])

UniqueNew == \A e, f \in pfile : e # f => e.new # f.new

Guarded == LockInv /\ UniqueNew /\ Sound(sfile) /\ \A u \in Users : EditInv(u) /\ FileInv(u)

Inv == TypeOK /\ CommandInv /\ (~stolen => Guarded)

-----------------------------------------------------------------------------
(* The largest of a finite set.                                            *)

\* A rank on a finite set has a maximum: those above an element of the maximum would
\* be a smaller set still.
LEMMA RankMax ==
  ASSUME NEW T, IsFiniteSet(T), T # {}, NEW r \in [T -> Nat]
  PROVE  \E t \in T : \A y \in T : r[y] <= r[t]
  <1> DEFINE Above(t) == {y \in T : r[y] > r[t]}
             Sets == {Above(t) : t \in T}
  <1>1. IsWellFoundedOn(StrictSubsetOrdering(T), FiniteSubsetsOf(T))
    BY FS_StrictSubsetOrderingWellFounded
  <1>2. Sets \subseteq FiniteSubsetsOf(T) /\ Sets # {}
    <2>1. ASSUME NEW t \in T PROVE Above(t) \in FiniteSubsetsOf(T)
      <3>1. Above(t) \in SUBSET T
        OBVIOUS
      <3> HIDE DEF Above
      <3>2. IsFiniteSet(Above(t))
        BY <3>1, FS_Subset
      <3> QED
        BY <3>1, <3>2 DEF FiniteSubsetsOf
    <2> HIDE DEF Above
    <2> QED
      BY <2>1
  <1>3. PICK x \in Sets : \A y \in Sets : <<y, x>> \notin StrictSubsetOrdering(T)
    BY <1>1, <1>2, WFMin
  <1>4. PICK t \in T : x = Above(t)
    BY <1>3
  <1>5. ASSUME NEW z \in Above(t) PROVE FALSE
    <2>1. z \in T /\ Above(z) \in Sets /\ Above(z) \subseteq Above(t)
      BY <1>5
    <2>2. z \notin Above(z)
      BY <2>1
    <2>3. <<Above(z), Above(t)>> \in StrictSubsetOrdering(T)
      BY <1>5, <2>1, <2>2 DEF StrictSubsetOrdering
    <2> QED
      BY <1>3, <1>4, <2>1, <2>3
  <1> QED
    BY <1>4, <1>5

\* The image of a finite set is finite.
LEMMA FiniteImage ==
  ASSUME NEW T, IsFiniteSet(T), NEW f, DOMAIN f = T
  PROVE  IsFiniteSet({f[t] : t \in T})
  <1> DEFINE I == {f[t] : t \in T}
             g == [t \in T |-> f[t]]
  <1>1. g \in Surjection(T, I)
    BY DEF Surjection
  <1>2. IsFiniteSet(I)
    BY <1>1, FS_Surjection
  <1> QED
    BY <1>2

\* A finite set of natural numbers has a maximum.
LEMMA MaxProp ==
  ASSUME NEW T \in SUBSET Nat, IsFiniteSet(T), T # {}
  PROVE  Max(T) \in T /\ \A y \in T : y <= Max(T)
  <1> DEFINE id == [t \in T |-> t]
  <1>1. id \in [T -> Nat]
    OBVIOUS
  <1>2. PICK t \in T : \A y \in T : id[y] <= id[t]
    BY <1>1, RankMax
  <1>3. \E x \in T : \A y \in T : x >= y
    BY <1>2
  <1>4. Max(T) \in T /\ \A y \in T : Max(T) >= y
    BY <1>3 DEF Max
  <1> QED
    BY <1>4

-----------------------------------------------------------------------------
(* The delta table.                                                        *)

LEMMA RowOfTable ==
  ASSUME NEW T, NEW s \in Seq(T), NEW i \in DOMAIN s
  PROVE  s[i] \in T
  OBVIOUS

LEMMA ChangeElement ==
  ASSUME NEW T, NEW s \in Seq(T), NEW k, NEW x, k \in DOMAIN s => x \in T
  PROVE  [s EXCEPT ![k] = x] \in Seq(T)
  <1>1. PICK n \in Nat : s \in [1 .. n -> T]
    BY SeqDef
  <1>2. [s EXCEPT ![k] = x] \in [1 .. n -> T]
    BY <1>1
  <1> QED
    BY <1>2, SeqDef

LEMMA FileType ==
  ASSUME NEW f \in File
  PROVE  /\ is_d(f) \subseteq DOMAIN f.d /\ DOMAIN f.d \subseteq Nat \ {0} /\ IsFiniteSet(is_d(f))
         /\ \A k \in is_d(f) : Sid(f, k) \in Sids
         /\ f.d \in Seq([sid : Sids, pred : Nat, type : {"D", "R"}])
         /\ f.whole \in BOOLEAN /\ f.j \in BOOLEAN
  <1>1. f.d \in Seq([sid : Sids, pred : Nat, type : {"D", "R"}]) /\ f.whole \in BOOLEAN /\ f.j \in BOOLEAN
    BY DEF File
  <1>2. DOMAIN f.d = 1 .. Len(f.d) /\ Len(f.d) \in Nat
    BY <1>1
  <1>3. is_d(f) \in SUBSET (1 .. Len(f.d))
    BY <1>2 DEF is_d
  <1>4. IsFiniteSet(1 .. Len(f.d))
    BY <1>2, FS_Interval
  <1>5. IsFiniteSet(is_d(f))
    BY <1>3, <1>4, FS_Subset
  <1>6. ASSUME NEW k \in is_d(f) PROVE Sid(f, k) \in Sids
    <2>1. f.d[k] \in [sid : Sids, pred : Nat, type : {"D", "R"}]
      BY <1>1, <1>2, <1>3, RowOfTable
    <2> QED
      BY <2>1 DEF Sid
  <1> QED
    BY <1>1, <1>2, <1>3, <1>5, <1>6

LEMMA SidType ==
  ASSUME NEW s \in Sids
  PROVE  R(s) \in Nat /\ L(s) \in Nat /\ B(s) \in Nat /\ S(s) \in Nat /\ s = <<R(s), L(s), B(s), S(s)>>
  BY DEF Sids, R, L, B, S

\* by_sid finds the delta of a SID when there is one.
LEMMA BySid ==
  ASSUME NEW f \in File, NEW s
  PROVE  /\ by_sid(f, s) = 0 => \A k \in is_d(f) : Sid(f, k) # s
         /\ by_sid(f, s) # 0 => by_sid(f, s) \in is_d(f) /\ Sid(f, by_sid(f, s)) = s
         /\ by_sid(f, s) \in Nat
  <1> DEFINE ks == {k \in is_d(f) : Sid(f, k) = s}
             id == [k \in ks |-> k]
  <1>1. ks \subseteq Nat \ {0} /\ ks \subseteq is_d(f)
    BY FileType
  <1>2. IsFiniteSet(ks)
    BY FileType, FS_Subset, ks \in SUBSET is_d(f)
  <1>3. by_sid(f, s) = IF ks = {} THEN 0 ELSE CHOOSE k \in ks : \A i \in ks : i <= k
    BY DEF by_sid, Highest
  <1>4. CASE ks = {}
    BY <1>3, <1>4
  <1>5. CASE ks # {}
    <2>1. id \in [ks -> Nat]
      BY <1>1
    <2>2. PICK k \in ks : \A i \in ks : id[i] <= id[k]
      BY <1>2, <1>5, <2>1, RankMax
    <2>3. \E m \in ks : \A i \in ks : i <= m
      BY <2>2
    <2>4. by_sid(f, s) \in ks
      BY <1>3, <1>5, <2>3
    <2> QED
      BY <1>1, <2>4
  <1> QED
    BY <1>4, <1>5

LEMMA TopTrunk ==
  ASSUME NEW f \in File, NEW r
  PROVE  top_trunk(f, r) \in is_d(f) \cup {0}
  <1> DEFINE ks == {k \in TrunkOf(f) : R(Sid(f, k)) = r}
             rank == [k \in ks |-> L(Sid(f, k))]
  <1>1. ks \in SUBSET is_d(f)
    BY DEF TrunkOf
  <1>2. IsFiniteSet(ks)
    BY <1>1, FileType, FS_Subset
  <1>3. top_trunk(f, r) = IF ks = {} THEN 0 ELSE CHOOSE k \in ks : \A i \in ks : L(Sid(f, i)) <= L(Sid(f, k))
    BY DEF top_trunk, Highest
  <1>4. CASE ks # {}
    <2>1. rank \in [ks -> Nat]
      BY <1>1, FileType, SidType
    <2>2. PICK k \in ks : \A i \in ks : rank[i] <= rank[k]
      BY <1>2, <1>4, <2>1, RankMax
    <2>3. \E m \in ks : \A i \in ks : L(Sid(f, i)) <= L(Sid(f, m))
      BY <2>2
    <2>4. top_trunk(f, r) \in ks
      BY <1>3, <1>4, <2>3
    <2> QED
      BY <1>1, <2>4
  <1> QED
    BY <1>3, <1>4

\* What get chooses is a delta, or 0.
LEMMA ChooseType ==
  ASSUME NEW f \in File, NEW r \in Requests
  PROVE  choose(f, r) \in is_d(f) \cup {0}
  <1> DEFINE ks == {k \in is_d(f) : SubSeq(Sid(f, k), 1, 3) = r}
             rank == [k \in ks |-> S(Sid(f, k))]
             best == IF ks = {} THEN 0 ELSE CHOOSE k \in ks : \A i \in ks : S(Sid(f, i)) <= S(Sid(f, k))
  <1>1. IsFiniteSet(ks)
    BY FileType, FS_Subset, ks \in SUBSET is_d(f)
  <1>2. best \in is_d(f) \cup {0}
    <2>1. CASE ks # {}
      <3>1. rank \in [ks -> Nat]
        BY FileType, SidType
      <3>2. PICK k \in ks : \A i \in ks : rank[i] <= rank[k]
        BY <1>1, <2>1, <3>1, RankMax
      <3>3. \E m \in ks : \A i \in ks : S(Sid(f, i)) <= S(Sid(f, m))
        BY <3>2
      <3>4. best \in ks
        BY <2>1, <3>3
      <3> QED
        BY <3>4
    <2> QED
      BY <2>1
  <1>3. best = Highest(ks, LAMBDA k : S(Sid(f, k)))
    BY DEF Highest
  <1>4. by_sid(f, Parsed(r)) \in is_d(f) \cup {0}
    BY BySid
  <1>5. \A x : top_trunk(f, x) \in is_d(f) \cup {0}
    BY TopTrunk
  <1> HIDE DEF ks, best
  <1>6. Len(r) \in Nat
    BY RequestsAssumption
  <1>7. choose(f, r) \in {0, best, by_sid(f, Parsed(r))} \cup {top_trunk(f, x) : x \in {max_release(f),
           R(Parsed(r)), Max({y \in 1 .. R(Parsed(r)) - 1 : top_trunk(f, y) # 0})}}
    BY <1>3, <1>6 DEF choose, ks
  <1> QED
    BY <1>2, <1>4, <1>5, <1>7

\* A new branch's number is greater than those of the branches there are.
LEMMA NewBranch ==
  ASSUME NEW f \in File, NEW g \in Sids, NEW reserved \in SUBSET Sids, IsFiniteSet(reserved)
  PROVE  new_branch(f, g, reserved) \in Sids \ reserved
  <1> DEFINE mine == {s \in {Sid(f, k) : k \in is_d(f)} \cup {t \in reserved : S(t) > 0} : R(s) = R(g) /\ L(s) = L(g)}
             top == Max({0} \cup {B(s) : s \in mine})
             new == <<R(g), L(g), top + 1, 1>>
  <1>1. new_branch(f, g, reserved) = new
    BY DEF new_branch
  <1>2. mine \subseteq Sids
    BY FileType
  <1>3. IsFiniteSet(mine)
    <2> DEFINE sids == [k \in is_d(f) |-> Sid(f, k)]
    <2>1. DOMAIN sids = is_d(f) /\ {sids[k] : k \in is_d(f)} = {Sid(f, k) : k \in is_d(f)}
      OBVIOUS
    <2> HIDE DEF sids
    <2>2. IsFiniteSet(is_d(f))
      BY FileType
    <2>3. IsFiniteSet({sids[k] : k \in is_d(f)})
      BY <2>1, <2>2, FiniteImage
    <2>4. IsFiniteSet({Sid(f, k) : k \in is_d(f)})
      BY <2>1, <2>3
    <2>5. IsFiniteSet({t \in reserved : S(t) > 0})
      BY FS_Subset, {t \in reserved : S(t) > 0} \in SUBSET reserved
    <2>6. IsFiniteSet({Sid(f, k) : k \in is_d(f)} \cup {t \in reserved : S(t) > 0})
      BY <2>4, <2>5, FS_Union
    <2> QED
      BY <2>6, FS_Subset, mine \in SUBSET ({Sid(f, k) : k \in is_d(f)} \cup {t \in reserved : S(t) > 0})
  <1>4. IsFiniteSet({0} \cup {B(s) : s \in mine})
    <2> DEFINE number == [s \in mine |-> B(s)]
    <2>0. DOMAIN number = mine /\ {number[s] : s \in mine} = {B(s) : s \in mine}
      OBVIOUS
    <2> HIDE DEF number
    <2>1. IsFiniteSet({number[s] : s \in mine})
      BY <1>3, <2>0, FiniteImage
    <2>2. {number[s] : s \in mine} = {B(s) : s \in mine}
      BY <2>0
    <2>3. IsFiniteSet({B(s) : s \in mine} \cup {0})
      BY <2>1, <2>2, FS_AddElement
    <2> QED
      BY <2>3, {0} \cup {B(s) : s \in mine} = {B(s) : s \in mine} \cup {0}
  <1>5. {0} \cup {B(s) : s \in mine} \in SUBSET Nat
    BY <1>2, SidType
  <1>6. top \in Nat /\ \A s \in mine : B(s) <= top
    BY <1>4, <1>5, MaxProp
  <1>7. new \in Sids
    BY <1>6, SidType DEF Sids
  <1>8. R(new) = R(g) /\ L(new) = L(g) /\ B(new) = top + 1 /\ S(new) = 1
    BY DEF R, L, B, S
  <1>9. ASSUME new \in reserved PROVE FALSE
    <2>1. new \in mine
      BY <1>8, <1>9
    <2> QED
      BY <1>6, <1>8, <2>1
  <1> QED
    BY <1>1, <1>7, <1>9

\* The new SID is not one that an open edit has reserved.
LEMMA NewSid ==
  ASSUME NEW f \in File, NEW r \in Requests, NEW got \in is_d(f), NEW b \in BOOLEAN,
         NEW reserved \in SUBSET Sids, IsFiniteSet(reserved)
  PROVE  new_sid(f, r, got, b, reserved) \in Sids \ reserved
  <1> DEFINE g == Sid(f, got)
             next == IF ~Trunk(g) THEN <<R(g), L(g), B(g), S(g) + 1>>
                     ELSE IF Len(r) = 1 /\ r[1] > R(g) THEN Release(r[1], 1)
                     ELSE Release(R(g), L(g) + 1)
  <1>1. g \in Sids
    BY FileType
  <1>2. next \in Sids
    <2>1. Len(r) = 1 => r[1] \in Nat
      BY RequestsAssumption
    <2> QED
      BY <1>1, <2>1, SidType DEF Sids, Release
  <1>3. new_sid(f, r, got, b, reserved) = new_branch(f, g, reserved)
        \/ (new_sid(f, r, got, b, reserved) = next /\ ~sid_taken(f, reserved, next))
    BY DEF new_sid
  <1>4. ~sid_taken(f, reserved, next) => next \notin reserved
    BY DEF sid_taken
  <1> HIDE DEF next, g
  <1> QED
    BY <1>1, <1>2, <1>3, <1>4, NewBranch

-----------------------------------------------------------------------------
(* What the commands make.                                                 *)

LEMMA CommandType ==
  ASSUME NEW c \in Commands
  PROVE  /\ c.op \in {"get", "delta", "unget", "rmdel", "admin"}
         /\ c.op # "admin" => c.r \in Requests
         /\ c.op = "get" => c.b \in BOOLEAN
  BY DEF Commands

LEMMA GetEditType ==
  ASSUME TypeOK, CommandInv, NEW u \in Users, pc[u] = "locked", Does(u, "get"), MayGet(u)
  PROVE  /\ GetEdit(u) \in Edits /\ GetEdit(u).user = u
         /\ \A e \in pfile : e.new # GetEdit(u).new
  <1> DEFINE got == choose(sf[u], cmd[u].r)
             reserved == {e.new : e \in pfile}
  <1>1. sf[u] \in File /\ cmd[u] \in Commands /\ pfile \in SUBSET Edits /\ IsFiniteSet(pfile)
    BY DEF TypeOK, CommandInv, CommandOf
  <1>2. cmd[u].r \in Requests /\ cmd[u].b \in BOOLEAN
    BY <1>1, CommandType DEF Does
  <1>3. got \in is_d(sf[u])
    BY <1>1, <1>2, ChooseType DEF MayGet
  <1>4. reserved \in SUBSET Sids
    BY <1>1 DEF Edits
  <1>5. IsFiniteSet(reserved)
    <2> DEFINE news == [e \in pfile |-> e.new]
    <2>1. DOMAIN news = pfile /\ {news[e] : e \in pfile} = reserved
      OBVIOUS
    <2> HIDE DEF news
    <2> QED
      BY <1>1, <2>1, FiniteImage
  <1>6. new_sid(sf[u], cmd[u].r, got, cmd[u].b, reserved) \in Sids \ reserved
    BY <1>1, <1>2, <1>3, <1>4, <1>5, NewSid
  <1>7. Sid(sf[u], got) \in Sids
    BY <1>1, <1>3, FileType
  <1>8. GetEdit(u) = [got |-> Sid(sf[u], got), user |-> u, new |-> new_sid(sf[u], cmd[u].r, got, cmd[u].b, reserved)]
    BY DEF GetEdit
  <1>9. PICK new \in Sids : new \notin reserved /\ GetEdit(u) = [got |-> Sid(sf[u], got), user |-> u, new |-> new]
    BY <1>6, <1>8
  <1> QED
    BY <1>7, <1>9 DEF Edits

LEMMA TheEditType ==
  ASSUME TypeOK, CommandInv, NEW u \in Users, OneEdit(u)
  PROVE  TheEdit(u) \in Edits /\ TheEdit(u).user = u /\ TheEdit(u) \in pfile
  <1>1. OwnEdits(u) \in SUBSET pfile /\ IsFiniteSet(pfile) /\ pfile \in SUBSET Edits
    BY DEF OwnEdits, TypeOK, CommandInv, CommandOf
  <1>2. IsFiniteSet(OwnEdits(u))
    BY <1>1, FS_Subset
  <1>3. \E x : OwnEdits(u) = {x}
    BY <1>2, FS_Singleton DEF OneEdit
  <1>4. TheEdit(u) \in OwnEdits(u)
    BY <1>3 DEF TheEdit
  <1> QED
    BY <1>1, <1>4 DEF OwnEdits

\* The delta that a command appends.
NewDelta(u) == [sid |-> edit[u].new, pred |-> by_sid(sf[u], edit[u].got), type |-> "D"]

LEMMA NewFileOf ==
  ASSUME TypeOK, CommandInv, NEW u \in Users, pc[u] \in WritingX
  PROVE  /\ Does(u, "delta") =>
              NewFile(u) = [sf[u] EXCEPT !.d = Append(sf[u].d, NewDelta(u))]
         /\ Does(u, "rmdel") =>
              LET k == by_sid(sf[u], Parsed(cmd[u].r))
              IN NewFile(u) = [sf[u] EXCEPT !.d = [sf[u].d EXCEPT ![k] = [sf[u].d[k] EXCEPT !.type = "R"]]]
         /\ Does(u, "admin") => NewFile(u) = [sf[u] EXCEPT !.j = ~sf[u].j]
  BY DEF NewFile, NewDelta, Does

LEMMA NewFileType ==
  ASSUME TypeOK, CommandInv, NEW u \in Users, pc[u] \in WritingX
  PROVE  NewFile(u) \in File
  <1> DEFINE D == [sid : Sids, pred : Nat, type : {"D", "R"}]
  <1>1. sf[u] \in File /\ sf[u].d \in Seq(D) /\ sf[u].j \in BOOLEAN /\ sf[u].whole \in BOOLEAN
    BY FileType DEF TypeOK
  <1>2. CASE Does(u, "delta")
    <2>1. edit[u] \in Edits
      BY <1>2 DEF CommandInv, CommandOf, Writing
    <2>2. NewDelta(u) \in D
      BY <1>1, <2>1, BySid DEF NewDelta, Edits
    <2>3. Append(sf[u].d, NewDelta(u)) \in Seq(D)
      BY <1>1, <2>2
    <2> QED
      BY <1>1, <1>2, <2>3, NewFileOf DEF File
  <1>3. CASE Does(u, "rmdel")
    <2> DEFINE k == by_sid(sf[u], Parsed(cmd[u].r))
               d == [sf[u].d EXCEPT ![k] = [sf[u].d[k] EXCEPT !.type = "R"]]
    <2>1. \A x \in D : [x EXCEPT !.type = "R"] \in D
      OBVIOUS
    <2> HIDE DEF k, D
    <2>2. k \in DOMAIN sf[u].d => [sf[u].d[k] EXCEPT !.type = "R"] \in D
      <3>1. ASSUME k \in DOMAIN sf[u].d PROVE sf[u].d[k] \in D
        BY <1>1, <3>1, RowOfTable
      <3> QED
        BY <2>1, <3>1
    <2>3. d \in Seq(D)
      BY <1>1, <2>2, ChangeElement
    <2> USE DEF k, D
    <2> QED
      BY <1>1, <1>3, <2>3, NewFileOf DEF File
  <1>4. CASE Does(u, "admin")
    BY <1>1, <1>4, NewFileOf DEF File
  <1> QED
    BY <1>2, <1>3, <1>4 DEF CommandInv, CommandOf

\* delta appends a delta whose SID is new after one that is there; rmdel takes away one
\* that has no successor: the file stays sound.
LEMMA NewFileSound ==
  ASSUME TypeOK, CommandInv, NEW u \in Users, pc[u] \in WritingX, Sound(sf[u]), FileInv(u)
  PROVE  Sound(NewFile(u)) /\ (Does(u, "delta") => \E k \in is_d(NewFile(u)) : Sid(NewFile(u), k) = edit[u].new)
  <1> DEFINE f == sf[u]
             h == NewFile(u)
             D == [sid : Sids, pred : Nat, type : {"D", "R"}]
  <1>0. f \in File /\ h \in File /\ f.whole
    BY NewFileType DEF TypeOK, Sound
  <1>1. /\ f \in File /\ f.d \in Seq(D) /\ f.whole /\ h \in File
        /\ is_d(f) \subseteq DOMAIN f.d /\ DOMAIN f.d = 1 .. Len(f.d) /\ Len(f.d) \in Nat
    <2>1. f.d \in Seq(D) /\ is_d(f) \subseteq DOMAIN f.d
      BY <1>0, FileType
    <2> QED
      BY <1>0, <2>1
  <1>2. CASE Does(u, "delta")
    <2> DEFINE new == NewDelta(u)
               n == Len(f.d) + 1
    <2>1. h.d = Append(f.d, new) /\ h.whole = f.whole
      BY <1>1, <1>2, NewFileOf DEF File
    <2>2. /\ DOMAIN h.d = 1 .. n /\ h.d[n] = new
          /\ \A k \in 1 .. Len(f.d) : h.d[k] = f.d[k]
      BY <1>1, <2>1
    <2>3. is_d(h) = is_d(f) \cup {n} /\ n \notin is_d(f) /\ is_d(f) \subseteq 1 .. n - 1 /\ n \in Nat
      <3>1. h.d[n].type = "D"
        BY <2>2 DEF NewDelta
      <3>2. n \in 1 .. n /\ 1 .. n = (1 .. Len(f.d)) \cup {n} /\ n \notin 1 .. Len(f.d) /\ n - 1 = Len(f.d) /\ n \in Nat
        BY <1>1
      <3> HIDE DEF f, h, n, new
      <3> QED
        BY <1>1, <2>2, <3>1, <3>2 DEF is_d
    <2>4. Sid(h, n) = edit[u].new /\ h.d[n].pred = by_sid(f, edit[u].got)
      BY <2>2 DEF Sid, NewDelta
    <2>5. \A k \in is_d(f) : Sid(h, k) = Sid(f, k) /\ h.d[k].pred = f.d[k].pred
      BY <1>1, <2>2 DEF Sid
    <2>6. \A k \in is_d(f) : Sid(f, k) # edit[u].new
      BY <1>1, <1>2, BySid DEF FileInv
    <2>7. by_sid(f, edit[u].got) \in is_d(f)
      BY <1>1, <1>2, BySid DEF FileInv
    <2>8. \A k, i \in is_d(h) : k # i => Sid(h, k) # Sid(h, i)
      BY <2>3, <2>4, <2>5, <2>6 DEF Sound
    <2>9. \A k \in is_d(h) : h.d[k].pred \in {0} \cup (is_d(h) \cap 1..k - 1)
      <3>1. \A k \in is_d(f) : f.d[k].pred \in {0} \cup (is_d(f) \cap 1..k - 1)
        BY DEF Sound
      <3> HIDE DEF f, h, new, n
      <3> QED
        BY <2>3, <2>4, <2>5, <2>7, <3>1
    <2> QED
      BY <1>1, <2>1, <2>3, <2>4, <2>8, <2>9 DEF Sound
  <1>3. CASE Does(u, "rmdel")
    <2> DEFINE k == by_sid(f, Parsed(cmd[u].r))
    <2>1. k \in is_d(f) /\ Leaf(f, k)
      BY <1>1, <1>3, BySid DEF FileInv
    <2>2. h.d = [f.d EXCEPT ![k] = [f.d[k] EXCEPT !.type = "R"]] /\ h.whole = f.whole
      BY <1>1, <1>3, NewFileOf DEF File
    <2> HIDE DEF k
    <2>3. DOMAIN h.d = DOMAIN f.d /\ \A i \in DOMAIN f.d : i # k => h.d[i] = f.d[i]
      BY <1>1, <2>2
    <2>4. h.d[k].type = "R"
      <3>1. f.d[k] \in D
        BY <1>1, <2>1, RowOfTable
      <3>2. [f.d[k] EXCEPT !.type = "R"].type = "R"
        BY <3>1
      <3> QED
        BY <1>1, <2>1, <2>2, <3>2
    <2>5. is_d(h) = is_d(f) \ {k}
      BY <2>1, <2>3, <2>4 DEF is_d
    <2>6. \A i \in is_d(h) : Sid(h, i) = Sid(f, i) /\ h.d[i].pred = f.d[i].pred /\ f.d[i].pred # k
      BY <1>1, <2>1, <2>3, <2>5 DEF Sid, Leaf
    <2>7. ~Does(u, "delta")
      BY <1>3 DEF Does
    <2>8. \A i \in is_d(f) : f.d[i].pred \in {0} \cup (is_d(f) \cap 1..i - 1)
      BY DEF Sound
    <2>9. \A i, j \in is_d(f) : i # j => Sid(f, i) # Sid(f, j)
      BY DEF Sound
    <2>10. \A i \in is_d(h) : h.d[i].pred \in {0} \cup (is_d(h) \cap 1..i - 1)
      BY <2>5, <2>6, <2>8
    <2>11. \A i, j \in is_d(h) : i # j => Sid(h, i) # Sid(h, j)
      BY <2>5, <2>6, <2>9
    <2> QED
      BY <1>1, <2>2, <2>7, <2>10, <2>11 DEF Sound
  <1>4. CASE Does(u, "admin")
    <2>1. h.d = f.d /\ h.whole = f.whole /\ ~Does(u, "delta")
      BY <1>1, <1>4, NewFileOf DEF File, Does
    <2> QED
      BY <2>1 DEF Sound, is_d, Sid
  <1> QED
    BY <1>2, <1>3, <1>4 DEF CommandInv, CommandOf

-----------------------------------------------------------------------------
(* Types, and where a command can be.                                      *)

LEMMA AnyType ==
  Commands \subseteq AnyCommand /\ NoCmd \in AnyCommand /\ Edits \subseteq AnyEdit /\ NoEdit \in AnyEdit
  BY DEF AnyCommand, AnyEdit

LEMMA NoFileType ==
  /\ NoFile \in File
  /\ NoX \in [by : Users \cup {None}, f : File]
  <1>1. \A T : <<>> \in Seq(T)
    OBVIOUS
  <1>2. NoFile \in File
    BY <1>1 DEF NoFile, File
  <1> QED
    BY <1>2 DEF NoX

LEMMA InitType ==
  ASSUME Init
  PROVE  TypeOK /\ CommandInv
  <1>1. sfile \in File
    <2>1. First \in [sid : Sids, pred : Nat, type : {"D", "R"}] /\ Second \in [sid : Sids, pred : Nat, type : {"D", "R"}]
      BY DEF First, Second, Release, Sids
    <2>2. <<First>> \in Seq([sid : Sids, pred : Nat, type : {"D", "R"}])
          /\ <<First, Second>> \in Seq([sid : Sids, pred : Nat, type : {"D", "R"}])
      BY <2>1
    <2>3. PICK d \in {<<First>>, <<First, Second>>}, j \in BOOLEAN : sfile = [d |-> d, j |-> j, whole |-> TRUE]
      BY DEF Init
    <2> QED
      BY <2>2, <2>3 DEF File
  <1>2. NoFile \in File
    BY NoFileType
  <1>3. TypeOK
    <2>1. /\ pc \in [Users -> Places] /\ cmd \in [Users -> AnyCommand] /\ edit \in [Users -> AnyEdit]
          /\ sf \in [Users -> File] /\ pf \in [Users -> SUBSET Edits]
      <3>1. pc = [u \in Users |-> "idle"] /\ cmd = [u \in Users |-> NoCmd] /\ edit = [u \in Users |-> NoEdit]
            /\ sf = [u \in Users |-> NoFile] /\ pf = [u \in Users |-> {}]
        BY DEF Init
      <3>2. "idle" \in Places /\ NoCmd \in AnyCommand /\ NoEdit \in AnyEdit
        BY AnyType DEF Places
      <3> QED
        BY <1>2, <3>1, <3>2
    <2>2. cmds \in 0..MaxCmds /\ faults \in 0..MaxFaults /\ stolen \in BOOLEAN
      <3>1. cmds = 0 /\ faults = 0 /\ stolen = FALSE /\ 0 \in 0..MaxCmds /\ 0 \in 0..MaxFaults
        BY LockBounds DEF Init
      <3> QED
        BY <3>1
    <2>3. /\ gfile \in [Users -> BOOLEAN] /\ xfile \in [by : Users \cup {None}, f : File]
          /\ pfile \in SUBSET Edits /\ qfile \in SUBSET Edits /\ zfile \in Users \cup {None}
      <3>1. gfile = [u \in Users |-> FALSE] /\ xfile = NoX /\ pfile = {} /\ qfile = {} /\ zfile = None
        BY DEF Init
      <3> QED
        BY <3>1, NoFileType
    <2> QED
      BY <1>1, <2>1, <2>2, <2>3 DEF TypeOK
  <1>4. CommandInv
    BY FS_EmptySet DEF Init, CommandInv, CommandOf, Writing, WritingX, WritingQ
  <1> QED
    BY <1>3, <1>4

LEMMA EditsType ==
  ASSUME TypeOK, CommandInv, NEW u \in Users, pc[u] \in WritingQ
  PROVE  NewEdits(u) \in SUBSET Edits /\ IsFiniteSet(NewEdits(u))
  <1>1. pf[u] \in SUBSET Edits /\ IsFiniteSet(pf[u])
    BY DEF TypeOK, CommandInv, CommandOf
  <1>2. CASE Does(u, "get")
    <2>1. edit[u] \in Edits
      BY <1>2 DEF CommandInv, CommandOf, Writing
    <2>2. IsFiniteSet(pf[u] \cup {edit[u]})
      BY <1>1, FS_AddElement
    <2> QED
      BY <1>1, <1>2, <2>1, <2>2 DEF NewEdits
  <1>3. CASE ~Does(u, "get")
    <2>1. IsFiniteSet(pf[u] \ {edit[u]})
      BY <1>1, FS_RemoveElement
    <2> QED
      BY <1>1, <1>3, <2>1 DEF NewEdits
  <1> QED
    BY <1>2, <1>3

\* The type of what a step of u changes of its own.
Own == /\ pc \in [Users -> Places] /\ cmd \in [Users -> AnyCommand] /\ sf \in [Users -> File]
       /\ pf \in [Users -> SUBSET Edits] /\ edit \in [Users -> AnyEdit]

LEMMA OwnType ==
  ASSUME TypeOK
  PROVE  Own
  BY DEF TypeOK, Own

LEMMA GoesType ==
  ASSUME Own, NEW u \in Users, NEW where \in Places, Goes(u, where)
  PROVE  pc' \in [Users -> Places]
  BY DEF Own, Goes

LEMMA OverType ==
  ASSUME Own, NEW u \in Users, Over(u)
  PROVE  Own'
  BY NoFileType, AnyType DEF Own, Over, Goes, Places

\* A fault is counted up to its bound.
LEMMA FaultType ==
  ASSUME faults \in 0..MaxFaults, Fault \/ UNCHANGED faults
  PROVE  faults' \in 0..MaxFaults
  BY LockBounds DEF Fault

\* The rest is typed when it is left alone.
LEMMA StepType ==
  ASSUME TypeOK, CommandInv, NEW u \in Users, Step(u)
  PROVE  TypeOK'
  <1> USE OwnType, LockBounds
  <1>0. {"idle", "read", "lock", "locking", "locked", "write g", "open x", "write x", "rename x", "write q",
         "rename q", "unlink g", "unlock", "unlocked"} = Places
    BY DEF Places
  <1>1. CASE Start(u)
    <2>1. PICK c \in Commands : cmd' = [cmd EXCEPT ![u] = c] /\ Goes(u, IF c.op = "unget" THEN "lock" ELSE "read")
      BY <1>1 DEF Start
    <2>2. cmd' \in [Users -> AnyCommand]
      BY <2>1, AnyType DEF Own
    <2>3. (IF c.op = "unget" THEN "lock" ELSE "read") \in Places
      BY <1>0
    <2>4. pc' \in [Users -> Places]
      BY <2>1, <2>3, GoesType
    <2> QED
      BY <1>1, <2>2, <2>4 DEF Start, TypeOK
  <1>2. CASE sfile_read(u)
    <2>1. Own'
      <3>1. CASE Over(u)
        BY <3>1, OverType
      <3>2. CASE ~Over(u)
        <4>1. sf' = [sf EXCEPT ![u] = sfile] /\ Goes(u, "lock") /\ UNCHANGED <<cmd, pf, edit>>
          BY <1>2, <3>2 DEF sfile_read
        <4>2. pc' \in [Users -> Places]
          BY <1>0, <4>1, GoesType
        <4> QED
          BY <4>1, <4>2 DEF Own, TypeOK
      <3> QED
        BY <3>1, <3>2
    <2> QED
      BY <1>2, <2>1 DEF sfile_read, TypeOK, Own
  <1>3. CASE lock_sccs(u)
    <2>1. Own' /\ zfile' \in Users \cup {None}
      <3>1. CASE Over(u)
        BY <1>3, <3>1, OverType DEF lock_sccs, TypeOK
      <3>2. CASE ~Over(u)
        <4>1. zfile' = u /\ Goes(u, "locking") /\ UNCHANGED <<cmd, sf, pf, edit>>
          BY <1>3, <3>2 DEF lock_sccs
        <4>2. pc' \in [Users -> Places]
          BY <1>0, <4>1, GoesType
        <4> QED
          BY <4>1, <4>2 DEF Own
      <3> QED
        BY <3>1, <3>2
    <2> QED
      BY <1>3, <2>1 DEF lock_sccs, TypeOK, Own
  <1>4. CASE Locked(u)
    <2>1. pc' \in [Users -> Places]
      BY <1>0, <1>4, GoesType DEF Locked
    <2> QED
      BY <1>4, <2>1 DEF Locked, TypeOK
  <1>5. CASE Decide(u)
    <2>1. ASSUME NEW e \in AnyEdit, NEW where \in Places, edit' = [edit EXCEPT ![u] = e], Goes(u, where)
          PROVE  edit' \in [Users -> AnyEdit] /\ pc' \in [Users -> Places]
      BY <2>1, GoesType DEF Own
    <2>2. Does(u, "get") /\ MayGet(u) => GetEdit(u) \in AnyEdit
      BY <1>5, GetEditType, AnyType DEF Decide
    <2>3. OneEdit(u) => TheEdit(u) \in AnyEdit
      BY TheEditType, AnyType
    <2>4. MayDelta(u) => OneEdit(u)
      BY DEF MayDelta
    <2>5. PICK e \in AnyEdit, where \in Places : edit' = [edit EXCEPT ![u] = e] /\ Goes(u, where)
      BY <1>0, <1>5, <2>2, <2>3, <2>4, AnyType DEF Decide
    <2>6. edit' \in [Users -> AnyEdit] /\ pc' \in [Users -> Places]
      BY <2>1, <2>5
    <2>7. pf' \in [Users -> SUBSET Edits]
      BY <1>5 DEF Decide, TypeOK
    <2> QED
      BY <1>5, <2>6, <2>7 DEF Decide, TypeOK
  <1>6. CASE OpenX(u)
    <2>1. NewFile(u) \in File
      BY <1>6, NewFileType DEF OpenX, WritingX
    <2>2. [NewFile(u) EXCEPT !.whole = FALSE] \in File
      BY <2>1 DEF File
    <2>3. pc' \in [Users -> Places]
      BY <1>0, <1>6, GoesType DEF OpenX
    <2> QED
      BY <1>6, <2>2, <2>3 DEF OpenX, TypeOK
  <1>7. CASE WriteX(u)
    <2>1. xfile.f \in File
      BY DEF TypeOK
    <2>2. [xfile EXCEPT !.f.whole = TRUE] \in [by : Users \cup {None}, f : File]
      BY <2>1 DEF TypeOK, File
    <2>3. pc' \in [Users -> Places] /\ faults' \in 0..MaxFaults
      <3>1. pc' \in [Users -> Places]
        BY <1>0, <1>7, GoesType DEF WriteX
      <3>2. faults \in 0..MaxFaults /\ (Fault \/ UNCHANGED faults)
        BY <1>7 DEF WriteX, TypeOK
      <3>3. faults' \in 0..MaxFaults
        BY <3>2, FaultType
      <3> QED
        BY <3>1, <3>3
    <2>4. xfile' \in {NoX, xfile, [xfile EXCEPT !.f.whole = TRUE]}
      BY <1>7 DEF WriteX
    <2>5. xfile' \in [by : Users \cup {None}, f : File]
      BY <2>2, <2>4, NoFileType DEF TypeOK
    <2> QED
      BY <1>7, <2>3, <2>5 DEF WriteX, TypeOK
  <1>8. CASE RenameX(u)
    <2>1. pc' \in [Users -> Places]
      BY <1>0, <1>8, GoesType DEF RenameX
    <2>2. sfile' \in File
      BY <1>8 DEF RenameX, TypeOK
    <2> QED
      BY <1>8, <2>1, <2>2, NoFileType DEF RenameX, TypeOK
  <1>9. CASE WriteG(u)
    <2>1. pc' \in [Users -> Places] /\ faults' \in 0..MaxFaults
      <3>1. pc' \in [Users -> Places]
        BY <1>0, <1>9, GoesType DEF WriteG
      <3>2. faults \in 0..MaxFaults /\ (Fault \/ UNCHANGED faults)
        BY <1>9 DEF WriteG, TypeOK
      <3>3. faults' \in 0..MaxFaults
        BY <3>2, FaultType
      <3> QED
        BY <3>1, <3>3
    <2> QED
      BY <1>9, <2>1 DEF WriteG, TypeOK
  <1>10. CASE UnlinkP(u)
    <2>1. pc' \in [Users -> Places]
      BY <1>0, <1>10, GoesType DEF UnlinkP, AfterQ
    <2> QED
      BY <1>10, <2>1 DEF UnlinkP, TypeOK
  <1>11. CASE WriteQ(u)
    <2>1. NewEdits(u) \in SUBSET Edits
      BY <1>11, EditsType DEF WriteQ, WritingQ
    <2>2. AfterFailedQ(u) \in Places
      BY <1>0 DEF AfterFailedQ
    <2>3. pc' \in [Users -> Places] /\ faults' \in 0..MaxFaults
      <3>1. pc' \in [Users -> Places]
        BY <1>0, <1>11, <2>2, GoesType DEF WriteQ
      <3>2. faults \in 0..MaxFaults /\ (Fault \/ UNCHANGED faults)
        BY <1>11 DEF WriteQ, TypeOK
      <3>3. faults' \in 0..MaxFaults
        BY <3>2, FaultType
      <3> QED
        BY <3>1, <3>3
    <2>4. qfile' \in SUBSET Edits
      BY <1>11, <2>1 DEF WriteQ
    <2> QED
      BY <1>11, <2>3, <2>4 DEF WriteQ, TypeOK
  <1>12. CASE RenameQ(u)
    <2>1. AfterFailedQ(u) \in Places /\ AfterQ(u) \in Places
      BY <1>0 DEF AfterFailedQ, AfterQ
    <2>2. pc' \in [Users -> Places]
      BY <1>12, <2>1, GoesType DEF RenameQ
    <2>3. pfile' \in SUBSET Edits /\ qfile' \in SUBSET Edits
      BY <1>12 DEF RenameQ, TypeOK
    <2> QED
      BY <1>12, <2>2, <2>3 DEF RenameQ, TypeOK
  <1>13. CASE UnlinkG(u)
    <2>1. pc' \in [Users -> Places]
      BY <1>0, <1>13, GoesType DEF UnlinkG
    <2> QED
      BY <1>13, <2>1 DEF UnlinkG, TypeOK
  <1>14. CASE unlock_sccs(u)
    <2>1. pc' \in [Users -> Places]
      BY <1>0, <1>14, GoesType DEF unlock_sccs
    <2> QED
      BY <1>14, <2>1 DEF unlock_sccs, TypeOK
  <1>15. CASE Unlocked(u)
    <2>1. Own'
      BY <1>15, OverType DEF Unlocked
    <2> QED
      BY <1>15, <2>1 DEF Unlocked, TypeOK, Own
  <1>16. CASE Kill(u)
    <2>1. Own'
      BY <1>16, OverType DEF Kill
    <2> QED
      BY <1>16, <2>1 DEF Kill, TypeOK, Own, Fault
  <1>17. CASE on_signal(u)
    <2>1. Own'
      BY <1>17, OverType DEF on_signal
    <2> QED
      BY <1>17, <2>1 DEF on_signal, TypeOK, Own, Fault
  <1> QED
    BY <1>1, <1>2, <1>3, <1>4, <1>5, <1>6, <1>7, <1>8, <1>9, <1>10, <1>11, <1>12, <1>13, <1>14, <1>15, <1>16, <1>17
    DEF Step, Write

\* Whoever is not u does not move.
LEMMA OthersStay ==
  ASSUME TypeOK, NEW u \in Users, Step(u), NEW v \in Users, v # u
  PROVE  pc'[v] = pc[v] /\ cmd'[v] = cmd[v] /\ sf'[v] = sf[v] /\ pf'[v] = pf[v] /\ edit'[v] = edit[v] /\ gfile'[v] = gfile[v]
  <1> USE DEF TypeOK, Goes, Over
  <1>1. CASE Start(u) \/ sfile_read(u) \/ lock_sccs(u) \/ Locked(u)
    BY <1>1 DEF Start, sfile_read, lock_sccs, Locked
  <1>2. CASE Decide(u)
    BY <1>2 DEF Decide
  <1>3. CASE Write(u)
    BY <1>3 DEF Write, OpenX, WriteX, RenameX, WriteG, UnlinkP, WriteQ, RenameQ, UnlinkG
  <1>4. CASE unlock_sccs(u) \/ Unlocked(u) \/ Kill(u) \/ on_signal(u)
    BY <1>4 DEF unlock_sccs, Unlocked, Kill, on_signal
  <1> QED
    BY <1>1, <1>2, <1>3, <1>4 DEF Step

\* A command goes where its kind can be, with the edit it has found.
LEMMA CommandStep ==
  ASSUME TypeOK, CommandInv, NEW u \in Users, Step(u)
  PROVE  CommandInv'
  <1> USE DEF Writing, WritingX, WritingQ, Does
  <1>0. /\ pc \in [Users -> Places] /\ cmd \in [Users -> AnyCommand] /\ edit \in [Users -> AnyEdit]
        /\ pf \in [Users -> SUBSET Edits]
    BY DEF TypeOK
  <1>1. CommandOf(u) /\ IsFiniteSet(pfile) /\ IsFiniteSet(qfile) /\ IsFiniteSet(pf[u])
    BY DEF CommandInv
  <1>2. ASSUME NEW v \in Users, v # u
        PROVE  CommandOf(v)' /\ IsFiniteSet(pf'[v])
    <2>1. CommandOf(v) /\ IsFiniteSet(pf[v])
      BY DEF CommandInv
    <2>2. pc'[v] = pc[v] /\ cmd'[v] = cmd[v] /\ edit'[v] = edit[v] /\ pf'[v] = pf[v]
      BY <1>2, OthersStay
    <2> QED
      BY <2>1, <2>2 DEF CommandOf
  <1>3. CASE Over(u) /\ UNCHANGED <<pfile, qfile>>
    <2>1. pc'[u] = "idle" /\ pf'[u] = {}
      BY <1>0, <1>3 DEF Over, Goes
    <2>2. CommandOf(u)' /\ IsFiniteSet(pf'[u])
      BY <2>1, FS_EmptySet DEF CommandOf
    <2> QED
      BY <1>1, <1>2, <1>3, <2>2 DEF CommandInv
  <1>4. CASE Start(u)
    <2>1. PICK c \in Commands : cmd' = [cmd EXCEPT ![u] = c] /\ Goes(u, IF c.op = "unget" THEN "lock" ELSE "read")
      BY <1>4 DEF Start
    <2>2. pc'[u] \in {"lock", "read"} /\ cmd'[u] \in Commands
      BY <1>0, <2>1 DEF Goes
    <2>3. CommandOf(u)'
      BY <2>2 DEF CommandOf
    <2> QED
      BY <1>1, <1>2, <1>4, <2>3 DEF CommandInv, Start
  <1>5. CASE /\ pc[u] # "idle" /\ UNCHANGED <<pfile, qfile, cmd, edit, pf>>
             /\ pc'[u] \in {"lock", "locking", "locked", "unlock", "unlocked"}
    <2>1. CommandOf(u)'
      BY <1>1, <1>5 DEF CommandOf
    <2> QED
      BY <1>1, <1>2, <1>5, <2>1 DEF CommandInv
  <1>6. CASE Decide(u)
    <2>1. pf'[u] = pfile /\ UNCHANGED <<pfile, qfile, cmd>>
      BY <1>0, <1>6 DEF Decide
    <2>2. Does(u, "get") /\ MayGet(u) => GetEdit(u) \in Edits /\ GetEdit(u).user = u
      BY <1>6, GetEditType DEF Decide
    <2>3. OneEdit(u) => TheEdit(u) \in Edits /\ TheEdit(u).user = u
      BY TheEditType
    <2>4. MayDelta(u) => OneEdit(u)
      BY DEF MayDelta
    <2>5. PICK e, where : edit' = [edit EXCEPT ![u] = e] /\ pc' = [pc EXCEPT ![u] = where]
                 /\ \/ Does(u, "get") /\ where = "write g" /\ e \in Edits /\ e.user = u
                    \/ Does(u, "delta") /\ where = "open x" /\ e \in Edits /\ e.user = u
                    \/ Does(u, "unget") /\ where = "write q" /\ e \in Edits /\ e.user = u
                    \/ (Does(u, "rmdel") \/ Does(u, "admin")) /\ where = "open x"
                    \/ where = "unlock"
      BY <1>6, <2>2, <2>3, <2>4 DEF Decide, Goes
    <2>6. edit'[u] = e /\ pc'[u] = where /\ cmd'[u] = cmd[u]
      BY <1>0, <2>1, <2>5
    <2>7. CommandOf(u)'
      BY <1>1, <1>6, <2>5, <2>6 DEF CommandOf, Decide
    <2> QED
      BY <1>1, <1>2, <2>1, <2>7 DEF CommandInv
  <1>7. CASE /\ UNCHANGED <<cmd, edit, pf>> /\ IsFiniteSet(pfile') /\ IsFiniteSet(qfile') /\ pc[u] \in Writing
             /\ \/ pc'[u] = "unlock"
                \/ pc[u] \in WritingX /\ pc'[u] \in WritingX
                \/ Does(u, "delta") /\ pc'[u] \in {"write q", "unlink g"}
                \/ Does(u, "get") /\ pc'[u] = "write q"
                \/ pc[u] \in WritingQ /\ pc'[u] = "rename q"
                \/ pc[u] \in WritingQ /\ ~Does(u, "get") /\ pc'[u] = "unlink g"
    <2>1. CommandOf(u)'
      BY <1>1, <1>7 DEF CommandOf
    <2> QED
      BY <1>1, <1>2, <1>7, <2>1 DEF CommandInv
  <1>8. CASE sfile_read(u) \/ lock_sccs(u) \/ Unlocked(u) \/ Kill(u) \/ on_signal(u)
    BY <1>0, <1>3, <1>5, <1>8 DEF sfile_read, lock_sccs, Unlocked, Kill, on_signal, Goes
  <1>9. CASE Locked(u) \/ unlock_sccs(u)
    BY <1>0, <1>5, <1>9 DEF Locked, unlock_sccs, Goes
  <1>10. CASE OpenX(u) \/ WriteX(u) \/ RenameX(u)
    <2>1. pc'[u] = "unlock" \/ pc'[u] \in WritingX \/ (Does(u, "delta") /\ pc'[u] = "write q")
      BY <1>0, <1>10 DEF OpenX, WriteX, RenameX, Goes
    <2> QED
      BY <1>1, <1>7, <1>10, <2>1 DEF OpenX, WriteX, RenameX
  <1>11. CASE WriteG(u) \/ UnlinkG(u)
    <2>1. pc'[u] = "unlock" \/ (pc[u] = "write g" /\ pc'[u] = "write q")
      BY <1>0, <1>11 DEF WriteG, UnlinkG, Goes
    <2> QED
      BY <1>1, <1>7, <1>11, <2>1 DEF WriteG, UnlinkG, CommandOf
  <1>12. CASE UnlinkP(u) \/ WriteQ(u) \/ RenameQ(u)
    <2>1. IsFiniteSet(NewEdits(u)) /\ pc[u] \in WritingQ
      BY <1>12, EditsType DEF UnlinkP, WriteQ, RenameQ
    <2>2. IsFiniteSet(pfile') /\ IsFiniteSet(qfile')
      BY <1>1, <1>12, <2>1, FS_EmptySet DEF UnlinkP, WriteQ, RenameQ
    <2>3. UNCHANGED <<cmd, edit, pf>>
      BY <1>12 DEF UnlinkP, WriteQ, RenameQ
    <2>4. pc'[u] \in {"unlock", "rename q"} \/ (~Does(u, "get") /\ pc'[u] = "unlink g")
      BY <1>0, <1>12 DEF UnlinkP, WriteQ, RenameQ, AfterQ, AfterFailedQ, Goes
    <2> QED
      BY <1>7, <2>1, <2>2, <2>3, <2>4
  <1> QED
    BY <1>4, <1>6, <1>8, <1>9, <1>10, <1>11, <1>12 DEF Step, Write

-----------------------------------------------------------------------------
(* What the lock protects.                                                 *)

\* While a command is inside, no other is.
LEMMA OneInside ==
  ASSUME LockInv, NEW u \in Users, pc[u] \in Inside, NEW v \in Users, v # u
  PROVE  pc[v] \notin Inside
  BY DEF LockInv

\* What is known of another command stays true: it has not moved, and when u is inside
\* it is not.
LEMMA OthersGuarded ==
  ASSUME TypeOK, Guarded, NEW u \in Users, Step(u), ~stolen', NEW v \in Users, v # u
  PROVE  EditInv(v)' /\ FileInv(v)' /\ (pc'[v] \in Inside => zfile' = v)
  <1>1. pc'[v] = pc[v] /\ cmd'[v] = cmd[v] /\ sf'[v] = sf[v] /\ pf'[v] = pf[v] /\ edit'[v] = edit[v]
    BY OthersStay
  <1>2. EditInv(v) /\ FileInv(v) /\ (pc[v] \in Inside => zfile = v)
    BY DEF Guarded, LockInv
  <1>3. pc \in [Users -> Places] /\ u # None
    BY UsersAssumption DEF TypeOK, None
  <1>4. CASE pc[u] \in Inside
    <2>1. pc[v] \notin Inside
      BY <1>4, OneInside DEF Guarded
    <2>2. pc'[v] \notin Writing /\ pc'[v] \notin WritingX /\ pc'[v] \notin WritingQ /\ pc'[v] \notin {"write x", "rename x", "rename q", "unlink g"}
      BY <1>1, <1>3, <2>1 DEF Writing, WritingX, WritingQ, Inside, Places
    <2>3. EditInv(v)'
      BY <2>2 DEF EditInv
    <2>4. FileInv(v)'
      BY <1>1, <1>2, <2>2 DEF FileInv, Does
    <2> QED
      BY <1>1, <2>1, <2>3, <2>4
  <1>5. CASE pc[u] \notin Inside
    <2>1. /\ UNCHANGED <<sfile, xfile, pfile, qfile>>
          /\ UNCHANGED zfile \/ zfile = None \/ (zfile' = None /\ zfile \in {u, None})
      <3>1. pc[u] \in {"idle", "read", "lock", "unlocked"}
        BY <1>3, <1>5 DEF Inside
      <3>2. Start(u) \/ sfile_read(u) \/ lock_sccs(u) \/ Unlocked(u) \/ Kill(u) \/ on_signal(u)
        BY <3>1 DEF Step, Locked, Decide, Write, OpenX, WriteX, RenameX, WriteG, UnlinkP, WriteQ, RenameQ, UnlinkG,
           unlock_sccs
      <3>3. CASE Start(u) \/ sfile_read(u) \/ lock_sccs(u)
        BY <3>3 DEF Start, sfile_read, lock_sccs
      <3>4. CASE Unlocked(u) \/ Kill(u) \/ on_signal(u)
        BY <3>4 DEF Unlocked, Kill, on_signal
      <3> QED
        BY <3>2, <3>3, <3>4
    <2>2. pc'[v] \in Inside => zfile' = v
      <3>1. v # None
        BY UsersAssumption DEF None
      <3> QED
        BY <1>1, <1>2, <2>1, <3>1
    <2>3. EditInv(v)'
      BY <1>1, <1>2, <2>1 DEF EditInv, NewEdits, Does
    <2>4. FileInv(v)'
      <3>1. NewFile(v)' = NewFile(v)
        BY <1>1 DEF NewFile, Does
      <3>2. MadeDelta(edit[v])' <=> MadeDelta(edit[v])
        BY <1>1, <2>1 DEF MadeDelta
      <3> QED
        BY <1>1, <1>2, <2>1, <3>1, <3>2 DEF FileInv, Does
    <2> QED
      BY <2>2, <2>3, <2>4
  <1> QED
    BY <1>4, <1>5

\* A command that works has the lock: it has made it, and has it until it unlocks.
LEMMA OwnLock ==
  ASSUME TypeOK, Guarded, NEW u \in Users, Step(u), pc'[u] \in Inside
  PROVE  zfile' = u
  <1>1. pc \in [Users -> Places] /\ (pc[u] \in Inside => zfile = u)
    BY DEF TypeOK, Guarded, LockInv
  <1>2. CASE Start(u) \/ sfile_read(u) \/ Unlocked(u) \/ Kill(u) \/ on_signal(u)
    BY <1>1, <1>2 DEF Start, sfile_read, Unlocked, Kill, on_signal, Over, Goes, Inside
  <1>3. CASE lock_sccs(u)
    BY <1>1, <1>3 DEF lock_sccs, Over, Goes, Inside
  <1>4. CASE Locked(u) \/ Decide(u)
    BY <1>1, <1>4 DEF Locked, Decide, Inside
  <1>5. CASE Write(u)
    <2>1. pc[u] \in Inside
      BY <1>1, <1>5 DEF Write, OpenX, WriteX, RenameX, WriteG, UnlinkP, WriteQ, RenameQ, UnlinkG, Inside
    <2> QED
      BY <1>1, <1>5, <2>1 DEF Write, OpenX, WriteX, RenameX, WriteG, UnlinkP, WriteQ, RenameQ, UnlinkG
  <1>6. CASE unlock_sccs(u)
    BY <1>1, <1>6 DEF unlock_sccs, Goes, Inside
  <1> QED
    BY <1>2, <1>3, <1>4, <1>5, <1>6 DEF Step

\* Only what has been made of a sound file replaces the s-file, and a p-file only gets
\* an edit whose SID is not taken.
LEMMA FilesGuarded ==
  ASSUME TypeOK, CommandInv, Guarded, NEW u \in Users, Step(u)
  PROVE  UniqueNew' /\ Sound(sfile)'
  <1>1. UniqueNew /\ Sound(sfile) /\ EditInv(u) /\ FileInv(u) /\ CommandOf(u) /\ u # None
    BY UsersAssumption DEF Guarded, CommandInv, None
  <1>2. CASE RenameX(u)
    <2>1. pc[u] = "rename x"
      BY <1>2 DEF RenameX
    <2>2. xfile = [by |-> u, f |-> NewFile(u)]
      BY <1>1, <2>1 DEF FileInv
    <2>3. sfile' = NewFile(u) /\ pfile' = pfile
      BY <1>1, <1>2, <2>2 DEF RenameX
    <2>4. ~Does(u, "unget")
      BY <1>1, <2>1 DEF CommandOf, WritingX, Does
    <2>5. Sound(sf[u])
      BY <1>1, <2>1, <2>4 DEF FileInv, Places
    <2>6. Sound(NewFile(u))
      BY <1>1, <2>1, <2>5, NewFileSound DEF WritingX
    <2>7. UniqueNew'
      BY <1>1, <2>3 DEF UniqueNew
    <2>8. Sound(sfile')
      BY <2>3, <2>6
    <2> QED
      BY <2>7, <2>8 DEF Sound, is_d, Sid
  <1>3. CASE UNCHANGED sfile /\ (pfile' = pfile \/ pfile' = {})
    BY <1>1, <1>3 DEF UniqueNew, Sound, is_d, Sid
  <1>4. CASE RenameQ(u)
    <2>1. pc[u] = "rename q" /\ UNCHANGED sfile /\ (pfile' = pfile \/ pfile' = qfile)
      BY <1>4 DEF RenameQ
    <2>2. qfile = NewEdits(u) /\ pf[u] = pfile
      BY <1>1, <2>1 DEF EditInv, Writing, WritingQ
    <2>3. Does(u, "get") => \A e \in pfile : e.new # edit[u].new
      BY <1>1, <2>1 DEF EditInv, Writing, WritingQ
    <2>4. UniqueNew'
      BY <1>1, <2>1, <2>2, <2>3 DEF NewEdits, UniqueNew
    <2>5. Sound(sfile')
      BY <1>1, <2>1
    <2>6. Sound(sfile)'
      BY <2>5 DEF Sound, is_d, Sid
    <2> QED
      BY <2>4, <2>6
  <1>5. CASE Start(u) \/ sfile_read(u) \/ lock_sccs(u) \/ Locked(u) \/ Decide(u)
    BY <1>3, <1>5 DEF Start, sfile_read, lock_sccs, Locked, Decide
  <1>6. CASE Unlocked(u) \/ Kill(u) \/ on_signal(u) \/ unlock_sccs(u)
    BY <1>3, <1>6 DEF Unlocked, Kill, on_signal, unlock_sccs
  <1>7. CASE OpenX(u) \/ WriteX(u) \/ WriteG(u) \/ UnlinkP(u) \/ WriteQ(u) \/ UnlinkG(u)
    BY <1>3, <1>7 DEF OpenX, WriteX, WriteG, UnlinkP, WriteQ, UnlinkG
  <1> QED
    BY <1>2, <1>4, <1>5, <1>6, <1>7 DEF Step, Write

\* The p-file stays as it was read, and the q-file is what is written.
LEMMA OwnEditInv ==
  ASSUME TypeOK, CommandInv, Guarded, NEW u \in Users, Step(u)
  PROVE  EditInv(u)'
  <1>1. EditInv(u) /\ CommandOf(u)
    BY DEF Guarded, CommandInv
  <1>2. pc \in [Users -> Places] /\ cmd \in [Users -> AnyCommand] /\ edit \in [Users -> AnyEdit]
        /\ pf \in [Users -> SUBSET Edits]
    BY DEF TypeOK
  <1>3. CASE pc'[u] \notin Writing
    BY <1>3 DEF EditInv, Writing, WritingQ
  <1>4. CASE Decide(u)
    <2>1. pf'[u] = pfile /\ pfile' = pfile /\ cmd' = cmd
      BY <1>2, <1>4 DEF Decide
    <2>2. Does(u, "get") /\ MayGet(u) => \A e \in pfile : e.new # GetEdit(u).new
      BY <1>4, GetEditType DEF Decide
    <2>3. pc'[u] # "rename q"
      BY <1>2, <1>4 DEF Decide, Goes
    <2>4. ASSUME pc'[u] \in Writing, Does(u, "get") PROVE edit'[u] = GetEdit(u) /\ MayGet(u)
      <3>1. pc'[u] # "unlock"
        BY <2>4 DEF Writing, WritingX, WritingQ
      <3>2. edit' = [edit EXCEPT ![u] = GetEdit(u)] /\ MayGet(u)
        BY <1>2, <1>4, <2>4, <3>1 DEF Decide, Goes, Does
      <3> QED
        BY <1>2, <3>2
    <2>5. Does(u, "get")' <=> Does(u, "get")
      BY <2>1 DEF Does
    <2> QED
      BY <2>1, <2>2, <2>3, <2>4, <2>5 DEF EditInv
  <1>5. CASE /\ pc[u] \in Writing \ {"unlink g"} /\ UNCHANGED <<pfile, pf, cmd, edit>>
             /\ pc'[u] = "rename q" => qfile' = NewEdits(u)
    <2>1. NewEdits(u)' = NewEdits(u) /\ (Does(u, "get")' <=> Does(u, "get"))
      BY <1>5 DEF NewEdits, Does
    <2> QED
      BY <1>1, <1>5, <2>1 DEF EditInv
  <1>6. CASE OpenX(u) \/ WriteX(u) \/ RenameX(u)
    <2>1. pc'[u] # "rename q"
      BY <1>2, <1>6 DEF OpenX, WriteX, RenameX, Goes
    <2> QED
      BY <1>5, <1>6, <2>1 DEF OpenX, WriteX, RenameX, Writing, WritingX
  <1>7. CASE WriteG(u) \/ WriteQ(u)
    <2>1. pc'[u] = "rename q" => qfile' = NewEdits(u)
      BY <1>2, <1>7 DEF WriteG, WriteQ, Goes, AfterFailedQ
    <2> QED
      BY <1>5, <1>7, <2>1 DEF WriteG, WriteQ, Writing, WritingQ
  <1>8. CASE UnlinkP(u) \/ RenameQ(u)
    <2>1. pc'[u] \in {"unlock", "unlink g"} /\ (Does(u, "get") => pc'[u] = "unlock")
      BY <1>2, <1>8 DEF UnlinkP, RenameQ, Goes, AfterQ, AfterFailedQ, Does
    <2>2. Does(u, "get")' <=> Does(u, "get")
      BY <1>8 DEF UnlinkP, RenameQ, Does
    <2> QED
      BY <2>1, <2>2 DEF EditInv, Writing, WritingX, WritingQ
  <1>9. CASE UnlinkG(u) \/ unlock_sccs(u) \/ Start(u) \/ sfile_read(u) \/ lock_sccs(u) \/ Locked(u)
    <2>1. pc'[u] \in {"unlock", "unlocked", "read", "lock", "idle", "locking", "locked"}
      <3>1. CASE UnlinkG(u) \/ unlock_sccs(u) \/ Locked(u)
        BY <1>2, <3>1 DEF UnlinkG, unlock_sccs, Locked, Goes
      <3>2. CASE Start(u) \/ sfile_read(u) \/ lock_sccs(u)
        BY <1>2, <3>2 DEF Start, sfile_read, lock_sccs, Over, Goes
      <3> QED
        BY <1>9, <3>1, <3>2
    <2> QED
      BY <1>3, <2>1 DEF Writing, WritingX, WritingQ
  <1>10. CASE Unlocked(u) \/ Kill(u) \/ on_signal(u)
    <2>1. pc'[u] = "idle"
      BY <1>2, <1>10 DEF Unlocked, Kill, on_signal, Over, Goes
    <2> QED
      BY <1>3, <2>1 DEF Writing, WritingX, WritingQ
  <1> QED
    BY <1>4, <1>6, <1>7, <1>8, <1>9, <1>10 DEF Step, Write

\* What is written is made of the file that was read; the delta of an edit that is ended
\* is in the s-file.
LEMMA OwnFileInv ==
  ASSUME TypeOK, CommandInv, Guarded, NEW u \in Users, Step(u)
  PROVE  FileInv(u)'
  <1>1. FileInv(u) /\ CommandOf(u) /\ Sound(sfile) /\ sfile \in File /\ sf[u] \in File /\ u # None
    BY UsersAssumption DEF Guarded, CommandInv, TypeOK, None
  <1>2. pc \in [Users -> Places] /\ cmd \in [Users -> AnyCommand] /\ edit \in [Users -> AnyEdit]
        /\ sf \in [Users -> File]
    BY DEF TypeOK
  <1>3. CASE pc'[u] \in {"idle", "read"}
    BY <1>3 DEF FileInv, WritingX, WritingQ
  <1>4. CASE Start(u)
    <2>1. PICK c \in Commands : cmd' = [cmd EXCEPT ![u] = c] /\ Goes(u, IF c.op = "unget" THEN "lock" ELSE "read")
      BY <1>4 DEF Start
    <2>2. pc'[u] = "read" \/ (pc'[u] = "lock" /\ Does(u, "unget")')
      BY <1>2, <2>1 DEF Goes, Does
    <2> QED
      BY <2>2 DEF FileInv, WritingX, WritingQ
  <1>5. CASE sfile_read(u)
    <2>1. pc'[u] = "idle" \/ (pc'[u] = "lock" /\ sf'[u] = sfile)
      BY <1>2, <1>5 DEF sfile_read, Over, Goes
    <2> QED
      BY <1>1, <2>1 DEF FileInv, WritingX, WritingQ
  <1>6. CASE /\ pc[u] \notin {"idle", "read"} /\ UNCHANGED <<cmd, sf>>
             /\ pc'[u] \in {"locking", "locked", "unlock", "unlocked", "write g"}
    BY <1>1, <1>2, <1>6 DEF FileInv, WritingX, WritingQ, Does
  <1>7. CASE lock_sccs(u) \/ Locked(u) \/ unlock_sccs(u)
    <2>1. CASE Over(u)
      BY <1>2, <1>3, <2>1 DEF Over, Goes
    <2>2. CASE ~Over(u)
      BY <1>2, <1>6, <1>7, <2>2 DEF lock_sccs, Locked, unlock_sccs, Goes
    <2> QED
      BY <2>1, <2>2
  <1>8. CASE Decide(u)
    <2>1. UNCHANGED <<cmd, sf, sfile, xfile>> /\ pc[u] = "locked"
      BY <1>8 DEF Decide
    <2>2. Does(u, "unget") \/ Sound(sf[u])
      BY <1>1, <2>1 DEF FileInv, Places
    <2>3. \/ pc'[u] \in {"write g", "unlock"}
          \/ pc'[u] = "write q" /\ Does(u, "unget")
          \/ pc'[u] = "open x" /\ Does(u, "delta") /\ MayDelta(u) /\ edit'[u] = TheEdit(u)
          \/ pc'[u] = "open x" /\ Does(u, "rmdel") /\ MayRemove(u)
          \/ pc'[u] = "open x" /\ Does(u, "admin")
      BY <1>2, <1>8 DEF Decide, Goes
    <2>4. \A op : Does(u, op)' <=> Does(u, op)
      BY <2>1 DEF Does
    <2>5. \A a, b : Does(u, a) /\ Does(u, b) => a = b
      BY DEF Does
    <2> QED
      BY <2>1, <2>2, <2>3, <2>4, <2>5 DEF FileInv, WritingX, WritingQ, MayDelta, MayRemove
  <1>9. CASE UNCHANGED <<cmd, sf, edit>> /\ pc[u] \in WritingX /\ (OpenX(u) \/ WriteX(u))
    <2>1. NewFile(u)' = NewFile(u) /\ \A op : Does(u, op)' <=> Does(u, op)
      BY <1>9 DEF NewFile, Does
    <2>2. NewFile(u) \in File
      BY <1>9, NewFileType
    <2>3. Sound(sf[u])
      BY <1>1, <1>9 DEF FileInv, WritingX, Places, CommandOf, Does
    <2>4. NewFile(u).whole = TRUE
      BY <1>1, <1>9, <2>3, NewFileSound DEF Sound
    <2>5. \/ pc'[u] = "write x" /\ xfile' = [by |-> u, f |-> [NewFile(u) EXCEPT !.whole = FALSE]]
          \/ pc'[u] = "unlock"
          \/ pc'[u] = "rename x" /\ xfile' = [by |-> u, f |-> NewFile(u)]
      <3>1. CASE OpenX(u)
        BY <1>2, <3>1 DEF OpenX, Goes
      <3>2. CASE WriteX(u)
        <4>1. xfile = [by |-> u, f |-> [NewFile(u) EXCEPT !.whole = FALSE]]
          BY <1>1, <3>2 DEF WriteX, FileInv
        <4>2. [[NewFile(u) EXCEPT !.whole = FALSE] EXCEPT !.whole = TRUE] = NewFile(u)
          BY <2>2, <2>4 DEF File
        <4>3. [xfile EXCEPT !.f = [xfile.f EXCEPT !.whole = TRUE]] = [by |-> u, f |-> NewFile(u)]
          BY <4>1, <4>2
        <4> QED
          BY <1>2, <3>2, <4>1, <4>3 DEF WriteX, Goes
      <3> QED
        BY <1>9, <3>1, <3>2
    <2>6. sf'[u] = sf[u] /\ cmd'[u] = cmd[u] /\ edit'[u] = edit[u]
      BY <1>9
    <2> QED
      BY <1>1, <1>9, <2>1, <2>3, <2>5, <2>6 DEF FileInv, WritingX, WritingQ, Places
  <1>10. CASE RenameX(u)
    <2>1. pc[u] = "rename x" /\ UNCHANGED <<cmd, sf, edit>>
      BY <1>10 DEF RenameX
    <2>2. xfile = [by |-> u, f |-> NewFile(u)] /\ Sound(sf[u])
      BY <1>1, <2>1 DEF FileInv, CommandOf, WritingX, Places, Does
    <2>3. sfile' = NewFile(u) /\ pc'[u] = IF Does(u, "delta") THEN "write q" ELSE "unlock"
      BY <1>1, <1>2, <1>10, <2>2 DEF RenameX, Goes
    <2>4. Does(u, "delta") => by_sid(sfile', edit[u].new) # 0
      <3>1. NewFile(u) \in File
        BY <2>1, NewFileType DEF WritingX
      <3>2. Does(u, "delta") => \E k \in is_d(NewFile(u)) : Sid(NewFile(u), k) = edit[u].new
        BY <1>1, <2>1, <2>2, NewFileSound DEF WritingX
      <3>3. Does(u, "delta") => by_sid(NewFile(u), edit[u].new) # 0
        BY <3>1, <3>2, BySid
      <3> QED
        BY <2>3, <3>3
    <2>5. Does(u, "delta") => MadeDelta(edit[u])'
      BY <2>1, <2>4 DEF MadeDelta
    <2>6. \A op : Does(u, op)' <=> Does(u, op)
      BY <2>1 DEF Does
    <2> QED
      BY <2>1, <2>2, <2>3, <2>5, <2>6 DEF FileInv, WritingX, WritingQ, Places
  <1>11. CASE WriteG(u) \/ UnlinkP(u) \/ WriteQ(u) \/ RenameQ(u) \/ UnlinkG(u)
    <2>1. UNCHANGED <<cmd, sf, edit, sfile>> /\ pc[u] \in Writing \ WritingX
      BY <1>11 DEF WriteG, UnlinkP, WriteQ, RenameQ, UnlinkG, Writing, WritingX, WritingQ
    <2>2. pc'[u] \in WritingQ \cup {"unlink g", "unlock"}
      BY <1>2, <1>11 DEF WriteG, UnlinkP, WriteQ, RenameQ, UnlinkG, AfterQ, AfterFailedQ, Goes, WritingQ
    <2>3. (\A op : Does(u, op)' <=> Does(u, op)) /\ (MadeDelta(edit[u])' <=> MadeDelta(edit[u]))
      BY <2>1 DEF Does, MadeDelta
    <2>4. pc[u] = "write g" => ~Does(u, "delta")
      BY <1>1 DEF CommandOf, Does
    <2>5. Does(u, "delta") => pc[u] \in WritingQ \cup {"unlink g"}
      BY <2>1, <2>4 DEF Writing
    <2> QED
      BY <1>1, <2>1, <2>2, <2>3, <2>5 DEF FileInv, WritingX, WritingQ, Writing, Places
  <1>12. CASE Unlocked(u) \/ Kill(u) \/ on_signal(u)
    BY <1>2, <1>3, <1>12 DEF Unlocked, Kill, on_signal, Over, Goes
  <1>13. CASE OpenX(u) \/ WriteX(u)
    BY <1>9, <1>13 DEF OpenX, WriteX, WritingX
  <1> QED
    BY <1>4, <1>5, <1>7, <1>8, <1>10, <1>11, <1>12, <1>13 DEF Step, Write

-----------------------------------------------------------------------------
(* The invariant holds, and with it the properties.                        *)

LEMMA StartsKept ==
  ASSUME Init
  PROVE  Inv
  <1>1. TypeOK /\ CommandInv
    BY InitType
  <1>2. \A u \in Users : pc[u] = "idle"
    BY DEF Init
  <1>3. LockInv /\ UniqueNew
    BY <1>2 DEF LockInv, Inside, UniqueNew, Init
  <1>4. \A u \in Users : EditInv(u) /\ FileInv(u)
    BY <1>2 DEF EditInv, FileInv, Writing, WritingX, WritingQ
  <1>5. Sound(sfile)
    <2>1. PICK d \in {<<First>>, <<First, Second>>}, j \in BOOLEAN : sfile = [d |-> d, j |-> j, whole |-> TRUE]
      BY DEF Init
    <2>2. sfile.whole /\ sfile.d = d
      BY <2>1
    <2>3. /\ First.sid # Second.sid /\ First.pred = 0 /\ Second.pred = 1 /\ First.type = "D" /\ Second.type = "D"
      BY DEF First, Second, Release
    <2>4. CASE d = <<First>>
      <3>1. DOMAIN sfile.d = {1} /\ sfile.d[1] = First
        BY <2>2, <2>4
      <3>2. is_d(sfile) = {1}
        BY <2>3, <3>1 DEF is_d
      <3> QED
        BY <2>2, <2>3, <3>1, <3>2 DEF Sound
    <2>5. CASE d = <<First, Second>>
      <3>1. DOMAIN sfile.d = {1, 2} /\ sfile.d[1] = First /\ sfile.d[2] = Second
        BY <2>2, <2>5
      <3>2. is_d(sfile) = {1, 2}
        BY <2>3, <3>1 DEF is_d
      <3> QED
        BY <2>2, <2>3, <3>1, <3>2 DEF Sound, Sid
    <2> QED
      BY <2>1, <2>4, <2>5
  <1> QED
    BY <1>1, <1>3, <1>4, <1>5 DEF Inv, Guarded

\* A lock that is removed is nobody's who works.
LEMMA LockRemoved ==
  ASSUME Inv, RemoveLock
  PROVE  Inv'
  <1>1. UNCHANGED <<sfile, xfile, pfile, qfile, gfile, pc, cmd, sf, pf, edit, cmds, faults, stolen>> /\ zfile' = None
    BY DEF RemoveLock
  <1>2. TypeOK'
    BY <1>1 DEF Inv, TypeOK
  <1>3. CommandInv'
    BY <1>1 DEF Inv, CommandInv, CommandOf, Does
  <1>4. ASSUME ~stolen' PROVE Guarded'
    <2>1. Guarded
      BY <1>1, <1>4 DEF Inv
    <2>2. \A u \in Users : pc[u] \notin Inside
      BY <2>1 DEF RemoveLock, Holds, Guarded, LockInv, Inside
    <2>3. LockInv'
      BY <1>1, <2>2 DEF LockInv
    <2>4. UniqueNew' /\ Sound(sfile')
      BY <1>1, <2>1 DEF Guarded, UniqueNew
    <2>5. ASSUME NEW u \in Users PROVE EditInv(u)' /\ FileInv(u)'
      <3>1. EditInv(u) /\ FileInv(u)
        BY <2>1 DEF Guarded
      <3>2. NewEdits(u)' = NewEdits(u) /\ NewFile(u)' = NewFile(u) /\ (MadeDelta(edit[u])' <=> MadeDelta(edit[u]))
        BY <1>1 DEF NewEdits, NewFile, MadeDelta, Does
      <3>3. EditInv(u)'
        BY <1>1, <3>1, <3>2 DEF EditInv, Does
      <3>4. FileInv(u)'
        BY <1>1, <3>1, <3>2 DEF FileInv, Does
      <3> QED
        BY <3>3, <3>4
    <2>6. Sound(sfile)'
      BY <2>4 DEF Sound, is_d, Sid
    <2> QED
      BY <2>3, <2>4, <2>5, <2>6 DEF Guarded
  <1> QED
    BY <1>2, <1>3, <1>4 DEF Inv

LEMMA StillKept ==
  ASSUME Inv, [Next]_vars
  PROVE  Inv'
  <1>1. CASE RemoveLock
    BY <1>1, LockRemoved
  <1>2. ASSUME NEW u \in Users, Step(u) PROVE Inv'
    <2>1. TypeOK' /\ CommandInv'
      BY <1>2, StepType, CommandStep DEF Inv
    <2>2. stolen => stolen'
      <3>1. CASE unlock_sccs(u) \/ on_signal(u)
        BY <3>1 DEF unlock_sccs, on_signal
      <3>2. CASE ~unlock_sccs(u) /\ ~on_signal(u)
        <4>1. UNCHANGED stolen
          BY <1>2, <3>2 DEF Step, Start, sfile_read, lock_sccs, Locked, Decide, Write, OpenX, WriteX, RenameX, WriteG,
             UnlinkP, WriteQ, RenameQ, UnlinkG, Unlocked, Kill
        <4> QED
          BY <4>1
      <3> QED
        BY <3>1, <3>2
    <2>3. ASSUME ~stolen' PROVE Guarded'
      <3>1. TypeOK /\ CommandInv /\ Guarded
        BY <2>2, <2>3 DEF Inv
      <3>2. \A v \in Users : v # u => EditInv(v)' /\ FileInv(v)' /\ (pc'[v] \in Inside => zfile' = v)
        BY <1>2, <2>3, <3>1, OthersGuarded
      <3>3. EditInv(u)' /\ FileInv(u)' /\ (pc'[u] \in Inside => zfile' = u)
        BY <1>2, <3>1, OwnEditInv, OwnFileInv, OwnLock
      <3>4. UniqueNew' /\ Sound(sfile)'
        BY <1>2, <3>1, FilesGuarded
      <3>5. LockInv'
        BY <3>2, <3>3 DEF LockInv
      <3>6. \A v \in Users : EditInv(v)' /\ FileInv(v)'
        BY <3>2, <3>3
      <3> QED
        BY <3>4, <3>5, <3>6 DEF Guarded
    <2> QED
      BY <2>1, <2>3 DEF Inv
  <1>3. CASE UNCHANGED vars
    <2>1. UNCHANGED <<sfile, xfile, pfile, qfile, zfile, gfile, pc, cmd, sf, pf, edit, cmds, faults, stolen>>
      BY <1>3 DEF vars
    <2>2. TypeOK' /\ CommandInv'
      BY <2>1 DEF Inv, TypeOK, CommandInv, CommandOf, Does
    <2>3. ASSUME ~stolen' PROVE Guarded'
      <3>1. Guarded
        BY <2>1, <2>3 DEF Inv
      <3>2. ASSUME NEW u \in Users PROVE EditInv(u)' /\ FileInv(u)'
        <4>1. EditInv(u) /\ FileInv(u)
          BY <3>1 DEF Guarded
        <4>2. NewEdits(u)' = NewEdits(u) /\ NewFile(u)' = NewFile(u) /\ (MadeDelta(edit[u])' <=> MadeDelta(edit[u]))
          BY <2>1 DEF NewEdits, NewFile, MadeDelta, Does
        <4>3. EditInv(u)'
          BY <2>1, <4>1, <4>2 DEF EditInv, Does
        <4>4. FileInv(u)'
          BY <2>1, <4>1, <4>2 DEF FileInv, Does
        <4> QED
          BY <4>3, <4>4
      <3>3. LockInv' /\ UniqueNew' /\ Sound(sfile')
        BY <2>1, <3>1 DEF Guarded, LockInv, UniqueNew
      <3>4. Sound(sfile)'
        BY <3>3 DEF Sound, is_d, Sid
      <3> QED
        BY <3>2, <3>3, <3>4 DEF Guarded
    <2> QED
      BY <2>2, <2>3 DEF Inv
  <1> QED
    BY <1>1, <1>2, <1>3 DEF Next

\* One command is inside, and its lock is the reason.
LEMMA KeptBecause ==
  ASSUME Inv
  PROVE  FileKept
  <1>1. TypeOK
    BY DEF Inv
  <1>2. Reserved
    <2>1. ASSUME ~stolen, NEW u \in Users, NEW v \in Users, Working(u), Working(v) PROVE u = v
      BY <2>1, <1>1 DEF Inv, Guarded, LockInv, Working, locked, Inside, TypeOK
    <2>2. ~stolen => UniqueNew
      BY DEF Inv, Guarded
    <2> QED
      BY <2>1, <2>2 DEF Reserved, UniqueNew
  <1>3. WholeFile
    BY DEF Inv, Guarded, WholeFile
  <1> QED
    BY <1>1, <1>2, <1>3 DEF FileKept

\* In every state the types are right, one command at a time works on the files of a
\* lock, no two open edits have one new SID, and the s-file is whole, with unique SIDs and
\* every predecessor there, as long as nobody's lock has been taken away.
THEOREM FileIsKept == Spec => []FileKept
  <1>1. Init => Inv
    BY StartsKept
  <1>2. Inv /\ [Next]_vars => Inv'
    BY StillKept
  <1>3. Inv => FileKept
    BY KeptBecause
  <1> QED
    BY <1>1, <1>2, <1>3, PTL DEF Spec

\* A g-file goes only when its text has become a delta, or by unget.
LEMMA TextKept ==
  ASSUME Inv, ~stolen, NEW u \in Users, Step(u), NEW v \in Users, gfile[v], ~gfile'[v]
  PROVE  Does(v, "unget") \/ MadeDelta(edit[v])
  <1>1. TypeOK /\ CommandOf(v) /\ FileInv(v)
    BY DEF Inv, CommandInv, Guarded
  <1>2. v = u
    BY <1>1, OthersStay
  <1>3. UnlinkG(u)
    <2>1. gfile \in [Users -> BOOLEAN]
      BY <1>1 DEF TypeOK
    <2>2. gfile' # gfile /\ ~WriteG(u)
      BY <1>2, <2>1 DEF WriteG
    <2> QED
      BY <2>2 DEF Step, Start, sfile_read, lock_sccs, Locked, Decide, Write, OpenX, WriteX, RenameX, UnlinkP, WriteQ,
         RenameQ, unlock_sccs, Unlocked, Kill, on_signal
  <1> QED
    BY <1>1, <1>2, <1>3 DEF UnlinkG, CommandOf, FileInv

\* An edit leaves the p-file when its delta is in the s-file, or by unget.
LEMMA EditKept ==
  ASSUME Inv, ~stolen, NEW u \in Users, Step(u), NEW e \in pfile \ pfile'
  PROVE  edit[u] = e /\ e.user = u /\ (Does(u, "unget") \/ MadeDelta(e))
  <1>1. TypeOK /\ CommandOf(u) /\ FileInv(u) /\ EditInv(u)
    BY DEF Inv, CommandInv, Guarded
  <1>2. UnlinkP(u) \/ RenameQ(u)
    <2>1. pfile' # pfile
      OBVIOUS
    <2> QED
      BY <2>1 DEF Step, Start, sfile_read, lock_sccs, Locked, Decide, Write, OpenX, WriteX, RenameX, WriteG, WriteQ,
         UnlinkG, unlock_sccs, Unlocked, Kill, on_signal
  <1>3. pc[u] \in WritingQ /\ pf[u] = pfile
    BY <1>1, <1>2 DEF UnlinkP, RenameQ, EditInv, Writing, WritingQ
  <1>4. pfile' = NewEdits(u) \/ pfile' = pfile
    BY <1>1, <1>2 DEF UnlinkP, RenameQ, EditInv
  <1>5. e = edit[u] /\ ~Does(u, "get")
    BY <1>3, <1>4 DEF NewEdits
  <1> QED
    BY <1>1, <1>3, <1>5 DEF CommandOf, FileInv, Writing, Does

\* Text that is not in the s-file is not lost: a g-file goes, and an edit is closed, only
\* by unget or after the delta has been made.
THEOREM WorkIsKept == Spec => WorkKept
  <1>1. Init => Inv
    BY StartsKept
  <1>2. Inv /\ [Next]_vars => Inv'
    BY StillKept
  <1>3. ASSUME Inv, [Next]_vars PROVE [~stolen => KeptWork]_vars
    <2>1. CASE RemoveLock
      BY <2>1 DEF RemoveLock, KeptWork
    <2>2. ASSUME ~stolen, NEW u \in Users, Step(u) PROVE KeptWork
      BY <1>3, <2>2, TextKept, EditKept DEF KeptWork
    <2> QED
      BY <1>3, <2>1, <2>2 DEF Next
  <1> QED
    BY <1>1, <1>2, <1>3, PTL DEF Spec, WorkKept

==============================================================================
