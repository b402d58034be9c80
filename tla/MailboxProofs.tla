----------------------------- MODULE MailboxProofs -----------------------------
(***************************************************************************)
(* Proofs about mailx, for any number of sessions, messages, commands and  *)
(* faults.                                                                 *)
(***************************************************************************)
EXTENDS Mailbox, FiniteSetTheorems, SequenceTheorems, TLAPS

-----------------------------------------------------------------------------
(* Sequences of messages.                                                  *)

LEMMA FunctionSeq ==
  ASSUME NEW T, NEW n \in Nat, NEW f \in [1..n -> T]
  PROVE  f \in Seq(T) /\ Len(f) = n
  BY SeqDef

LEMMA Part ==
  ASSUME NEW T, NEW q \in Seq(T), NEW m \in Nat \ {0}, NEW n \in 0..Len(q)
  PROVE  /\ SubSeq(q, m, n) \in Seq(T) /\ Len(SubSeq(q, m, n)) = IF m <= n THEN n - m + 1 ELSE 0
         /\ \A i \in 1..(n - m + 1) : SubSeq(q, m, n)[i] = q[m + i - 1]
  <1>1. \A i \in m..n : q[i] \in T
    BY LenProperties, ElementOfSeq
  <1> QED
    BY <1>1, SubSeqProperties

LEMMA StoredIs ==
  ASSUME NEW file \in Seq(Stored)
  PROVE  /\ Len(file) \in Nat /\ DOMAIN file = 1..Len(file)
         /\ \A i \in DOMAIN file : file[i] \in Stored
         /\ IdsOf(file) \subseteq 1..MaxMail
  <1>1. Len(file) \in Nat /\ DOMAIN file = 1..Len(file)
    BY LenProperties
  <1>2. \A i \in DOMAIN file : file[i] \in Stored
    BY <1>1, ElementOfSeq
  <1>3. IdsOf(file) \subseteq 1..MaxMail
    BY <1>2 DEF IdsOf, Stored
  <1> QED
    BY <1>1, <1>2, <1>3

LEMMA PartStored ==
  ASSUME NEW file \in Seq(Stored), NEW m \in Nat \ {0}, NEW n \in 0..Len(file)
  PROVE  LET p == SubSeq(file, m, n)
         IN /\ p \in Seq(Stored)
            /\ \A i \in DOMAIN p : m + i - 1 \in DOMAIN file /\ p[i] = file[m + i - 1]
            /\ IdsOf(p) \subseteq IdsOf(file)
  <1> DEFINE p == SubSeq(file, m, n)
  <1>1. /\ p \in Seq(Stored) /\ Len(p) = IF m <= n THEN n - m + 1 ELSE 0
        /\ \A i \in 1..(n - m + 1) : p[i] = file[m + i - 1]
    BY Part
  <1> HIDE DEF p
  <1>2. DOMAIN p = 1..Len(p) /\ DOMAIN file = 1..Len(file) /\ Len(file) \in Nat
    BY <1>1, StoredIs
  <1>3. \A i \in DOMAIN p : m + i - 1 \in DOMAIN file /\ p[i] = file[m + i - 1]
    BY <1>1, <1>2
  <1>4. IdsOf(p) \subseteq IdsOf(file)
    BY <1>3 DEF IdsOf
  <1> QED
    BY <1>1, <1>3, <1>4 DEF p

LEMMA ConcatStored ==
  ASSUME NEW a \in Seq(Stored), NEW b \in Seq(Stored)
  PROVE  LET p == a \o b
         IN /\ p \in Seq(Stored) /\ DOMAIN p = 1..(Len(a) + Len(b))
            /\ \A i \in DOMAIN a : i \in DOMAIN p /\ p[i] = a[i]
            /\ \A i \in DOMAIN b : Len(a) + i \in DOMAIN p /\ p[Len(a) + i] = b[i]
            /\ \A i \in DOMAIN p : IF i <= Len(a) THEN i \in DOMAIN a /\ p[i] = a[i]
                                  ELSE i - Len(a) \in DOMAIN b /\ p[i] = b[i - Len(a)]
            /\ IdsOf(p) = IdsOf(a) \cup IdsOf(b)
  <1> DEFINE p == a \o b
  <1>1. /\ p \in Seq(Stored) /\ Len(p) = Len(a) + Len(b)
        /\ \A i \in 1..(Len(a) + Len(b)) : p[i] = IF i <= Len(a) THEN a[i] ELSE b[i - Len(a)]
    BY ConcatProperties
  <1> HIDE DEF p
  <1>2. /\ DOMAIN p = 1..Len(p) /\ DOMAIN a = 1..Len(a) /\ DOMAIN b = 1..Len(b)
        /\ Len(a) \in Nat /\ Len(b) \in Nat
    BY <1>1, StoredIs
  <1>3. /\ \A i \in DOMAIN a : i \in DOMAIN p /\ p[i] = a[i]
        /\ \A i \in DOMAIN b : Len(a) + i \in DOMAIN p /\ p[Len(a) + i] = b[i]
        /\ \A i \in DOMAIN p : IF i <= Len(a) THEN i \in DOMAIN a /\ p[i] = a[i]
                              ELSE i - Len(a) \in DOMAIN b /\ p[i] = b[i - Len(a)]
    <2>1. /\ \A i \in DOMAIN a : i \in DOMAIN p /\ p[i] = a[i]
          /\ \A i \in DOMAIN p : i <= Len(a) => i \in DOMAIN a /\ p[i] = a[i]
      BY <1>1, <1>2
    <2>2. \A i \in DOMAIN b : Len(a) + i \in DOMAIN p /\ p[Len(a) + i] = b[i]
      <3> SUFFICES ASSUME NEW i \in 1..Len(b)
                   PROVE  Len(a) + i \in DOMAIN p /\ p[Len(a) + i] = b[i]
        BY <1>2
      <3>1. Len(a) + i \in 1..(Len(a) + Len(b)) /\ ~(Len(a) + i <= Len(a)) /\ Len(a) + i - Len(a) = i
        BY <1>2
      <3> QED
        BY <1>1, <1>2, <3>1
    <2>3. \A i \in DOMAIN p : ~(i <= Len(a)) => i - Len(a) \in DOMAIN b /\ p[i] = b[i - Len(a)]
      BY <1>1, <1>2
    <2> QED
      BY <2>1, <2>2, <2>3
  <1>4. IdsOf(p) = IdsOf(a) \cup IdsOf(b)
    BY <1>3 DEF IdsOf
  <1> QED
    BY <1>1, <1>2, <1>3, <1>4 DEF p

LEMMA AppendedIs ==
  ASSUME NEW file \in Seq(Stored), NEW x
  PROVE  LET p == Append(file, x)
         IN /\ \A i \in DOMAIN file : i \in DOMAIN p /\ p[i] = file[i]
            /\ \A i \in DOMAIN p : p[i] = x \/ (i \in DOMAIN file /\ p[i] = file[i])
            /\ IdsOf(p) = IdsOf(file) \cup {x.id}
  <1> DEFINE p == Append(file, x)
             n == Len(file)
             T == Stored \cup {x}
  <1>1. n \in Nat /\ DOMAIN file = 1..n
    BY StoredIs
  <1>2. file \in Seq(T) /\ x \in T
    <2>1. \A i \in 1..n : file[i] \in T
      BY <1>1, StoredIs
    <2>2. file \in [1..n -> T]
      BY <1>1, <2>1
    <2> HIDE DEF n, T
    <2>3. file \in Seq(T)
      BY <1>1, <2>2, FunctionSeq
    <2> QED
      BY <2>3 DEF T
  <1> HIDE DEF T
  <1>3. p \in Seq(T) /\ Len(p) = n + 1 /\ (\A i \in 1..n : p[i] = file[i]) /\ p[n + 1] = x
    BY <1>2, AppendProperties
  <1>4. DOMAIN p = 1..Len(p)
    BY <1>3, LenProperties
  <1> HIDE DEF p, n
  <1>5. DOMAIN p = 1..(n + 1)
    BY <1>3, <1>4
  <1>6. \A i \in DOMAIN file : i \in DOMAIN p /\ p[i] = file[i]
    BY <1>1, <1>3, <1>5
  <1>7. \A i \in DOMAIN p : p[i] = x \/ (i \in DOMAIN file /\ p[i] = file[i])
    BY <1>1, <1>3, <1>5
  <1>8. \E i \in DOMAIN p : p[i] = x
    BY <1>1, <1>3, <1>5
  <1>9. IdsOf(p) = IdsOf(file) \cup {x.id}
    BY <1>6, <1>7, <1>8 DEF IdsOf
  <1> QED
    BY <1>6, <1>7, <1>9 DEF p

LEMMA EmptyStored == <<>> \in Seq(Stored) /\ DOMAIN <<>> = {} /\ IdsOf(<<>>) = {}
  BY DEF IdsOf

-----------------------------------------------------------------------------
(* Lengths of files.                                                       *)

Chars(file) == {c \in (DOMAIN file) \X (1..7) : c[2] <= Length(file[c[1]])}

LEMMA CharsFinite ==
  ASSUME NEW file \in Seq(Stored)
  PROVE  IsFiniteSet(Chars(file)) /\ LengthOf(file) = Cardinality(Chars(file)) /\ LengthOf(file) \in Nat
  <1> DEFINE all == (DOMAIN file) \X (1..7)
  <1>1. IsFiniteSet(DOMAIN file) /\ IsFiniteSet(1..7)
    <2>1. DOMAIN file = 1..Len(file) /\ Len(file) \in Int /\ 1 \in Int /\ 7 \in Int
      BY StoredIs
    <2> QED
      BY <2>1, FS_Interval
  <1>2. IsFiniteSet(all)
    BY <1>1, FS_Product
  <1>3. Chars(file) \in SUBSET all
    BY DEF Chars
  <1> HIDE DEF all
  <1>4. IsFiniteSet(Chars(file))
    BY <1>2, <1>3, FS_Subset
  <1>5. LengthOf(file) = Cardinality(Chars(file))
    BY DEF LengthOf, Chars
  <1> QED
    BY <1>4, <1>5, FS_CardinalityType

\* The length of a part from the beginning tells which part that is.
LEMMA LengthGrows ==
  ASSUME NEW file \in Seq(Stored), NEW m \in 0..Len(file), NEW n \in 0..Len(file), m < n
  PROVE  LengthOf(SubSeq(file, 1, m)) < LengthOf(SubSeq(file, 1, n))
  <1> DEFINE a == SubSeq(file, 1, m)
             b == SubSeq(file, 1, n)
  <1>0. Len(file) \in Nat /\ \A i \in 1..Len(file) : file[i] \in Stored
    BY StoredIs
  <1>1. /\ a \in Seq(Stored) /\ DOMAIN a = 1..m /\ \A i \in 1..m : a[i] = file[i]
        /\ b \in Seq(Stored) /\ DOMAIN b = 1..n /\ \A i \in 1..n : b[i] = file[i]
    <2>1. /\ a \in Seq(Stored) /\ Len(a) = m /\ \A i \in 1..m : a[i] = file[i]
          /\ b \in Seq(Stored) /\ Len(b) = n /\ \A i \in 1..n : b[i] = file[i]
      BY <1>0, Part
    <2> HIDE DEF a, b
    <2> QED
      BY <2>1, StoredIs
  <1> HIDE DEF a, b
  <1>2. Chars(a) \in SUBSET Chars(b)
    BY <1>1 DEF Chars
  <1>3. 1 <= Length(b[n])
    <2>1. n \in 1..n /\ n \in 1..Len(file)
      BY <1>0
    <2>2. b[n].status \in Statuses
      BY <1>0, <1>1, <2>1 DEF Stored
    <2>3. CASE b[n].status = "N"
      BY <2>3 DEF Length
    <2>4. CASE b[n].status = "O"
      BY <2>4 DEF Length
    <2>5. CASE b[n].status = "RO"
      BY <2>5 DEF Length
    <2> QED
      BY <2>2, <2>3, <2>4, <2>5 DEF Statuses
  <1>4. <<n, 1>> \in Chars(b) /\ <<n, 1>> \notin Chars(a)
    BY <1>1, <1>3 DEF Chars
  <1>5. Cardinality(Chars(a)) <= Cardinality(Chars(b)) /\ Cardinality(Chars(a)) # Cardinality(Chars(b))
    BY <1>1, <1>2, <1>4, CharsFinite, FS_Subset
  <1>6. LengthOf(a) < LengthOf(b)
    BY <1>1, <1>5, CharsFinite
  <1> QED
    BY <1>6 DEF a, b

\* What a file has at or after an offset is its end, from a message on.
LEMMA AfterStored ==
  ASSUME NEW file \in Seq(Stored), NEW off \in Nat
  PROVE  \E m \in 1..(Len(file) + 1) : After(file, off) = SubSeq(file, m, Len(file))
  <1> DEFINE first == {i \in DOMAIN file : LengthOf(SubSeq(file, 1, i - 1)) >= off}
  <1>1. Len(file) \in Nat /\ DOMAIN file = 1..Len(file)
    BY StoredIs
  <1>2. IsFiniteSet(1..Len(file)) /\ Cardinality(1..Len(file)) = Len(file)
    BY <1>1, FS_Interval
  <1>3. first \in SUBSET (1..Len(file))
    BY <1>1
  <1>4. After(file, off) = SubSeq(file, Len(file) + 1 - Cardinality(first), Len(file))
    BY DEF After
  <1> HIDE DEF first
  <1>5. IsFiniteSet(first) /\ Cardinality(first) <= Len(file)
    BY <1>2, <1>3, FS_Subset
  <1>6. Cardinality(first) \in Nat
    BY <1>5, FS_CardinalityType
  <1>7. Len(file) + 1 - Cardinality(first) \in 1..(Len(file) + 1)
    BY <1>1, <1>5, <1>6
  <1> QED
    BY <1>4, <1>7

\* After the length of a part comes the rest.
LEMMA AfterPart ==
  ASSUME NEW file \in Seq(Stored), NEW n \in 0..Len(file)
  PROVE  After(file, LengthOf(SubSeq(file, 1, n))) = SubSeq(file, n + 1, Len(file))
  <1> DEFINE off == LengthOf(SubSeq(file, 1, n))
             first == {i \in DOMAIN file : LengthOf(SubSeq(file, 1, i - 1)) >= off}
  <1>1. Len(file) \in Nat /\ DOMAIN file = 1..Len(file)
    BY StoredIs
  <1>2. \A m \in 0..Len(file) : SubSeq(file, 1, m) \in Seq(Stored)
    BY PartStored
  <1>3. \A m \in 0..Len(file) : LengthOf(SubSeq(file, 1, m)) \in Nat
    BY <1>2, CharsFinite
  <1>4. \A i \in 1..Len(file) : LengthOf(SubSeq(file, 1, i - 1)) >= off <=> i \in (n + 1)..Len(file)
    <2> SUFFICES ASSUME NEW i \in 1..Len(file)
                 PROVE  LengthOf(SubSeq(file, 1, i - 1)) >= off <=> i \in (n + 1)..Len(file)
      OBVIOUS
    <2>1. i - 1 \in 0..Len(file)
      BY <1>1
    <2>2. CASE i - 1 < n
      <3>1. LengthOf(SubSeq(file, 1, i - 1)) < off
        BY <2>1, <2>2, LengthGrows
      <3> QED
        BY <1>1, <1>3, <2>1, <2>2, <3>1
    <2>3. CASE i - 1 = n
      BY <1>1, <1>3, <2>1, <2>3
    <2>4. CASE n < i - 1
      <3>1. off < LengthOf(SubSeq(file, 1, i - 1))
        BY <2>1, <2>4, LengthGrows
      <3> QED
        BY <1>1, <1>3, <2>1, <2>4, <3>1
    <2> QED
      BY <1>1, <2>2, <2>3, <2>4
  <1>5. first = (n + 1)..Len(file)
    BY <1>1, <1>4
  <1>6. After(file, off) = SubSeq(file, Len(file) + 1 - Cardinality(first), Len(file))
    BY DEF After
  <1> HIDE DEF first, off
  <1>7. Cardinality(first) = Len(file) - n
    <2>1. n + 1 \in Int /\ Len(file) \in Int /\ n <= Len(file)
      BY <1>1
    <2>2. Cardinality((n + 1)..Len(file)) = IF n + 1 > Len(file) THEN 0 ELSE Len(file) - (n + 1) + 1
      BY <2>1, FS_Interval
    <2> QED
      BY <1>1, <1>5, <2>2
  <1>8. Len(file) + 1 - Cardinality(first) = n + 1
    BY <1>1, <1>7
  <1> QED
    BY <1>6, <1>8 DEF off

-----------------------------------------------------------------------------
(* The numbers of a set in order.                                          *)

LEMMA InOrderIs ==
  ASSUME NEW n \in Nat, NEW K \in SUBSET (1..n)
  PROVE  /\ Cardinality(K) \in Nat
         /\ InOrder(K) \in [1..Cardinality(K) -> K]
         /\ \A i \in K : \E k \in 1..Cardinality(K) : InOrder(K)[k] = i
         /\ \A k, l \in 1..Cardinality(K) : InOrder(K)[k] = InOrder(K)[l] => k = l
  <1> DEFINE upto(i) == {k \in K : k <= i}
             c == Cardinality(K)
             rank == [i \in K |-> Cardinality(upto(i))]
  <1>1. IsFiniteSet(K)
    <2>1. IsFiniteSet(1..n)
      BY FS_Interval
    <2> QED
      BY <2>1, FS_Subset
  <1>2. c \in Nat
    BY <1>1, FS_CardinalityType
  <1>3. ASSUME NEW i \in K
        PROVE  IsFiniteSet(upto(i)) /\ Cardinality(upto(i)) \in 1..c
    <2>1. upto(i) \in SUBSET K /\ i \in upto(i)
      OBVIOUS
    <2> HIDE DEF upto
    <2>2. IsFiniteSet(upto(i)) /\ Cardinality(upto(i)) <= c
      BY <1>1, <2>1, FS_Subset
    <2>3. Cardinality(upto(i)) \in Nat /\ Cardinality(upto(i)) # 0
      BY <2>1, <2>2, FS_CardinalityType, FS_EmptySet
    <2> QED
      BY <1>2, <2>2, <2>3
  <1>4. ASSUME NEW i \in K, NEW j \in K, i < j
        PROVE  rank[i] # rank[j]
    <2>1. upto(i) \in SUBSET upto(j) /\ j \in upto(j) /\ j \notin upto(i)
      <3>1. i \in Nat /\ j \in Nat /\ \A k \in K : k \in Nat
        OBVIOUS
      <3>2. ~(j <= i) /\ j <= j /\ \A k \in K : k <= i => k <= j
        BY <1>4, <3>1
      <3> QED
        BY <3>2
    <2>2. IsFiniteSet(upto(j)) /\ rank[i] = Cardinality(upto(i)) /\ rank[j] = Cardinality(upto(j))
      BY <1>3
    <2> HIDE DEF upto, rank
    <2> QED
      BY <2>1, <2>2, FS_Subset
  <1>5. rank \in Injection(K, 1..c)
    <2>1. rank \in [K -> 1..c]
      BY <1>3
    <2>2. \A i, j \in K : rank[i] = rank[j] => i = j
      <3> HIDE DEF rank
      <3> QED
        BY <1>4
    <2> HIDE DEF rank
    <2> QED
      BY <2>1, <2>2 DEF Injection, IsInjective
  <1>6. rank \in Surjection(K, 1..c)
    <2>1. IsFiniteSet(1..c) /\ Cardinality(1..c) = c
      BY <1>2, FS_Interval
    <2> HIDE DEF rank
    <2> QED
      BY <1>5, <2>1, FS_Injection
  <1>7. \A k \in 1..c : \E i \in K : rank[i] = k
    <2> HIDE DEF rank
    <2> QED
      BY <1>6 DEF Surjection
  <1>8. \A k \in 1..c : InOrder(K)[k] = CHOOSE i \in K : rank[i] = k
    <2>1. \A i \in K : rank[i] = Cardinality({k \in K : k <= i})
      OBVIOUS
    <2> HIDE DEF rank
    <2> QED
      BY <2>1 DEF InOrder
  <1>9. InOrder(K) = [k \in 1..c |-> InOrder(K)[k]]
    BY DEF InOrder
  <1> HIDE DEF rank
  <1>10. \A k \in 1..c : InOrder(K)[k] \in K /\ rank[InOrder(K)[k]] = k
    BY <1>7, <1>8
  <1>11. \A i \in K : rank[i] \in 1..c /\ InOrder(K)[rank[i]] = i
    BY <1>5, <1>10 DEF Injection, IsInjective
  <1> QED
    BY <1>2, <1>9, <1>10, <1>11

-----------------------------------------------------------------------------
(* The inductive invariant.                                                *)

\* The fcntl lock of a file is of the session that is writing it.
Writing == {"rewrite", "truncate", "close"}
LockInv ==
  /\ \A f \in Inodes : \A s \in Sessions : flk[f] = s <=> mpc[s] \in Writing /\ fd[s] = f
  /\ \A s \in Sessions : mpc[s] \in Writing \cup {"lock"} => fd[s] \in Inodes
  /\ mailer.at = "lock" => mailer.fd \in Inodes
  /\ mailer.at \in {"open", "lock"} => mail < MaxMail

\* Everything is about messages that were delivered.
IdInv ==
  /\ \A f \in Inodes : IdsOf(inodes[f]) \subseteq 1..mail
  /\ IdsOf(mbox) \subseteq 1..mail /\ dropped \subseteq 1..mail
  /\ \A s \in Sessions : IdsOf(mb[s]) \cup IdsOf(out[s]) \subseteq 1..mail

\* What is marked as read, or will be moved, the user has read or asked to move; what is
\* saved is in a file.
ReadOnly(file) == \A i \in DOMAIN file : file[i].status = "RO" => file[i].id \in seen
Unseen(m) ==
  /\ m.state \in Fresh \cup {"deleted"} \/ (m.state = "preserved" /\ m.prev \in Fresh)
  /\ ~m.to_mbox /\ ~m.touched
SeenInv ==
  /\ \A f \in Inodes : ReadOnly(inodes[f])
  /\ IdsOf(mbox) \subseteq seen
  /\ \A s \in Sessions :
       /\ ReadOnly(out[s])
       /\ \A i \in DOMAIN mb[s] :
            /\ mb[s][i].id \in seen \/ Unseen(mb[s][i])
            /\ "saved" \in {mb[s][i].state, mb[s][i].prev} => mb[s][i].id \in filed

\* Without a risk: the .lock file is of whoever may write the mailbox, and that is the file
\* that has the name; a session knows the messages the mailbox begins with.
Locked == {"open", "lock", "rewrite", "truncate", "close", "unlock"}
Committed == {"dotlock", "stale", "open", "lock", "rewrite"}
Active == Committed \cup {"command", "mbox"}
Reads(s) ==
  /\ path # 0 /\ Len(mb[s]) <= Len(Box)
  /\ \A i \in DOMAIN mb[s] : mb[s][i].id = Box[i].id
  /\ size[s] = LengthOf(SubSeq(Box, 1, Len(mb[s])))
OwnOf(s) ==
  /\ mpc[s] \in Locked => dot = s
  /\ mpc[s] \in {"lock", "rewrite", "truncate"} => fd[s] = path
  /\ mpc[s] \in Active => Reads(s)
  /\ mpc[s] = "truncate" => \A t \in Sessions \ {s} : mpc[t] = "idle"
  /\ mpc[s] \in Committed /\ ~opts.same =>
       \A i \in DOMAIN mb[s] : Moves(mb[s][i]) => mb[s][i].id \in IdsOf(mbox)
  /\ mpc[s] = "truncate" => 1..mail \subseteq IdsOf(out[s]) \cup IdsOf(mbox) \cup filed \cup dropped
OwnInv ==
  /\ mailer.at # "idle" => dot = Mailer
  /\ mailer.at = "lock" => mailer.fd = path
  /\ \A s \in Sessions : OwnOf(s)

\* When besides nothing fails, and no two sessions are on their way to the mailbox (the first
\* to write it will be a risk): a message is in one place, but for those that are just being moved.
Single == \A s, t \in Sessions : mpc[s] \in Committed /\ mpc[t] \in Committed => s = t
Moving(x) == \E s \in Sessions : mpc[s] \in Committed /\ \E i \in DOMAIN mb[s] : Moves(mb[s][i]) /\ mb[s][i].id = x
Apart(file) == Distinct(file) /\ dropped \cap IdsOf(file) = {}
PlaceInv ==
  /\ Apart(mbox)
  /\ (\A s \in Sessions : mpc[s] # "truncate") => Apart(Box) /\ \A x \in IdsOf(Box) \cap IdsOf(mbox) : Moving(x)
  /\ \A s \in Sessions : mpc[s] = "truncate" => Apart(out[s]) /\ IdsOf(out[s]) \cap IdsOf(mbox) = {}

MailInv ==
  /\ MailTypeOK /\ LockInv /\ IdInv /\ SeenInv
  /\ NoMailLost
  /\ risks = {} => OwnInv
  /\ risks = {} /\ faults = 0 /\ Single => PlaceInv

-----------------------------------------------------------------------------
(* What becomes of the messages of a session.                              *)

LEMMA MessagesAre ==
  ASSUME MailTypeOK, NEW s \in Sessions
  PROVE  /\ mb[s] \in Seq(Message) /\ Len(mb[s]) \in Nat /\ DOMAIN mb[s] = 1..Len(mb[s])
         /\ \A i \in DOMAIN mb[s] : mb[s][i] \in Message
  <1>1. mb[s] \in Seq(Message)
    BY DEF MailTypeOK
  <1> QED
    BY <1>1, LenProperties, ElementOfSeq

\* What is made of some messages, in their order.
IsPicked(q, K, g) ==
  /\ \A k \in DOMAIN q : \E i \in K : q[k] = g[i]
  /\ \A i \in K : \E k \in DOMAIN q : q[k] = g[i]
  /\ \A k, l \in DOMAIN q : k # l => \E i, j \in K : i # j /\ q[k] = g[i] /\ q[l] = g[j]

LEMMA Picked ==
  ASSUME NEW T, NEW n \in Nat, NEW K \in SUBSET (1..n), NEW g \in [1..n -> T],
         NEW q, q = [k \in DOMAIN InOrder(K) |-> g[InOrder(K)[k]]]
  PROVE  q \in Seq(T) /\ IsPicked(q, K, g)
  <1> DEFINE c == Cardinality(K)
             o == InOrder(K)
  <1>1. /\ c \in Nat /\ o \in [1..c -> K]
        /\ \A i \in K : \E k \in 1..c : o[k] = i
        /\ \A k, l \in 1..c : o[k] = o[l] => k = l
    BY InOrderIs
  <1> HIDE DEF c, o
  <1>2. q = [k \in 1..c |-> g[o[k]]]
    BY <1>1 DEF o
  <1>3. \A k \in 1..c : o[k] \in K /\ q[k] = g[o[k]] /\ g[o[k]] \in T
    BY <1>1, <1>2
  <1>4. q \in [1..c -> T]
    BY <1>2, <1>3
  <1>5. q \in Seq(T) /\ DOMAIN q = 1..c
    BY <1>1, <1>4, FunctionSeq
  <1>6. \A k, l \in 1..c : k # l => o[k] # o[l]
    BY <1>1
  <1>7. IsPicked(q, K, g)
    <2>1. \A k \in DOMAIN q : \E i \in K : q[k] = g[i]
      BY <1>3, <1>5
    <2>2. ASSUME NEW i \in K
          PROVE  \E k \in DOMAIN q : q[k] = g[i]
      <3>1. PICK k \in 1..c : o[k] = i
        BY <1>1
      <3> QED
        BY <1>3, <1>5, <3>1
    <2>3. ASSUME NEW k \in DOMAIN q, NEW l \in DOMAIN q, k # l
          PROVE  \E i, j \in K : i # j /\ q[k] = g[i] /\ q[l] = g[j]
      <3>1. o[k] # o[l] /\ o[k] \in K /\ o[l] \in K /\ q[k] = g[o[k]] /\ q[l] = g[o[l]]
        BY <1>3, <1>5, <1>6, <2>3
      <3> QED
        BY <3>1
    <2> QED
      BY <2>1, <2>2, <2>3 DEF IsPicked
  <1> QED
    BY <1>5, <1>7

LEMMA WrittenType ==
  ASSUME NEW m \in Message
  PROVE  Written(m) \in Stored /\ Written(m).id = m.id /\ Written(m).status = status_value(m)
  <1>1. status_value(m) \in Statuses
    BY DEF status_value, Statuses
  <1> HIDE DEF status_value
  <1> QED
    BY <1>1 DEF Written, Message, Stored

LEMMA KeptIs ==
  ASSUME MailTypeOK, NEW s \in Sessions
  PROVE  /\ Kept(s) \in Seq(Stored)
         /\ \A k \in DOMAIN Kept(s) : \E i \in DOMAIN mb[s] : Keeps(mb[s][i]) /\ Kept(s)[k] = Written(mb[s][i])
         /\ \A i \in DOMAIN mb[s] : Keeps(mb[s][i]) => mb[s][i].id \in IdsOf(Kept(s))
         /\ Distinct(mb[s]) => Distinct(Kept(s))
  <1> DEFINE n == Len(mb[s])
             K == {i \in DOMAIN mb[s] : Keeps(mb[s][i])}
             g == [i \in 1..n |-> Written(mb[s][i])]
             q == Kept(s)
  <1>1. n \in Nat /\ DOMAIN mb[s] = 1..n /\ \A i \in 1..n : mb[s][i] \in Message
    BY MessagesAre
  <1>2. K \in SUBSET (1..n) /\ \A i \in 1..n : i \in K <=> Keeps(mb[s][i])
    BY <1>1
  <1>3. /\ g \in [1..n -> Stored]
        /\ \A i \in 1..n : g[i] = Written(mb[s][i]) /\ g[i].id = mb[s][i].id
    BY <1>1, WrittenType
  <1>4. q = [k \in DOMAIN InOrder(K) |-> Written(mb[s][InOrder(K)[k]])]
    BY DEF Kept
  <1>5. \A k \in DOMAIN InOrder(K) : InOrder(K)[k] \in 1..n
    <2> HIDE DEF K, n
    <2>1. InOrder(K) \in [1..Cardinality(K) -> K]
      BY <1>1, <1>2, InOrderIs
    <2> QED
      BY <1>2, <2>1
  <1> HIDE DEF K, q, n
  <1>6. q = [k \in DOMAIN InOrder(K) |-> g[InOrder(K)[k]]]
    BY <1>4, <1>5
  <1> HIDE DEF g
  <1>7. q \in Seq(Stored) /\ IsPicked(q, K, g)
    BY <1>1, <1>2, <1>3, <1>6, Picked
  <1>8. ASSUME NEW k \in DOMAIN q
        PROVE  \E i \in DOMAIN mb[s] : Keeps(mb[s][i]) /\ q[k] = Written(mb[s][i])
    <2>1. PICK i \in K : q[k] = g[i]
      BY <1>7 DEF IsPicked
    <2>2. i \in 1..n
      BY <1>2, <2>1
    <2> QED
      BY <1>1, <1>2, <1>3, <2>1, <2>2
  <1>9. \A i \in DOMAIN mb[s] : Keeps(mb[s][i]) => mb[s][i].id \in IdsOf(q)
    BY <1>1, <1>2, <1>3, <1>7 DEF IsPicked, IdsOf
  <1>10. ASSUME Distinct(mb[s]), NEW k \in DOMAIN q, NEW l \in DOMAIN q, k # l
         PROVE  q[k].id # q[l].id
    <2>1. PICK i \in K, j \in K : i # j /\ q[k] = g[i] /\ q[l] = g[j]
      BY <1>7, <1>10 DEF IsPicked
    <2>2. i \in DOMAIN mb[s] /\ j \in DOMAIN mb[s] /\ q[k].id = mb[s][i].id /\ q[l].id = mb[s][j].id
      BY <1>1, <1>2, <1>3, <2>1
    <2> QED
      BY <1>10, <2>1, <2>2 DEF Distinct
  <1>11. Distinct(mb[s]) => Distinct(q)
    BY <1>10 DEF Distinct
  <1> QED
    BY <1>7, <1>8, <1>9, <1>11 DEF q

LEMMA MovedIs ==
  ASSUME MailTypeOK, NEW s \in Sessions
  PROVE  /\ Moved(s) \in Seq(Stored)
         /\ \A k \in DOMAIN Moved(s) : \E i \in DOMAIN mb[s] : Moves(mb[s][i]) /\ Moved(s)[k].id = mb[s][i].id
         /\ \A i \in DOMAIN mb[s] : Moves(mb[s][i]) => mb[s][i].id \in IdsOf(Moved(s))
         /\ Distinct(mb[s]) => Distinct(Moved(s))
  <1> DEFINE n == Len(mb[s])
             K == {i \in DOMAIN mb[s] : Moves(mb[s][i])}
             g == [i \in 1..n |-> [id |-> mb[s][i].id, status |-> "RO"]]
             q == Moved(s)
  <1>1. n \in Nat /\ DOMAIN mb[s] = 1..n /\ \A i \in 1..n : mb[s][i] \in Message
    BY MessagesAre
  <1>2. K \in SUBSET (1..n) /\ \A i \in 1..n : i \in K <=> Moves(mb[s][i])
    BY <1>1
  <1>3. /\ g \in [1..n -> Stored]
        /\ \A i \in 1..n : g[i] = [id |-> mb[s][i].id, status |-> "RO"] /\ g[i].id = mb[s][i].id
    BY <1>1 DEF Stored, Statuses, Message
  <1>4. q = [k \in DOMAIN InOrder(K) |-> [id |-> mb[s][InOrder(K)[k]].id, status |-> "RO"]]
    BY DEF Moved
  <1>5. \A k \in DOMAIN InOrder(K) : InOrder(K)[k] \in 1..n
    <2> HIDE DEF K, n
    <2>1. InOrder(K) \in [1..Cardinality(K) -> K]
      BY <1>1, <1>2, InOrderIs
    <2> QED
      BY <1>2, <2>1
  <1> HIDE DEF K, q, n
  <1>6. q = [k \in DOMAIN InOrder(K) |-> g[InOrder(K)[k]]]
    BY <1>4, <1>5
  <1> HIDE DEF g
  <1>7. q \in Seq(Stored) /\ IsPicked(q, K, g)
    BY <1>1, <1>2, <1>3, <1>6, Picked
  <1>8. ASSUME NEW k \in DOMAIN q
        PROVE  \E i \in DOMAIN mb[s] : Moves(mb[s][i]) /\ q[k].id = mb[s][i].id
    <2>1. PICK i \in K : q[k] = g[i]
      BY <1>7 DEF IsPicked
    <2>2. i \in 1..n
      BY <1>2, <2>1
    <2> QED
      BY <1>1, <1>2, <1>3, <2>1, <2>2
  <1>9. \A i \in DOMAIN mb[s] : Moves(mb[s][i]) => mb[s][i].id \in IdsOf(q)
    BY <1>1, <1>2, <1>3, <1>7 DEF IsPicked, IdsOf
  <1>10. ASSUME Distinct(mb[s]), NEW k \in DOMAIN q, NEW l \in DOMAIN q, k # l
         PROVE  q[k].id # q[l].id
    <2>1. PICK i \in K, j \in K : i # j /\ q[k] = g[i] /\ q[l] = g[j]
      BY <1>7, <1>10 DEF IsPicked
    <2>2. i \in DOMAIN mb[s] /\ j \in DOMAIN mb[s] /\ q[k].id = mb[s][i].id /\ q[l].id = mb[s][j].id
      BY <1>1, <1>2, <1>3, <2>1
    <2> QED
      BY <1>10, <2>1, <2>2 DEF Distinct
  <1>11. Distinct(mb[s]) => Distinct(q)
    BY <1>10 DEF Distinct
  <1> QED
    BY <1>7, <1>8, <1>9, <1>11 DEF q

LEMMA ParsedIs ==
  ASSUME NEW file \in Seq(Stored)
  PROVE  LET p == parse_messages(file)
         IN /\ p \in Seq(Message) /\ Len(p) = Len(file) /\ DOMAIN p = DOMAIN file
            /\ \A i \in DOMAIN p : /\ p[i].id = file[i].id
                                   /\ file[i].status = "RO" \/ Unseen(p[i])
                                   /\ "saved" \notin {p[i].state, p[i].prev}
  <1> DEFINE p == parse_messages(file)
  <1>1. Len(file) \in Nat /\ DOMAIN file = 1..Len(file) /\ \A i \in DOMAIN file : file[i] \in Stored
    BY StoredIs
  <1>2. DOMAIN p = 1..Len(file) /\ p = [i \in 1..Len(file) |-> p[i]]
    BY <1>1 DEF parse_messages
  <1>3. ASSUME NEW i \in 1..Len(file)
        PROVE  /\ p[i] \in Message /\ p[i].id = file[i].id
               /\ file[i].status = "RO" \/ Unseen(p[i])
               /\ "saved" \notin {p[i].state, p[i].prev}
    <2>1. p[i] = [id |-> file[i].id, status |-> file[i].status, state |-> StateOf(file[i].status),
                  prev |-> "new", to_mbox |-> FALSE, touched |-> FALSE]
      BY <1>1 DEF parse_messages
    <2> HIDE DEF p
    <2>2. file[i].id \in 1..MaxMail /\ file[i].status \in Statuses
      BY <1>1 DEF Stored
    <2>3. /\ StateOf(file[i].status) \in {"new", "unread", "read"}
          /\ file[i].status = "RO" \/ StateOf(file[i].status) \in Fresh
      BY <2>2 DEF StateOf, Statuses, Fresh
    <2> HIDE DEF StateOf
    <2> QED
      BY <2>1, <2>2, <2>3 DEF Message, States, Unseen, Fresh
  <1> HIDE DEF p
  <1>4. p \in [1..Len(file) -> Message]
    BY <1>2, <1>3
  <1>5. p \in Seq(Message) /\ Len(p) = Len(file)
    BY <1>1, <1>4, FunctionSeq
  <1> QED
    BY <1>1, <1>2, <1>3, <1>5 DEF p

\* A command changes the state of a message: unless the user has read it or asked to move
\* it, it will be kept unread; it is saved by save alone.
LEMMA AppliedIs ==
  ASSUME NEW m \in Message, NEW op, op = "undelete" <=> m.state = "deleted"
  PROVE  LET x == Applied(op, m)
         IN /\ x \in Message /\ x.id = m.id
            /\ op \in {"delete", "hold"} /\ Unseen(m) => Unseen(x)
            /\ "saved" \in {x.state, x.prev} => op = "save" \/ "saved" \in {m.state, m.prev}
  <1> USE DEF Message, States, Unseen, Fresh
  <1>1. CASE op \in {"print", "copy"}
    BY <1>1 DEF Applied, mark_read
  <1>2. CASE op = "delete"
    BY <1>2 DEF Applied, DeleteMsg
  <1>3. CASE op = "undelete"
    BY <1>3 DEF Applied, Undelete
  <1>4. CASE op = "save"
    BY <1>4 DEF Applied, Save
  <1>5. CASE op = "hold"
    BY <1>5 DEF Applied, Hold
  <1>6. CASE op = "mbox"
    BY <1>6 DEF Applied, ToMbox
  <1>7. CASE op \notin {"print", "copy", "delete", "undelete", "save", "hold", "mbox"}
    BY <1>7 DEF Applied, Touch
  <1> QED
    BY <1>1, <1>2, <1>3, <1>4, <1>5, <1>6, <1>7

-----------------------------------------------------------------------------
(* The text that is written back.                                          *)

From(a, file) == \A k \in DOMAIN a : \E i \in DOMAIN file : a[k] = file[i]

LEMMA PartFrom ==
  ASSUME NEW file \in Seq(Stored), NEW m \in Nat \ {0}
  PROVE  SubSeq(file, m, Len(file)) \in Seq(Stored) /\ From(SubSeq(file, m, Len(file)), file)
  <1>1. Len(file) \in 0..Len(file)
    BY StoredIs
  <1> QED
    BY <1>1, PartStored DEF From

LEMMA AfterType ==
  ASSUME NEW file \in Seq(Stored), NEW off \in Nat
  PROVE  After(file, off) \in Seq(Stored) /\ From(After(file, off), file)
  <1>1. PICK m \in 1..(Len(file) + 1) : After(file, off) = SubSeq(file, m, Len(file))
    BY AfterStored
  <1>2. m \in Nat \ {0}
    BY <1>1, StoredIs
  <1> QED
    BY <1>1, <1>2, PartFrom

LEMMA FromIds ==
  ASSUME NEW a, NEW file, From(a, file)
  PROVE  IdsOf(a) \subseteq IdsOf(file) /\ (ReadOnly(file) => ReadOnly(a))
  <1>1. IdsOf(a) \subseteq IdsOf(file)
    BY DEF From, IdsOf
  <1>2. ReadOnly(file) => ReadOnly(a)
    BY DEF From, ReadOnly
  <1> QED
    BY <1>1, <1>2

LEMMA InodeIs ==
  ASSUME MailTypeOK
  PROVE  /\ Inodes = DOMAIN inodes /\ Len(inodes) \in Nat /\ Inodes = 1..Len(inodes)
         /\ \A f \in Inodes : inodes[f] \in Seq(Stored)
         /\ Box \in Seq(Stored)
         /\ path # 0 => path \in Inodes /\ Box = inodes[path]
         /\ path = 0 => Box = <<>>
  <1>1. inodes \in Seq(Seq(Stored)) /\ path \in 0..Len(inodes)
    BY DEF MailTypeOK
  <1>2. /\ Inodes = DOMAIN inodes /\ Len(inodes) \in Nat /\ Inodes = 1..Len(inodes)
        /\ \A f \in Inodes : inodes[f] \in Seq(Stored)
    BY <1>1, LenProperties, ElementOfSeq DEF Inodes
  <1>3. path # 0 => path \in Inodes
    BY <1>1, <1>2
  <1> QED
    BY <1>2, <1>3, EmptyStored DEF Box

LEMMA ArrivedIs ==
  ASSUME MailTypeOK, LockInv, NEW s \in Sessions, mpc[s] = "rewrite"
  PROVE  /\ fd[s] \in Inodes /\ inodes[fd[s]] \in Seq(Stored)
         /\ Arrived(s) \in Seq(Stored) /\ From(Arrived(s), inodes[fd[s]])
  <1>1. fd[s] \in Inodes
    BY DEF LockInv, Writing
  <1>2. inodes[fd[s]] \in Seq(Stored)
    BY <1>1, InodeIs
  <1>3. size[s] \in Nat
    BY DEF MailTypeOK
  <1>4. /\ After(inodes[fd[s]], size[s]) \in Seq(Stored)
        /\ From(After(inodes[fd[s]], size[s]), inodes[fd[s]])
    BY <1>2, <1>3, AfterType
  <1>5. From(<<>>, inodes[fd[s]])
    BY EmptyStored DEF From
  <1> QED
    BY <1>1, <1>2, <1>4, <1>5, EmptyStored DEF Arrived

\* The text, and the rest of a file it is written over.
WrittenOver(s) == NewText(s) \o After(inodes[fd[s]], LengthOf(NewText(s)))

LEMMA TextIs ==
  ASSUME MailTypeOK, LockInv, NEW s \in Sessions, mpc[s] = "rewrite"
  PROVE  /\ NewText(s) \in Seq(Stored) /\ IdsOf(NewText(s)) = IdsOf(Kept(s)) \cup IdsOf(Arrived(s))
         /\ WrittenOver(s) \in Seq(Stored)
         /\ IdsOf(NewText(s)) \subseteq IdsOf(WrittenOver(s))
         /\ IdsOf(WrittenOver(s)) \subseteq IdsOf(NewText(s)) \cup IdsOf(inodes[fd[s]])
         /\ ReadOnly(Kept(s)) /\ ReadOnly(inodes[fd[s]]) => ReadOnly(NewText(s)) /\ ReadOnly(WrittenOver(s))
  <1> DEFINE f == inodes[fd[s]]
             k == Kept(s)
             a == Arrived(s)
             x == NewText(s)
             r == After(f, LengthOf(x))
  <1>1. k \in Seq(Stored)
    BY KeptIs
  <1>2. a \in Seq(Stored) /\ f \in Seq(Stored) /\ From(a, f)
    BY ArrivedIs
  <1>3. x = k \o a /\ WrittenOver(s) = x \o r
    BY DEF NewText, WrittenOver
  <1> HIDE DEF k, a, x, f
  <1>4. /\ x \in Seq(Stored) /\ IdsOf(x) = IdsOf(k) \cup IdsOf(a)
        /\ \A i \in DOMAIN x : \/ i \in DOMAIN k /\ x[i] = k[i]
                               \/ i - Len(k) \in DOMAIN a /\ x[i] = a[i - Len(k)]
    BY <1>1, <1>2, <1>3, ConcatStored
  <1>5. r \in Seq(Stored) /\ From(r, f)
    BY <1>2, <1>4, CharsFinite, AfterType
  <1> HIDE DEF r
  <1>6. LET y == WrittenOver(s)
        IN /\ y \in Seq(Stored) /\ IdsOf(y) = IdsOf(x) \cup IdsOf(r)
           /\ \A i \in DOMAIN y : (i \in DOMAIN x /\ y[i] = x[i]) \/ (i - Len(x) \in DOMAIN r /\ y[i] = r[i - Len(x)])
    <2>1. x \in Seq(Stored) /\ r \in Seq(Stored) /\ WrittenOver(s) = x \o r
      BY <1>3, <1>4, <1>5
    <2> QED
      BY <2>1, ConcatStored
  <1>7. IdsOf(a) \subseteq IdsOf(f) /\ IdsOf(r) \subseteq IdsOf(f)
    BY <1>2, <1>5, FromIds
  <1>8. ASSUME ReadOnly(k), ReadOnly(f)
        PROVE  ReadOnly(x) /\ ReadOnly(WrittenOver(s))
    <2>1. ReadOnly(a) /\ ReadOnly(r)
      BY <1>2, <1>5, <1>8, FromIds
    <2>2. ReadOnly(x)
      BY <1>4, <1>8, <2>1 DEF ReadOnly
    <2>3. ReadOnly(WrittenOver(s))
      BY <1>6, <2>1, <2>2 DEF ReadOnly
    <2> QED
      BY <2>2, <2>3
  <1> QED
    BY <1>4, <1>6, <1>7, <1>8 DEF k, a, x, f

-----------------------------------------------------------------------------
(* The types.                                                              *)

Options == [hold : BOOLEAN, keep : BOOLEAN, keepsave : BOOLEAN, append : BOOLEAN, same : BOOLEAN]
Places == {"idle", "command", "mbox", "dotlock", "stale", "open", "lock", "rewrite", "truncate", "close", "unlock"}
Risks == {"mbox full", "lock removed", "no lock", "two sessions", "same file"}

\* The types in parts: the files, the locks and the mailer, the sessions, the rest.
FileTypes ==
  /\ inodes \in Seq(Seq(Stored)) /\ path \in 0..Len(inodes)
  /\ flk \in [Inodes -> Sessions \cup {None}] /\ mbox \in Seq(Stored) /\ filed \subseteq 1..MaxMail
SessionTypes ==
  /\ mpc \in [Sessions -> Places]
  /\ mb \in [Sessions -> Seq(Message)] /\ size \in [Sessions -> Nat] /\ fd \in [Sessions -> Nat]
  /\ out \in [Sessions -> Seq(Stored)]
RestTypes ==
  /\ opts \in Options /\ dot \in Sessions \cup {None, Mailer, Dead}
  /\ mailer \in [at : {"idle", "open", "lock", "unlock"}, fd : Nat] /\ mail \in 0..MaxMail
  /\ opens \in 0..MaxOpens /\ given \in 0..MaxMailCommands /\ faults \in 0..MaxFaults
  /\ seen \subseteq 1..MaxMail /\ dropped \subseteq 1..MaxMail /\ risks \subseteq Risks

LEMMA TypesAre == MailTypeOK <=> FileTypes /\ SessionTypes /\ RestTypes
  BY DEF MailTypeOK, FileTypes, SessionTypes, RestTypes, Options, Places, Risks

LEMMA TypesAreNext == MailTypeOK' <=> FileTypes' /\ SessionTypes' /\ RestTypes'
  BY DEF MailTypeOK, FileTypes, SessionTypes, RestTypes, Options, Places, Risks

\* A session is over: it forgets all.
LEMMA OverType ==
  ASSUME SessionTypes, NEW s \in Sessions, Over(s)
  PROVE  SessionTypes'
  BY EmptyStored DEF SessionTypes, Over, Goes, Places

LEMMA GoesType ==
  ASSUME SessionTypes, NEW s \in Sessions, NEW where \in Places, Goes(s, where)
  PROVE  mpc' \in [Sessions -> Places]
  BY DEF SessionTypes, Goes

LEMMA FaultType ==
  ASSUME RestTypes, Fault
  PROVE  faults' \in 0..MaxFaults
  <1>1. MaxFaults \in Nat
    BY MailboxBounds
  <1> QED
    BY <1>1 DEF RestTypes, Fault

LEMMA OpenedType ==
  ASSUME MailTypeOK, NEW f, Open(f), mbox' = mbox, filed' = filed
  PROVE  /\ FileTypes' /\ f \in Inodes' /\ f # 0 /\ path' = f
         /\ Inodes \subseteq Inodes'
         /\ \A g \in Inodes : inodes'[g] = inodes[g] /\ flk'[g] = flk[g]
         /\ \A g \in Inodes' \ Inodes : inodes'[g] = <<>> /\ flk'[g] = None
         /\ Box' = Box
  <1>1. FileTypes /\ Len(inodes) \in Nat /\ Inodes = 1..Len(inodes)
    BY TypesAre, InodeIs
  <1>2. CASE path # 0
    <2>1. f = path /\ UNCHANGED <<path, inodes, flk>>
      BY <1>2 DEF Open
    <2> QED
      BY <1>1, <1>2, <2>1 DEF FileTypes, Inodes, Box
  <1>3. CASE path = 0
    <2>1. f = Len(inodes) + 1 /\ path' = f /\ inodes' = Append(inodes, <<>>) /\ flk' = Append(flk, None)
      BY <1>3 DEF Open, Created
    <2>2. /\ inodes' \in Seq(Seq(Stored)) /\ Len(inodes') = Len(inodes) + 1
          /\ \A g \in 1..Len(inodes) : inodes'[g] = inodes[g]
          /\ inodes'[Len(inodes) + 1] = <<>>
      BY <1>1, <2>1, EmptyStored, AppendProperties DEF FileTypes
    <2>3. flk \in Seq(Sessions \cup {None}) /\ Len(flk) = Len(inodes)
      BY <1>1, FunctionSeq DEF FileTypes
    <2>4. /\ flk' \in Seq(Sessions \cup {None}) /\ Len(flk') = Len(inodes) + 1
          /\ \A g \in 1..Len(inodes) : flk'[g] = flk[g]
          /\ flk'[Len(inodes) + 1] = None
      BY <2>1, <2>3, AppendProperties
    <2>5. Inodes' = 1..(Len(inodes) + 1) /\ Inodes' \ Inodes = {Len(inodes) + 1}
      BY <1>1, <2>2 DEF Inodes
    <2>6. flk' \in [Inodes' -> Sessions \cup {None}]
      BY <1>1, <2>4, <2>5, LenProperties
    <2>7. FileTypes'
      BY <1>1, <2>1, <2>2, <2>6 DEF FileTypes
    <2>8. Box' = Box
      BY <1>1, <1>3, <2>1, <2>2 DEF Box
    <2> QED
      BY <1>1, <2>1, <2>2, <2>4, <2>5, <2>7, <2>8
  <1> QED
    BY <1>2, <1>3

LEMMA OpenType ==
  ASSUME MailTypeOK, NEW s \in Sessions, mailbox_open(s)
  PROVE  MailTypeOK'
  <1>1. FileTypes /\ SessionTypes /\ RestTypes /\ Box \in Seq(Stored)
    BY TypesAre, InodeIs
  <1>2. parse_messages(Box) \in Seq(Message) /\ LengthOf(Box) \in Nat
    BY <1>1, ParsedIs, CharsFinite
  <1>3. mpc' \in [Sessions -> Places]
    BY <1>1, GoesType DEF mailbox_open, Places
  <1>4. SessionTypes'
    BY <1>1, <1>2, <1>3 DEF mailbox_open, SessionTypes
  <1>5. FileTypes'
    BY <1>1 DEF FileTypes, mailbox_open, files, locks, Inodes
  <1>6. RestTypes'
    BY <1>1, MailboxBounds DEF RestTypes, mailbox_open, locks, history
  <1> QED
    BY <1>4, <1>5, <1>6, TypesAreNext

LEMMA ExecuteType ==
  ASSUME MailTypeOK, NEW s \in Sessions, execute(s)
  PROVE  MailTypeOK'
  <1>1. FileTypes /\ SessionTypes /\ RestTypes
    BY TypesAre
  <1>2. PICK i \in DOMAIN mb[s], op \in {"print", "delete", "undelete", "save", "copy", "hold", "mbox", "touch"} :
          /\ (op = "undelete") <=> (mb[s][i].state = "deleted")
          /\ mb' = [mb EXCEPT ![s][i] = Applied(op, mb[s][i])]
          /\ filed' = IF op \in {"save", "copy"} THEN filed \cup {mb[s][i].id} ELSE filed
          /\ seen' = IF op \in {"delete", "hold"} THEN seen ELSE seen \cup {mb[s][i].id}
    BY DEF execute
  <1>3. mb[s] \in Seq(Message) /\ DOMAIN mb[s] = 1..Len(mb[s]) /\ mb[s][i] \in Message
    BY MessagesAre
  <1>4. Applied(op, mb[s][i]) \in Message
    BY <1>2, <1>3, AppliedIs
  <1>5. [mb[s] EXCEPT ![i] = Applied(op, mb[s][i])] \in Seq(Message)
    BY <1>3, <1>4, ExceptSeq
  <1>6. mb' = [mb EXCEPT ![s] = [mb[s] EXCEPT ![i] = Applied(op, mb[s][i])]]
    BY <1>1, <1>2 DEF SessionTypes
  <1>7. SessionTypes'
    BY <1>1, <1>5, <1>6 DEF SessionTypes, execute
  <1>8. mb[s][i].id \in 1..MaxMail
    BY <1>3 DEF Message
  <1>9. FileTypes'
    BY <1>1, <1>2, <1>8 DEF FileTypes, execute, locks, Inodes
  <1>10. RestTypes'
    BY <1>1, <1>2, <1>8, MailboxBounds DEF RestTypes, execute, locks
  <1> QED
    BY <1>7, <1>9, <1>10, TypesAreNext

LEMMA QuitType ==
  ASSUME MailTypeOK, NEW s \in Sessions, QuitMail(s)
  PROVE  MailTypeOK'
  <1>1. FileTypes /\ SessionTypes /\ RestTypes
    BY TypesAre
  <1>2. SessionTypes'
    <2>1. CASE Over(s)
      BY <1>1, <2>1, OverType
    <2>2. CASE ~Over(s)
      <3>1. \E where \in Places : Goes(s, where)
        BY <2>2 DEF QuitMail, Places
      <3> QED
        BY <1>1, <2>2, <3>1, GoesType DEF QuitMail, SessionTypes
    <2> QED
      BY <2>1, <2>2
  <1>3. FileTypes'
    BY <1>1 DEF FileTypes, QuitMail, files, locks, Inodes
  <1>4. RestTypes'
    BY <1>1 DEF RestTypes, QuitMail, locks, history
  <1> QED
    BY <1>2, <1>3, <1>4, TypesAreNext

LEMMA AddType ==
  ASSUME MailTypeOK, NEW s \in Sessions, add_to_mbox(s)
  PROVE  MailTypeOK'
  <1> DEFINE all == IF opts.append THEN mbox \o Moved(s) ELSE Moved(s) \o mbox
  <1>1. FileTypes /\ SessionTypes /\ RestTypes
    BY TypesAre
  <1>2. Moved(s) \in Seq(Stored) /\ mbox \in Seq(Stored)
    BY <1>1, MovedIs DEF FileTypes
  <1>3. all \in Seq(Stored) /\ Len(mbox) \in 0..Len(all)
    <2>1. /\ mbox \o Moved(s) \in Seq(Stored) /\ Len(mbox \o Moved(s)) = Len(mbox) + Len(Moved(s))
          /\ Moved(s) \o mbox \in Seq(Stored) /\ Len(Moved(s) \o mbox) = Len(Moved(s)) + Len(mbox)
      BY <1>2, ConcatProperties
    <2>2. Len(mbox) \in Nat /\ Len(Moved(s)) \in Nat
      BY <1>2, StoredIs
    <2> QED
      BY <2>1, <2>2
  <1>4. SubSeq(all, 1, Len(mbox)) \in Seq(Stored)
    <2> HIDE DEF all
    <2> QED
      BY <1>3, PartStored
  <1>5. mbox' = all \/ mbox' = SubSeq(all, 1, Len(mbox))
    BY DEF add_to_mbox
  <1>6. mbox' \in Seq(Stored)
    BY <1>3, <1>4, <1>5
  <1>7. SessionTypes'
    <2>1. CASE Over(s)
      BY <1>1, <2>1, OverType
    <2>2. CASE ~Over(s)
      <3>1. Goes(s, "dotlock") /\ UNCHANGED <<mb, size, fd, out>>
        BY <2>2 DEF add_to_mbox
      <3> QED
        BY <1>1, <3>1, GoesType DEF SessionTypes, Places
    <2> QED
      BY <2>1, <2>2
  <1>8. FileTypes'
    BY <1>1, <1>6 DEF FileTypes, add_to_mbox, locks, Inodes
  <1>9. faults' \in 0..MaxFaults /\ risks' \subseteq Risks
    <2>1. Fault \/ faults' = faults
      BY DEF add_to_mbox
    <2>2. risks' \subseteq risks \cup {"mbox full"}
      BY DEF add_to_mbox
    <2> QED
      BY <1>1, <2>1, <2>2, FaultType DEF RestTypes, Risks
  <1>10. RestTypes'
    BY <1>1, <1>9 DEF RestTypes, add_to_mbox, locks
  <1> QED
    BY <1>7, <1>8, <1>10, TypesAreNext

LEMMA DotlockType ==
  ASSUME MailTypeOK, NEW s \in Sessions, dotlock(s)
  PROVE  MailTypeOK'
  <1>1. FileTypes /\ SessionTypes /\ RestTypes
    BY TypesAre
  <1>2. \E where \in Places : Goes(s, where)
    BY DEF dotlock, Places
  <1>3. SessionTypes'
    BY <1>1, <1>2, GoesType DEF dotlock, SessionTypes
  <1>4. FileTypes'
    BY <1>1 DEF FileTypes, dotlock, files, Inodes
  <1>5. dot' \in Sessions \cup {None, Mailer, Dead}
    BY <1>1 DEF dotlock, RestTypes
  <1>6. faults' \in 0..MaxFaults /\ risks' \subseteq Risks
    <2>1. Fault \/ faults' = faults
      BY DEF dotlock
    <2>2. risks' \subseteq risks \cup {"lock removed", "no lock"}
      BY DEF dotlock
    <2> QED
      BY <1>1, <2>1, <2>2, FaultType DEF RestTypes, Risks
  <1>7. RestTypes'
    BY <1>1, <1>5, <1>6 DEF RestTypes, dotlock
  <1> QED
    BY <1>3, <1>4, <1>7, TypesAreNext

LEMMA OpenBoxType ==
  ASSUME MailTypeOK, NEW s \in Sessions, OpenBox(s)
  PROVE  MailTypeOK'
  <1>1. FileTypes /\ SessionTypes /\ RestTypes
    BY TypesAre
  <1>2. PICK f \in 1..Created : Open(f) /\ fd' = [fd EXCEPT ![s] = f]
    BY DEF OpenBox
  <1>3. FileTypes' /\ f \in Inodes' /\ Inodes' = 1..Len(inodes')
    BY <1>2, OpenedType DEF OpenBox, Inodes
  <1>4. f \in Nat
    BY <1>2 DEF Created
  <1>5. mpc' \in [Sessions -> Places]
    BY <1>1, GoesType DEF OpenBox, Places
  <1>6. SessionTypes'
    BY <1>1, <1>2, <1>4, <1>5 DEF OpenBox, SessionTypes
  <1>7. RestTypes'
    BY <1>1 DEF RestTypes, OpenBox, history
  <1> QED
    BY <1>3, <1>6, <1>7, TypesAreNext

LEMMA LockType ==
  ASSUME MailTypeOK, NEW s \in Sessions, lock_fd(s) \/ Close(s)
  PROVE  MailTypeOK'
  <1>1. FileTypes /\ SessionTypes /\ RestTypes
    BY TypesAre
  <1>2. \E where \in Places : Goes(s, where)
    BY DEF lock_fd, Close, Places
  <1>3. SessionTypes'
    BY <1>1, <1>2, GoesType DEF lock_fd, Close, SessionTypes
  <1>4. flk' \in [Inodes -> Sessions \cup {None}]
    BY <1>1 DEF lock_fd, Close, FileTypes
  <1>5. FileTypes'
    BY <1>1, <1>4 DEF FileTypes, lock_fd, Close, files, Inodes
  <1>6. RestTypes'
    BY <1>1 DEF RestTypes, lock_fd, Close, history
  <1> QED
    BY <1>3, <1>5, <1>6, TypesAreNext

LEMMA RewriteType ==
  ASSUME MailTypeOK, LockInv, NEW s \in Sessions, rewrite_file(s)
  PROVE  MailTypeOK'
  <1> DEFINE gone == {mb[s][i].id : i \in {j \in DOMAIN mb[s] : mb[s][j].state = "deleted"}}
  <1>1. FileTypes /\ SessionTypes /\ RestTypes
    BY TypesAre
  <1>2. /\ NewText(s) \in Seq(Stored) /\ WrittenOver(s) \in Seq(Stored)
        /\ fd[s] \in Inodes /\ DOMAIN inodes = 1..Len(inodes) /\ Inodes = 1..Len(inodes)
    BY TextIs, ArrivedIs, InodeIs DEF rewrite_file
  <1>3. SessionTypes'
    <2>1. \E where \in Places : Goes(s, where)
      BY DEF rewrite_file, Places
    <2>2. out' = [out EXCEPT ![s] = NewText(s)]
      BY DEF rewrite_file
    <2> QED
      BY <1>1, <1>2, <2>1, <2>2, GoesType DEF rewrite_file, SessionTypes
  <1>4. inodes' = inodes \/ inodes' = [inodes EXCEPT ![fd[s]] = WrittenOver(s)]
    BY DEF rewrite_file, WrittenOver
  <1>5. inodes' \in Seq(Seq(Stored)) /\ Len(inodes') = Len(inodes)
    <2>1. inodes \in Seq(Seq(Stored)) /\ fd[s] \in 1..Len(inodes)
      BY <1>1, <1>2 DEF FileTypes
    <2>2. /\ [inodes EXCEPT ![fd[s]] = WrittenOver(s)] \in Seq(Seq(Stored))
          /\ Len([inodes EXCEPT ![fd[s]] = WrittenOver(s)]) = Len(inodes)
      BY <1>2, <2>1, ExceptSeq
    <2> QED
      BY <1>4, <2>1, <2>2
  <1>6. path' \in {0, path}
    BY DEF rewrite_file
  <1>7. FileTypes'
    <2>1. path' \in 0..Len(inodes')
      BY <1>1, <1>5, <1>6 DEF FileTypes
    <2>2. Inodes' = Inodes /\ flk' = flk /\ mbox' = mbox /\ filed' = filed
      BY <1>5 DEF rewrite_file, locks, Inodes
    <2> QED
      BY <1>1, <1>5, <2>1, <2>2 DEF FileTypes
  <1>8. gone \subseteq 1..MaxMail
    BY MessagesAre DEF Message
  <1>9. dropped' = dropped \cup gone
    BY DEF rewrite_file
  <1>10. risks' \subseteq Risks
    BY <1>1 DEF rewrite_file, RiskOf, RestTypes, Risks
  <1> HIDE DEF gone
  <1>11. RestTypes'
    BY <1>1, <1>8, <1>9, <1>10 DEF RestTypes, rewrite_file, locks
  <1> QED
    BY <1>3, <1>7, <1>11, TypesAreNext

LEMMA TruncateType ==
  ASSUME MailTypeOK, LockInv, NEW s \in Sessions, Truncate(s)
  PROVE  MailTypeOK'
  <1>1. FileTypes /\ SessionTypes /\ RestTypes
    BY TypesAre
  <1>2. fd[s] \in Inodes /\ Inodes = 1..Len(inodes)
    BY InodeIs DEF LockInv, Truncate, Writing
  <1>3. SessionTypes'
    <2>1. mpc' \in [Sessions -> Places]
      BY <1>1, GoesType DEF Truncate, Places
    <2> QED
      BY <1>1, <2>1 DEF SessionTypes, Truncate
  <1>4. inodes' = [inodes EXCEPT ![fd[s]] = out[s]] /\ out[s] \in Seq(Stored)
    BY <1>1 DEF Truncate, SessionTypes
  <1>5. inodes' \in Seq(Seq(Stored)) /\ Len(inodes') = Len(inodes)
    BY <1>1, <1>2, <1>4, ExceptSeq DEF FileTypes
  <1>6. FileTypes'
    BY <1>1, <1>5 DEF FileTypes, Truncate, locks, Inodes
  <1>7. RestTypes'
    BY <1>1 DEF RestTypes, Truncate, locks, history
  <1> QED
    BY <1>3, <1>6, <1>7, TypesAreNext

LEMMA EndType ==
  ASSUME MailTypeOK, NEW s \in Sessions, dotunlock(s) \/ Kill(s)
  PROVE  MailTypeOK'
  <1>1. FileTypes /\ SessionTypes /\ RestTypes
    BY TypesAre
  <1>2. SessionTypes'
    BY <1>1, OverType DEF dotunlock, Kill
  <1>3. FileTypes'
    BY <1>1 DEF FileTypes, dotunlock, Kill, files, Inodes
  <1>4. dot' \in Sessions \cup {None, Mailer, Dead}
    BY <1>1 DEF RestTypes, dotunlock, Kill
  <1>5. faults' \in 0..MaxFaults
    <2>1. Fault \/ faults' = faults
      BY DEF dotunlock, Kill
    <2> QED
      BY <1>1, <2>1, FaultType DEF RestTypes
  <1>6. RestTypes'
    BY <1>1, <1>4, <1>5 DEF RestTypes, dotunlock, Kill, history
  <1> QED
    BY <1>2, <1>3, <1>6, TypesAreNext

LEMMA DeliverType ==
  ASSUME MailTypeOK, LockInv, Deliver
  PROVE  MailTypeOK'
  <1>1. FileTypes /\ SessionTypes /\ RestTypes
    BY TypesAre
  <1>2. SessionTypes'
    BY <1>1 DEF SessionTypes, Deliver
  <1>3. ASSUME ~(mailer.at = "open"), ~(mailer.at = "lock")
        PROVE  FileTypes' /\ RestTypes'
    <2>1. FileTypes'
      BY <1>1, <1>3 DEF FileTypes, Deliver, Inodes
    <2>2. RestTypes'
      BY <1>1, <1>3 DEF RestTypes, Deliver, At, history
    <2> QED
      BY <2>1, <2>2
  <1>4. ASSUME mailer.at = "open"
        PROVE  FileTypes' /\ RestTypes'
    <2>1. PICK f \in 1..Created : Open(f) /\ mailer' = [at |-> "lock", fd |-> f] /\ UNCHANGED <<dot, mail>>
      BY <1>4 DEF Deliver
    <2>2. FileTypes'
      BY <2>1, OpenedType DEF Deliver
    <2>3. RestTypes'
      BY <1>1, <2>1 DEF RestTypes, Deliver, Created, history
    <2> QED
      BY <2>2, <2>3
  <1>5. ASSUME mailer.at = "lock"
        PROVE  FileTypes' /\ RestTypes'
    <2> DEFINE x == [id |-> mail + 1, status |-> "N"]
    <2>1. /\ inodes' = [inodes EXCEPT ![mailer.fd] = Append(inodes[mailer.fd], x)]
          /\ mail' = mail + 1 /\ At("unlock") /\ UNCHANGED <<path, locks>>
      BY <1>5 DEF Deliver
    <2>2. mailer.fd \in Inodes /\ Inodes = 1..Len(inodes) /\ inodes[mailer.fd] \in Seq(Stored)
      BY <1>5, InodeIs DEF LockInv
    <2>3. mail' \in 0..MaxMail /\ x \in Stored
      <3>1. mail < MaxMail /\ MaxMail \in Nat /\ mail \in Nat
        BY <1>1, <1>5, MailboxBounds DEF LockInv, RestTypes
      <3>2. mail + 1 \in 1..MaxMail
        BY <3>1
      <3> QED
        BY <2>1, <3>1, <3>2 DEF Stored, Statuses
    <2> HIDE DEF x
    <2>4. Append(inodes[mailer.fd], x) \in Seq(Stored)
      BY <2>2, <2>3, AppendProperties
    <2>5. inodes' \in Seq(Seq(Stored)) /\ Len(inodes') = Len(inodes)
      BY <1>1, <2>1, <2>2, <2>4, ExceptSeq DEF FileTypes
    <2>6. FileTypes'
      BY <1>1, <2>1, <2>5 DEF FileTypes, Deliver, locks, Inodes
    <2>7. RestTypes'
      BY <1>1, <2>1, <2>3 DEF RestTypes, Deliver, At, locks, history
    <2> QED
      BY <2>6, <2>7
  <1> QED
    BY <1>2, <1>3, <1>4, <1>5, TypesAreNext

LEMMA MailTypeStep ==
  ASSUME MailTypeOK, LockInv, [MailNext]_mailVars
  PROVE  MailTypeOK'
  <1>1. CASE UNCHANGED mailVars
    BY <1>1 DEF mailVars, MailTypeOK, Inodes
  <1>2. ASSUME NEW s \in Sessions, Session(s)
        PROVE  MailTypeOK'
    BY <1>2, OpenType, ExecuteType, QuitType, AddType, DotlockType, OpenBoxType, LockType, RewriteType,
       TruncateType, EndType DEF Session
  <1> QED
    BY <1>1, <1>2, DeliverType DEF MailNext

-----------------------------------------------------------------------------
(* The fcntl locks.                                                        *)

LEMMA Names ==
  /\ \A s \in Sessions : s \notin {None, Mailer, Dead}
  /\ None # Mailer /\ None # Dead /\ Mailer # Dead
  BY MailboxBounds DEF None, Mailer, Dead

\* Only the session s goes on.
Alone(s) == \A t \in Sessions \ {s} : /\ mpc'[t] = mpc[t] /\ fd'[t] = fd[t] /\ mb'[t] = mb[t]
                                      /\ size'[t] = size[t] /\ out'[t] = out[t]

LEMMA OverAlone ==
  ASSUME MailTypeOK, NEW s \in Sessions, Over(s)
  PROVE  /\ Alone(s) /\ mpc'[s] = "idle" /\ mb'[s] = <<>> /\ out'[s] = <<>> /\ size'[s] = 0
  BY DEF MailTypeOK, Over, Goes, Alone

LEMMA GoesAlone ==
  ASSUME MailTypeOK, NEW s \in Sessions, NEW where, Goes(s, where)
  PROVE  mpc'[s] = where /\ \A t \in Sessions \ {s} : mpc'[t] = mpc[t]
  BY DEF MailTypeOK, Goes

LEMMA IsAlone ==
  ASSUME MailTypeOK, NEW s \in Sessions, Session(s)
  PROVE  Alone(s)
  <1>1. CASE Over(s)
    BY <1>1, OverAlone
  <1>2. CASE ~Over(s)
    <2>1. \E where : Goes(s, where) \/ mpc' = mpc
      BY <1>2 DEF Session, mailbox_open, execute, QuitMail, add_to_mbox, dotlock, OpenBox, lock_fd,
                  rewrite_file, Truncate, Close, dotunlock, Kill
    <2>2. \A t \in Sessions \ {s} : mpc'[t] = mpc[t]
      BY <2>1, GoesAlone
    <2>3. CASE UNCHANGED <<fd, mb, size, out>>
      BY <2>2, <2>3 DEF Alone
    <2>4. CASE mailbox_open(s) \/ execute(s)
      BY <2>2, <2>4 DEF Alone, mailbox_open, execute, MailTypeOK
    <2>5. CASE OpenBox(s) \/ rewrite_file(s)
      BY <2>2, <2>5 DEF Alone, OpenBox, rewrite_file, MailTypeOK
    <2> QED
      BY <1>2, <2>3, <2>4, <2>5 DEF Session, QuitMail, add_to_mbox, dotlock, lock_fd,
                  Truncate, Close, dotunlock, Kill
  <1> QED
    BY <1>1, <1>2

LEMMA SameInodes ==
  ASSUME MailTypeOK, MailTypeOK', DOMAIN inodes' = DOMAIN inodes
  PROVE  Inodes' = Inodes
  <1>1. inodes \in Seq(Seq(Stored)) /\ inodes' \in Seq(Seq(Stored))
    BY DEF MailTypeOK
  <1>2. /\ Len(inodes) \in Nat /\ DOMAIN inodes = 1..Len(inodes)
        /\ Len(inodes') \in Nat /\ DOMAIN inodes' = 1..Len(inodes')
    BY <1>1, LenProperties
  <1> QED
    BY <1>2 DEF Inodes

LEMMA LockFrame ==
  ASSUME LockInv, NEW s \in Sessions, Alone(s), UNCHANGED <<flk, mailer, mail>>, Inodes' = Inodes,
         \/ mpc[s] \notin Writing /\ mpc'[s] \notin Writing \cup {"lock"}
         \/ mpc[s] \in Writing /\ mpc'[s] \in Writing /\ fd'[s] = fd[s]
  PROVE  LockInv'
  <1>1. ASSUME NEW t \in Sessions
        PROVE  /\ \A f \in Inodes : flk'[f] = t <=> mpc'[t] \in Writing /\ fd'[t] = f
               /\ mpc'[t] \in Writing \cup {"lock"} => fd'[t] \in Inodes
    <2>1. CASE t = s
      BY <2>1 DEF LockInv
    <2>2. CASE t # s
      BY <2>2 DEF LockInv, Alone
    <2> QED
      BY <2>1, <2>2
  <1> QED
    BY <1>1 DEF LockInv

LEMMA OpenedLock ==
  ASSUME MailTypeOK, LockInv, NEW f, Open(f), mbox' = mbox, filed' = filed,
         NEW T \in SUBSET Sessions,
         \A t \in Sessions \ T : mpc'[t] = mpc[t] /\ fd'[t] = fd[t],
         \A t \in T : mpc[t] \notin Writing /\ mpc'[t] = "lock" /\ fd'[t] = f
  PROVE  /\ \A g \in Inodes' : \A t \in Sessions : flk'[g] = t <=> mpc'[t] \in Writing /\ fd'[t] = g
         /\ \A t \in Sessions : mpc'[t] \in Writing \cup {"lock"} => fd'[t] \in Inodes'
  <1>1. /\ f \in Inodes' /\ Inodes \subseteq Inodes'
        /\ \A g \in Inodes : flk'[g] = flk[g]
        /\ \A g \in Inodes' \ Inodes : flk'[g] = None
    BY OpenedType
  <1>2. ASSUME NEW g \in Inodes', NEW t \in Sessions
        PROVE  flk'[g] = t <=> mpc'[t] \in Writing /\ fd'[t] = g
    <2>1. mpc'[t] \in Writing <=> mpc[t] \in Writing
      BY DEF Writing
    <2>2. mpc[t] \in Writing => fd'[t] = fd[t] /\ fd[t] \in Inodes
      BY DEF LockInv
    <2>3. CASE g \in Inodes
      BY <1>1, <2>1, <2>2, <2>3 DEF LockInv
    <2>4. CASE g \notin Inodes
      BY <1>1, <2>1, <2>2, <2>4, Names
    <2> QED
      BY <2>3, <2>4
  <1>3. ASSUME NEW t \in Sessions, mpc'[t] \in Writing \cup {"lock"}
        PROVE  fd'[t] \in Inodes'
    BY <1>1, <1>3 DEF LockInv
  <1> QED
    BY <1>2, <1>3

LEMMA LockStep ==
  ASSUME MailTypeOK, LockInv, [MailNext]_mailVars
  PROVE  LockInv'
  <1>1. CASE UNCHANGED mailVars
    BY <1>1 DEF mailVars, LockInv, Inodes
  <1>2. ASSUME Deliver
        PROVE  LockInv'
    <2>1. UNCHANGED <<mpc, fd>>
      BY <1>2 DEF Deliver
    <2>2. CASE mailer.at = "open"
      <3>1. PICK f : Open(f) /\ mailer' = [at |-> "lock", fd |-> f] /\ UNCHANGED <<mbox, filed, mail>>
        BY <1>2, <2>2 DEF Deliver
      <3>2. /\ \A g \in Inodes' : \A t \in Sessions : flk'[g] = t <=> mpc'[t] \in Writing /\ fd'[t] = g
            /\ \A t \in Sessions : mpc'[t] \in Writing \cup {"lock"} => fd'[t] \in Inodes'
        BY <2>1, <3>1, OpenedLock, {} \in SUBSET Sessions
      <3>3. f \in Inodes'
        BY <3>1, OpenedType
      <3> QED
        BY <2>2, <3>1, <3>2, <3>3 DEF LockInv
    <2>3. CASE mailer.at = "lock"
      <3>1. UNCHANGED flk /\ mailer' = [mailer EXCEPT !.at = "unlock"] /\ Inodes' = Inodes
        <4>1. inodes' = [inodes EXCEPT ![mailer.fd] = Append(@, [id |-> mail + 1, status |-> "N"])]
          BY <1>2, <2>3 DEF Deliver
        <4>2. MailTypeOK'
          BY <1>2, MailTypeStep DEF MailNext
        <4>3. Inodes' = Inodes
          BY <4>1, <4>2, SameInodes
        <4> QED
          BY <1>2, <2>3, <4>3 DEF Deliver, At, locks
      <3>2. mailer'.at = "unlock"
        BY <3>1 DEF MailTypeOK
      <3> QED
        BY <2>1, <3>1, <3>2 DEF LockInv
    <2>4. CASE mailer.at \notin {"open", "lock"}
      <3>0. mailer \in [at : {"idle", "open", "lock", "unlock"}, fd : Nat]
        BY DEF MailTypeOK
      <3>1. UNCHANGED <<flk, inodes, mail>> /\ mailer'.at # "lock" /\ (mailer'.at = "open" => mail < MaxMail)
        <4>1. CASE mailer.at = "idle"
          BY <1>2, <3>0, <4>1 DEF Deliver, At
        <4>2. CASE mailer.at = "unlock"
          BY <1>2, <3>0, <4>2 DEF Deliver
        <4> QED
          BY <2>4, <3>0, <4>1, <4>2
      <3> QED
        BY <2>1, <2>4, <3>1 DEF LockInv, Inodes
    <2> QED
      BY <2>2, <2>3, <2>4
  <1>3. ASSUME NEW s \in Sessions, Session(s)
        PROVE  LockInv'
    <2>0. Alone(s) /\ DOMAIN mpc = Sessions
      BY <1>3, IsAlone DEF MailTypeOK
    <2>1. UNCHANGED <<mailer, mail>>
      BY <1>3 DEF Session, mailbox_open, execute, QuitMail, add_to_mbox, dotlock, OpenBox, lock_fd,
                  rewrite_file, Truncate, Close, dotunlock, Kill
    <2>2. CASE mailbox_open(s) \/ execute(s) \/ QuitMail(s) \/ add_to_mbox(s) \/ dotlock(s) \/ dotunlock(s)
      <3>1. UNCHANGED <<flk, inodes>>
        BY <2>2 DEF mailbox_open, execute, QuitMail, add_to_mbox, dotlock, dotunlock, files, locks
      <3>2. mpc[s] \notin Writing
        BY <2>2 DEF mailbox_open, execute, QuitMail, add_to_mbox, dotlock, dotunlock, Writing
      <3>3. mpc'[s] \notin Writing \cup {"lock"}
        BY <2>0, <2>2 DEF mailbox_open, execute, QuitMail, add_to_mbox, dotlock, dotunlock, Writing, Over, Goes
      <3> QED
        BY <2>0, <2>1, <3>1, <3>2, <3>3, LockFrame DEF Inodes
    <2>3. CASE OpenBox(s)
      <3>1. PICK f : Open(f) /\ fd' = [fd EXCEPT ![s] = f]
        BY <2>3 DEF OpenBox
      <3>2. mpc[s] \notin Writing /\ mpc'[s] = "lock" /\ fd'[s] = f
        BY <2>0, <2>3, <3>1 DEF OpenBox, Goes, Writing, MailTypeOK
      <3>3. /\ \A g \in Inodes' : \A t \in Sessions : flk'[g] = t <=> mpc'[t] \in Writing /\ fd'[t] = g
            /\ \A t \in Sessions : mpc'[t] \in Writing \cup {"lock"} => fd'[t] \in Inodes'
        <4>1. {s} \in SUBSET Sessions /\ mbox' = mbox /\ filed' = filed
          BY <2>3 DEF OpenBox
        <4>2. \A t \in Sessions \ {s} : mpc'[t] = mpc[t] /\ fd'[t] = fd[t]
          BY <2>0 DEF Alone
        <4>3. \A t \in {s} : mpc[t] \notin Writing /\ mpc'[t] = "lock" /\ fd'[t] = f
          BY <3>2
        <4> QED
          BY <3>1, <4>1, <4>2, <4>3, OpenedLock
      <3>4. Inodes \subseteq Inodes'
        BY <2>3, <3>1, OpenedType DEF OpenBox
      <3> QED
        BY <2>1, <3>3, <3>4 DEF LockInv
    <2>4. CASE lock_fd(s)
      <3>1. /\ flk[fd[s]] = None /\ flk' = [flk EXCEPT ![fd[s]] = s] /\ Inodes' = Inodes
            /\ mpc[s] = "lock" /\ mpc'[s] = "rewrite" /\ fd' = fd
        BY <2>0, <2>4 DEF lock_fd, Goes, files, Inodes
      <3>2. fd[s] \in Inodes /\ \A f \in Inodes : flk'[f] = IF f = fd[s] THEN s ELSE flk[f]
        <4>1. fd[s] \in Inodes
          BY <3>1 DEF LockInv
        <4>2. DOMAIN flk = Inodes
          BY DEF MailTypeOK
        <4> QED
          BY <3>1, <4>1, <4>2
      <3>3. ASSUME NEW f \in Inodes, NEW t \in Sessions
            PROVE  flk'[f] = t <=> mpc'[t] \in Writing /\ fd'[t] = f
        <4>1. CASE t = s
          BY <3>1, <3>2, <4>1 DEF LockInv, Writing
        <4>2. CASE t # s
          BY <2>0, <3>1, <3>2, <4>2, Names DEF LockInv, Writing, Alone
        <4> QED
          BY <4>1, <4>2
      <3>4. \A t \in Sessions : mpc'[t] \in Writing \cup {"lock"} => fd'[t] \in Inodes
        BY <2>0, <3>1, <3>2 DEF LockInv, Alone
      <3> QED
        BY <2>1, <3>1, <3>3, <3>4 DEF LockInv
    <2>5. CASE rewrite_file(s) \/ Truncate(s)
      <3>1. mpc[s] \in Writing /\ mpc'[s] \in Writing /\ fd'[s] = fd[s] /\ flk' = flk
        BY <2>0, <2>5 DEF rewrite_file, Truncate, Goes, Writing, locks
      <3>2. Inodes' = Inodes
        <4>1. inodes' = inodes \/ \E x : inodes' = [inodes EXCEPT ![fd[s]] = x]
          BY <2>5 DEF rewrite_file, Truncate
        <4>2. DOMAIN inodes' = DOMAIN inodes
          BY <4>1
        <4>3. MailTypeOK'
          BY <1>3, MailTypeStep DEF MailNext
        <4> QED
          BY <4>2, <4>3, SameInodes
      <3> QED
        BY <2>0, <2>1, <3>1, <3>2, LockFrame
    <2>6. CASE Close(s)
      <3>1. /\ flk' = [flk EXCEPT ![fd[s]] = None] /\ Inodes' = Inodes
            /\ mpc[s] = "close" /\ mpc'[s] = "unlock" /\ fd' = fd
        BY <2>0, <2>6 DEF Close, Goes, files, Inodes
      <3>2. fd[s] \in Inodes /\ \A f \in Inodes : flk'[f] = IF f = fd[s] THEN None ELSE flk[f]
        <4>1. fd[s] \in Inodes
          BY <3>1 DEF LockInv, Writing
        <4>2. DOMAIN flk = Inodes
          BY DEF MailTypeOK
        <4> QED
          BY <3>1, <4>1, <4>2
      <3>3. ASSUME NEW f \in Inodes, NEW t \in Sessions
            PROVE  flk'[f] = t <=> mpc'[t] \in Writing /\ fd'[t] = f
        <4>1. CASE t = s
          BY <3>1, <3>2, <4>1, Names DEF LockInv, Writing
        <4>2. CASE t # s
          BY <2>0, <3>1, <3>2, <4>2, Names DEF LockInv, Writing, Alone
        <4> QED
          BY <4>1, <4>2
      <3>4. \A t \in Sessions : mpc'[t] \in Writing \cup {"lock"} => fd'[t] \in Inodes
        BY <2>0, <3>1, <3>2 DEF LockInv, Alone
      <3> QED
        BY <2>1, <3>1, <3>3, <3>4 DEF LockInv
    <2>7. CASE Kill(s)
      <3>1. /\ flk' = [f \in DOMAIN flk |-> IF flk[f] = s THEN None ELSE flk[f]]
            /\ Over(s) /\ Inodes' = Inodes /\ DOMAIN flk = Inodes
        BY <2>7 DEF Kill, files, Inodes, MailTypeOK
      <3>2. mpc'[s] = "idle"
        BY <3>1, OverAlone
      <3>3. ASSUME NEW f \in Inodes, NEW t \in Sessions
            PROVE  flk'[f] = t <=> mpc'[t] \in Writing /\ fd'[t] = f
        <4>1. CASE t = s
          BY <3>1, <3>2, <4>1, Names DEF Writing
        <4>2. CASE t # s
          BY <2>0, <3>1, <4>2, Names DEF LockInv, Alone
        <4> QED
          BY <4>1, <4>2
      <3>4. \A t \in Sessions : mpc'[t] \in Writing \cup {"lock"} => fd'[t] \in Inodes
        BY <2>0, <3>2 DEF LockInv, Alone, Writing
      <3> QED
        BY <2>1, <3>1, <3>3, <3>4 DEF LockInv
    <2> QED
      BY <1>3, <2>2, <2>3, <2>4, <2>5, <2>6, <2>7 DEF Session
  <1> QED
    BY <1>1, <1>2, <1>3 DEF MailNext

-----------------------------------------------------------------------------
(* What the steps of a session do to the files and to its messages.        *)

LEMMA KeptIds ==
  ASSUME MailTypeOK, NEW s \in Sessions
  PROVE  IdsOf(Kept(s)) \subseteq IdsOf(mb[s]) /\ IdsOf(Moved(s)) \subseteq IdsOf(mb[s])
  <1>1. ASSUME NEW k \in DOMAIN Kept(s)
        PROVE  Kept(s)[k].id \in IdsOf(mb[s])
    <2>1. PICK i \in DOMAIN mb[s] : Kept(s)[k] = Written(mb[s][i])
      BY KeptIs
    <2>2. Kept(s)[k].id = mb[s][i].id
      BY <2>1, MessagesAre, WrittenType
    <2> QED
      BY <2>2 DEF IdsOf
  <1>2. ASSUME NEW k \in DOMAIN Moved(s)
        PROVE  Moved(s)[k].id \in IdsOf(mb[s])
    <2>1. PICK i \in DOMAIN mb[s] : Moved(s)[k].id = mb[s][i].id
      BY MovedIs
    <2> QED
      BY <2>1 DEF IdsOf
  <1> QED
    BY <1>1, <1>2 DEF IdsOf

LEMMA FilesAfter ==
  ASSUME MailTypeOK, LockInv, NEW s \in Sessions, Session(s), NEW f \in Inodes'
  PROVE  \/ f \in Inodes /\ inodes'[f] = inodes[f]
         \/ inodes'[f] = <<>>
         \/ rewrite_file(s) /\ mpc[s] = "rewrite" /\ inodes'[f] = WrittenOver(s)
         \/ Truncate(s) /\ inodes'[f] = out[s]
  <1>1. CASE inodes' = inodes
    BY <1>1 DEF Inodes
  <1>2. CASE OpenBox(s)
    <2>1. PICK g : Open(g) /\ mbox' = mbox /\ filed' = filed
      BY <1>2 DEF OpenBox
    <2> QED
      BY <2>1, OpenedType
  <1>3. CASE rewrite_file(s) /\ inodes' # inodes
    <2>1. inodes' = [inodes EXCEPT ![fd[s]] = WrittenOver(s)] /\ mpc[s] = "rewrite"
      BY <1>3 DEF rewrite_file, WrittenOver
    <2>2. MailTypeOK'
      BY <1>3, RewriteType
    <2>3. Inodes' = Inodes /\ Inodes = DOMAIN inodes
      BY <2>1, <2>2, SameInodes, InodeIs
    <2> QED
      BY <1>3, <2>1, <2>3
  <1>4. CASE Truncate(s)
    <2>1. inodes' = [inodes EXCEPT ![fd[s]] = out[s]]
      BY <1>4 DEF Truncate
    <2>2. MailTypeOK'
      BY <1>4, TruncateType
    <2>3. Inodes' = Inodes /\ Inodes = DOMAIN inodes
      BY <2>1, <2>2, SameInodes, InodeIs
    <2> QED
      BY <1>4, <2>1, <2>3
  <1> QED
    BY <1>1, <1>2, <1>3, <1>4 DEF Session, mailbox_open, execute, QuitMail, add_to_mbox, dotlock, lock_fd,
       Close, dotunlock, Kill, files

LEMMA TextAfter ==
  ASSUME MailTypeOK, NEW s \in Sessions, Session(s)
  PROVE  out'[s] \in {out[s], <<>>} \/ (rewrite_file(s) /\ mpc[s] = "rewrite" /\ out'[s] = NewText(s))
  <1>1. CASE Over(s)
    BY <1>1, OverAlone
  <1>2. CASE rewrite_file(s)
    BY <1>2 DEF rewrite_file, MailTypeOK
  <1>3. CASE out' = out
    BY <1>3
  <1> QED
    BY <1>1, <1>2, <1>3 DEF Session, mailbox_open, execute, QuitMail, add_to_mbox, dotlock, OpenBox, lock_fd,
       Truncate, Close, dotunlock, Kill

LEMMA OpenIs ==
  ASSUME MailTypeOK, NEW s \in Sessions, mailbox_open(s)
  PROVE  mb'[s] = parse_messages(Box) /\ size'[s] = LengthOf(Box) /\ mpc[s] = "idle" /\ mpc'[s] = "command"
  BY DEF mailbox_open, MailTypeOK, Goes

LEMMA ExecuteIs ==
  ASSUME MailTypeOK, NEW s \in Sessions, execute(s)
  PROVE  \E i \in DOMAIN mb[s], op \in {"print", "delete", "undelete", "save", "copy", "hold", "mbox", "touch"} :
           /\ op = "undelete" <=> mb[s][i].state = "deleted"
           /\ DOMAIN mb'[s] = DOMAIN mb[s] /\ Len(mb'[s]) = Len(mb[s])
           /\ mb'[s][i] = Applied(op, mb[s][i])
           /\ \A j \in DOMAIN mb[s] \ {i} : mb'[s][j] = mb[s][j]
           /\ filed' = IF op \in {"save", "copy"} THEN filed \cup {mb[s][i].id} ELSE filed
           /\ seen' = IF op \in {"delete", "hold"} THEN seen ELSE seen \cup {mb[s][i].id}
  <1>1. PICK i \in DOMAIN mb[s], op \in {"print", "delete", "undelete", "save", "copy", "hold", "mbox", "touch"} :
          /\ (op = "undelete") <=> (mb[s][i].state = "deleted")
          /\ mb' = [mb EXCEPT ![s][i] = Applied(op, mb[s][i])]
          /\ filed' = IF op \in {"save", "copy"} THEN filed \cup {mb[s][i].id} ELSE filed
          /\ seen' = IF op \in {"delete", "hold"} THEN seen ELSE seen \cup {mb[s][i].id}
    BY DEF execute
  <1>2. mb'[s] = [mb[s] EXCEPT ![i] = Applied(op, mb[s][i])]
    BY <1>1 DEF MailTypeOK
  <1>3. DOMAIN mb'[s] = DOMAIN mb[s]
    BY <1>2
  <1>4. Len(mb'[s]) = Len(mb[s])
    <2> DEFINE n == Len(mb[s])
               m == Len(mb'[s])
    <2>1. MailTypeOK'
      BY ExecuteType
    <2>2. mb'[s] \in Seq(Message) /\ mb[s] \in Seq(Message)
      BY <2>1 DEF MailTypeOK
    <2>3. m \in Nat /\ DOMAIN mb'[s] = 1..m /\ n \in Nat /\ DOMAIN mb[s] = 1..n
      BY <2>2, LenProperties
    <2>4. 1..m = 1..n
      BY <1>3, <2>3
    <2> HIDE DEF n, m
    <2>5. m = n
      BY <2>3, <2>4
    <2> QED
      BY <2>5 DEF n, m
  <1>5. mb'[s][i] = Applied(op, mb[s][i]) /\ \A j \in DOMAIN mb[s] \ {i} : mb'[s][j] = mb[s][j]
    BY <1>2
  <1> QED
    BY <1>1, <1>3, <1>4, <1>5

\* The identities stay.
LEMMA ExecuteIds ==
  ASSUME MailTypeOK, NEW s \in Sessions, execute(s)
  PROVE  /\ DOMAIN mb'[s] = DOMAIN mb[s] /\ Len(mb'[s]) = Len(mb[s])
         /\ \A j \in DOMAIN mb[s] : mb'[s][j].id = mb[s][j].id
  <1>1. PICK i \in DOMAIN mb[s],
             op \in {"print", "delete", "undelete", "save", "copy", "hold", "mbox", "touch"} :
           /\ op = "undelete" <=> mb[s][i].state = "deleted"
           /\ DOMAIN mb'[s] = DOMAIN mb[s] /\ Len(mb'[s]) = Len(mb[s])
           /\ mb'[s][i] = Applied(op, mb[s][i])
           /\ \A j \in DOMAIN mb[s] \ {i} : mb'[s][j] = mb[s][j]
    BY ExecuteIs
  <1>2. mb'[s][i].id = mb[s][i].id
    BY <1>1, MessagesAre, AppliedIs
  <1> QED
    BY <1>1, <1>2

LEMMA MessagesAfter ==
  ASSUME MailTypeOK, NEW s \in Sessions, Session(s)
  PROVE  mb'[s] \in {mb[s], <<>>} \/ mailbox_open(s) \/ execute(s)
  <1>1. CASE Over(s)
    BY <1>1, OverAlone
  <1>2. CASE mb' = mb
    BY <1>2
  <1> QED
    BY <1>1, <1>2 DEF Session, QuitMail, add_to_mbox, dotlock, OpenBox, lock_fd, rewrite_file,
       Truncate, Close, dotunlock, Kill

\* mbox has the messages that are moved as well, before or after its own; when the disk is
\* full, some of them all, and with no risk what it had.
LEMMA MboxAfter ==
  ASSUME MailTypeOK, NEW s \in Sessions, add_to_mbox(s)
  PROVE  /\ IdsOf(mbox') \subseteq IdsOf(mbox) \cup IdsOf(Moved(s))
         /\ \/ /\ mbox' \in {mbox \o Moved(s), Moved(s) \o mbox}
               /\ IdsOf(mbox') = IdsOf(mbox) \cup IdsOf(Moved(s))
               /\ Goes(s, "dotlock")
               /\ UNCHANGED <<mb, size, fd, out, faults, risks>>
            \/ /\ mbox' = mbox \/ "mbox full" \in risks'
               /\ risks \subseteq risks' /\ Fault /\ Over(s)
  <1> DEFINE all == IF opts.append THEN mbox \o Moved(s) ELSE Moved(s) \o mbox
  <1>1. mbox \in Seq(Stored) /\ Moved(s) \in Seq(Stored)
    BY MovedIs DEF MailTypeOK
  <1>2. all \in Seq(Stored) /\ all \in {mbox \o Moved(s), Moved(s) \o mbox} /\ IdsOf(all) = IdsOf(mbox) \cup IdsOf(Moved(s))
    BY <1>1, ConcatStored
  <1>3. Len(mbox) \in 0..Len(all)
    <2>1. Len(mbox \o Moved(s)) = Len(mbox) + Len(Moved(s)) /\ Len(Moved(s) \o mbox) = Len(Moved(s)) + Len(mbox)
      BY <1>1, ConcatProperties
    <2>2. Len(mbox) \in Nat /\ Len(Moved(s)) \in Nat
      BY <1>1, StoredIs
    <2> QED
      BY <2>1, <2>2
  <1>4. \/ /\ mbox' = all /\ Goes(s, "dotlock")
           /\ UNCHANGED <<mb, size, fd, out, faults, risks>>
        \/ /\ Fault /\ Over(s) /\ mbox' = SubSeq(all, 1, Len(mbox))
           /\ risks' = IF mbox' # mbox THEN risks \cup {"mbox full"} ELSE risks
    BY DEF add_to_mbox
  <1> HIDE DEF all
  <1>5. IdsOf(SubSeq(all, 1, Len(mbox))) \subseteq IdsOf(all)
    BY <1>2, <1>3, PartStored
  <1> QED
    BY <1>2, <1>4, <1>5

LEMMA MboxSame ==
  ASSUME NEW s \in Sessions, Session(s)
  PROVE  mbox' = mbox \/ add_to_mbox(s)
  BY DEF Session, mailbox_open, execute, QuitMail, dotlock, OpenBox, lock_fd, rewrite_file,
       Truncate, Close, dotunlock, Kill, files

-----------------------------------------------------------------------------
(* Everything is about messages that were delivered.                       *)

LEMMA IdTextIs ==
  ASSUME MailTypeOK, LockInv, IdInv, NEW s \in Sessions, mpc[s] = "rewrite"
  PROVE  IdsOf(NewText(s)) \subseteq 1..mail /\ IdsOf(WrittenOver(s)) \subseteq 1..mail
  <1>1. fd[s] \in Inodes /\ From(Arrived(s), inodes[fd[s]])
    BY ArrivedIs
  <1>2. IdsOf(inodes[fd[s]]) \subseteq 1..mail /\ IdsOf(mb[s]) \subseteq 1..mail
    BY <1>1 DEF IdInv
  <1>3. IdsOf(Arrived(s)) \subseteq 1..mail /\ IdsOf(Kept(s)) \subseteq 1..mail
    BY <1>1, <1>2, FromIds, KeptIds
  <1>4. IdsOf(NewText(s)) \subseteq 1..mail
    BY <1>3, TextIs
  <1> QED
    BY <1>2, <1>4, TextIs

LEMMA IdMessages ==
  ASSUME MailTypeOK, LockInv, IdInv, NEW s \in Sessions, Session(s)
  PROVE  IdsOf(mb'[s]) \subseteq 1..mail
  <1>1. CASE mb'[s] \in {mb[s], <<>>}
    BY <1>1, EmptyStored DEF IdInv
  <1>2. CASE mailbox_open(s)
    <2>1. Box \in Seq(Stored) /\ IdsOf(Box) \subseteq 1..mail
      BY InodeIs, EmptyStored DEF IdInv
    <2>2. IdsOf(parse_messages(Box)) \subseteq 1..mail
      BY <2>1, ParsedIs DEF IdsOf
    <2> QED
      BY <1>2, <2>2, OpenIs
  <1>3. CASE execute(s)
    <2>1. DOMAIN mb'[s] = DOMAIN mb[s] /\ \A j \in DOMAIN mb[s] : mb'[s][j].id = mb[s][j].id
      BY <1>3, ExecuteIds
    <2>2. IdsOf(mb'[s]) = IdsOf(mb[s])
      BY <2>1 DEF IdsOf
    <2> QED
      BY <2>2 DEF IdInv
  <1> QED
    BY <1>1, <1>2, <1>3, MessagesAfter

LEMMA IdStep ==
  ASSUME MailTypeOK, LockInv, IdInv, [MailNext]_mailVars
  PROVE  IdInv'
  <1>0. MailTypeOK' /\ mail \in Nat
    <2>1. mail \in 0..MaxMail
      BY DEF MailTypeOK
    <2> QED
      BY <2>1, MailTypeStep
  <1>1. CASE UNCHANGED mailVars
    BY <1>1 DEF mailVars, IdInv, Inodes
  <1>2. ASSUME Deliver
        PROVE  IdInv'
    <2>1. UNCHANGED <<mbox, mb, out, dropped>>
      BY <1>2 DEF Deliver, history
    <2>2. CASE mailer.at = "open"
      <3>1. PICK f : Open(f) /\ UNCHANGED <<mbox, filed, mail>>
        BY <1>2, <2>2 DEF Deliver
      <3>2. \A g \in Inodes' : IF g \in Inodes THEN inodes'[g] = inodes[g] ELSE inodes'[g] = <<>>
        BY <3>1, OpenedType
      <3> QED
        BY <2>1, <3>1, <3>2, EmptyStored DEF IdInv
    <2>3. CASE mailer.at = "lock"
      <3> DEFINE x == [id |-> mail + 1, status |-> "N"]
      <3>1. inodes' = [inodes EXCEPT ![mailer.fd] = Append(inodes[mailer.fd], x)] /\ mail' = mail + 1
        BY <1>2, <2>3 DEF Deliver
      <3>2. Inodes' = Inodes /\ Inodes = DOMAIN inodes
        BY <1>0, <3>1, SameInodes, InodeIs
      <3>3. 1..mail \subseteq 1..mail' /\ mail + 1 \in 1..mail'
        BY <1>0, <3>1
      <3>4. ASSUME NEW f \in Inodes
            PROVE  IdsOf(inodes'[f]) \subseteq 1..mail'
        <4>1. CASE f = mailer.fd
          <5>1. inodes[f] \in Seq(Stored) /\ x.id = mail + 1
            BY InodeIs
          <5> HIDE DEF x
          <5>2. inodes'[f] = Append(inodes[f], x)
            BY <3>1, <3>2, <4>1
          <5>3. IdsOf(inodes'[f]) = IdsOf(inodes[f]) \cup {mail + 1}
            BY <5>1, <5>2, AppendedIs
          <5>4. IdsOf(inodes[f]) \subseteq 1..mail
            BY DEF IdInv
          <5> QED
            BY <3>3, <5>3, <5>4
        <4>2. CASE f # mailer.fd
          BY <3>1, <3>2, <3>3, <4>2 DEF IdInv
        <4> QED
          BY <4>1, <4>2
      <3> QED
        BY <2>1, <3>2, <3>3, <3>4 DEF IdInv
    <2>4. CASE mailer.at \notin {"open", "lock"}
      <3>1. UNCHANGED <<inodes, mail>>
        BY <1>2, <2>4 DEF Deliver
      <3> QED
        BY <2>1, <3>1 DEF IdInv, Inodes
    <2> QED
      BY <2>2, <2>3, <2>4
  <1>3. ASSUME NEW s \in Sessions, Session(s)
        PROVE  IdInv'
    <2>1. Alone(s)
      BY <1>3, IsAlone
    <2>2. UNCHANGED mail
      BY <1>3 DEF Session, mailbox_open, execute, QuitMail, add_to_mbox, dotlock, OpenBox, lock_fd,
                  rewrite_file, Truncate, Close, dotunlock, Kill
    <2>3. ASSUME NEW f \in Inodes'
          PROVE  IdsOf(inodes'[f]) \subseteq 1..mail
      BY <1>3, FilesAfter, IdTextIs, EmptyStored DEF IdInv
    <2>4. IdsOf(mbox') \subseteq 1..mail
      <3>1. CASE mbox' = mbox
        BY <3>1 DEF IdInv
      <3>2. CASE add_to_mbox(s)
        BY <3>2, MboxAfter, KeptIds DEF IdInv
      <3> QED
        BY <1>3, <3>1, <3>2, MboxSame
    <2>5. dropped' \subseteq 1..mail
      <3>1. CASE rewrite_file(s)
        <4>1. dropped' \subseteq dropped \cup IdsOf(mb[s])
          BY <3>1 DEF rewrite_file, IdsOf
        <4> QED
          BY <4>1 DEF IdInv
      <3>2. CASE dropped' = dropped
        BY <3>2 DEF IdInv
      <3> QED
        BY <1>3, <3>1, <3>2 DEF Session, mailbox_open, execute, QuitMail, add_to_mbox, dotlock, OpenBox, lock_fd,
                  Truncate, Close, dotunlock, Kill, history
    <2>6. IdsOf(out'[s]) \subseteq 1..mail
      BY <1>3, TextAfter, IdTextIs, EmptyStored DEF IdInv
    <2>7. IdsOf(mb'[s]) \subseteq 1..mail
      BY <1>3, IdMessages
    <2>8. \A t \in Sessions : IdsOf(mb'[t]) \cup IdsOf(out'[t]) \subseteq 1..mail
      BY <2>1, <2>6, <2>7 DEF Alone, IdInv
    <2> QED
      BY <2>2, <2>3, <2>4, <2>5, <2>8 DEF IdInv
  <1> QED
    BY <1>1, <1>2, <1>3 DEF MailNext

-----------------------------------------------------------------------------
(* What the user has seen.                                                 *)

\* What is kept with the status of a message that is read is seen, and what is moved.
LEMMA KeptSeen ==
  ASSUME MailTypeOK, SeenInv, NEW s \in Sessions
  PROVE  ReadOnly(Kept(s)) /\ IdsOf(Moved(s)) \subseteq seen
  <1>1. ASSUME NEW i \in DOMAIN mb[s], Unseen(mb[s][i])
        PROVE  ~Moves(mb[s][i]) /\ (Keeps(mb[s][i]) => status_value(mb[s][i]) = "O")
    <2> DEFINE m == mb[s][i]
    <2>1. m.to_mbox = FALSE /\ m.touched = FALSE
      BY <1>1, MessagesAre DEF Unseen, Message
    <2>2. CASE m.state = "deleted"
      BY <2>2 DEF Moves, Keeps, Drops
    <2>3. CASE m.state \in Fresh
      BY <2>1, <2>3 DEF Moves, status_value, Fresh
    <2>4. CASE m.state = "preserved" /\ m.prev \in Fresh
      BY <2>1, <2>4 DEF Moves, status_value, Fresh
    <2> QED
      BY <1>1, <2>2, <2>3, <2>4 DEF Unseen
  <1>2. ASSUME NEW k \in DOMAIN Kept(s), Kept(s)[k].status = "RO"
        PROVE  Kept(s)[k].id \in seen
    <2>1. PICK i \in DOMAIN mb[s] : Keeps(mb[s][i]) /\ Kept(s)[k] = Written(mb[s][i])
      BY KeptIs
    <2>2. status_value(mb[s][i]) = "RO" /\ Kept(s)[k].id = mb[s][i].id
      BY <1>2, <2>1, MessagesAre, WrittenType
    <2>3. ~Unseen(mb[s][i])
      BY <1>1, <2>1, <2>2
    <2> QED
      BY <2>2, <2>3 DEF SeenInv
  <1>3. ASSUME NEW k \in DOMAIN Moved(s)
        PROVE  Moved(s)[k].id \in seen
    <2>1. PICK i \in DOMAIN mb[s] : Moves(mb[s][i]) /\ Moved(s)[k].id = mb[s][i].id
      BY MovedIs
    <2> QED
      BY <1>1, <2>1 DEF SeenInv
  <1> QED
    BY <1>2, <1>3 DEF ReadOnly, IdsOf

LEMMA SeenText ==
  ASSUME MailTypeOK, LockInv, SeenInv, NEW s \in Sessions, mpc[s] = "rewrite"
  PROVE  ReadOnly(NewText(s)) /\ ReadOnly(WrittenOver(s))
  <1>1. ReadOnly(inodes[fd[s]])
    BY ArrivedIs DEF SeenInv
  <1> QED
    BY <1>1, KeptSeen, TextIs

LEMMA SeenMessages ==
  ASSUME MailTypeOK, SeenInv, NEW s \in Sessions, Session(s), seen \subseteq seen', filed \subseteq filed'
  PROVE  \A i \in DOMAIN mb'[s] : /\ mb'[s][i].id \in seen' \/ Unseen(mb'[s][i])
                                  /\ "saved" \in {mb'[s][i].state, mb'[s][i].prev} => mb'[s][i].id \in filed'
  <1>1. CASE mb'[s] = mb[s]
    BY <1>1 DEF SeenInv
  <1>2. CASE mb'[s] = <<>>
    BY <1>2
  <1>3. CASE mailbox_open(s)
    <2>1. Box \in Seq(Stored) /\ ReadOnly(Box)
      BY InodeIs, EmptyStored DEF SeenInv, ReadOnly
    <2>2. \A i \in DOMAIN parse_messages(Box) :
            LET x == parse_messages(Box)[i] IN (x.id \in seen \/ Unseen(x)) /\ "saved" \notin {x.state, x.prev}
      BY <2>1, ParsedIs DEF ReadOnly
    <2> QED
      BY <1>3, <2>2, OpenIs
  <1>4. CASE execute(s)
    <2>1. PICK i \in DOMAIN mb[s],
             op \in {"print", "delete", "undelete", "save", "copy", "hold", "mbox", "touch"} :
           /\ op = "undelete" <=> mb[s][i].state = "deleted"
           /\ DOMAIN mb'[s] = DOMAIN mb[s]
           /\ mb'[s][i] = Applied(op, mb[s][i])
           /\ \A j \in DOMAIN mb[s] \ {i} : mb'[s][j] = mb[s][j]
           /\ filed' = IF op \in {"save", "copy"} THEN filed \cup {mb[s][i].id} ELSE filed
           /\ seen' = IF op \in {"delete", "hold"} THEN seen ELSE seen \cup {mb[s][i].id}
      BY <1>4, ExecuteIs
    <2> DEFINE m == mb[s][i]
               x == Applied(op, m)
    <2>2. m \in Message /\ (m.id \in seen \/ Unseen(m)) /\ ("saved" \in {m.state, m.prev} => m.id \in filed)
      BY MessagesAre DEF SeenInv
    <2>3. /\ x.id = m.id
          /\ op \in {"delete", "hold"} /\ Unseen(m) => Unseen(x)
          /\ "saved" \in {x.state, x.prev} => op = "save" \/ "saved" \in {m.state, m.prev}
      BY <2>1, <2>2, AppliedIs
    <2>4. x.id \in seen' \/ Unseen(x)
      BY <2>1, <2>2, <2>3
    <2>5. "saved" \in {x.state, x.prev} => x.id \in filed'
      BY <2>1, <2>2, <2>3
    <2> HIDE DEF x, m
    <2>6. ASSUME NEW j \in DOMAIN mb[s], j # i
          PROVE  /\ mb'[s][j].id \in seen' \/ Unseen(mb'[s][j])
                 /\ "saved" \in {mb'[s][j].state, mb'[s][j].prev} => mb'[s][j].id \in filed'
      BY <2>1, <2>6 DEF SeenInv
    <2> QED
      BY <2>1, <2>4, <2>5, <2>6 DEF x, m
  <1> QED
    BY <1>1, <1>2, <1>3, <1>4, MessagesAfter

LEMMA SeenGrows ==
  ASSUME [MailNext]_mailVars
  PROVE  seen \subseteq seen' /\ filed \subseteq filed' /\ dropped \subseteq dropped' /\ risks \subseteq risks'
  <1>1. CASE UNCHANGED mailVars
    BY <1>1 DEF mailVars
  <1>2. CASE Deliver
    BY <1>2 DEF Deliver, history
  <1>3. ASSUME NEW s \in Sessions, Session(s)
        PROVE  seen \subseteq seen' /\ filed \subseteq filed' /\ dropped \subseteq dropped' /\ risks \subseteq risks'
    BY <1>3 DEF Session, mailbox_open, execute, QuitMail, add_to_mbox, dotlock, OpenBox, lock_fd,
                  rewrite_file, Truncate, Close, dotunlock, Kill, history, files
  <1> QED
    BY <1>1, <1>2, <1>3 DEF MailNext

LEMMA SeenStep ==
  ASSUME MailTypeOK, LockInv, SeenInv, [MailNext]_mailVars
  PROVE  SeenInv'
  <1>0. MailTypeOK' /\ seen \subseteq seen' /\ filed \subseteq filed'
    BY MailTypeStep, SeenGrows
  <1>1. CASE UNCHANGED mailVars
    BY <1>1 DEF mailVars, SeenInv, ReadOnly, Inodes
  <1>2. ASSUME Deliver
        PROVE  SeenInv'
    <2>1. UNCHANGED <<mbox, mb, out, seen, filed>>
      BY <1>2 DEF Deliver, history
    <2>2. ASSUME \A f \in Inodes' : \A i \in DOMAIN inodes'[f] : inodes'[f][i].status = "RO" => inodes'[f][i].id \in seen
          PROVE  SeenInv'
      BY <2>1, <2>2 DEF SeenInv, ReadOnly
    <2>3. CASE mailer.at = "open"
      <3>1. PICK f : Open(f) /\ UNCHANGED <<mbox, filed, mail>>
        BY <1>2, <2>3 DEF Deliver
      <3>2. \A g \in Inodes' : IF g \in Inodes THEN inodes'[g] = inodes[g] ELSE inodes'[g] = <<>>
        BY <3>1, OpenedType
      <3> QED
        BY <2>2, <3>2, EmptyStored DEF SeenInv, ReadOnly
    <2>4. CASE mailer.at = "lock"
      <3> DEFINE x == [id |-> mail + 1, status |-> "N"]
                 file == inodes[mailer.fd]
      <3>1. inodes' = [inodes EXCEPT ![mailer.fd] = Append(file, x)]
        BY <1>2, <2>4 DEF Deliver
      <3>2. Inodes' = Inodes /\ Inodes = DOMAIN inodes /\ mailer.fd \in Inodes
        BY <1>0, <2>4, <3>1, SameInodes, InodeIs DEF LockInv
      <3>3. file \in Seq(Stored) /\ x.status # "RO"
        BY <3>2, InodeIs
      <3> HIDE DEF x
      <3>4. \A i \in DOMAIN Append(file, x) : Append(file, x)[i] = x \/ (i \in DOMAIN file /\ Append(file, x)[i] = file[i])
        BY <3>3, AppendedIs
      <3>5. ASSUME NEW f \in Inodes', NEW i \in DOMAIN inodes'[f], inodes'[f][i].status = "RO"
            PROVE  inodes'[f][i].id \in seen
        <4>1. CASE f = mailer.fd
          <5>1. inodes'[f] = Append(file, x)
            BY <3>1, <3>2, <4>1
          <5>2. i \in DOMAIN file /\ inodes'[f][i] = file[i]
            BY <3>3, <3>4, <3>5, <5>1
          <5> QED
            BY <3>2, <3>5, <5>2 DEF SeenInv, ReadOnly
        <4>2. CASE f # mailer.fd
          BY <3>1, <3>2, <3>5, <4>2 DEF SeenInv, ReadOnly
        <4> QED
          BY <4>1, <4>2
      <3> QED
        BY <2>2, <3>5
    <2>5. CASE mailer.at \notin {"open", "lock"}
      <3>1. UNCHANGED inodes
        BY <1>2, <2>5 DEF Deliver
      <3> QED
        BY <2>2, <3>1 DEF SeenInv, ReadOnly, Inodes
    <2> QED
      BY <2>3, <2>4, <2>5
  <1>3. ASSUME NEW s \in Sessions, Session(s)
        PROVE  SeenInv'
    <2>1. Alone(s)
      BY <1>3, IsAlone
    <2>2. ASSUME NEW f \in Inodes'
          PROVE  ReadOnly(inodes[f])'
      <3>1. CASE f \in Inodes /\ inodes'[f] = inodes[f]
        BY <1>0, <3>1 DEF SeenInv, ReadOnly
      <3>2. CASE inodes'[f] = <<>>
        BY <3>2 DEF ReadOnly
      <3>3. CASE mpc[s] = "rewrite" /\ inodes'[f] = WrittenOver(s)
        BY <1>0, <3>3, SeenText DEF ReadOnly
      <3>4. CASE inodes'[f] = out[s]
        BY <1>0, <3>4 DEF SeenInv, ReadOnly
      <3> QED
        BY <1>3, <3>1, <3>2, <3>3, <3>4, FilesAfter
    <2>3. IdsOf(mbox') \subseteq seen'
      <3>1. CASE mbox' = mbox
        BY <1>0, <3>1 DEF SeenInv
      <3>2. CASE add_to_mbox(s)
        BY <1>0, <3>2, MboxAfter, KeptSeen DEF SeenInv
      <3> QED
        BY <1>3, <3>1, <3>2, MboxSame
    <2>4. ReadOnly(out[s])'
      <3>1. CASE out'[s] = out[s]
        BY <1>0, <3>1 DEF SeenInv, ReadOnly
      <3>2. CASE out'[s] = <<>>
        BY <3>2 DEF ReadOnly
      <3>3. CASE mpc[s] = "rewrite" /\ out'[s] = NewText(s)
        BY <1>0, <3>3, SeenText DEF ReadOnly
      <3> QED
        BY <1>3, <3>1, <3>2, <3>3, TextAfter
    <2>5. \A i \in DOMAIN mb'[s] : /\ mb'[s][i].id \in seen' \/ Unseen(mb'[s][i])
                                   /\ "saved" \in {mb'[s][i].state, mb'[s][i].prev} => mb'[s][i].id \in filed'
      BY <1>0, <1>3, SeenMessages
    <2>6. ASSUME NEW t \in Sessions
          PROVE  /\ ReadOnly(out[t])'
                 /\ \A i \in DOMAIN mb'[t] :
                      /\ mb'[t][i].id \in seen' \/ Unseen(mb'[t][i])
                      /\ "saved" \in {mb'[t][i].state, mb'[t][i].prev} => mb'[t][i].id \in filed'
      <3>1. CASE t = s
        BY <2>4, <2>5, <3>1
      <3>2. CASE t # s
        <4>1. out'[t] = out[t] /\ mb'[t] = mb[t]
          BY <2>1, <3>2 DEF Alone
        <4> QED
          BY <1>0, <4>1 DEF SeenInv, ReadOnly
      <3> QED
        BY <3>1, <3>2
    <2> QED
      BY <2>2, <2>3, <2>6 DEF SeenInv, Unseen
  <1> QED
    BY <1>1, <1>2, <1>3 DEF MailNext

-----------------------------------------------------------------------------
(* While no risk is taken, the locks exclude.                              *)

\* A mailbox that is being written over is left alone: a session that comes waits for the
\* fcntl lock, the mailer for the .lock file.
LEMMA LockedNoDeliver ==
  ASSUME OwnInv, NEW t \in Sessions, mpc[t] \in Locked
  PROVE  mailer.at = "idle" /\ ~Deliver
  <1>1. dot = t /\ t \notin {None, Mailer, Dead}
    BY Names DEF OwnInv, OwnOf
  <1>2. mailer.at = "idle"
    BY <1>1 DEF OwnInv
  <1> QED
    BY <1>1, <1>2 DEF Deliver

LEMMA TruncateAlone ==
  ASSUME MailTypeOK, LockInv, OwnInv, NEW t \in Sessions, mpc[t] = "truncate",
         NEW s \in Sessions, s # t
  PROVE  ~Session(s)
  <1>1. mpc[s] = "idle" /\ fd[t] = path
    BY DEF OwnInv, OwnOf
  <1>2. flk[path] = t
    BY <1>1 DEF LockInv, Writing
  <1>3. ~mailbox_open(s)
    BY <1>2, Names DEF mailbox_open
  <1> QED
    BY <1>1, <1>3 DEF Session, execute, QuitMail, add_to_mbox, dotlock, OpenBox, lock_fd,
       rewrite_file, Truncate, Close, dotunlock, Kill

LEMMA RewriteRisks ==
  ASSUME NEW s \in Sessions, rewrite_file(s), risks' = {}
  PROVE  (\A t \in Sessions \ {s} : mpc[t] = "idle") /\ (opts.same => Moved(s) = <<>>)
  <1>1. RiskOf(s) = {}
    BY DEF rewrite_file
  <1>2. \A t \in Sessions \ {s} : mpc[t] = "idle"
    BY <1>1 DEF RiskOf
  <1>3. opts.same => Moved(s) = <<>>
    BY <1>1 DEF RiskOf
  <1> QED
    BY <1>2, <1>3

\* The mailbox stays what it is, unless a session writes it; and its name.
LEMMA BoxAfter ==
  ASSUME MailTypeOK, NEW s \in Sessions, Session(s), ~rewrite_file(s), ~Truncate(s)
  PROVE  Box' = Box /\ (path # 0 => path' = path /\ inodes' = inodes)
  <1>1. CASE OpenBox(s)
    <2>1. PICK f : Open(f) /\ mbox' = mbox /\ filed' = filed
      BY <1>1 DEF OpenBox
    <2>2. Box' = Box
      BY <2>1, OpenedType
    <2>3. path # 0 => path' = path /\ inodes' = inodes
      BY <2>1 DEF Open
    <2> QED
      BY <2>2, <2>3
  <1>2. CASE UNCHANGED <<path, inodes>>
    BY <1>2 DEF Box
  <1> QED
    BY <1>1, <1>2 DEF Session, mailbox_open, execute, QuitMail, add_to_mbox, dotlock, lock_fd,
       Close, dotunlock, Kill, files

LEMMA MboxGrows ==
  ASSUME MailTypeOK, NEW s \in Sessions, Session(s), risks' = {}
  PROVE  IdsOf(mbox) \subseteq IdsOf(mbox')
  <1>1. CASE add_to_mbox(s)
    BY <1>1, MboxAfter
  <1> QED
    BY <1>1, MboxSame

LEMMA DotAfter ==
  ASSUME NEW s \in Sessions, Session(s), risks' = {}
  PROVE  \/ dot' = dot
         \/ dot = None /\ dot' = s
         \/ dot \in {None, Dead} /\ dot' = None
         \/ dot = s
  BY DEF Session, mailbox_open, execute, QuitMail, add_to_mbox, dotlock, OpenBox, lock_fd,
         rewrite_file, Truncate, Close, dotunlock, Kill, locks

\* What the mailbox is when it is read.
LEMMA ReadsFrame ==
  ASSUME MailTypeOK, NEW t \in Sessions, Reads(t), path' = path, Box' = Box, size'[t] = size[t],
         DOMAIN mb'[t] = DOMAIN mb[t], Len(mb'[t]) = Len(mb[t]), \A i \in DOMAIN mb[t] : mb'[t][i].id = mb[t][i].id
  PROVE  Reads(t)'
  BY DEF Reads

\* What the session s does leaves the others' as it is.
LEMMA OwnOthers ==
  ASSUME MailTypeOK, LockInv, OwnInv, risks' = {}, NEW s \in Sessions, Session(s), NEW t \in Sessions, t # s
  PROVE  OwnOf(t)'
  <1>0. mpc'[t] = mpc[t] /\ fd'[t] = fd[t] /\ mb'[t] = mb[t] /\ size'[t] = size[t] /\ out'[t] = out[t]
    BY IsAlone DEF Alone
  <1>1. OwnOf(t)
    BY DEF OwnInv
  <1>2. mpc[t] # "truncate"
    BY TruncateAlone
  <1>3. mpc[t] \in Locked => dot' = t
    BY <1>1, DotAfter, Names DEF OwnOf
  <1>4. mpc[t] # "idle" => ~rewrite_file(s) /\ ~Truncate(s)
    <2>1. rewrite_file(s) => mpc[t] = "idle"
      BY RewriteRisks
    <2>2. Truncate(s) => mpc[t] = "idle"
      BY DEF Truncate, OwnInv, OwnOf
    <2> QED
      BY <2>1, <2>2
  <1>5. ASSUME mpc[t] \in {"lock", "rewrite"}
        PROVE  fd[t] = path'
    <2>1. fd[t] = path /\ fd[t] \in Inodes
      BY <1>1, <1>5 DEF OwnOf, LockInv, Writing
    <2>2. path # 0
      BY <2>1, InodeIs
    <2> QED
      BY <1>4, <1>5, <2>1, <2>2, BoxAfter
  <1>6. ASSUME mpc[t] \in Active
        PROVE  Reads(t)'
    <2>1. Reads(t) /\ path # 0 /\ mpc[t] # "idle"
      BY <1>1, <1>6 DEF OwnOf, Reads, Active, Committed
    <2>2. path' = path /\ Box' = Box
      BY <1>4, <2>1, BoxAfter
    <2> QED
      BY <1>0, <2>1, <2>2, ReadsFrame
  <1>7. ASSUME mpc[t] \in Committed, ~opts'.same
        PROVE  \A i \in DOMAIN mb'[t] : Moves(mb[t][i])' => mb'[t][i].id \in IdsOf(mbox')
    <2>1. opts' = opts
      BY DEF Session, mailbox_open, execute, QuitMail, add_to_mbox, dotlock, OpenBox, lock_fd,
         rewrite_file, Truncate, Close, dotunlock, Kill
    <2>2. \A i \in DOMAIN mb[t] : Moves(mb[t][i]) => mb[t][i].id \in IdsOf(mbox)
      BY <1>1, <1>7, <2>1 DEF OwnOf
    <2>3. \A i \in DOMAIN mb'[t] : Moves(mb[t][i])' => Moves(mb[t][i])
      BY <1>0, <2>1 DEF Moves
    <2> QED
      BY <1>0, <2>2, <2>3, MboxGrows
  <1> QED
    BY <1>0, <1>2, <1>3, <1>5, <1>6, <1>7 DEF OwnOf

-----------------------------------------------------------------------------
(* What is written back is all there is.                                   *)

\* A session that knows the first messages of the mailbox takes all that follow for new mail.
LEMMA ArrivedRest ==
  ASSUME MailTypeOK, LockInv, OwnInv, NEW s \in Sessions, mpc[s] = "rewrite"
  PROVE  /\ Reads(s) /\ fd[s] = path /\ path \in Inodes /\ inodes[path] = Box
         /\ Len(mb[s]) \in 0..Len(Box)
         /\ Arrived(s) = SubSeq(Box, Len(mb[s]) + 1, Len(Box))
  <1> DEFINE n == Len(mb[s])
             m == Len(Box)
  <1>1. Reads(s) /\ fd[s] = path
    BY DEF OwnInv, OwnOf, Active, Committed
  <1>2. path \in Inodes /\ inodes[path] = Box /\ Box \in Seq(Stored)
    BY <1>1, InodeIs DEF Reads
  <1>3. n \in 0..m /\ m \in Nat /\ n \in Nat
    <2>1. n \in Nat /\ m \in Nat /\ n <= m
      BY <1>1, <1>2, MessagesAre, StoredIs DEF Reads
    <2> QED
      BY <2>1
  <1>4. size[s] = LengthOf(SubSeq(Box, 1, n))
    BY <1>1 DEF Reads
  <1>5. LengthOf(Box) = LengthOf(SubSeq(Box, 1, m))
    BY <1>2, SubSeqFull
  <1>6. LengthOf(SubSeq(Box, 1, n)) \in Nat /\ LengthOf(Box) \in Nat
    <2>1. SubSeq(Box, 1, n) \in Seq(Stored)
      BY <1>2, <1>3, PartStored
    <2> QED
      BY <1>2, <2>1, CharsFinite
  <1>7. Arrived(s) = IF LengthOf(Box) > size[s] THEN After(Box, size[s]) ELSE <<>>
    BY <1>1, <1>2 DEF Arrived
  <1> HIDE DEF n, m
  <1>8. Arrived(s) = SubSeq(Box, n + 1, m)
    <2>1. CASE n < m
      <3>1. m \in 0..m
        BY <1>3
      <3>2. size[s] < LengthOf(Box)
        BY <1>2, <1>3, <1>4, <1>5, <2>1, <3>1, LengthGrows DEF m
      <3>3. After(Box, size[s]) = SubSeq(Box, n + 1, m)
        BY <1>2, <1>3, <1>4, AfterPart DEF m
      <3> QED
        BY <1>4, <1>6, <1>7, <3>2, <3>3
    <2>2. CASE n = m
      <3>1. ~(LengthOf(Box) > size[s])
        BY <1>4, <1>5, <1>6, <2>2
      <3>2. SubSeq(Box, n + 1, m) = <<>>
        <4>1. n + 1 \in Int /\ m \in Int /\ m < n + 1
          BY <1>3, <2>2
        <4> QED
          BY <4>1, SubSeqEmpty
      <3> QED
        BY <1>7, <3>1, <3>2
    <2> QED
      BY <1>3, <2>1, <2>2
  <1> QED
    BY <1>1, <1>2, <1>3, <1>8 DEF n, m

\* Each message of the mailbox is one the session has read or one that has arrived.
LEMMA BoxSplit ==
  ASSUME MailTypeOK, LockInv, OwnInv, NEW s \in Sessions, mpc[s] = "rewrite", NEW i \in DOMAIN Box
  PROVE  \/ i \in DOMAIN mb[s] /\ mb[s][i].id = Box[i].id
         \/ i - Len(mb[s]) \in DOMAIN Arrived(s) /\ Arrived(s)[i - Len(mb[s])] = Box[i] /\ i > Len(mb[s])
  <1> DEFINE n == Len(mb[s])
             m == Len(Box)
             a == Arrived(s)
  <1>1. Reads(s) /\ n \in 0..m /\ a = SubSeq(Box, n + 1, m)
    BY ArrivedRest
  <1>2. Box \in Seq(Stored) /\ m \in Nat /\ DOMAIN Box = 1..m /\ DOMAIN mb[s] = 1..n
    BY InodeIs, StoredIs, MessagesAre
  <1>3. CASE i <= n
    <2>1. i \in DOMAIN mb[s]
      BY <1>1, <1>2, <1>3
    <2> QED
      BY <1>1, <2>1 DEF Reads
  <1>5. n \in Nat /\ i \in Nat
    BY <1>1, <1>2
  <1>4. CASE i > n
    <2> HIDE DEF a, n, m
    <2>1. n + 1 \in Nat \ {0} /\ m \in 0..m
      BY <1>1, <1>2
    <2>2. /\ a \in Seq(Stored) /\ Len(a) = IF n + 1 <= m THEN m - (n + 1) + 1 ELSE 0
          /\ \A j \in 1..(m - (n + 1) + 1) : a[j] = Box[n + 1 + j - 1]
      BY <1>1, <1>2, <2>1, Part DEF m
    <2>3. DOMAIN a = 1..Len(a)
      BY <2>2, StoredIs
    <2>4. i - n \in 1..(m - n) /\ m - (n + 1) + 1 = m - n /\ n + 1 <= m /\ n + 1 + (i - n) - 1 = i
      BY <1>1, <1>2, <1>4
    <2>5. i - n \in DOMAIN a
      BY <2>2, <2>3, <2>4
    <2>6. a[i - n] = Box[i]
      BY <2>2, <2>4
    <2> QED
      BY <1>4, <2>5, <2>6 DEF a, n
  <1> HIDE DEF n
  <1>6. i <= n \/ i > n
    BY <1>5
  <1> QED
    BY <1>3, <1>4, <1>6

LEMMA Covered ==
  ASSUME MailTypeOK, LockInv, SeenInv, NoMailLost, OwnInv, risks = {},
         NEW s \in Sessions, rewrite_file(s), risks' = {}
  PROVE  1..mail \subseteq IdsOf(NewText(s)) \cup IdsOf(mbox) \cup filed \cup dropped'
  <1>1. mpc[s] = "rewrite" /\ (\A t \in Sessions \ {s} : mpc[t] = "idle") /\ (opts.same => Moved(s) = <<>>)
    BY RewriteRisks DEF rewrite_file
  <1>2. IdsOf(NewText(s)) = IdsOf(Kept(s)) \cup IdsOf(Arrived(s))
    BY <1>1, TextIs
  <1>3. ASSUME NEW i \in DOMAIN mb[s]
        PROVE  mb[s][i].id \in IdsOf(NewText(s)) \cup IdsOf(mbox) \cup filed \cup dropped'
    <2> DEFINE m == mb[s][i]
    <2>1. CASE Keeps(m)
      BY <1>2, <2>1, KeptIs
    <2>2. CASE Moves(m)
      <3>1. ~opts.same
        <4>1. m.id \in IdsOf(Moved(s))
          BY <2>2, MovedIs
        <4> QED
          BY <1>1, <4>1, EmptyStored
      <3> QED
        BY <1>1, <2>2, <3>1 DEF OwnInv, OwnOf, Committed
    <2>3. CASE m.state = "deleted"
      BY <2>3 DEF rewrite_file
    <2>4. CASE m.state = "saved"
      BY <2>4 DEF SeenInv
    <2> QED
      BY <2>1, <2>2, <2>3, <2>4 DEF Keeps, Drops
  <1>4. ASSUME NEW i \in DOMAIN Box
        PROVE  Box[i].id \in IdsOf(NewText(s)) \cup IdsOf(mbox) \cup filed \cup dropped'
    <2>1. CASE i \in DOMAIN mb[s] /\ mb[s][i].id = Box[i].id
      BY <1>3, <2>1
    <2>2. CASE i - Len(mb[s]) \in DOMAIN Arrived(s) /\ Arrived(s)[i - Len(mb[s])] = Box[i]
      BY <1>2, <2>2 DEF IdsOf
    <2> QED
      BY <1>1, <2>1, <2>2, BoxSplit
  <1>5. IdsOf(Box) \subseteq IdsOf(NewText(s)) \cup IdsOf(mbox) \cup filed \cup dropped'
    BY <1>4 DEF IdsOf
  <1>6. dropped \subseteq dropped'
    BY DEF rewrite_file
  <1> QED
    BY <1>5, <1>6 DEF NoMailLost

\* What a session that writes makes of the mailbox.
LEMMA RewriteIs ==
  ASSUME MailTypeOK, LockInv, OwnInv, NEW s \in Sessions, rewrite_file(s)
  PROVE  /\ mpc[s] = "rewrite" /\ out'[s] = NewText(s) /\ UNCHANGED <<mbox, filed, mail, fd, dot, opts, mb, size>>
         /\ \/ mpc'[s] = "close" /\ path' = 0 /\ NewText(s) = <<>> /\ Box' = <<>>
            \/ mpc'[s] = "truncate" /\ path' = path /\ Box' = WrittenOver(s)
  <1>1. path \in Inodes /\ fd[s] = path
    BY ArrivedRest DEF rewrite_file
  <1>2. mpc[s] = "rewrite" /\ out'[s] = NewText(s) /\ UNCHANGED <<mbox, filed, mail, fd, dot, opts, mb, size>>
    BY DEF rewrite_file, MailTypeOK, locks
  <1>3. CASE NewText(s) = <<>> /\ ~opts.keep
    <2>1. path' = 0 /\ mpc'[s] = "close"
      BY <1>3 DEF rewrite_file, Goes, MailTypeOK
    <2> QED
      BY <1>2, <1>3, <2>1 DEF Box
  <1>4. CASE ~(NewText(s) = <<>> /\ ~opts.keep)
    <2>1. inodes' = [inodes EXCEPT ![path] = WrittenOver(s)] /\ path' = path /\ mpc'[s] = "truncate"
      BY <1>1, <1>4 DEF rewrite_file, Goes, MailTypeOK, WrittenOver
    <2>2. path \in DOMAIN inodes /\ path # 0
      BY <1>1, InodeIs
    <2>3. Box' = WrittenOver(s)
      BY <2>1, <2>2 DEF Box
    <2> QED
      BY <1>2, <2>1, <2>3
  <1> QED
    BY <1>3, <1>4

LEMMA TruncateIs ==
  ASSUME MailTypeOK, LockInv, OwnInv, NEW s \in Sessions, Truncate(s)
  PROVE  /\ mpc[s] = "truncate" /\ mpc'[s] = "close" /\ Box' = out[s]
         /\ UNCHANGED <<path, mbox, filed, mail, fd, dot, opts, mb, size, out, dropped>>
  <1>1. fd[s] = path /\ path \in Inodes
    BY DEF Truncate, OwnInv, OwnOf, LockInv, Writing
  <1>2. path \in DOMAIN inodes /\ path # 0
    BY <1>1, InodeIs
  <1>3. inodes' = [inodes EXCEPT ![path] = out[s]] /\ path' = path
    BY <1>1 DEF Truncate
  <1>4. Box' = out[s]
    BY <1>2, <1>3 DEF Box
  <1> QED
    BY <1>4 DEF Truncate, Goes, MailTypeOK, locks, history

-----------------------------------------------------------------------------
(* No message is lost without a risk.                                      *)

LEMMA OwnSelf ==
  ASSUME MailTypeOK, LockInv, SeenInv, NoMailLost, OwnInv, risks = {}, risks' = {},
         NEW s \in Sessions, Session(s)
  PROVE  OwnOf(s)'
  <1> USE DEF Locked, Active, Committed
  <1>0. OwnOf(s) /\ DOMAIN mpc = Sessions /\ DOMAIN fd = Sessions
    BY DEF OwnInv, MailTypeOK
  <1>1. CASE Over(s)
    <2>1. mpc'[s] = "idle"
      BY <1>1, OverAlone
    <2> QED
      BY <2>1 DEF OwnOf
  <1>2. ASSUME ~rewrite_file(s), ~Truncate(s), path' = path, UNCHANGED <<mb, size>>, Reads(s)
        PROVE  Reads(s)'
    <2>1. Box' = Box
      BY <1>2, BoxAfter
    <2> QED
      BY <1>2, <2>1, ReadsFrame
  <1>3. CASE mailbox_open(s)
    <2>1. mpc'[s] = "command" /\ mb'[s] = parse_messages(Box) /\ size'[s] = LengthOf(Box)
      BY <1>3, OpenIs
    <2>2. path # 0 /\ path' = path /\ Box' = Box
      BY <1>3 DEF mailbox_open, files, Box
    <2>3. Box \in Seq(Stored)
      BY InodeIs
    <2>4. Len(mb'[s]) = Len(Box) /\ \A i \in DOMAIN mb'[s] : mb'[s][i].id = Box[i].id
      BY <2>1, <2>3, ParsedIs
    <2>5. Len(Box) \in Nat /\ SubSeq(Box, 1, Len(Box)) = Box
      BY <2>3, StoredIs, SubSeqFull
    <2>6. Reads(s)'
      <3>1. Len(mb'[s]) <= Len(Box) /\ SubSeq(Box, 1, Len(mb'[s])) = Box
        BY <2>4, <2>5
      <3> QED
        BY <2>1, <2>2, <2>4, <3>1 DEF Reads
    <2> QED
      BY <2>1, <2>6 DEF OwnOf
  <1>4. CASE execute(s)
    <2>1. mpc[s] = "command" /\ mpc' = mpc /\ path' = path /\ Box' = Box /\ size' = size
      BY <1>4 DEF execute, Box
    <2>2. Reads(s)'
      BY <1>0, <1>4, <2>1, ExecuteIds, ReadsFrame DEF OwnOf
    <2> QED
      BY <2>1, <2>2 DEF OwnOf
  <1>5. CASE QuitMail(s) /\ ~Over(s)
    <2>1. /\ mpc[s] = "command" /\ Goes(s, IF Moved(s) = <<>> \/ opts.same THEN "dotlock" ELSE "mbox")
          /\ UNCHANGED <<opts, path, inodes, mb, size>>
      BY <1>5 DEF QuitMail, files
    <2>2. Reads(s)'
      BY <1>0, <2>1, ReadsFrame DEF OwnOf, Box
    <2>3. CASE Moved(s) = <<>> \/ opts.same
      <3>1. mpc'[s] = "dotlock"
        BY <1>0, <2>1, <2>3 DEF Goes
      <3>2. ASSUME ~opts'.same, NEW i \in DOMAIN mb'[s], Moves(mb[s][i])'
            PROVE  FALSE
        <4>1. Moves(mb[s][i]) /\ i \in DOMAIN mb[s] /\ Moved(s) = <<>>
          BY <2>1, <2>3, <3>2 DEF Moves
        <4>2. mb[s][i].id \in IdsOf(Moved(s))
          BY <4>1, MovedIs
        <4> QED
          BY <4>1, <4>2, EmptyStored
      <3> QED
        BY <2>2, <3>1, <3>2 DEF OwnOf
    <2>4. CASE ~(Moved(s) = <<>> \/ opts.same)
      <3>1. mpc'[s] = "mbox"
        BY <1>0, <2>1, <2>4 DEF Goes
      <3> QED
        BY <2>2, <3>1 DEF OwnOf
    <2> QED
      BY <2>3, <2>4
  <1>6. CASE add_to_mbox(s) /\ ~Over(s)
    <2>1. /\ mpc[s] = "mbox" /\ Goes(s, "dotlock") /\ UNCHANGED <<opts, path, inodes, mb, size>>
          /\ IdsOf(mbox') = IdsOf(mbox) \cup IdsOf(Moved(s))
      BY <1>6, MboxAfter DEF add_to_mbox
    <2>2. mpc'[s] = "dotlock"
      BY <1>0, <2>1 DEF Goes
    <2>3. Reads(s)'
      BY <1>0, <2>1, ReadsFrame DEF OwnOf, Box
    <2>4. ASSUME NEW i \in DOMAIN mb'[s], Moves(mb[s][i])'
          PROVE  mb'[s][i].id \in IdsOf(mbox')
      <3>1. Moves(mb[s][i]) /\ i \in DOMAIN mb[s]
        BY <2>1, <2>4 DEF Moves
      <3> QED
        BY <2>1, <3>1, MovedIs
    <2> QED
      BY <2>2, <2>3, <2>4 DEF OwnOf
  <1>7. ASSUME UNCHANGED <<opts, path, mb, size, mbox>>, mpc[s] \in Committed, Reads(s)',
               mpc'[s] \in {"dotlock", "stale", "open", "lock", "rewrite"},
               mpc'[s] \in {"open", "lock", "rewrite"} => dot' = s,
               mpc'[s] \in {"lock", "rewrite"} => fd'[s] = path
        PROVE  OwnOf(s)'
    <2>1. ASSUME ~opts'.same, NEW i \in DOMAIN mb'[s], Moves(mb[s][i])'
          PROVE  mb'[s][i].id \in IdsOf(mbox')
      <3>1. Moves(mb[s][i]) /\ i \in DOMAIN mb[s] /\ ~opts.same
        BY <1>7, <2>1 DEF Moves
      <3> QED
        BY <1>0, <1>7, <3>1 DEF OwnOf
    <2> QED
      BY <1>7, <2>1 DEF OwnOf
  <1>8. CASE dotlock(s)
    <2>1. UNCHANGED <<opts, path, inodes, mb, size, mbox>> /\ mpc[s] \in {"dotlock", "stale"}
      BY <1>8 DEF dotlock, files
    <2>2. mpc'[s] \in {"dotlock", "stale"} \/ (mpc'[s] = "open" /\ dot' = s)
      BY <1>0, <1>8 DEF dotlock, Goes
    <2>3. Reads(s)'
      BY <1>0, <2>1, ReadsFrame DEF OwnOf, Box
    <2> QED
      BY <1>7, <2>1, <2>2, <2>3
  <1>9. CASE OpenBox(s)
    <2>1. PICK f : Open(f) /\ fd' = [fd EXCEPT ![s] = f]
      BY <1>9 DEF OpenBox
    <2>2. /\ mpc[s] = "open" /\ mpc'[s] = "lock" /\ fd'[s] = f
          /\ UNCHANGED <<opts, dot, mb, size, mbox>>
      BY <1>0, <1>9, <2>1 DEF OpenBox, Goes
    <2>3. Reads(s) /\ dot = s
      BY <1>0, <2>2 DEF OwnOf
    <2>4. f = path /\ path' = path
      BY <2>1, <2>3 DEF Open, Reads
    <2>5. Reads(s)'
      BY <1>2, <1>9, <2>2, <2>3, <2>4 DEF OpenBox, rewrite_file, Truncate
    <2> QED
      BY <1>7, <2>2, <2>3, <2>4, <2>5
  <1>10. CASE lock_fd(s)
    <2>1. /\ mpc[s] = "lock" /\ mpc'[s] = "rewrite"
          /\ UNCHANGED <<opts, path, inodes, fd, dot, mb, size, mbox>>
      BY <1>0, <1>10 DEF lock_fd, Goes, files
    <2>2. Reads(s) /\ dot = s /\ fd[s] = path
      BY <1>0, <2>1 DEF OwnOf
    <2>3. Reads(s)'
      BY <2>1, <2>2, ReadsFrame DEF Box
    <2> QED
      BY <1>7, <2>1, <2>2, <2>3
  <1>11. CASE rewrite_file(s)
    <2>1. /\ mpc[s] = "rewrite" /\ out'[s] = NewText(s) /\ UNCHANGED <<mbox, filed, mail, fd, dot>>
          /\ mpc'[s] = "close" \/ (mpc'[s] = "truncate" /\ path' = path)
      BY <1>11, RewriteIs
    <2>2. dot = s /\ fd[s] = path
      BY <1>0, <2>1 DEF OwnOf
    <2>3. \A t \in Sessions \ {s} : mpc'[t] = "idle"
      BY <1>11, RewriteRisks, IsAlone DEF Alone
    <2>4. 1..mail' \subseteq IdsOf(out'[s]) \cup IdsOf(mbox') \cup filed' \cup dropped'
      BY <1>11, <2>1, Covered
    <2> QED
      BY <2>1, <2>2, <2>3, <2>4 DEF OwnOf
  <1>12. CASE Truncate(s)
    <2>1. mpc'[s] = "close" /\ dot' = dot /\ dot = s
      BY <1>0, <1>12, TruncateIs DEF OwnOf
    <2> QED
      BY <2>1 DEF OwnOf
  <1>13. CASE Close(s)
    <2>1. mpc'[s] = "unlock" /\ dot' = dot /\ dot = s
      BY <1>0, <1>13 DEF OwnOf, Close, Goes
    <2> QED
      BY <2>1 DEF OwnOf
  <1>14. dotunlock(s) \/ Kill(s) => Over(s)
    BY DEF dotunlock, Kill
  <1> QED
    BY <1>1, <1>3, <1>4, <1>5, <1>6, <1>8, <1>9, <1>10, <1>11, <1>12, <1>13, <1>14 DEF Session

\* The mailer has what it needs.
LEMMA MailerOwn ==
  ASSUME MailTypeOK, LockInv, OwnInv, risks' = {}, NEW s \in Sessions, Session(s)
  PROVE  /\ mailer'.at # "idle" => dot' = Mailer
         /\ mailer'.at = "lock" => mailer'.fd = path'
  <1>1. mailer' = mailer
    BY DEF Session, mailbox_open, execute, QuitMail, add_to_mbox, dotlock, OpenBox, lock_fd,
         rewrite_file, Truncate, Close, dotunlock, Kill
  <1>2. ASSUME mailer.at # "idle"
        PROVE  dot = Mailer /\ dot' = Mailer
    BY <1>2, DotAfter, Names DEF OwnInv
  <1>3. ASSUME mailer.at = "lock"
        PROVE  mailer.fd = path'
    <2>1. mailer.fd = path /\ path # 0
      BY <1>3, InodeIs DEF OwnInv, LockInv
    <2>2. ~rewrite_file(s) /\ ~Truncate(s)
      <3>1. dot # s
        BY <1>2, <1>3, Names
      <3> QED
        BY <3>1 DEF OwnInv, OwnOf, Locked, rewrite_file, Truncate
    <2> QED
      BY <2>1, <2>2, BoxAfter
  <1> QED
    BY <1>1, <1>2, <1>3

\* Mail is appended to the mailbox, when nobody writes it.
LEMMA AppendIs ==
  ASSUME MailTypeOK, LockInv, OwnInv, Deliver, mailer.at = "lock"
  PROVE  /\ path' = path /\ path \in Inodes /\ Box' = Append(Box, [id |-> mail + 1, status |-> "N"])
         /\ mail' = mail + 1 /\ mail + 1 \in 1..MaxMail /\ mail \in Nat
         /\ dot' = dot /\ mailer'.at = "unlock" /\ [id |-> mail + 1, status |-> "N"] \in Stored
  <1>1. /\ inodes' = [inodes EXCEPT ![mailer.fd] = Append(inodes[mailer.fd], [id |-> mail + 1, status |-> "N"])]
        /\ mail' = mail + 1 /\ path' = path /\ dot' = dot /\ mailer' = [mailer EXCEPT !.at = "unlock"]
    BY DEF Deliver, At, locks
  <1>2. mailer.fd = path /\ path \in Inodes /\ Inodes = DOMAIN inodes /\ path # 0
    BY InodeIs DEF OwnInv, LockInv
  <1>3. Box' = Append(Box, [id |-> mail + 1, status |-> "N"])
    <2> DEFINE x == [id |-> mail + 1, status |-> "N"]
    <2>1. inodes' = [inodes EXCEPT ![path] = Append(inodes[path], x)]
      BY <1>1, <1>2
    <2> HIDE DEF x
    <2>2. Box' = Append(Box, x)
      BY <1>1, <1>2, <2>1 DEF Box
    <2> QED
      BY <2>2 DEF x
  <1>4. mail \in 0..MaxMail /\ MaxMail \in Nat /\ mail < MaxMail
    BY MailboxBounds DEF MailTypeOK, LockInv
  <1>5. mail + 1 \in 1..MaxMail /\ mail \in Nat
    BY <1>4
  <1>6. mailer'.at = "unlock"
    BY <1>1 DEF MailTypeOK
  <1> QED
    BY <1>1, <1>2, <1>3, <1>5, <1>6 DEF Stored, Statuses

LEMMA DeliverOwn ==
  ASSUME MailTypeOK, LockInv, OwnInv, Deliver
  PROVE  OwnInv'
  <1>0. /\ UNCHANGED <<opts, mbox, filed, mpc, mb, size, fd, out, dropped>>
        /\ \A t \in Sessions : mpc[t] \notin Locked
    BY LockedNoDeliver DEF Deliver, history
  <1>1. mailer \in [at : {"idle", "open", "lock", "unlock"}, fd : Nat]
    BY DEF MailTypeOK
  <1>2. ASSUME \A t \in Sessions : mpc[t] \in Active => Reads(t)', NEW t \in Sessions
        PROVE  OwnOf(t)'
    <2>1. OwnOf(t) /\ mpc'[t] = mpc[t] /\ mpc[t] \notin Locked
      BY <1>0 DEF OwnInv
    <2>2. ASSUME mpc[t] \in Committed, ~opts'.same, NEW i \in DOMAIN mb'[t], Moves(mb[t][i])'
          PROVE  mb'[t][i].id \in IdsOf(mbox')
      <3>1. Moves(mb[t][i]) /\ i \in DOMAIN mb[t] /\ ~opts.same
        BY <1>0, <2>2 DEF Moves
      <3> QED
        BY <1>0, <2>1, <2>2, <3>1 DEF OwnOf
    <2> QED
      BY <1>2, <2>1, <2>2 DEF OwnOf, Locked
  <1>3. ASSUME path' = path, Box' = Box
        PROVE  \A t \in Sessions : mpc[t] \in Active => Reads(t)'
    BY <1>0, <1>3, ReadsFrame DEF OwnInv, OwnOf
  <1>4. CASE mailer.at = "idle"
    <2>1. mailer'.at = "open" /\ dot' = Mailer /\ path' = path /\ Box' = Box
      BY <1>1, <1>4 DEF Deliver, At, Box
    <2> QED
      BY <1>2, <1>3, <2>1 DEF OwnInv
  <1>5. CASE mailer.at = "open"
    <2>1. PICK f : Open(f) /\ mailer' = [at |-> "lock", fd |-> f] /\ UNCHANGED <<mbox, filed, dot>>
      BY <1>5 DEF Deliver
    <2>2. path' = f /\ Box' = Box /\ dot = Mailer
      BY <1>5, <2>1, OpenedType DEF OwnInv
    <2>3. ASSUME NEW t \in Sessions, mpc[t] \in Active
          PROVE  Reads(t)'
      <3>1. Reads(t) /\ path # 0
        BY <2>3 DEF OwnInv, OwnOf, Reads
      <3>2. path' = path
        BY <2>1, <3>1 DEF Open
      <3> QED
        BY <1>0, <2>2, <3>1, <3>2, ReadsFrame
    <2> QED
      BY <1>2, <2>1, <2>2, <2>3 DEF OwnInv
  <1>6. CASE mailer.at = "lock"
    <2> DEFINE x == [id |-> mail + 1, status |-> "N"]
    <2>1. /\ path' = path /\ path \in Inodes /\ Box' = Append(Box, x) /\ dot' = dot
          /\ mailer'.at = "unlock" /\ x \in Stored
      BY <1>6, AppendIs
    <2> HIDE DEF x
    <2>2. Box \in Seq(Stored) /\ Len(Box) \in Nat /\ DOMAIN Box = 1..Len(Box)
      BY InodeIs, StoredIs
    <2>3. /\ Box' \in Seq(Stored) /\ Len(Box') = Len(Box) + 1
          /\ \A i \in 1..Len(Box) : Box'[i] = Box[i]
      BY <2>1, <2>2, AppendProperties
    <2>4. ASSUME NEW n \in 0..Len(Box)
          PROVE  SubSeq(Box', 1, n) = SubSeq(Box, 1, n)
      <3>1. n \in 0..Len(Box') /\ 1 \in Nat \ {0}
        BY <2>2, <2>3
      <3>2. /\ SubSeq(Box, 1, n) \in Seq(Stored) /\ Len(SubSeq(Box, 1, n)) = n
            /\ \A i \in 1..n : SubSeq(Box, 1, n)[i] = Box[i]
        BY <2>2, Part
      <3>3. /\ SubSeq(Box', 1, n) \in Seq(Stored) /\ Len(SubSeq(Box', 1, n)) = n
            /\ \A i \in 1..n : SubSeq(Box', 1, n)[i] = Box'[i]
        BY <2>3, <3>1, Part
      <3>4. \A i \in 1..n : Box'[i] = Box[i]
        BY <2>2, <2>3
      <3> QED
        BY <3>2, <3>3, <3>4, SeqEqual
    <2>5. ASSUME NEW t \in Sessions, mpc[t] \in Active
          PROVE  Reads(t)'
      <3> DEFINE n == Len(mb[t])
      <3>1. Reads(t) /\ n \in Nat /\ DOMAIN mb[t] = 1..n
        BY <2>5, MessagesAre DEF OwnInv, OwnOf
      <3>2. n \in 0..Len(Box) /\ n <= Len(Box')
        BY <2>2, <2>3, <3>1 DEF Reads
      <3>3. SubSeq(Box', 1, n) = SubSeq(Box, 1, n)
        BY <2>4, <3>2
      <3>4. \A i \in DOMAIN mb[t] : mb[t][i].id = Box'[i].id
        <4>1. \A i \in 1..n : i \in 1..Len(Box)
          BY <2>2, <3>1, <3>2
        <4> QED
          BY <2>3, <3>1, <4>1 DEF Reads
      <3> QED
        BY <1>0, <2>1, <3>1, <3>2, <3>3, <3>4 DEF Reads
    <2>6. dot = Mailer
      BY <1>6 DEF OwnInv
    <2> QED
      BY <1>2, <2>1, <2>5, <2>6 DEF OwnInv
  <1>7. CASE mailer.at = "unlock"
    <2>1. mailer'.at = "idle" /\ path' = path /\ Box' = Box
      BY <1>7 DEF Deliver, Box
    <2> QED
      BY <1>2, <1>3, <2>1 DEF OwnInv
  <1> QED
    BY <1>1, <1>4, <1>5, <1>6, <1>7

LEMMA OwnStep ==
  ASSUME MailTypeOK, LockInv, SeenInv, NoMailLost, risks = {} => OwnInv, [MailNext]_mailVars, risks' = {}
  PROVE  OwnInv'
  <1>0. risks = {} /\ OwnInv
    BY SeenGrows
  <1>1. CASE UNCHANGED mailVars
    BY <1>0, <1>1 DEF mailVars, OwnInv, OwnOf, Reads, Box, Moves
  <1>2. CASE Deliver
    BY <1>0, <1>2, DeliverOwn
  <1>3. ASSUME NEW s \in Sessions, Session(s)
        PROVE  OwnInv'
    BY <1>0, <1>3, MailerOwn, OwnSelf, OwnOthers DEF OwnInv
  <1> QED
    BY <1>1, <1>2, <1>3 DEF MailNext

LEMMA LostStep ==
  ASSUME MailTypeOK, LockInv, SeenInv, NoMailLost, risks = {} => OwnInv, [MailNext]_mailVars
  PROVE  NoMailLost'
  <1> SUFFICES ASSUME risks' = {}
               PROVE  1..mail' \subseteq IdsOf(Box') \cup IdsOf(mbox') \cup filed' \cup dropped'
    BY DEF NoMailLost
  <1>0. /\ risks = {} /\ OwnInv /\ filed \subseteq filed' /\ dropped \subseteq dropped'
        /\ 1..mail \subseteq IdsOf(Box) \cup IdsOf(mbox) \cup filed \cup dropped
    BY SeenGrows DEF NoMailLost
  <1>1. CASE UNCHANGED mailVars
    BY <1>0, <1>1 DEF mailVars, Box
  <1>2. CASE Deliver
    <2>1. UNCHANGED mbox
      BY <1>2 DEF Deliver
    <2>2. CASE mailer.at = "lock"
      <3> DEFINE x == [id |-> mail + 1, status |-> "N"]
      <3>1. Box' = Append(Box, x) /\ mail' = mail + 1 /\ mail \in Nat /\ x.id = mail + 1
        BY <1>0, <1>2, <2>2, AppendIs
      <3> HIDE DEF x
      <3>2. Box \in Seq(Stored)
        BY InodeIs
      <3>3. IdsOf(Box') = IdsOf(Box) \cup {mail + 1}
        BY <3>1, <3>2, AppendedIs
      <3>4. 1..mail' = 1..mail \cup {mail + 1}
        BY <3>1
      <3> QED
        BY <1>0, <2>1, <3>3, <3>4
    <2>3. CASE mailer.at = "open"
      <3>1. PICK f : Open(f) /\ UNCHANGED <<mbox, filed, mail>>
        BY <1>2, <2>3 DEF Deliver
      <3>2. Box' = Box
        BY <3>1, OpenedType
      <3> QED
        BY <1>0, <3>1, <3>2
    <2>4. CASE mailer.at \notin {"lock", "open"}
      <3>1. UNCHANGED <<path, inodes, mail>>
        BY <1>2, <2>4 DEF Deliver
      <3> QED
        BY <1>0, <2>1, <3>1 DEF Box
    <2> QED
      BY <2>2, <2>3, <2>4
  <1>3. ASSUME NEW s \in Sessions, Session(s)
        PROVE  1..mail' \subseteq IdsOf(Box') \cup IdsOf(mbox') \cup filed' \cup dropped'
    <2>1. mail' = mail /\ IdsOf(mbox) \subseteq IdsOf(mbox')
      BY <1>3, MboxGrows DEF Session, mailbox_open, execute, QuitMail, add_to_mbox, dotlock, OpenBox, lock_fd,
         rewrite_file, Truncate, Close, dotunlock, Kill
    <2>2. CASE rewrite_file(s)
      <3>1. 1..mail \subseteq IdsOf(NewText(s)) \cup IdsOf(mbox) \cup filed \cup dropped'
        BY <1>0, <2>2, Covered
      <3>2. mpc[s] = "rewrite" /\ ((NewText(s) = <<>> /\ Box' = <<>>) \/ Box' = WrittenOver(s))
        BY <1>0, <2>2, RewriteIs
      <3>3. IdsOf(NewText(s)) \subseteq IdsOf(Box')
        BY <3>2, TextIs
      <3> QED
        BY <1>0, <2>1, <3>1, <3>3
    <2>3. CASE Truncate(s)
      <3>1. mpc[s] = "truncate" /\ Box' = out[s]
        BY <1>0, <2>3, TruncateIs
      <3>2. 1..mail \subseteq IdsOf(out[s]) \cup IdsOf(mbox) \cup filed \cup dropped
        BY <1>0, <3>1 DEF OwnInv, OwnOf
      <3> QED
        BY <1>0, <2>1, <3>1, <3>2
    <2>4. CASE ~rewrite_file(s) /\ ~Truncate(s)
      <3>1. Box' = Box
        BY <1>3, <2>4, BoxAfter
      <3> QED
        BY <1>0, <2>1, <3>1
    <2> QED
      BY <2>2, <2>3, <2>4
  <1> QED
    BY <1>1, <1>2, <1>3 DEF MailNext

-----------------------------------------------------------------------------
(* A message is in one place.                                              *)

LEMMA DistinctConcat ==
  ASSUME NEW a \in Seq(Stored), NEW b \in Seq(Stored), Distinct(a), Distinct(b), IdsOf(a) \cap IdsOf(b) = {}
  PROVE  Distinct(a \o b)
  <1> DEFINE p == a \o b
  <1>1. /\ Len(a) \in Nat /\ DOMAIN p \subseteq Nat
        /\ \A i \in DOMAIN p : IF i <= Len(a) THEN i \in DOMAIN a /\ p[i] = a[i]
                              ELSE i - Len(a) \in DOMAIN b /\ p[i] = b[i - Len(a)]
    <2>1. DOMAIN p = 1..(Len(a) + Len(b))
      BY ConcatStored
    <2> QED
      BY <2>1, ConcatStored, StoredIs
  <1> HIDE DEF p
  <1>2. ASSUME NEW i \in DOMAIN p, NEW j \in DOMAIN p, p[i].id = p[j].id
        PROVE  i = j
    <2>1. CASE i <= Len(a) /\ j <= Len(a)
      BY <1>1, <1>2, <2>1 DEF Distinct
    <2>2. CASE ~(i <= Len(a)) /\ ~(j <= Len(a))
      <3>1. i - Len(a) \in DOMAIN b /\ j - Len(a) \in DOMAIN b /\ p[i] = b[i - Len(a)] /\ p[j] = b[j - Len(a)]
        BY <1>1, <2>2
      <3>2. i - Len(a) = j - Len(a)
        BY <1>2, <3>1 DEF Distinct
      <3>3. i \in Nat /\ j \in Nat /\ Len(a) \in Nat
        BY <1>1
      <3> QED
        BY <3>2, <3>3
    <2>3. CASE i <= Len(a) /\ ~(j <= Len(a))
      BY <1>1, <1>2, <2>3 DEF IdsOf
    <2>4. CASE ~(i <= Len(a)) /\ j <= Len(a)
      BY <1>1, <1>2, <2>4 DEF IdsOf
    <2> QED
      BY <2>1, <2>2, <2>3, <2>4
  <1> QED
    BY <1>2 DEF Distinct, p

LEMMA KnownMessages ==
  ASSUME MailTypeOK, NEW s \in Sessions, Reads(s)
  PROVE  /\ DOMAIN mb[s] \subseteq DOMAIN Box /\ IdsOf(mb[s]) \subseteq IdsOf(Box)
         /\ Distinct(Box) => Distinct(mb[s])
  <1>1. /\ DOMAIN mb[s] = 1..Len(mb[s]) /\ DOMAIN Box = 1..Len(Box) /\ Len(mb[s]) \in Nat /\ Len(Box) \in Nat
        /\ Len(mb[s]) <= Len(Box)
    BY MessagesAre, InodeIs, StoredIs DEF Reads
  <1>2. DOMAIN mb[s] \subseteq DOMAIN Box
    BY <1>1
  <1>3. \A i \in DOMAIN mb[s] : mb[s][i].id = Box[i].id
    BY DEF Reads
  <1>4. IdsOf(mb[s]) \subseteq IdsOf(Box)
    BY <1>2, <1>3 DEF IdsOf
  <1>5. Distinct(Box) => Distinct(mb[s])
    BY <1>2, <1>3 DEF Distinct
  <1> QED
    BY <1>2, <1>4, <1>5

\* Each message of the text is one of the mailbox, kept or new.
LEMMA TextFrom ==
  ASSUME MailTypeOK, LockInv, OwnInv, NEW s \in Sessions, mpc[s] = "rewrite", Distinct(Box)
  PROVE  /\ Distinct(NewText(s))
         /\ \A x \in IdsOf(NewText(s)) :
              \E i \in DOMAIN Box : Box[i].id = x /\ (i \in DOMAIN mb[s] => Keeps(mb[s][i]))
  <1> DEFINE n == Len(mb[s])
             m == Len(Box)
             a == Arrived(s)
             k == Kept(s)
  <1>1. /\ Reads(s) /\ n \in 0..m /\ a = SubSeq(Box, n + 1, m)
        /\ Box \in Seq(Stored) /\ m \in Nat /\ DOMAIN Box = 1..m /\ DOMAIN mb[s] = 1..n /\ n \in Nat
    BY ArrivedRest, InodeIs, StoredIs, MessagesAre
  <1>2. k \in Seq(Stored) /\ Distinct(k)
    BY <1>1, KeptIs, KnownMessages
  <1>3. \A x \in IdsOf(k) : \E i \in DOMAIN mb[s] : Keeps(mb[s][i]) /\ mb[s][i].id = x
    <2> SUFFICES ASSUME NEW l \in DOMAIN k
                 PROVE  \E i \in DOMAIN mb[s] : Keeps(mb[s][i]) /\ mb[s][i].id = k[l].id
      BY DEF IdsOf
    <2>1. PICK i \in DOMAIN mb[s] : Keeps(mb[s][i]) /\ k[l] = Written(mb[s][i])
      BY KeptIs
    <2> QED
      BY <2>1, MessagesAre, WrittenType
  <1>4. NewText(s) = k \o a
    BY DEF NewText
  <1> HIDE DEF k, a, n, m
  <1>5. /\ a \in Seq(Stored) /\ \A l \in DOMAIN a : n + 1 + l - 1 \in DOMAIN Box /\ a[l] = Box[n + 1 + l - 1]
    <2>1. n + 1 \in Nat \ {0} /\ m \in 0..m
      BY <1>1
    <2> QED
      BY <1>1, <2>1, PartStored DEF m
  <1>6. \A l \in DOMAIN a : n + l \in DOMAIN Box /\ a[l] = Box[n + l] /\ n + l \notin DOMAIN mb[s] /\ l \in Nat
    <2>1. DOMAIN a = 1..Len(a)
      BY <1>5, StoredIs
    <2>2. \A l \in DOMAIN a : n + 1 + l - 1 = n + l /\ l \in Nat /\ n + l \notin 1..n
      BY <1>1, <2>1
    <2> QED
      BY <1>1, <1>5, <2>2
  <1>7. Distinct(a)
    <2> SUFFICES ASSUME NEW l \in DOMAIN a, NEW j \in DOMAIN a, a[l].id = a[j].id
                 PROVE  l = j
      BY DEF Distinct
    <2>1. n + l = n + j
      BY <1>6 DEF Distinct
    <2> QED
      BY <1>1, <1>6, <2>1
  <1>8. \A x \in IdsOf(a) : \E i \in DOMAIN Box : Box[i].id = x /\ i \notin DOMAIN mb[s]
    BY <1>6 DEF IdsOf
  <1>9. \A x \in IdsOf(k) : \E i \in DOMAIN Box : Box[i].id = x /\ i \in DOMAIN mb[s] /\ Keeps(mb[s][i])
    <2>1. DOMAIN mb[s] \subseteq DOMAIN Box /\ \A i \in DOMAIN mb[s] : mb[s][i].id = Box[i].id
      BY <1>1, KnownMessages DEF Reads
    <2> QED
      BY <1>3, <2>1
  <1>10. IdsOf(k) \cap IdsOf(a) = {}
    BY <1>8, <1>9 DEF Distinct
  <1>11. Distinct(NewText(s)) /\ IdsOf(NewText(s)) = IdsOf(k) \cup IdsOf(a)
    BY <1>2, <1>4, <1>5, <1>7, <1>10, DistinctConcat, ConcatStored
  <1> QED
    BY <1>8, <1>9, <1>11

LEMMA FaultsNat ==
  ASSUME MailTypeOK
  PROVE  faults \in Nat
  <1>1. faults \in 0..MaxFaults
    BY DEF MailTypeOK
  <1> QED
    BY <1>1

\* Nothing fails, and sessions go one by one, in a step only if they did before.
LEMMA CommittedStays ==
  ASSUME MailTypeOK, NEW s \in Sessions, Session(s), mpc[s] \in Committed, faults' = faults, ~rewrite_file(s)
  PROVE  mpc'[s] \in Committed /\ mb' = mb
  <1>1. faults \in Nat /\ DOMAIN mpc = Sessions
    BY FaultsNat DEF MailTypeOK
  <1>2. ~Fault
    BY <1>1 DEF Fault
  <1>3. dotlock(s) \/ OpenBox(s) \/ lock_fd(s)
    BY <1>2 DEF Session, Committed, mailbox_open, execute, QuitMail, add_to_mbox, Truncate, Close, dotunlock, Kill
  <1> QED
    BY <1>1, <1>3 DEF dotlock, OpenBox, lock_fd, Goes, Committed

LEMMA FaultsGrow ==
  ASSUME MailTypeOK, NEW s \in Sessions, Session(s), faults' = 0
  PROVE  faults = 0 /\ ~Fault
  <1>1. faults \in Nat
    BY FaultsNat
  <1>2. ~Fault
    BY <1>1 DEF Fault
  <1> QED
    BY <1>2 DEF Session, mailbox_open, execute, QuitMail, add_to_mbox, dotlock, OpenBox, lock_fd,
         rewrite_file, Truncate, Close, dotunlock, Kill

LEMMA SingleBefore ==
  ASSUME MailTypeOK, NEW s \in Sessions, Session(s), risks' = {}, faults' = 0, Single'
  PROVE  Single
  <1>1. faults' = faults
    BY FaultsGrow
  <1>2. \A t \in Sessions \ {s} : mpc'[t] = mpc[t]
    BY IsAlone DEF Alone
  <1>3. ASSUME NEW t \in Sessions \ {s}, mpc[t] \in Committed, mpc[s] \in Committed
        PROVE  FALSE
    <2>1. CASE rewrite_file(s)
      <3>1. mpc[t] = "idle"
        BY <2>1, RewriteRisks
      <3> QED
        BY <1>3, <3>1 DEF Committed
    <2>2. CASE ~rewrite_file(s)
      <3>1. mpc'[s] \in Committed /\ mpc'[t] \in Committed
        BY <1>1, <1>2, <1>3, <2>2, CommittedStays
      <3> QED
        BY <3>1 DEF Single
    <2> QED
      BY <2>1, <2>2
  <1>4. ASSUME NEW t \in Sessions \ {s}, NEW u \in Sessions \ {s}, mpc[t] \in Committed, mpc[u] \in Committed
        PROVE  t = u
    BY <1>2, <1>4 DEF Single
  <1> QED
    BY <1>3, <1>4 DEF Single

\* A message is being moved by one session: no other message of the mailbox has its number.
LEMMA MovingOne ==
  ASSUME MailTypeOK, LockInv, OwnInv, NEW s \in Sessions, mpc[s] = "rewrite",
         \A t \in Sessions \ {s} : mpc[t] = "idle", Distinct(Box),
         NEW i \in DOMAIN Box, Moving(Box[i].id)
  PROVE  i \in DOMAIN mb[s] /\ Moves(mb[s][i])
  <1>1. PICK t \in Sessions : mpc[t] \in Committed /\ \E j \in DOMAIN mb[t] : Moves(mb[t][j]) /\ mb[t][j].id = Box[i].id
    BY DEF Moving
  <1>2. t = s
    BY <1>1 DEF Committed
  <1>3. PICK j \in DOMAIN mb[s] : Moves(mb[s][j]) /\ mb[s][j].id = Box[i].id
    BY <1>1, <1>2
  <1>4. Reads(s)
    BY ArrivedRest
  <1>5. j \in DOMAIN Box /\ Box[j].id = Box[i].id
    BY <1>3, <1>4, KnownMessages DEF Reads
  <1>6. i = j
    BY <1>5 DEF Distinct
  <1> QED
    BY <1>3, <1>6

LEMMA RewritePlaces ==
  ASSUME MailTypeOK, LockInv, OwnInv, PlaceInv, risks' = {}, NEW s \in Sessions, rewrite_file(s)
  PROVE  PlaceInv'
  <1>1. /\ mpc[s] = "rewrite" /\ out'[s] = NewText(s) /\ mbox' = mbox
        /\ (mpc'[s] = "close" /\ Box' = <<>>) \/ mpc'[s] = "truncate"
    BY RewriteIs
  <1>2. \A t \in Sessions \ {s} : mpc[t] = "idle" /\ mpc'[t] = "idle"
    <2>1. Session(s)
      BY DEF Session
    <2> QED
      BY <2>1, RewriteRisks, IsAlone DEF Alone
  <1>3. Apart(mbox) /\ Apart(Box) /\ \A x \in IdsOf(Box) \cap IdsOf(mbox) : Moving(x)
    BY <1>1, <1>2 DEF PlaceInv
  <1>4. Reads(s) /\ Distinct(Box)
    BY <1>1, <1>3, ArrivedRest DEF Apart
  <1> DEFINE gone == {mb[s][i].id : i \in {j \in DOMAIN mb[s] : mb[s][j].state = "deleted"}}
  <1>5. dropped' = dropped \cup gone
    BY DEF rewrite_file
  <1>6. \A x \in gone : \E i \in DOMAIN mb[s] : i \in DOMAIN Box /\ Box[i].id = x /\ mb[s][i].state = "deleted"
    <2> SUFFICES ASSUME NEW i \in DOMAIN mb[s], mb[s][i].state = "deleted"
                 PROVE  i \in DOMAIN Box /\ Box[i].id = mb[s][i].id
      OBVIOUS
    <2> QED
      BY <1>4, KnownMessages DEF Reads
  <1> HIDE DEF gone
  <1>7. ASSUME NEW x \in gone, x \in IdsOf(mbox)
        PROVE  FALSE
    <2>1. PICK i \in DOMAIN mb[s] : i \in DOMAIN Box /\ Box[i].id = x /\ mb[s][i].state = "deleted"
      BY <1>6
    <2>2. x \in IdsOf(Box)
      BY <2>1 DEF IdsOf
    <2>3. Moving(Box[i].id)
      BY <1>3, <1>7, <2>1, <2>2
    <2>4. Moves(mb[s][i])
      BY <1>1, <1>2, <1>4, <2>1, <2>3, MovingOne
    <2> QED
      BY <2>1, <2>4 DEF Moves
  <1>8. Distinct(NewText(s)) /\ \A x \in IdsOf(NewText(s)) :
              \E i \in DOMAIN Box : Box[i].id = x /\ (i \in DOMAIN mb[s] => Keeps(mb[s][i]))
    BY <1>1, <1>4, TextFrom
  <1>9. ASSUME NEW x \in IdsOf(NewText(s))
        PROVE  x \notin IdsOf(mbox) /\ x \notin dropped /\ x \notin gone
    <2>1. PICK i \in DOMAIN Box : Box[i].id = x /\ (i \in DOMAIN mb[s] => Keeps(mb[s][i]))
      BY <1>8
    <2>2. x \in IdsOf(Box)
      BY <2>1 DEF IdsOf
    <2>3. x \notin dropped
      BY <1>3, <2>2 DEF Apart
    <2>4. ASSUME x \in IdsOf(mbox)
          PROVE  FALSE
      <3>1. Moving(Box[i].id)
        BY <1>3, <2>1, <2>2, <2>4
      <3>2. i \in DOMAIN mb[s] /\ Moves(mb[s][i])
        BY <1>1, <1>2, <1>4, <3>1, MovingOne
      <3> QED
        BY <2>1, <3>2 DEF Keeps
    <2>5. ASSUME x \in gone
          PROVE  FALSE
      <3>1. PICK j \in DOMAIN mb[s] : j \in DOMAIN Box /\ Box[j].id = x /\ mb[s][j].state = "deleted"
        BY <1>6, <2>5
      <3>2. i = j
        BY <1>4, <2>1, <3>1 DEF Distinct
      <3> QED
        BY <2>1, <3>1, <3>2 DEF Keeps, Drops
    <2> QED
      BY <2>3, <2>4, <2>5
  <1>10. Apart(mbox)'
    BY <1>1, <1>3, <1>5, <1>7 DEF Apart
  <1>11. Apart(out[s])' /\ IdsOf(out'[s]) \cap IdsOf(mbox') = {}
    BY <1>1, <1>5, <1>8, <1>9 DEF Apart
  <1>12. ASSUME mpc'[s] # "truncate"
         PROVE  Apart(Box)' /\ IdsOf(Box') = {}
    BY <1>1, <1>12, EmptyStored DEF Apart, Distinct
  <1> QED
    BY <1>2, <1>10, <1>11, <1>12 DEF PlaceInv

LEMMA TruncatePlaces ==
  ASSUME MailTypeOK, LockInv, OwnInv, PlaceInv, NEW s \in Sessions, Truncate(s)
  PROVE  PlaceInv'
  <1>1. mpc[s] = "truncate" /\ mpc'[s] = "close" /\ Box' = out[s] /\ UNCHANGED <<mbox, dropped>>
    BY TruncateIs
  <1>2. \A t \in Sessions \ {s} : mpc'[t] = "idle"
    <2>1. Session(s)
      BY DEF Session
    <2> QED
      BY <1>1, <2>1, IsAlone DEF Alone, OwnInv, OwnOf
  <1>3. Apart(mbox) /\ Apart(out[s]) /\ IdsOf(out[s]) \cap IdsOf(mbox) = {}
    BY <1>1 DEF PlaceInv
  <1>4. Apart(mbox)' /\ Apart(Box)' /\ IdsOf(Box') \cap IdsOf(mbox') = {}
    BY <1>1, <1>3 DEF Apart
  <1>5. \A t \in Sessions : mpc'[t] # "truncate"
    BY <1>1, <1>2
  <1> QED
    BY <1>4, <1>5 DEF PlaceInv

\* While a session does something else, no session is writing over the mailbox.
LEMMA NobodyTruncates ==
  ASSUME MailTypeOK, LockInv, OwnInv, NEW s \in Sessions, Session(s), ~Fault, ~rewrite_file(s), ~Truncate(s)
  PROVE  \A t \in Sessions : mpc[t] # "truncate" /\ mpc'[t] # "truncate"
  <1>1. ASSUME NEW t \in Sessions \ {s}
        PROVE  mpc[t] # "truncate" /\ mpc'[t] # "truncate"
    <2>1. mpc[t] # "truncate"
      BY TruncateAlone
    <2> QED
      BY <2>1, IsAlone DEF Alone
  <1>2. mpc[s] # "truncate"
    BY DEF Session, mailbox_open, execute, QuitMail, add_to_mbox, dotlock, OpenBox, lock_fd,
         rewrite_file, Close, dotunlock, Kill
  <1>3. mpc'[s] # "truncate"
    <2>1. DOMAIN mpc = Sessions
      BY DEF MailTypeOK
    <2> QED
      BY <1>2, <2>1 DEF Session, mailbox_open, execute, QuitMail, add_to_mbox, dotlock, OpenBox, lock_fd,
         rewrite_file, Close, dotunlock, Kill, Over, Goes
  <1> QED
    BY <1>1, <1>2, <1>3

\* What another session moves is still being moved.
LEMMA MovingOther ==
  ASSUME MailTypeOK, NEW s \in Sessions, Session(s), NEW t \in Sessions, t # s, mpc[t] \in Committed,
         NEW i \in DOMAIN mb[t], Moves(mb[t][i])
  PROVE  mpc'[t] \in Committed /\ i \in DOMAIN mb'[t] /\ Moves(mb[t][i])' /\ mb'[t][i].id = mb[t][i].id
  <1>1. mpc'[t] = mpc[t] /\ mb'[t] = mb[t] /\ opts' = opts
    <2>1. opts' = opts
      BY DEF Session, mailbox_open, execute, QuitMail, add_to_mbox, dotlock, OpenBox, lock_fd,
         rewrite_file, Truncate, Close, dotunlock, Kill
    <2> QED
      BY <2>1, IsAlone DEF Alone
  <1> QED
    BY <1>1 DEF Moves

LEMMA AddPlaces ==
  ASSUME MailTypeOK, LockInv, OwnInv, PlaceInv, NEW s \in Sessions, add_to_mbox(s), ~Fault, Single'
  PROVE  PlaceInv'
  <1>0. Session(s) /\ ~rewrite_file(s) /\ ~Truncate(s) /\ mpc[s] = "mbox" /\ dropped' = dropped /\ opts' = opts
    BY DEF Session, add_to_mbox, rewrite_file, Truncate
  <1>1. \A t \in Sessions : mpc[t] # "truncate" /\ mpc'[t] # "truncate"
    BY <1>0, NobodyTruncates
  <1>2. /\ mbox' \in {mbox \o Moved(s), Moved(s) \o mbox} /\ IdsOf(mbox') = IdsOf(mbox) \cup IdsOf(Moved(s))
        /\ mb' = mb /\ mpc'[s] = "dotlock"
    <2>1. /\ mbox' \in {mbox \o Moved(s), Moved(s) \o mbox} /\ IdsOf(mbox') = IdsOf(mbox) \cup IdsOf(Moved(s))
          /\ mb' = mb /\ Goes(s, "dotlock")
      BY MboxAfter
    <2> QED
      BY <2>1, GoesAlone
  <1>3. Box' = Box
    BY <1>0, BoxAfter
  <1>4. Apart(mbox) /\ Apart(Box) /\ \A x \in IdsOf(Box) \cap IdsOf(mbox) : Moving(x)
    BY <1>1 DEF PlaceInv
  <1>5. IdsOf(Moved(s)) \subseteq IdsOf(Box) /\ Distinct(Moved(s))
    <2>1. Reads(s)
      BY <1>0 DEF OwnInv, OwnOf, Active
    <2>2. IdsOf(mb[s]) \subseteq IdsOf(Box) /\ Distinct(mb[s])
      BY <1>4, <2>1, KnownMessages DEF Apart
    <2> QED
      BY <2>2, KeptIds, MovedIs
  <1>6. ASSUME NEW x, Moving(x)
        PROVE  FALSE
    <2>1. PICK t \in Sessions : mpc[t] \in Committed /\ \E i \in DOMAIN mb[t] : Moves(mb[t][i]) /\ mb[t][i].id = x
      BY <1>6 DEF Moving
    <2>2. t # s
      BY <1>0, <2>1 DEF Committed
    <2>3. mpc'[t] \in Committed /\ mpc'[s] \in Committed
      BY <1>0, <1>2, <2>1, <2>2, MovingOther DEF Committed
    <2> QED
      BY <2>2, <2>3 DEF Single
  <1>7. IdsOf(Box) \cap IdsOf(mbox) = {}
    BY <1>4, <1>6
  <1>8. Distinct(mbox')
    <2>1. mbox \in Seq(Stored) /\ Moved(s) \in Seq(Stored) /\ Distinct(mbox)
      BY <1>4, MovedIs DEF MailTypeOK, Apart
    <2>2. IdsOf(mbox) \cap IdsOf(Moved(s)) = {} /\ IdsOf(Moved(s)) \cap IdsOf(mbox) = {}
      BY <1>5, <1>7
    <2>3. Distinct(mbox \o Moved(s)) /\ Distinct(Moved(s) \o mbox)
      BY <1>5, <2>1, <2>2, DistinctConcat
    <2> QED
      BY <1>2, <2>3
  <1>9. Apart(mbox)' /\ Apart(Box)'
    BY <1>0, <1>2, <1>3, <1>4, <1>5, <1>8 DEF Apart
  <1>10. ASSUME NEW x \in IdsOf(Box') \cap IdsOf(mbox')
         PROVE  Moving(x)'
    <2>1. x \in IdsOf(Moved(s))
      BY <1>2, <1>3, <1>7, <1>10
    <2>2. PICK k \in DOMAIN Moved(s) : Moved(s)[k].id = x
      BY <2>1 DEF IdsOf
    <2>3. PICK i \in DOMAIN mb[s] : Moves(mb[s][i]) /\ Moved(s)[k].id = mb[s][i].id
      BY <2>2, MovedIs
    <2>4. i \in DOMAIN mb'[s] /\ Moves(mb[s][i])' /\ mb'[s][i].id = x
      BY <1>0, <1>2, <2>2, <2>3 DEF Moves
    <2> QED
      BY <1>2, <2>4 DEF Moving, Committed
  <1> QED
    BY <1>1, <1>9, <1>10 DEF PlaceInv

LEMMA OtherPlaces ==
  ASSUME MailTypeOK, LockInv, OwnInv, PlaceInv, NEW s \in Sessions, Session(s), ~Fault, faults' = faults,
         ~rewrite_file(s), ~Truncate(s), ~add_to_mbox(s)
  PROVE  PlaceInv'
  <1>1. \A t \in Sessions : mpc[t] # "truncate" /\ mpc'[t] # "truncate"
    BY NobodyTruncates
  <1>2. Box' = Box /\ mbox' = mbox
    BY BoxAfter, MboxSame
  <1>3. dropped' = dropped /\ opts' = opts
    BY DEF Session, mailbox_open, execute, QuitMail, dotlock, OpenBox, lock_fd, Close, dotunlock, Kill, history
  <1>4. Apart(mbox) /\ Apart(Box) /\ \A x \in IdsOf(Box) \cap IdsOf(mbox) : Moving(x)
    BY <1>1 DEF PlaceInv
  <1>5. ASSUME NEW x, Moving(x)
        PROVE  Moving(x)'
    <2>0. PICK t \in Sessions : mpc[t] \in Committed /\ \E i \in DOMAIN mb[t] : Moves(mb[t][i]) /\ mb[t][i].id = x
      BY <1>5 DEF Moving
    <2>1. PICK i \in DOMAIN mb[t] : mpc[t] \in Committed /\ Moves(mb[t][i]) /\ mb[t][i].id = x
      BY <2>0
    <2>2. CASE t = s
      <3>1. mpc'[s] \in Committed /\ mb' = mb
        BY <2>1, <2>2, CommittedStays
      <3>2. i \in DOMAIN mb'[s] /\ Moves(mb[s][i])' /\ mb'[s][i].id = x
        BY <1>3, <2>1, <2>2, <3>1 DEF Moves
      <3> QED
        BY <3>1, <3>2 DEF Moving
    <2>3. CASE t # s
      <3>1. mpc'[t] \in Committed /\ i \in DOMAIN mb'[t] /\ Moves(mb[t][i])' /\ mb'[t][i].id = mb[t][i].id
        BY <2>1, <2>3, MovingOther
      <3> QED
        BY <2>1, <3>1 DEF Moving
    <2> QED
      BY <2>2, <2>3
  <1>6. Apart(mbox)' /\ Apart(Box)'
    BY <1>2, <1>3, <1>4 DEF Apart
  <1>7. \A x \in IdsOf(Box') \cap IdsOf(mbox') : Moving(x)'
    BY <1>2, <1>4, <1>5
  <1> QED
    BY <1>1, <1>6, <1>7 DEF PlaceInv

LEMMA DeliverPlaces ==
  ASSUME MailTypeOK, LockInv, IdInv, OwnInv, PlaceInv, Deliver
  PROVE  PlaceInv'
  <1>1. /\ UNCHANGED <<opts, mbox, mpc, mb, out, dropped>>
        /\ \A t \in Sessions : mpc[t] # "truncate"
    BY LockedNoDeliver DEF Deliver, history, Locked
  <1>2. Apart(mbox) /\ Apart(Box) /\ \A x \in IdsOf(Box) \cap IdsOf(mbox) : Moving(x)
    BY <1>1 DEF PlaceInv
  <1>3. \A x : Moving(x) => Moving(x)'
    BY <1>1 DEF Moving, Moves
  <1>4. Apart(mbox)'
    BY <1>1, <1>2 DEF Apart
  <1>5. ASSUME Apart(Box)', \A x \in IdsOf(Box') : x \in IdsOf(Box) \/ x \notin IdsOf(mbox)
        PROVE  PlaceInv'
    BY <1>1, <1>2, <1>3, <1>4, <1>5 DEF PlaceInv
  <1>6. CASE mailer.at = "lock"
    <2> DEFINE x == [id |-> mail + 1, status |-> "N"]
    <2>1. Box' = Append(Box, x) /\ mail \in Nat /\ x.id = mail + 1 /\ x \in Stored
      BY <1>6, AppendIs
    <2> HIDE DEF x
    <2>2. Box \in Seq(Stored) /\ IdsOf(Box) \subseteq 1..mail
      BY InodeIs, EmptyStored DEF IdInv
    <2>3. mail + 1 \notin IdsOf(Box) /\ mail + 1 \notin IdsOf(mbox) /\ mail + 1 \notin dropped
      <3>1. mail + 1 \notin 1..mail
        BY <2>1
      <3> QED
        BY <2>2, <3>1 DEF IdInv
    <2>4. /\ \A i \in DOMAIN Box' : Box'[i] = x \/ (i \in DOMAIN Box /\ Box'[i] = Box[i])
          /\ IdsOf(Box') = IdsOf(Box) \cup {mail + 1}
      BY <2>1, <2>2, AppendedIs
    <2>5. Distinct(Box')
      <3>1. /\ Len(Box') = Len(Box) + 1 /\ Len(Box) \in Nat /\ Box' \in Seq(Stored)
            /\ \A i \in 1..Len(Box) : Box'[i] = Box[i]
            /\ Box'[Len(Box) + 1] = x
        BY <2>1, <2>2, AppendProperties, StoredIs
      <3>2. DOMAIN Box' = 1..(Len(Box) + 1) /\ DOMAIN Box = 1..Len(Box)
        BY <2>2, <3>1, StoredIs
      <3>3. \A i \in DOMAIN Box' : i = Len(Box) + 1 \/ (i \in DOMAIN Box /\ Box'[i] = Box[i])
        BY <3>1, <3>2
      <3>4. \A i \in DOMAIN Box : Box[i].id # x.id
        BY <2>1, <2>3 DEF IdsOf
      <3> QED
        BY <1>2, <3>1, <3>3, <3>4 DEF Apart, Distinct
    <2>6. Apart(Box)'
      BY <1>1, <1>2, <2>3, <2>4, <2>5 DEF Apart
    <2> QED
      BY <1>5, <2>3, <2>4, <2>6
  <1>7. CASE mailer.at # "lock"
    <2>1. Box' = Box
      <3>1. CASE mailer.at = "open"
        <4>1. PICK f : Open(f) /\ UNCHANGED <<mbox, filed, mail>>
          BY <3>1 DEF Deliver
        <4> QED
          BY <4>1, OpenedType
      <3>2. CASE mailer.at # "open"
        BY <1>7, <3>2 DEF Deliver, Box
      <3> QED
        BY <3>1, <3>2
    <2>2. Apart(Box)'
      BY <1>1, <1>2, <2>1 DEF Apart
    <2> QED
      BY <1>5, <2>1, <2>2
  <1> QED
    BY <1>6, <1>7

LEMMA PlaceStep ==
  ASSUME MailTypeOK, LockInv, IdInv, risks = {} => OwnInv,
         risks = {} /\ faults = 0 /\ Single => PlaceInv, [MailNext]_mailVars,
         risks' = {}, faults' = 0, Single'
  PROVE  PlaceInv'
  <1>0. risks = {} /\ OwnInv
    BY SeenGrows
  <1>1. CASE UNCHANGED mailVars
    <2>1. PlaceInv
      BY <1>0, <1>1 DEF mailVars, Single
    <2> QED
      BY <1>1, <2>1 DEF mailVars, PlaceInv, Apart, Box, Moving, Moves
  <1>2. CASE Deliver
    <2>1. PlaceInv
      BY <1>0, <1>2 DEF Deliver, Single
    <2> QED
      BY <1>0, <1>2, <2>1, DeliverPlaces
  <1>3. ASSUME NEW s \in Sessions, Session(s)
        PROVE  PlaceInv'
    <2>1. faults = 0 /\ ~Fault
      BY <1>3, FaultsGrow
    <2>2. PlaceInv
      BY <1>0, <1>3, <2>1, SingleBefore
    <2> QED
      BY <1>0, <1>3, <2>1, <2>2, RewritePlaces, TruncatePlaces, AddPlaces, OtherPlaces
  <1> QED
    BY <1>1, <1>2, <1>3 DEF MailNext

-----------------------------------------------------------------------------
(* The theorem.                                                            *)

LEMMA MailInvInit ==
  ASSUME MailInit
  PROVE  MailInv
  <1>1. FileTypes
    <2>1. inodes = <<>> /\ Len(inodes) = 0 /\ inodes \in Seq(Seq(Stored))
      BY EmptySeq DEF MailInit
    <2>2. Inodes = {}
      BY <2>1 DEF Inodes
    <2>3. flk = <<>> /\ DOMAIN flk = {}
      BY DEF MailInit
    <2> QED
      BY <2>1, <2>2, <2>3, EmptySeq DEF MailInit, FileTypes
  <1>2. SessionTypes
    BY EmptySeq DEF MailInit, SessionTypes, Places
  <1>3. RestTypes
    BY MailboxBounds DEF MailInit, RestTypes, Options
  <1>4. MailTypeOK /\ Inodes = {}
    <2>1. Len(inodes) = 0
      BY DEF MailInit
    <2> QED
      BY <1>1, <1>2, <1>3, <2>1, TypesAre DEF Inodes
  <1>5. LockInv
    BY <1>4 DEF MailInit, LockInv, Writing
  <1>6. IdInv
    BY <1>4, EmptyStored DEF MailInit, IdInv
  <1>7. SeenInv
    BY <1>4, EmptyStored DEF MailInit, SeenInv, ReadOnly
  <1>8. NoMailLost
    <2>1. 1..0 = {}
      OBVIOUS
    <2> QED
      BY <2>1 DEF MailInit, NoMailLost
  <1>9. OwnInv
    BY DEF MailInit, OwnInv, OwnOf, Locked, Committed, Active
  <1>10. PlaceInv
    BY EmptyStored DEF MailInit, PlaceInv, Apart, Distinct, Box
  <1> QED
    BY <1>4, <1>5, <1>6, <1>7, <1>8, <1>9, <1>10 DEF MailInv

LEMMA MailInvStep ==
  ASSUME MailInv, [MailNext]_mailVars
  PROVE  MailInv'
  <1>1. MailTypeOK' /\ LockInv' /\ IdInv' /\ SeenInv' /\ NoMailLost'
    BY MailTypeStep, LockStep, IdStep, SeenStep, LostStep DEF MailInv
  <1>2. risks' = {} => OwnInv'
    BY OwnStep DEF MailInv
  <1>3. risks' = {} /\ faults' = 0 /\ Single' => PlaceInv'
    BY PlaceStep DEF MailInv
  <1> QED
    BY <1>1, <1>2, <1>3 DEF MailInv

LEMMA MailInvKeeps ==
  ASSUME MailInv
  PROVE  MailKept
  <1>1. MailTypeOK /\ NoMailLost /\ UnreadStay
    BY DEF MailInv, SeenInv, UnreadStay
  <1>2. ASSUME Resting, faults = 0, risks = {}
        PROVE  Distinct(Box \o mbox) /\ dropped \cap IdsOf(Box \o mbox) = {}
    <2>1. Single /\ (\A s \in Sessions : mpc[s] \notin Committed /\ mpc[s] # "truncate")
      BY <1>2 DEF Resting, Single, Committed
    <2>2. PlaceInv
      BY <1>2, <2>1 DEF MailInv
    <2>3. Apart(mbox) /\ Apart(Box) /\ \A x \in IdsOf(Box) \cap IdsOf(mbox) : Moving(x)
      BY <2>1, <2>2 DEF PlaceInv
    <2>4. IdsOf(Box) \cap IdsOf(mbox) = {}
      BY <2>1, <2>3 DEF Moving
    <2>5. Box \in Seq(Stored) /\ mbox \in Seq(Stored)
      BY <1>1, InodeIs DEF MailTypeOK
    <2>6. Distinct(Box \o mbox) /\ IdsOf(Box \o mbox) = IdsOf(Box) \cup IdsOf(mbox)
      BY <2>3, <2>4, <2>5, DistinctConcat, ConcatStored DEF Apart
    <2> QED
      BY <2>3, <2>6 DEF Apart
  <1> QED
    BY <1>1, <1>2 DEF MailKept, OnePlace

\* For any number of sessions, messages, commands and faults, and all values of the variables:
\* a message is lost only through one of the known holes, is kept in one place, and stays in
\* the system mailbox until it is read (quit in msg.c).
THEOREM MailTheorem == MailSpec => []MailKept
  <1>1. MailInit => MailInv
    BY MailInvInit
  <1>2. MailInv /\ [MailNext]_mailVars => MailInv'
    BY MailInvStep
  <1>3. MailInv => MailKept
    BY MailInvKeeps
  <1> QED
    BY <1>1, <1>2, <1>3, PTL DEF MailSpec
===============================================================================
