-------------------------------- MODULE Join --------------------------------
(***************************************************************************)
(* join, comm, uniq and tsort (src/join/join.c, src/comm/comm.c,           *)
(* src/uniq/uniq.c, src/tsort/tsort.c): the tools that walk through lines  *)
(* in their order, and the one that finds an order.                        *)
(*                                                                         *)
(* For join a line is the sequence of its fields, and the order is that    *)
(* of the characters' numbers (the POSIX locale); an empty field is <<>>.  *)
(***************************************************************************)
EXTENDS Integers, Sequences, FiniteSets, SequencesExt

(* strcoll, on sequences of numbers.                                       *)
Coll(a, b) ==
    LET d == {i \in DOMAIN a \intersect DOMAIN b : a[i] # b[i]}
        i == CHOOSE k \in d : \A j \in d : k <= j
    IN  IF d = {} THEN Len(a) - Len(b) ELSE a[i] - b[i]

----------------------------------------------------------------------------
(* join.  Options: jf, the join field of each file; a and v, the files     *)
(* named by -a and -v; o, the list of -o, <<0>> or <<file, field>>.        *)
FieldOf(l, k) == IF k <= Len(l) THEN l[k] ELSE <<>>
key(op, l, file) == FieldOf(l, op.jf[file])

(* next_group: the group that starts at line i ends before the first line  *)
(* with another join field.                                                *)
GroupOfOne(op, f, file, i) == i
GroupEnd(op, f, file, i) ==
    LET z == {k \in i + 1 .. Len(f) : Coll(key(op, f[k], file), key(op, f[i], file)) # 0}
    IN  IF z = {} THEN Len(f) ELSE (CHOOSE k \in z : \A j \in z : k <= j) - 1

(* output: l1 and l2, either of which may be None.                         *)
NoLine == <<<<-1>>>>
Without(l, k) == SubSeq(l, 1, k - 1) \o SubSeq(l, k + 1, Len(l))
JoinField(op, l1, l2) == IF l1 # NoLine THEN key(op, l1, 1) ELSE key(op, l2, 2)
Others(op, l, file) == IF l = NoLine THEN <<>> ELSE Without(l, op.jf[file])
Filled(op, s) == IF s = <<>> /\ op.o # <<>> THEN op.e ELSE s
output(op, l1, l2) ==
    IF op.o = <<>> THEN <<JoinField(op, l1, l2)>> \o Others(op, l1, 1) \o Others(op, l2, 2)
    ELSE [i \in DOMAIN op.o |->
            LET f == op.o[i]
                l == IF f[1] = 1 THEN l1 ELSE l2
            IN  Filled(op, IF f[1] = 0 THEN JoinField(op, l1, l2)
                           ELSE IF l = NoLine THEN <<>> ELSE FieldOf(l, f[2]))]

join(op, f1, f2) ==
    LET From[i \in 1 .. Len(f1) + 1, j \in 1 .. Len(f2) + 1] ==
          LET e1 == GroupEnd(op, f1, 1, i)
              e2 == GroupEnd(op, f2, 2, j)
              r == IF i > Len(f1) THEN 1 ELSE IF j > Len(f2) THEN -1
                   ELSE Coll(key(op, f1[i], 1), key(op, f2[j], 2))
              alone1 == [k \in 1 .. e1 - i + 1 |-> output(op, f1[i + k - 1], NoLine)]
              alone2 == [k \in 1 .. e2 - j + 1 |-> output(op, NoLine, f2[j + k - 1])]
              n2 == e2 - j + 1
              pairs == [k \in 1 .. (e1 - i + 1) * n2 |->
                          output(op, f1[i + (k - 1) \div n2], f2[j + ((k - 1) % n2)])]
          IN  IF i > Len(f1) /\ j > Len(f2) THEN <<>>
              ELSE IF r < 0 THEN (IF 1 \in op.a \union op.v THEN alone1 ELSE <<>>) \o From[e1 + 1, j]
              ELSE IF r > 0 THEN (IF 2 \in op.a \union op.v THEN alone2 ELSE <<>>) \o From[i, e2 + 1]
              ELSE (IF op.v = {} THEN pairs ELSE <<>>) \o From[e1 + 1, e2 + 1]
    IN  From[1, 1]

----------------------------------------------------------------------------
(* comm: each line with its column; show holds the columns that are        *)
(* written, and a line is set in by the ones before its own.               *)
comm(show, a, b) ==
    LET Put(col, l) == IF col \notin show THEN <<>>
                       ELSE <<[tabs |-> IF col = 1 THEN 0 ELSE (IF 1 \in show THEN 1 ELSE 0)
                                                             + (IF col = 3 /\ 2 \in show THEN 1 ELSE 0),
                               col |-> col, l |-> l]>>
        From[i \in 1 .. Len(a) + 1, j \in 1 .. Len(b) + 1] ==
          LET r == IF i > Len(a) THEN 1 ELSE IF j > Len(b) THEN -1 ELSE Coll(a[i], b[j])
          IN  IF i > Len(a) /\ j > Len(b) THEN <<>>
              ELSE IF r < 0 THEN Put(1, a[i]) \o From[i + 1, j]
              ELSE IF r > 0 THEN Put(2, b[j]) \o From[i, j + 1]
              ELSE Put(3, a[i]) \o From[i + 1, j + 1]
    IN  From[1, 1]

----------------------------------------------------------------------------
(* uniq: what -f and -s leave of a line, and a count and the first line of *)
(* each run of lines with the same key.                                    *)
IsBlank(c) == c = 32
After(s, p, Is(_)) == CHOOSE q \in p .. Len(s) : /\ \A k \in p + 1 .. q : Is(s[k])
                                                 /\ q < Len(s) => ~Is(s[q + 1])
compare_key(fields, chars, s) ==
    LET Skip[f \in 0 .. fields] ==
          IF f = 0 THEN 0 ELSE After(s, After(s, Skip[f - 1], IsBlank), LAMBDA c : ~IsBlank(c))
    IN  SubSeq(s, Skip[fields] + chars + 1, Len(s))

uniq(op, v) ==
    LET k(i) == compare_key(op.f, op.s, v[i])
        starts == SelectSeq([i \in DOMAIN v |-> i], LAMBDA i : i = 1 \/ k(i) # k(i - 1))
        count(n) == (IF n = Len(starts) THEN Len(v) + 1 ELSE starts[n + 1]) - starts[n]
        runs == [n \in DOMAIN starts |-> [count |-> count(n), l |-> v[starts[n]]]]
    IN  SelectSeq(runs, LAMBDA r : ~(op.d /\ r.count = 1) /\ ~(op.u /\ r.count > 1))

----------------------------------------------------------------------------
(* tsort: Kahn's algorithm over the items in the order they were read, and *)
(* the cycles it breaks.                                                   *)

(* The items, in their order, and the edges, from the words of the input;  *)
(* a pair of an item with itself only names it.                            *)
Nodes(words) == LET new == SelectSeq([i \in DOMAIN words |-> i], LAMBDA i : \A j \in 1 .. i - 1 : words[j] # words[i])
                IN  [k \in DOMAIN new |-> words[new[k]]]
Edges(words) == SelectSeq([k \in 1 .. Len(words) \div 2 |-> <<words[2 * k - 1], words[2 * k]>>],
                          LAMBDA e : e[1] # e[2])
Succ(es, a) == LET out == SelectSeq(es, LAMBDA e : e[1] = a) IN [k \in DOMAIN out |-> out[k][2]]
Pred(es, b) == LET in == SelectSeq(es, LAMBDA e : e[2] = b) IN [k \in DOMAIN in |-> in[k][1]]

(* report_cycle: back from item s through the first predecessor that is    *)
(* not written, until an item repeats.                                     *)
report_cycle(es, done, s) ==
    LET Back[path \in Seq(STRING)] ==
          LET left == SelectSeq(Pred(es, Last(path)), LAMBDA p : p \notin done)
          IN  IF \E k \in DOMAIN path : path[k] = left[1]
              THEN [cycle |-> Reverse(SubSeq(path, SelectInSeq(path, LAMBDA x : x = left[1]), Len(path))),
                    at |-> Last(path)]
              ELSE Back[Append(path, left[1])]
    IN  Back[<<s>>]

(* One item is written: its successors lose an edge, and the ones that     *)
(* become free are queued, in the order of the edges.                      *)
Freed(es, st, i) ==
    LET Step[k \in 0 .. Len(Succ(es, i))] ==
          IF k = 0 THEN [st EXCEPT !.queue = Tail(@), !.done = @ \union {i}, !.out = Append(@, i)]
          ELSE LET p == Step[k - 1]
                   s == Succ(es, i)[k]
               IN  IF s \in p.done \/ p.indeg[s] = 0 THEN p
                   ELSE [p EXCEPT !.indeg[s] = @ - 1,
                                  !.queue = IF p.indeg[s] = 1 THEN Append(@, s) ELSE @]
    IN  Step[Len(Succ(es, i))]

tsort(words) ==
    LET ns == Nodes(words)
        es == Edges(words)
        Run[st \in [queue : Seq(STRING), done : SUBSET STRING, out : Seq(STRING),
                    indeg : [ToSet(ns) -> Nat], cycles : Seq([cycle : Seq(STRING), at : STRING])]] ==
          IF Len(st.out) = Len(ns) THEN st
          ELSE IF st.queue = <<>>
          THEN LET r == report_cycle(es, st.done, ns[SelectInSeq(ns, LAMBDA n : n \notin st.done)])
               IN  Run[[st EXCEPT !.cycles = Append(@, r), !.indeg[r.at] = 0, !.queue = <<r.at>>]]
          ELSE IF Head(st.queue) \in st.done THEN Run[[st EXCEPT !.queue = Tail(@)]]
          ELSE Run[Freed(es, st, Head(st.queue))]
    IN  IF Len(words) % 2 = 1 THEN [out |-> <<>>, cycles |-> <<>>, error |-> TRUE]
        ELSE LET z == Run[[queue |-> SelectSeq(ns, LAMBDA n : Pred(es, n) = <<>>), done |-> {}, out |-> <<>>,
                           indeg |-> [n \in ToSet(ns) |-> Len(Pred(es, n))], cycles |-> <<>>]]
             IN  [out |-> z.out, cycles |-> z.cycles, error |-> FALSE]
=============================================================================
