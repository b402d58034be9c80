-------------------------------- MODULE Sort --------------------------------
(***************************************************************************)
(* sort (src/sort/sort.c): the keys of a line, how two lines compare, and  *)
(* the three functions: to sort, to merge, to check.                       *)
(*                                                                         *)
(* A line is a sequence of characters, each the number of its byte.  The   *)
(* options are a record o: keys, the definitions after -k; the flags given *)
(* apart from them, g; t, the separator (0: blanks); u.  A key is          *)
(*   [sf, sc, ef, ec |-> field and character, hasEnd, flags, own].         *)
(* The collation is that of the POSIX locale.                              *)
(***************************************************************************)
EXTENDS Integers, Sequences, FiniteSets, SequencesExt

CONSTANT Thousands      \* the thousands separators of the locale: a set of 0 or 1

Blank(c) == c = 32
IsDigit(c) == c \in 48 .. 57
Lower(c) == c \in 97 .. 122
Letter(c) == Lower(c) \/ c \in 65 .. 90

(* skip_blanks and advance, on offsets into the line.                      *)
skip_blanks(s, p) == CHOOSE q \in p .. Len(s) : /\ \A k \in p + 1 .. q : Blank(s[k])
                                                /\ q < Len(s) => ~Blank(s[q + 1])
advance(s, p, n) == IF p + n < Len(s) THEN p + n ELSE Len(s)

(* field: where each field starts, and where the n-th one ends.  Without   *)
(* -t a field is the blanks before it and then what is not blank.          *)
FieldStarts(o, s) == IF o.t # 0 THEN {0} \union {k \in DOMAIN s : s[k] = o.t}
                     ELSE {0} \union {k \in 1 .. Len(s) - 1 : ~Blank(s[k]) /\ Blank(s[k + 1])}
NthStart(o, s, n) == CHOOSE k \in FieldStarts(o, s) : Cardinality({j \in FieldStarts(o, s) : j <= k}) = n
HasField(o, s, n) == n <= Cardinality(FieldStarts(o, s))
FieldEnd(o, s, n) == IF HasField(o, s, n + 1) THEN NthStart(o, s, n + 1) - (IF o.t # 0 THEN 1 ELSE 0) ELSE Len(s)

key_flags(o, k) == IF k.own THEN k.flags ELSE o.g

(* key_span: the key runs on past the end of its field.                    *)
key_span(o, k, s) ==
    LET fl == key_flags(o, k)
        f == NthStart(o, s, k.sf)
        start == advance(s, IF "b" \in fl THEN skip_blanks(s, f) ELSE f, k.sc - 1)
        g == NthStart(o, s, k.ef)
        stop == IF ~k.hasEnd \/ ~HasField(o, s, k.ef) THEN Len(s)
                ELSE IF k.ec = 0 THEN FieldEnd(o, s, k.ef)
                ELSE advance(s, IF "e" \in fl THEN skip_blanks(s, g) ELSE g, k.ec)
    IN  IF ~HasField(o, s, k.sf) THEN <<>> ELSE SubSeq(s, start + 1, IF stop < start THEN start ELSE stop)

(* transform: -d keeps blanks and letters and digits, -i what can be       *)
(* printed, -f compares in upper case.                                     *)
transform(fl, s) ==
    LET keep == SelectSeq(s, LAMBDA c : /\ "d" \in fl => Blank(c) \/ Letter(c) \/ IsDigit(c)
                                        /\ "i" \in fl => c \in 32 .. 126)
    IN  IF "f" \in fl THEN [i \in DOMAIN keep |-> IF Lower(keep[i]) THEN keep[i] - 32 ELSE keep[i]] ELSE keep

(* The initial numeric string of a key: its sign, the digits before the    *)
(* radix character without leading zeros, and the ones after it without    *)
(* trailing ones.  A separator counts between two digits only.             *)
Radix == 46
Separates(s, k) == s[k] \in Thousands /\ k > 1 /\ k < Len(s) /\ IsDigit(s[k - 1]) /\ IsDigit(s[k + 1])
RunEnd(s, from, In(_)) == CHOOSE e \in from .. Len(s) : /\ \A k \in from + 1 .. e : In(k)
                                                         /\ e < Len(s) => ~In(e + 1)
Integer(digits) == SubSeq(digits, SelectInSeq(digits \o <<49>>, LAMBDA c : c # 48), Len(digits))
Fraction(digits) == SubSeq(digits, 1, SelectLastInSeq(digits, LAMBDA c : c # 48))
AfterRadix(s, r) == IF r < Len(s) /\ s[r + 1] = Radix THEN SubSeq(s, r + 2, RunEnd(s, r + 1, LAMBDA k : IsDigit(s[k]))) ELSE <<>>
Parts(s, q, r) == [int |-> Integer(SelectSeq(SubSeq(s, q + 1, r), IsDigit)), frac |-> Fraction(AfterRadix(s, r))]
Unsigned(s, q) == Parts(s, q, RunEnd(s, q, LAMBDA k : IsDigit(s[k]) \/ Separates(s, k)))
Signed(minus, n) == [neg |-> minus /\ n # [int |-> <<>>, frac |-> <<>>], int |-> n.int, frac |-> n.frac]
NumberAt(s, b) == LET minus == b < Len(s) /\ s[b + 1] = 45 IN Signed(minus, Unsigned(s, IF minus THEN b + 1 ELSE b))
Number(s) == NumberAt(s, skip_blanks(s, 0))

Sign(n) == IF n < 0 THEN -1 ELSE IF n > 0 THEN 1 ELSE 0

(* bytecmp: the first byte that differs, then the length.                  *)
bytecmp(a, b) ==
    LET d == {i \in DOMAIN a \intersect DOMAIN b : a[i] # b[i]}
        i == CHOOSE k \in d : \A j \in d : k <= j
    IN  IF d = {} THEN Sign(Len(a) - Len(b)) ELSE Sign(a[i] - b[i])

SizeCmp(x, y) == IF Len(x.int) # Len(y.int) THEN Sign(Len(x.int) - Len(y.int))
                 ELSE IF x.int # y.int THEN bytecmp(x.int, y.int) ELSE bytecmp(x.frac, y.frac)
ValueCmp(x, y) == IF x.neg # y.neg THEN (IF x.neg THEN -1 ELSE 1) ELSE IF x.neg THEN SizeCmp(y, x) ELSE SizeCmp(x, y)
numcmp(a, b) == ValueCmp(Number(a), Number(b))

(* make_keys and keycmp: the default key is the whole line.                *)
KeyText(o, k, s) == key_span(o, k, s)
WholeLine(o, s) == IF {"b", "e"} \intersect o.g # {} THEN SubSeq(s, skip_blanks(s, 0) + 1, Len(s)) ELSE s
Turned(fl, c) == IF "r" \in fl THEN -c ELSE c
ByKey(fl, x, y) ==
    Turned(fl, IF "n" \in fl THEN numcmp(x, y)
               ELSE IF {"d", "f", "i"} \intersect fl # {} THEN bytecmp(transform(fl, x), transform(fl, y))
               ELSE bytecmp(x, y))
FirstOther(cs) == LET z == {i \in DOMAIN cs : cs[i] # 0}
                  IN  IF z = {} THEN 0 ELSE cs[CHOOSE i \in z : \A j \in z : i <= j]
keycmp(o, a, b) ==
    IF o.keys = <<>> THEN ByKey(o.g, WholeLine(o, a), WholeLine(o, b))
    ELSE FirstOther([i \in DOMAIN o.keys |->
                       ByKey(key_flags(o, o.keys[i]), KeyText(o, o.keys[i], a), KeyText(o, o.keys[i], b))])

(* linecmp: the keys, then the whole line; -r apart from -k reverses it.   *)
AfterKeys(o, c, l) == IF c # 0 \/ o.u THEN c ELSE Turned(o.g, l)
linecmp(o, a, b) == AfterKeys(o, keycmp(o, a, b), bytecmp(a, b))

(* qcmp: lines that compare equal keep the order of the input.             *)
InTurn(c, i, j) == c < 0 \/ (c = 0 /\ i < j)
Before(o, v, i, j) == InTurn(linecmp(o, v[i], v[j]), i, j)

(* sort_all, of all lines of the files; with -u one of those with equal    *)
(* keys that come to stand together.                                       *)
Sorted(o, v) == [k \in DOMAIN v |->
                   v[CHOOSE i \in DOMAIN v : Cardinality({j \in DOMAIN v : j # i /\ Before(o, v, j, i)}) = k - 1]]
Kept(o, w, i) == ~o.u \/ i = 1 \/ keycmp(o, w[i - 1], w[i]) # 0
At(w, v) == [k \in DOMAIN v |-> w[v[k]]]
Thinned(o, w) == At(w, SelectSeq([i \in DOMAIN w |-> i], LAMBDA i : Kept(o, w, i)))
sort_all(o, files) == Thinned(o, Sorted(o, FlattenSeq(files)))

(* merge: the least of the lines the files are at, of the first file that  *)
(* has it; with -u not one with the keys of the line written last.         *)
Best(o, files, at) ==
    CHOOSE i \in DOMAIN files :
      /\ at[i] <= Len(files[i])
      /\ \A j \in DOMAIN files \ {i} : at[j] <= Len(files[j]) => InTurn(linecmp(o, files[i][at[i]], files[j][at[j]]), i, j)
Taken(o, files, st, i) ==
    LET l == files[i][st.at[i]]
    IN  [at |-> [st.at EXCEPT ![i] = @ + 1],
         out |-> IF o.u /\ st.out # <<>> /\ keycmp(o, Last(st.out), l) = 0 THEN st.out ELSE Append(st.out, l)]
merge(o, files) ==
    LET From[st \in [at : [DOMAIN files -> Nat], out : Seq(Seq(Nat))]] ==
          IF \A i \in DOMAIN files : st.at[i] > Len(files[i]) THEN st.out ELSE From[Taken(o, files, st, Best(o, files, st.at))]
    IN  From[[at |-> [i \in DOMAIN files |-> 1], out |-> <<>>]]

(* check: the first line that may not follow the one before it, or 0.      *)
Disorder(o, c) == c > 0 \/ (o.u /\ c = 0)
check(o, v) == SelectInSeq([i \in DOMAIN v |-> i], LAMBDA i : i > 1 /\ Disorder(o, linecmp(o, v[i - 1], v[i])))
=============================================================================
