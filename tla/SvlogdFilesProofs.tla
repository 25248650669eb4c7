-------------------------- MODULE SvlogdFilesProofs -------------------------
(***************************************************************************)
(* The log directory of Svlogd: what renaming, removing, rotating,         *)
(* processing and reopening do to its files, and to the log they hold.     *)
(***************************************************************************)
EXTENDS Svlogd, FiniteSetTheorems, SequenceTheorems, WellFoundedInduction, TLAPS

-----------------------------------------------------------------------------
(* Old files *)

\* The bytes of the log, and an old file.
Byte == 0..(MaxBytes + 1)
OldFile == [t : Nat \ {0}, k : {"s", "t", "u"}, c : Seq(Byte), n : Nat]

LEMMA RankNat == \A f \in OldFile : Rank(f) \in Nat /\ 3 * f.t <= Rank(f) /\ Rank(f) < 3 * f.t + 3
BY DEF OldFile, Rank

LEMMA NatMin ==
  ASSUME NEW T, T \subseteq Nat, T # {}
  PROVE  \E m \in T : \A n \in T : m <= n
<1>1. PICK m \in T : \A n \in T : ~(<<n, m>> \in OpToRel(<, Nat))
  BY NatLessThanWellFounded, WFMin, Zenon
<1>2. OpToRel(<, Nat) = {p \in Nat \X Nat : p[1] < p[2]}
  BY Zenon DEF OpToRel
<1>3. \A n, k \in Nat : n < k => <<n, k>> \in {p \in Nat \X Nat : p[1] < p[2]}
  OBVIOUS
<1>4. \A n \in T : ~(n < m)
  BY <1>1, <1>2, <1>3, Zenon
<1>5. \A n, k \in Nat : ~(n < k) => k <= n
  OBVIOUS
<1>6. \A n \in T : m <= n
  BY <1>4, <1>5, Zenon
<1>. QED  BY <1>6, Zenon

\* oldest() finds a file of the least name in a set that is not empty.
LEMMA Oldest ==
  ASSUME NEW S, S \subseteq OldFile, S # {}
  PROVE  oldest(S) \in S /\ \A g \in S : Rank(oldest(S)) <= Rank(g)
<1>. DEFINE T == {Rank(f) : f \in S}
<1>1. T \subseteq Nat /\ T # {}
  BY RankNat
<1>2. PICK m \in T : \A n \in T : m <= n
  BY <1>1, NatMin
<1>3. \E f \in S : \A g \in S : Rank(f) <= Rank(g)
  BY <1>2
<1>. QED  BY <1>3 DEF oldest

\* The old files S of a log e of which the bytes from t on are in no old file: each
\* holds a piece of the log, pieces are apart or equal, each leftover of a processor has
\* its input beside it, and from the first piece on there is no gap.
OldOK(S, t, e) ==
  /\ S \subseteq OldFile /\ IsFiniteSet(S)
  /\ \A f \in S : Len(f.c) > 0 /\ End(f) <= t /\ Reads(e, f.t, f.c)
  /\ \A f, g \in S : IF f.t = g.t THEN f.c = g.c ELSE End(f) <= g.t \/ End(g) <= f.t
  /\ \A f \in S : f.k = "t" => \E g \in S : g.t = f.t /\ g.k = "u"
  /\ \A f \in S, p \in 1..t : f.t <= p /\ p < t => \E g \in S : g.k # "t" /\ g.t <= p /\ p < End(g)

LEMMA EndNat == \A f \in OldFile : End(f) \in Nat /\ Len(f.c) \in Nat /\ f.t \in Nat /\ f.t > 0
BY DEF OldFile, End

\* Leftovers can go.
LEMMA OldDrop ==
  ASSUME NEW S, NEW t \in Nat, NEW e, OldOK(S, t, e), NEW D, \A f \in D : f.k = "t"
  PROVE  OldOK(S \ D, t, e)
<1>1. S \ D \subseteq OldFile /\ IsFiniteSet(S \ D)
  BY FS_Difference DEF OldOK
<1>2. \A f \in S : f.k # "t" => f \in S \ D
  OBVIOUS
<1>3. "u" # "t"
  OBVIOUS
<1>4. \A f \in S \ D : f.k = "t" => \E g \in S \ D : g.t = f.t /\ g.k = "u"
  BY <1>2, <1>3 DEF OldOK
<1>5. \A f \in S \ D, p \in 1..t : f.t <= p /\ p < t => \E g \in S \ D : g.k # "t" /\ g.t <= p /\ p < End(g)
  BY <1>2 DEF OldOK
<1>. QED  BY <1>1, <1>4, <1>5 DEF OldOK

\* So can the oldest file of all.
LEMMA OldGiveUp ==
  ASSUME NEW S, NEW t \in Nat, NEW e, OldOK(S, t, e), S # {}
  PROVE  OldOK(S \ {oldest(S)}, t, e)
<1>. DEFINE o == oldest(S)
            R == S \ {o}
<1>0. S \subseteq OldFile
  BY DEF OldOK
<1>1. o \in S /\ \A g \in S : Rank(o) <= Rank(g)
  BY <1>0, Oldest
<1>. HIDE DEF o
<1>2. R \subseteq OldFile /\ IsFiniteSet(R)
  BY <1>0, FS_Difference DEF OldOK
<1>3. \A g \in S : o.t <= g.t
  BY <1>0, <1>1, RankNat, EndNat
<1>4. ASSUME NEW f \in R, f.k = "t"
      PROVE  \E g \in R : g.t = f.t /\ g.k = "u"
  <2>1. PICK g \in S : g.t = f.t /\ g.k = "u"
    BY <1>4 DEF OldOK
  <2>2. Rank(f) < Rank(g)
    BY <1>0, <1>4, <2>1 DEF Rank, OldFile
  <2>3. g # o
    BY <1>0, <1>1, <2>2, RankNat
  <2>. QED  BY <2>1, <2>3
<1>5. ASSUME NEW f \in R, NEW p \in 1..t, f.t <= p, p < t
      PROVE  \E g \in R : g.k # "t" /\ g.t <= p /\ p < End(g)
  <2>1. PICK g \in S : g.k # "t" /\ g.t <= p /\ p < End(g)
    BY <1>5 DEF OldOK
  <2>2. CASE g # o
    BY <2>1, <2>2
  <2>3. CASE g = o
    <3>1. o.t = f.t \/ End(o) <= f.t \/ End(f) <= o.t
      BY <1>1 DEF OldOK
    <3>2. Len(f.c) > 0
      BY DEF OldOK
    <3>3. o.t = f.t
      BY <1>0, <1>1, <1>3, <1>5, <2>1, <2>3, <3>1, <3>2, EndNat DEF End
    <3>4. End(f) = End(o)
      BY <1>1, <3>3 DEF OldOK, End
    <3>5. CASE f.k # "t"
      BY <1>5, <2>1, <2>3, <3>4, <3>5
    <3>6. CASE f.k = "t"
      <4>1. PICK h \in R : h.t = f.t /\ h.k = "u"
        BY <1>4, <3>6
      <4>2. End(h) = End(f)
        BY <4>1 DEF OldOK, End
      <4>. QED  BY <1>5, <2>1, <2>3, <3>4, <4>1, <4>2
    <3>. QED  BY <3>5, <3>6
  <2>. QED  BY <2>2, <2>3
<1>. QED
  <2>1. \A f \in R : Len(f.c) > 0 /\ End(f) <= t /\ Reads(e, f.t, f.c)
    BY DEF OldOK
  <2>2. \A f, g \in R : IF f.t = g.t THEN f.c = g.c ELSE End(f) <= g.t \/ End(g) <= f.t
    BY DEF OldOK
  <2>3. OldOK(R, t, e)
    BY <1>2, <1>4, <1>5, <2>1, <2>2 DEF OldOK
  <2>. QED  BY <2>3 DEF o

\* A renamed current is one more piece.
LEMMA OldAdd ==
  ASSUME NEW S, NEW t \in Nat \ {0}, NEW e, OldOK(S, t, e),
         NEW k \in {"s", "u"}, NEW c \in Seq(Byte), Len(c) > 0, Reads(e, t, c)
  PROVE  OldOK(S \cup {[t |-> t, k |-> k, c |-> c, n |-> Len(c)]}, t + Len(c), e)
<1>. DEFINE n == [t |-> t, k |-> k, c |-> c, n |-> Len(c)]
            R == S \cup {n}
<1>1. n \in OldFile /\ n.t = t /\ n.k = k /\ n.c = c /\ End(n) = t + Len(c) /\ k # "t"
  BY DEF OldFile, End
<1>. HIDE DEF n
<1>2. R \subseteq OldFile /\ IsFiniteSet(R)
  BY <1>1, FS_AddElement DEF OldOK
<1>3. Len(c) \in Nat
  OBVIOUS
<1>4. \A f \in S : f \in OldFile /\ f.t < t /\ End(f) <= t /\ Len(f.c) > 0
  BY EndNat DEF OldOK, End
<1>5. \A f \in R : Len(f.c) > 0 /\ End(f) <= t + Len(c) /\ Reads(e, f.t, f.c)
  BY <1>1, <1>3, <1>4, EndNat DEF OldOK
<1>6. \A f, g \in R : IF f.t = g.t THEN f.c = g.c ELSE End(f) <= g.t \/ End(g) <= f.t
  BY <1>1, <1>4, EndNat DEF OldOK
<1>7. \A f \in R : f.k = "t" => \E g \in R : g.t = f.t /\ g.k = "u"
  BY <1>1 DEF OldOK
<1>8. ASSUME NEW f \in R, NEW p \in 1..(t + Len(c)), f.t <= p, p < t + Len(c)
      PROVE  \E g \in R : g.k # "t" /\ g.t <= p /\ p < End(g)
  <2>1. CASE t <= p
    BY <1>1, <1>8, <2>1
  <2>2. CASE p < t
    <3>1. f \in S
      BY <1>1, <1>8, <2>2
    <3>. QED  BY <1>8, <2>2, <3>1 DEF OldOK
  <2>. QED  BY <2>1, <2>2
<1>9. OldOK(R, t + Len(c), e)
  BY <1>2, <1>5, <1>6, <1>7, <1>8 DEF OldOK
<1>. QED  BY <1>9 DEF n

\* A file that holds what another one of the same name does changes nothing.
LEMMA OldCopy ==
  ASSUME NEW S, NEW t \in Nat \ {0}, NEW e, OldOK(S, t, e),
         NEW u \in S, u.k = "u", NEW n \in OldFile, n.t = u.t, n.c = u.c
  PROVE  OldOK(S \cup {n}, t, e)
<1>. DEFINE R == S \cup {n}
<1>1. R \subseteq OldFile /\ IsFiniteSet(R)
  BY FS_AddElement DEF OldOK
<1>2. End(n) = End(u)
  BY DEF End
<1>3. \A f \in R : Len(f.c) > 0 /\ End(f) <= t /\ Reads(e, f.t, f.c)
  BY <1>2 DEF OldOK
<1>4. \A f, g \in R : IF f.t = g.t THEN f.c = g.c ELSE End(f) <= g.t \/ End(g) <= f.t
  BY <1>2 DEF OldOK
<1>5. \A f \in R : f.k = "t" => \E g \in R : g.t = f.t /\ g.k = "u"
  BY DEF OldOK
<1>6. \A f \in R, p \in 1..t : f.t <= p /\ p < t => \E g \in R : g.k # "t" /\ g.t <= p /\ p < End(g)
  BY DEF OldOK
<1>. QED  BY <1>1, <1>3, <1>4, <1>5, <1>6 DEF OldOK

\* Once the output of a processor is there under its own name, its input can go.
LEMMA OldDone ==
  ASSUME NEW S, NEW t \in Nat \ {0}, NEW e, OldOK(S, t, e), NEW n \in S, n.k = "s",
         \A f \in S : f.k = "t" => f.t # n.t
  PROVE  OldOK({f \in S : ~(f.t = n.t /\ f.k = "u")}, t, e)
<1>. DEFINE R == {f \in S : ~(f.t = n.t /\ f.k = "u")}
<1>1. R \subseteq OldFile /\ IsFiniteSet(R)
  BY FS_Subset DEF OldOK
<1>2. \A f \in R : Len(f.c) > 0 /\ End(f) <= t /\ Reads(e, f.t, f.c)
  BY DEF OldOK
<1>3. \A f, g \in R : IF f.t = g.t THEN f.c = g.c ELSE End(f) <= g.t \/ End(g) <= f.t
  BY DEF OldOK
<1>4. \A f \in R : f.k = "t" => \E g \in R : g.t = f.t /\ g.k = "u"
  BY DEF OldOK
<1>5. ASSUME NEW f \in R, NEW p \in 1..t, f.t <= p, p < t
      PROVE  \E g \in R : g.k # "t" /\ g.t <= p /\ p < End(g)
  <2>1. PICK g \in S : g.k # "t" /\ g.t <= p /\ p < End(g)
    BY <1>5 DEF OldOK
  <2>2. CASE g \in R
    BY <2>1, <2>2
  <2>3. CASE g \notin R
    <3>1. g.t = n.t /\ n \in R
      BY <2>3
    <3>2. End(g) = End(n)
      BY <3>1 DEF OldOK, End
    <3>. QED  BY <2>1, <3>1, <3>2
  <2>. QED  BY <2>2, <2>3
<1>. QED  BY <1>1, <1>2, <1>3, <1>4, <1>5 DEF OldOK

-----------------------------------------------------------------------------
(* Pieces of the log *)

LEMMA ReadsJoin ==
  ASSUME NEW e, NEW t \in Nat \ {0}, NEW a \in Seq(Byte), NEW b \in Seq(Byte),
         Reads(e, t, a), Reads(e, t + Len(a), b)
  PROVE  Reads(e, t, a \o b)
<1>1. \A i \in 1..Len(a \o b) : (a \o b)[i] = e[t + i - 1]
  <2>. TAKE i \in 1..Len(a \o b)
  <2>1. Len(a \o b) = Len(a) + Len(b) /\ Len(a) \in Nat /\ Len(b) \in Nat
    OBVIOUS
  <2>2. CASE i <= Len(a)
    BY <2>1, <2>2 DEF Reads
  <2>3. CASE i > Len(a)
    <3>1. i - Len(a) \in 1..Len(b) /\ (a \o b)[i] = b[i - Len(a)]
      BY <2>1, <2>3
    <3>2. b[i - Len(a)] = e[t + Len(a) + (i - Len(a)) - 1]
      BY <3>1 DEF Reads
    <3>3. t + Len(a) + (i - Len(a)) - 1 = t + i - 1
      BY <2>1
    <3>. QED  BY <3>1, <3>2, <3>3
  <2>. QED  BY <2>1, <2>2, <2>3
<1>. QED  BY <1>1 DEF Reads

LEMMA ReadsSplit ==
  ASSUME NEW e, NEW t \in Nat \ {0}, NEW c \in Seq(Byte), NEW n \in 0..Len(c), Reads(e, t, c)
  PROVE  /\ Reads(e, t, SubSeq(c, 1, n))
         /\ Reads(e, t + n, SubSeq(c, n + 1, Len(c)))
<1>0. Len(c) \in Nat
  OBVIOUS
<1>1. \A i \in 1..Len(SubSeq(c, 1, n)) : SubSeq(c, 1, n)[i] = e[t + i - 1]
  BY <1>0 DEF Reads
<1>2. ASSUME NEW i \in 1..Len(SubSeq(c, n + 1, Len(c)))
      PROVE  SubSeq(c, n + 1, Len(c))[i] = e[t + n + i - 1]
  <2>1. n + i \in 1..Len(c) /\ SubSeq(c, n + 1, Len(c))[i] = c[n + i]
    BY <1>0, SMTT(40)
  <2>2. c[n + i] = e[t + (n + i) - 1]
    BY <2>1 DEF Reads
  <2>3. t + (n + i) - 1 = t + n + i - 1
    BY <2>1
  <2>. QED  BY <2>1, <2>2, <2>3
<1>. QED  BY <1>1, <1>2 DEF Reads

\* What was in the log stays there when the log grows, and when it is cut behind it.
LEMMA ReadsMore ==
  ASSUME NEW e \in Seq(Byte), NEW w \in Seq(Byte), NEW t \in Nat \ {0}, NEW c \in Seq(Byte),
         t + Len(c) <= Len(e) + 1, Reads(e, t, c)
  PROVE  Reads(e \o w, t, c)
<1>1. ASSUME NEW i \in 1..Len(c) PROVE c[i] = (e \o w)[t + i - 1]
  <2>1. t + i - 1 \in 1..Len(e) /\ Len(e) \in Nat /\ Len(w) \in Nat
    OBVIOUS
  <2>2. (e \o w)[t + i - 1] = e[t + i - 1]
    BY <2>1
  <2>. QED  BY <2>2 DEF Reads
<1>. QED  BY <1>1 DEF Reads

LEMMA ReadsNew ==
  ASSUME NEW e \in Seq(Byte), NEW w \in Seq(Byte)
  PROVE  Reads(e \o w, Len(e) + 1, w)
<1>1. ASSUME NEW i \in 1..Len(w) PROVE w[i] = (e \o w)[Len(e) + 1 + i - 1]
  <2>1. Len(e) \in Nat /\ Len(w) \in Nat /\ Len(e) + 1 + i - 1 = Len(e) + i
    OBVIOUS
  <2>. QED  BY <2>1
<1>. QED  BY <1>1 DEF Reads

LEMMA ReadsLess ==
  ASSUME NEW e \in Seq(Byte), NEW n \in 0..Len(e), NEW t \in Nat \ {0}, NEW c \in Seq(Byte),
         t + Len(c) <= n + 1, Reads(e, t, c)
  PROVE  Reads(SubSeq(e, 1, n), t, c)
<1>1. ASSUME NEW i \in 1..Len(c) PROVE c[i] = SubSeq(e, 1, n)[t + i - 1]
  <2>1. t + i - 1 \in 1..n /\ Len(e) \in Nat
    OBVIOUS
  <2>2. SubSeq(e, 1, n)[t + i - 1] = e[t + i - 1]
    BY <2>1
  <2>. QED  BY <2>2 DEF Reads
<1>. QED  BY <1>1 DEF Reads

LEMMA OldMore ==
  ASSUME NEW S, NEW t \in Nat, NEW e \in Seq(Byte), OldOK(S, t, e), t <= Len(e) + 1, NEW w \in Seq(Byte)
  PROVE  OldOK(S, t, e \o w)
<1>1. \A f \in S : Reads(e \o w, f.t, f.c)
  <2>. TAKE f \in S
  <2>1. f.t \in Nat \ {0} /\ f.c \in Seq(Byte)
    BY DEF OldOK, OldFile
  <2>2. f.t + Len(f.c) <= Len(e) + 1 /\ Reads(e, f.t, f.c)
    BY <2>1 DEF OldOK, End
  <2>. QED  BY <2>1, <2>2, ReadsMore
<1>. QED  BY <1>1 DEF OldOK

LEMMA OldLess ==
  ASSUME NEW S, NEW t \in Nat, NEW e \in Seq(Byte), OldOK(S, t, e), NEW n \in 0..Len(e), t <= n + 1
  PROVE  OldOK(S, t, SubSeq(e, 1, n))
<1>1. \A f \in S : Reads(SubSeq(e, 1, n), f.t, f.c)
  <2>. TAKE f \in S
  <2>1. f.t \in Nat \ {0} /\ f.c \in Seq(Byte)
    BY DEF OldOK, OldFile
  <2>2. f.t + Len(f.c) <= n + 1 /\ Reads(e, f.t, f.c)
    BY <2>1 DEF OldOK, End
  <2>. QED  BY <2>1, <2>2, ReadsLess
<1>. QED  BY <1>1 DEF OldOK

-----------------------------------------------------------------------------
(* The log directory *)

DiskType == [cur : Seq(Byte) \cup {NoFile}, x : BOOLEAN, old : SUBSET OldFile, t : Nat \ {0}]

\* The position behind current: what is on the disk is the log before it.
Pos(d) == d.t + Len(Current(d))

\* The directory d holds a beginning of the log e, but for files deleted from the front.
Sound(d, e) ==
  /\ d \in DiskType /\ OldOK(d.old, d.t, e)
  /\ Reads(e, d.t, Current(d)) /\ Pos(d) <= Len(e) + 1

\* What a step that writes nothing may make of d0, whether it is completed or not: the
\* same bytes are there, but for one file if nmax remain, in at most one file more.
Moves(d0, d, e) ==
  /\ Sound(d, e) /\ Pos(d) = Pos(d0) /\ Len(Current(d)) <= Len(Current(d0))
  /\ \A f \in Logs(d0) : (\E g \in Logs(d) : g.t = f.t) \/ Cardinality(Logs(d)) >= nmax
  /\ d.t = d0.t \/ (\E g \in Logs(d) : g.t = d0.t) \/ Cardinality(Logs(d)) >= nmax
  /\ Cardinality(Logs(d)) <= Cardinality(Logs(d0)) + 1

\* No file of d misses bytes at its end that d0 had.
Kept(d0, d) ==
  \A g \in d.old : g.n = Len(g.c) \/ \E f \in d0.old : f.t = g.t /\ f.c = g.c /\ f.n = g.n

Via(d0, d, e) == Moves(d0, d, e) /\ Kept(d0, d)

LEMMA KeptPart ==
  ASSUME NEW d0, NEW d, NEW r, Kept(d0, d), r.old \subseteq d.old
  PROVE  Kept(d0, r)
BY DEF Kept

LEMMA KeptSame ==
  ASSUME NEW d0, NEW r, r.old \subseteq d0.old
  PROVE  Kept(d0, r)
BY DEF Kept

\* When it is completed there are not more files, unless the limit allows them.
Ends(d0, d) ==
  nmax > 0 => Cardinality(Logs(d)) <= Cardinality(Logs(d0)) \/ Cardinality(Logs(d)) <= nmax

LEMMA Numbers == nmax \in Nat /\ nmin \in Nat /\ linemax \in Nat /\ buflen \in Nat /\ MaxBytes \in Nat
BY SvlogdAssumption

LEMMA NoFileApart == \A c \in Seq(Byte) : c # NoFile
<1>1. MaxBytes + 2 \notin Byte
  BY Numbers DEF Byte
<1>2. \A c \in Seq(Byte) : Len(c) = 1 => c[1] \in Byte
  OBVIOUS
<1>3. Len(NoFile) = 1 /\ NoFile[1] = MaxBytes + 2
  BY DEF NoFile
<1>. QED  BY <1>1, <1>2, <1>3

LEMMA CurrentType == \A d \in DiskType : Current(d) \in Seq(Byte) /\ (d.cur # NoFile => Current(d) = d.cur)
BY DEF DiskType, Current

LEMMA DiskSet ==
  ASSUME NEW d \in DiskType, NEW c \in Seq(Byte) \cup {NoFile}, NEW b \in BOOLEAN
  PROVE  [d EXCEPT !.cur = c, !.x = b] \in DiskType
BY DEF DiskType

LEMMA LogsFinite ==
  ASSUME NEW d \in DiskType, NEW e, OldOK(d.old, d.t, e)
  PROVE  IsFiniteSet(Logs(d)) /\ Cardinality(Logs(d)) \in Nat
<1>1. Logs(d) \subseteq d.old /\ IsFiniteSet(d.old)
  BY DEF Logs, OldOK
<1>. QED  BY <1>1, FS_Subset, FS_CardinalityType

\* A change of the execute bit, or an empty current created.
LEMMA ViaSame ==
  ASSUME NEW d0, NEW e, Sound(d0, e), NEW d \in DiskType,
         d.old = d0.old, d.t = d0.t, Current(d) = Current(d0)
  PROVE  Via(d0, d, e) /\ Ends(d0, d)
<1>1. Logs(d) = Logs(d0) /\ Cardinality(Logs(d0)) \in Nat /\ Pos(d) = Pos(d0)
  BY LogsFinite DEF Logs, Sound, Pos
<1>2. Len(Current(d0)) \in Nat
  BY CurrentType DEF Sound
<1>3. Sound(d, e)
  BY <1>1 DEF Sound
<1>4. Kept(d0, d)
  BY KeptSame
<1>. QED  BY <1>1, <1>2, <1>3, <1>4, Numbers DEF Via, Moves, Ends

\* rmoldest()
LEMMA ViaRmoldest ==
  ASSUME NEW d0, NEW d, NEW e, Sound(d0, e), Via(d0, d, e)
  PROVE  Via(d0, rmoldest(d), e) /\ Ends(d0, rmoldest(d))
<1>. DEFINE S == Logs(d)
            R == IF nmax > 0 /\ Cardinality(S) > nmax THEN S \ {oldest(S)} ELSE S
            r == rmoldest(d)
<1>1. d \in DiskType /\ OldOK(d.old, d.t, e) /\ d.t \in Nat /\ d.old \subseteq OldFile
  BY DEF Via, Moves, Sound, DiskType
<1>2. /\ r = [d EXCEPT !.old = R] /\ r.old = R /\ r.t = d.t /\ r.cur = d.cur
      /\ R \subseteq S
  BY <1>1 DEF rmoldest, DiskType
<1>3. S \subseteq d.old /\ S = d.old \ {f \in d.old : f.k = "t"}
  BY DEF Logs
<1>4. OldOK(S, d.t, e)
  <2>. DEFINE D == {f \in d.old : f.k = "t"}
  <2>1. \A f \in D : f.k = "t"
    OBVIOUS
  <2>2. S = d.old \ D
    BY <1>3
  <2>. HIDE DEF D, S
  <2>3. OldOK(d.old \ D, d.t, e)
    BY <1>1, <2>1, OldDrop
  <2>. QED  BY <2>2, <2>3
<1>5. IsFiniteSet(S) /\ Cardinality(S) \in Nat
  BY <1>1, LogsFinite
<1>6. Cardinality(S) > nmax => S # {}
  BY <1>5, FS_EmptySet, Numbers
<1>7. OldOK(R, d.t, e)
  BY <1>1, <1>4, <1>6, OldGiveUp
<1>8. Logs(r) = R
  BY <1>2 DEF Logs
<1>9. r \in DiskType
  BY <1>1, <1>2, <1>3 DEF DiskType
<1>10. Current(r) = Current(d) /\ Pos(r) = Pos(d)
  BY <1>2 DEF Current, Pos
<1>11. Sound(r, e)
  BY <1>2, <1>7, <1>9, <1>10 DEF Sound, Via, Moves
<1>12. \/ R = S /\ (nmax > 0 => Cardinality(S) <= nmax)
       \/ Cardinality(R) = Cardinality(S) - 1 /\ Cardinality(S) > nmax
  <2>1. oldest(S) \in S \/ ~(Cardinality(S) > nmax)
    BY <1>1, <1>3, <1>6, Oldest
  <2>. QED  BY <1>5, <2>1, FS_RemoveElement, Numbers
<1>13. Cardinality(Logs(d0)) \in Nat
  BY LogsFinite DEF Sound
<1>. HIDE DEF S, R, r
<1>14. Cardinality(R) <= Cardinality(Logs(d0)) + 1 /\ Ends(d0, r)
  BY <1>5, <1>8, <1>12, <1>13, Numbers DEF Via, Moves, Ends, S
<1>15. \A f \in Logs(d0) : (\E g \in R : g.t = f.t) \/ Cardinality(R) >= nmax
  BY <1>5, <1>12, Numbers DEF Via, Moves, S
<1>16. r.t = d0.t \/ (\E g \in R : g.t = d0.t) \/ Cardinality(R) >= nmax
  BY <1>2, <1>5, <1>12, Numbers DEF Via, Moves, S
<1>17. Kept(d0, r)
  BY <1>2, <1>3, KeptPart DEF Via
<1>. QED  BY <1>8, <1>10, <1>11, <1>14, <1>15, <1>16, <1>17 DEF Via, Moves, r

\* current is renamed, and created again.
LEMMA ViaRenamed ==
  ASSUME NEW d0, NEW d, NEW e, Sound(d0, e), Sound(d, e), NEW k \in {"s", "u"},
         d.old = d0.old, d.t = d0.t, d.cur = d0.cur, d.cur # NoFile, Len(d.cur) > 0
  PROVE  /\ Renamed(d, k) = <<Renamed(d, k)[1], Renamed(d, k)[2]>>
         /\ Via(d0, Renamed(d, k)[1], e) /\ Via(d0, Renamed(d, k)[2], e)
         /\ Renamed(d, k)[2].cur = <<>>
<1>. DEFINE n == [t |-> d.t, k |-> k, c |-> d.cur, n |-> Len(d.cur)]
            d1 == [d EXCEPT !.cur = NoFile, !.t = @ + Len(d.cur), !.old = @ \cup {n}]
            d2 == [d1 EXCEPT !.cur = <<>>, !.x = FALSE]
<1>0. Renamed(d, k) = <<d1, d2>>
  BY DEF Renamed
<1>1. d \in DiskType /\ d.cur \in Seq(Byte) /\ d.t \in Nat \ {0} /\ d.old \subseteq OldFile
  BY DEF Sound, DiskType
<1>2. Len(d.cur) \in Nat /\ d.t + Len(d.cur) \in Nat \ {0}
  BY <1>1
<1>3. Current(d) = d.cur /\ Current(d0) = d.cur /\ Pos(d0) = d.t + Len(d.cur)
  BY DEF Current, Pos
<1>4. OldOK(d.old \cup {n}, d.t + Len(d.cur), e)
  BY <1>1, <1>3, OldAdd DEF Sound
<1>5. n \in OldFile /\ n \notin d.old /\ n.k # "t" /\ n.t = d0.t /\ n.n = Len(n.c)
  <2>1. n \in OldFile /\ n.t = d.t /\ n.k # "t" /\ n.n = Len(n.c)
    BY <1>1 DEF OldFile
  <2>2. \A f \in d.old : f.t # d.t
    BY <1>1, EndNat, SMTT(40) DEF Sound, OldOK, End
  <2>. QED  BY <2>1, <2>2
<1>6. /\ d1.cur = NoFile /\ d1.t = d.t + Len(d.cur) /\ d1.old = d.old \cup {n} /\ d1.x = d.x
      /\ d2.cur = <<>> /\ d2.t = d.t + Len(d.cur) /\ d2.old = d.old \cup {n} /\ d2.x = FALSE
  BY <1>1 DEF DiskType
<1>7. d1 \in DiskType
  BY <1>1, <1>2, <1>5 DEF DiskType
<1>8. d2 \in DiskType
  <2>. HIDE DEF d1
  <2>1. <<>> \in Seq(Byte)
    OBVIOUS
  <2>. QED  BY <1>7, <2>1, DiskSet
<1>. DEFINE L == Logs(d)
<1>9. IsFiniteSet(L) /\ Cardinality(L) \in Nat /\ Logs(d0) = L
  BY <1>1, LogsFinite DEF Sound, Logs
<1>. HIDE DEF d1, d2, n, L
<1>10. ASSUME NEW r \in {d1, d2} PROVE Via(d0, r, e)
  <2>1. r \in DiskType /\ r.old = d.old \cup {n} /\ r.t = d.t + Len(d.cur) /\ Current(r) = <<>>
    BY <1>6, <1>7, <1>8, <1>10 DEF Current
  <2>2. Pos(r) = d.t + Len(d.cur) /\ Reads(e, r.t, <<>>) /\ Len(Current(r)) = 0
    BY <1>2, <2>1 DEF Pos, Reads
  <2>3. Sound(r, e)
    BY <1>3, <1>4, <2>1, <2>2 DEF Sound, Pos
  <2>4. Logs(r) = L \cup {n}
    BY <1>5, <2>1 DEF Logs, L
  <2>5. n \notin L
    BY <1>5 DEF Logs, L
  <2>6. Cardinality(L \cup {n}) = Cardinality(L) + 1
    BY <1>9, <2>5, FS_AddElement
  <2>7. (\A f \in L : \E g \in L \cup {n} : g.t = f.t) /\ \E g \in L \cup {n} : g.t = d0.t
    BY <1>5
  <2>8. Cardinality(Logs(r)) <= Cardinality(Logs(d0)) + 1
    BY <1>9, <2>4, <2>6
  <2>9. Pos(r) = Pos(d0) /\ Len(Current(r)) <= Len(Current(d0))
    BY <1>2, <1>3, <2>2
  <2>10. Kept(d0, r)
    BY <1>5, <2>1 DEF Kept
  <2>. QED  BY <1>9, <2>3, <2>4, <2>7, <2>8, <2>9, <2>10 DEF Via, Moves
<1>. QED  BY <1>0, <1>6, <1>10

-----------------------------------------------------------------------------
(* The system calls of a step, one by one *)

Vias(trace, d0, e) == trace \in Seq(DiskType) /\ \A i \in 1..Len(trace) : Via(d0, trace[i], e)
GoodTrace(trace, d0, e) == Vias(trace, d0, e) /\ Len(trace) > 0 /\ Ends(d0, Last(trace))

LEMMA ViaDisk == \A d0, d, e : Via(d0, d, e) => Sound(d, e) /\ d \in DiskType
BY DEF Via, Moves, Sound

LEMMA ViasShort ==
  ASSUME NEW d0, NEW e, NEW a, NEW b, NEW c, Via(d0, a, e), Via(d0, b, e), Via(d0, c, e)
  PROVE  /\ Vias(<<a>>, d0, e) /\ Last(<<a>>) = a /\ Len(<<a>>) = 1
         /\ Vias(<<a, b>>, d0, e) /\ Last(<<a, b>>) = b /\ Len(<<a, b>>) = 2
         /\ Vias(<<a, b, c>>, d0, e) /\ Last(<<a, b, c>>) = c /\ Len(<<a, b, c>>) = 3
<1>1. a \in DiskType /\ b \in DiskType /\ c \in DiskType
  BY ViaDisk
<1>. QED  BY <1>1 DEF Vias, Last

LEMMA ViasJoin ==
  ASSUME NEW d0, NEW e, NEW p, NEW q, Vias(p, d0, e), Vias(q, d0, e), Len(q) > 0
  PROVE  Vias(p \o q, d0, e) /\ Last(p \o q) = Last(q) /\ Len(p \o q) > 0
<1>1. p \in Seq(DiskType) /\ q \in Seq(DiskType)
  BY DEF Vias
<1>2. p \o q \in Seq(DiskType) /\ Len(p \o q) = Len(p) + Len(q) /\ Len(p) \in Nat /\ Len(q) \in Nat
  BY <1>1
<1>3. ASSUME NEW i \in 1..Len(p \o q) PROVE Via(d0, (p \o q)[i], e)
  <2>1. CASE i <= Len(p)
    BY <1>1, <1>2, <2>1 DEF Vias
  <2>2. CASE i > Len(p)
    <3>1. i - Len(p) \in 1..Len(q) /\ (p \o q)[i] = q[i - Len(p)]
      BY <1>1, <1>2, <2>2
    <3>. QED  BY <3>1 DEF Vias
  <2>. QED  BY <1>2, <2>1, <2>2
<1>4. (p \o q)[Len(p) + Len(q)] = q[Len(q)]
  BY <1>1, <1>2
<1>. QED  BY <1>2, <1>3, <1>4, SMTT(40) DEF Vias, Last

LEMMA TraceOne ==
  ASSUME NEW d0, NEW e, Sound(d0, e)
  PROVE  Via(d0, d0, e) /\ Vias(<<d0>>, d0, e) /\ GoodTrace(<<d0>>, d0, e) /\ Last(<<d0>>) = d0
<1>1. Via(d0, d0, e) /\ Ends(d0, d0)
  BY ViaSame DEF Sound
<1>2. Vias(<<d0>>, d0, e)
  BY <1>1, ViasShort, Zenon
<1>3. Last(<<d0>>) = d0 /\ Len(<<d0>>) > 0
  BY DEF Last
<1>. QED  BY <1>1, <1>2, <1>3 DEF GoodTrace

LEMMA RmoldestKeeps ==
  ASSUME NEW d \in DiskType
  PROVE  rmoldest(d).cur = d.cur /\ rmoldest(d).t = d.t /\ rmoldest(d).x = d.x
BY DEF rmoldest, DiskType

\* Setting the execute bit.
LEMMA ViaClosed ==
  ASSUME NEW d0, NEW e, Sound(d0, e)
  PROVE  /\ Via(d0, Closed(d0), e) /\ Ends(d0, Closed(d0))
         /\ Closed(d0).old = d0.old /\ Closed(d0).t = d0.t /\ Closed(d0).cur = d0.cur /\ Closed(d0).x
<1>1. d0 \in DiskType
  BY DEF Sound
<1>2. /\ Closed(d0) \in DiskType
      /\ Closed(d0).old = d0.old /\ Closed(d0).t = d0.t /\ Closed(d0).cur = d0.cur /\ Closed(d0).x
  BY <1>1 DEF DiskType, Closed
<1>3. Current(Closed(d0)) = Current(d0)
  BY <1>2 DEF Current
<1>. QED  BY <1>2, <1>3, ViaSame

LEMMA RotateTrace ==
  ASSUME Sound(disk, emitted), ld.size # 0 => disk.cur # NoFile /\ Len(disk.cur) > 0
  PROVE  /\ GoodTrace(rotate, disk, emitted)
         /\ IF ld.size = 0 THEN Last(rotate) = disk ELSE Last(rotate).cur = <<>>
<1>1. CASE ld.size = 0
  BY <1>1, TraceOne DEF rotate
<1>2. CASE ld.size # 0
  <2>. DEFINE full == [disk EXCEPT !.x = TRUE]
              k == IF ld.processor THEN "u" ELSE "s"
              a == Renamed(full, k)[1]
              b == Renamed(full, k)[2]
  <2>1. full = Closed(disk) /\ k \in {"s", "u"}
    BY DEF Closed
  <2>2. /\ Via(disk, full, emitted) /\ Sound(full, emitted)
        /\ full.old = disk.old /\ full.t = disk.t /\ full.cur = disk.cur
    BY <2>1, ViaClosed, ViaDisk
  <2>. HIDE DEF full, k
  <2>3. Renamed(full, k) = <<a, b>> /\ Via(disk, a, emitted) /\ Via(disk, b, emitted) /\ b.cur = <<>>
    BY <1>2, <2>1, <2>2, ViaRenamed
  <2>. HIDE DEF a, b
  <2>4. Via(disk, rmoldest(b), emitted) /\ Ends(disk, rmoldest(b)) /\ rmoldest(b).cur = <<>>
    BY <2>3, ViaRmoldest, ViaDisk, RmoldestKeeps
  <2>5. rotate = <<disk, full>> \o <<a, b>> \o <<rmoldest(Last(<<a, b>>))>>
    BY <1>2, <2>3 DEF rotate, full, k
  <2>6. Last(<<a, b>>) = b
    BY DEF Last
  <2>7. Vias(<<disk, full>>, disk, emitted) /\ Vias(<<a, b>>, disk, emitted) /\ Len(<<a, b>>) > 0
    <3>1. Via(disk, disk, emitted)
      BY TraceOne, Zenon
    <3>2. Vias(<<disk, full>>, disk, emitted)
      BY <3>1, <2>2, ViasShort, Zenon
    <3>3. Vias(<<a, b>>, disk, emitted)
      BY <2>3, ViasShort, Zenon
    <3>. QED  BY <3>2, <3>3
  <2>8. Vias(<<disk, full>> \o <<a, b>>, disk, emitted)
    BY <2>7, ViasJoin
  <2>9. /\ Vias(<<rmoldest(b)>>, disk, emitted) /\ Len(<<rmoldest(b)>>) > 0
        /\ Last(<<rmoldest(b)>>) = rmoldest(b)
    <3>1. Vias(<<rmoldest(b)>>, disk, emitted)
      BY <2>4, ViasShort, Zenon
    <3>. QED  BY <3>1 DEF Last
  <2>10. Vias(rotate, disk, emitted) /\ Last(rotate) = rmoldest(b) /\ Len(rotate) > 0
    <3>. DEFINE p == <<disk, full>> \o <<a, b>>
                q == <<rmoldest(b)>>
    <3>1. rotate = p \o q
      BY <2>5, <2>6
    <3>. HIDE DEF p, q
    <3>2. Vias(p, disk, emitted) /\ Vias(q, disk, emitted) /\ Len(q) > 0 /\ Last(q) = rmoldest(b)
      BY <2>8, <2>9 DEF p, q
    <3>3. Vias(p \o q, disk, emitted) /\ Last(p \o q) = Last(q) /\ Len(p \o q) > 0
      BY <3>2, ViasJoin, Zenon
    <3>. QED  BY <3>1, <3>2, <3>3, Zenon
  <2>. QED  BY <1>2, <2>4, <2>10 DEF GoodTrace
<1>. QED  BY <1>1, <1>2

LEMMA OpenedTrace ==
  ASSUME NEW d0, NEW e, Sound(d0, e), NEW d, Sound(d, e), d.old = d0.old, d.t = d0.t, d.cur = d0.cur
  PROVE  GoodTrace(Opened(d), d0, e) /\ Last(Opened(d)).cur # NoFile
<1>0. d \in DiskType
  BY DEF Sound
<1>1. CASE d.cur # NoFile /\ d.cur # <<>> /\ ~d.x
  <2>. DEFINE a == Renamed(d, "u")[1]
              b == Renamed(d, "u")[2]
  <2>1. Len(d.cur) > 0
    BY <1>0, <1>1 DEF DiskType
  <2>2. Renamed(d, "u") = <<a, b>> /\ Via(d0, a, e) /\ Via(d0, b, e) /\ b.cur = <<>>
    BY <1>1, <2>1, ViaRenamed
  <2>. HIDE DEF a, b
  <2>3. Opened(d) = <<Head(<<a, b>>), rmoldest(Head(<<a, b>>)), rmoldest(<<a, b>>[2])>>
    BY <1>1, <2>2 DEF Opened
  <2>4. Opened(d) = <<a, rmoldest(a), rmoldest(b)>>
    BY <2>3
  <2>5. Via(d0, rmoldest(a), e) /\ Via(d0, rmoldest(b), e) /\ Ends(d0, rmoldest(b)) /\ rmoldest(b).cur = <<>>
    BY <2>2, ViaRmoldest, ViaDisk, RmoldestKeeps
  <2>6. Vias(<<a, rmoldest(a), rmoldest(b)>>, d0, e)
    BY <2>2, <2>5, ViasShort, Zenon
  <2>7. Last(<<a, rmoldest(a), rmoldest(b)>>) = rmoldest(b) /\ Len(<<a, rmoldest(a), rmoldest(b)>>) > 0
    BY DEF Last
  <2>8. <<>> # NoFile
    BY DEF NoFile
  <2>. QED  BY <2>4, <2>5, <2>6, <2>7, <2>8 DEF GoodTrace
<1>2. CASE ~(d.cur # NoFile /\ d.cur # <<>> /\ ~d.x)
  <2>. DEFINE r == [d EXCEPT !.cur = Current(d), !.x = FALSE]
  <2>1. Opened(d) = <<r>>
    BY <1>2 DEF Opened
  <2>2. Current(d) \in Seq(Byte)
    BY <1>0, CurrentType
  <2>3. r \in DiskType
    BY <1>0, <2>2, DiskSet
  <2>4. r.cur = Current(d) /\ r.old = d.old /\ r.t = d.t /\ r.cur # NoFile
    BY <1>0, <2>2, NoFileApart DEF DiskType
  <2>. HIDE DEF r
  <2>5. Current(r) = Current(d0)
    BY <2>4 DEF Current
  <2>6. Via(d0, r, e) /\ Ends(d0, r)
    BY <2>3, <2>4, <2>5, ViaSame
  <2>7. Vias(<<r>>, d0, e)
    BY <2>6, ViasShort, Zenon
  <2>8. Last(<<r>>) = r /\ Len(<<r>>) > 0
    BY DEF Last
  <2>. QED  BY <2>1, <2>4, <2>6, <2>7, <2>8 DEF GoodTrace
<1>. QED  BY <1>1, <1>2

\* A processor failed: its output is removed.
LEMMA ViaDropT ==
  ASSUME NEW d0, NEW e, Sound(d0, e), NEW t
  PROVE  /\ Via(d0, Drop(d0, t, "t"), e) /\ Ends(d0, Drop(d0, t, "t"))
         /\ Drop(d0, t, "t").cur = d0.cur /\ Drop(d0, t, "t").t = d0.t
<1>. DEFINE D == {f \in d0.old : f.t = t /\ f.k = "t"}
            d == Drop(d0, t, "t")
<1>1. d0 \in DiskType /\ OldOK(d0.old, d0.t, e) /\ d0.t \in Nat
  BY DEF Sound, DiskType
<1>2. d.old = d0.old \ D /\ d.t = d0.t /\ d.cur = d0.cur /\ d \in DiskType
  <2>1. {f \in d0.old : ~(f.t = t /\ f.k = "t")} = d0.old \ D /\ d0.old \ D \in SUBSET OldFile
    BY <1>1 DEF DiskType
  <2>. HIDE DEF D
  <2>2. d = [d0 EXCEPT !.old = d0.old \ D]
    BY <2>1 DEF Drop
  <2>. QED  BY <1>1, <2>1, <2>2 DEF DiskType
<1>3. \A f \in D : f.k = "t"
  OBVIOUS
<1>. HIDE DEF D, d
<1>4. OldOK(d.old, d.t, e)
  <2>1. OldOK(d0.old \ D, d0.t, e)
    BY <1>1, <1>3, OldDrop
  <2>. QED  BY <1>2, <2>1
<1>5. Current(d) = Current(d0) /\ Pos(d) = Pos(d0)
  BY <1>2 DEF Current, Pos
<1>6. Logs(d) = Logs(d0)
  BY <1>2, <1>3 DEF Logs
<1>7. Cardinality(Logs(d0)) \in Nat /\ Len(Current(d0)) \in Nat
  BY <1>1, LogsFinite, CurrentType
<1>8. Sound(d, e)
  BY <1>2, <1>4, <1>5 DEF Sound
<1>10. Kept(d0, d)
  BY <1>2, KeptSame
<1>9. Via(d0, d, e) /\ Ends(d0, d)
  BY <1>2, <1>5, <1>6, <1>7, <1>8, <1>10, Numbers DEF Via, Moves, Ends
<1>. QED  BY <1>2, <1>9 DEF d

LEMMA FileThere ==
  ASSUME NEW d, NEW t, NEW k, Has(d, t, k)
  PROVE  File(d, t, k) \in d.old /\ File(d, t, k).t = t /\ File(d, t, k).k = k
BY DEF Has, File

\* A processor succeeded: its output takes the place of its input.
LEMMA ProcessedTrace ==
  ASSUME Sound(disk, emitted), NEW t, Has(disk, t, "t")
  PROVE  /\ GoodTrace(Processed(t), disk, emitted)
         /\ Last(Processed(t)).cur = disk.cur /\ Last(Processed(t)).t = disk.t
<1>. DEFINE o   == File(disk, t, "t")
            d0  == Drop(disk, t, "t")
            out == [o EXCEPT !.k = "s"]
            d1  == [disk EXCEPT !.old = d0.old \cup {out}]
            d2  == Drop(d1, t, "u")
<1>0. disk \in DiskType /\ OldOK(disk.old, disk.t, emitted) /\ disk.t \in Nat \ {0} /\ disk.old \subseteq OldFile
  BY DEF Sound, DiskType
<1>1. Processed(t) = <<disk, d1, d2>>
  BY DEF Processed
<1>2. o \in disk.old /\ o.t = t /\ o.k = "t"
  BY FileThere
<1>3. PICK u \in disk.old : u.t = t /\ u.k = "u"
  BY <1>0, <1>2 DEF OldOK
<1>4. u.c = o.c
  BY <1>0, <1>2, <1>3 DEF OldOK
<1>5. out \in OldFile /\ out.t = t /\ out.k = "s" /\ out.c = u.c /\ out.n = o.n
  BY <1>0, <1>2, <1>4 DEF OldFile
<1>6. OldOK(d0.old, disk.t, emitted) /\ d0.old = {f \in disk.old : ~(f.t = t /\ f.k = "t")}
  <2>1. Sound(d0, emitted) /\ d0.t = disk.t
    BY ViaDropT, ViaDisk
  <2>2. d0.old = {f \in disk.old : ~(f.t = t /\ f.k = "t")}
    BY <1>0 DEF Drop, DiskType
  <2>. QED  BY <2>1, <2>2 DEF Sound
<1>7. u \in d0.old
  BY <1>3, <1>6
<1>. HIDE DEF o, out, d0
<1>8. OldOK(d0.old \cup {out}, disk.t, emitted)
  BY <1>0, <1>3, <1>5, <1>6, <1>7, OldCopy
<1>9. d1.old = d0.old \cup {out} /\ d1.t = disk.t /\ d1.cur = disk.cur /\ d1 \in DiskType
  BY <1>0, <1>5, <1>6, <1>8 DEF DiskType, OldOK
<1>. HIDE DEF d1
<1>10. /\ d2.old = {f \in d1.old : ~(f.t = t /\ f.k = "u")} /\ d2.t = disk.t /\ d2.cur = disk.cur
       /\ d2 \in DiskType
  BY <1>9 DEF DiskType, Drop
<1>11. OldOK({f \in d1.old : ~(f.t = out.t /\ f.k = "u")}, disk.t, emitted)
  <2>1. out \in d1.old /\ \A f \in d1.old : f.k = "t" => f.t # out.t
    BY <1>5, <1>6, <1>9
  <2>2. OldOK(d1.old, disk.t, emitted)
    BY <1>8, <1>9
  <2>. QED  BY <1>0, <1>5, <2>1, <2>2, OldDone
<1>12. OldOK(d2.old, d2.t, emitted)
  BY <1>5, <1>10, <1>11
<1>. HIDE DEF d2
<1>. DEFINE L == Logs(disk)
<1>13. IsFiniteSet(L) /\ Cardinality(L) \in Nat /\ Len(Current(disk)) \in Nat
  BY <1>0, LogsFinite, CurrentType, SMTT(40)
<1>14. Logs(d1) = L \cup {out} /\ Logs(d2) \subseteq (L \cup {out}) \ {u} /\ u \in L
  BY <1>3, <1>5, <1>6, <1>9, <1>10 DEF Logs
<1>15. \A f \in L : \E g \in Logs(d2) : g.t = f.t
  <2>1. out \in Logs(d2)
    BY <1>5, <1>9, <1>10 DEF Logs
  <2>2. \A f \in L : f \in Logs(d2) \/ f.t = t
    BY <1>6, <1>9, <1>10 DEF Logs
  <2>. QED  BY <1>5, <2>1, <2>2
<1>16. \A f \in L : \E g \in Logs(d1) : g.t = f.t
  BY <1>14
<1>. HIDE DEF L
<1>17. Cardinality(L \cup {out}) <= Cardinality(L) + 1 /\ IsFiniteSet(L \cup {out})
  <2>1. /\ IsFiniteSet(L \cup {out})
        /\ Cardinality(L \cup {out}) = IF out \in L THEN Cardinality(L) ELSE Cardinality(L) + 1
    BY <1>13, FS_AddElement, Zenon
  <2>. QED  BY <1>13, <2>1
<1>18. Cardinality((L \cup {out}) \ {u}) <= Cardinality(L) /\ IsFiniteSet((L \cup {out}) \ {u})
  <2>. DEFINE M == L \cup {out}
  <2>1. u \in M /\ IsFiniteSet(M) /\ Cardinality(M) \in Nat /\ Cardinality(M) <= Cardinality(L) + 1
    BY <1>14, <1>17, FS_CardinalityType DEF L
  <2>. HIDE DEF M
  <2>2. IsFiniteSet(M \ {u}) /\ Cardinality(M \ {u}) = Cardinality(M) - 1
    BY <2>1, FS_RemoveElement
  <2>. QED  BY <1>13, <2>1, <2>2 DEF M
<1>19. Cardinality(Logs(d2)) <= Cardinality(L) /\ Cardinality(Logs(d2)) \in Nat
  <2>. DEFINE M == (L \cup {out}) \ {u}
  <2>1. Logs(d2) \in SUBSET M /\ IsFiniteSet(M) /\ Cardinality(M) <= Cardinality(L)
    BY <1>14, <1>18 DEF L
  <2>. HIDE DEF M
  <2>2. IsFiniteSet(Logs(d2)) /\ Cardinality(Logs(d2)) <= Cardinality(M) /\ Cardinality(M) \in Nat
    BY <2>1, FS_Subset, FS_CardinalityType
  <2>3. Cardinality(Logs(d2)) \in Nat
    BY <2>2, FS_CardinalityType
  <2>. QED  BY <1>13, <2>1, <2>2, <2>3
<1>20. /\ Current(d1) = Current(disk) /\ Pos(d1) = Pos(disk)
       /\ Current(d2) = Current(disk) /\ Pos(d2) = Pos(disk)
  BY <1>9, <1>10 DEF Current, Pos
<1>21. Sound(d1, emitted) /\ Sound(d2, emitted)
  BY <1>8, <1>9, <1>10, <1>12, <1>20 DEF Sound
<1>27. Kept(disk, d1) /\ Kept(disk, d2)
  <2>1. o \in disk.old /\ o.t = out.t /\ o.c = out.c /\ o.n = out.n
    BY <1>2, <1>4, <1>5 DEF o
  <2>2. Kept(disk, d1)
    BY <1>6, <1>9, <2>1 DEF Kept
  <2>3. d2.old \subseteq d1.old
    BY <1>10
  <2>. QED  BY <2>2, <2>3, KeptPart
<1>22. Via(disk, d1, emitted)
  <2>1. Moves(disk, d1, emitted)
    BY <1>9, <1>13, <1>14, <1>16, <1>17, <1>20, <1>21, SMTT(40) DEF Moves, L
  <2>. QED  BY <1>27, <2>1 DEF Via
<1>23. Via(disk, d2, emitted)
  <2>1. Moves(disk, d2, emitted)
    BY <1>10, <1>13, <1>15, <1>19, <1>20, <1>21, SMTT(40) DEF Moves, L
  <2>. QED  BY <1>27, <2>1 DEF Via
<1>24. Ends(disk, d2)
  BY <1>19 DEF Ends, L
<1>25. Vias(<<disk, d1, d2>>, disk, emitted)
  BY <1>22, <1>23, TraceOne, ViasShort, Zenon
<1>26. Last(<<disk, d1, d2>>) = d2 /\ Len(<<disk, d1, d2>>) > 0
  BY DEF Last
<1>. QED  BY <1>1, <1>10, <1>24, <1>25, <1>26 DEF GoodTrace

-----------------------------------------------------------------------------
(* What the steps do to the log *)

\* What was put into the log e is in the directory d, being written or in the buffer.
Log(d, e, out, b) ==
  /\ Sound(d, e) /\ e \in Seq(Byte) /\ out \in Seq(Byte) /\ b \in Seq(Byte)
  /\ Reads(e, Pos(d), out) /\ Reads(e, Pos(d) + Len(out), b)
  /\ Pos(d) + Len(out) + Len(b) = Len(e) + 1

LEMMA PosNat == \A d \in DiskType : Pos(d) \in Nat \ {0} /\ Len(Current(d)) \in Nat /\ d.t \in Nat \ {0}
BY CurrentType DEF Pos, DiskType

LEMMA LogMoves ==
  ASSUME NEW d0, NEW d, NEW e, NEW out, NEW b, Log(d0, e, out, b), Moves(d0, d, e)
  PROVE  Log(d, e, out, b)
BY DEF Log, Moves

\* A crash loses what is not in the directory.
LEMMA LogCrash ==
  ASSUME NEW d0, NEW d, NEW e, NEW out, NEW b, Log(d0, e, out, b), Via(d0, d, e)
  PROVE  Log(d, SubSeq(e, 1, Len(e) - Len(out) - Len(b)), <<>>, <<>>)
<1>. DEFINE n == Len(e) - Len(out) - Len(b)
            c == SubSeq(e, 1, n)
<1>1. Sound(d, e) /\ d \in DiskType /\ Pos(d) = Pos(d0) /\ d0 \in DiskType
  BY DEF Via, Moves, Sound, Log
<1>2. e \in Seq(Byte) /\ Len(e) \in Nat /\ Len(out) \in Nat /\ Len(b) \in Nat
  BY DEF Log
<1>3. n \in 0..Len(e) /\ Pos(d) = n + 1
  BY <1>1, <1>2, PosNat DEF Log
<1>. HIDE DEF n
<1>4. c \in Seq(Byte) /\ Len(c) = n
  BY <1>2, <1>3
<1>5. d.t <= n + 1 /\ d.t \in Nat \ {0} /\ d.t + Len(Current(d)) <= n + 1 /\ Current(d) \in Seq(Byte)
  BY <1>1, <1>3, PosNat, CurrentType DEF Pos
<1>6. OldOK(d.old, d.t, c)
  BY <1>1, <1>2, <1>3, <1>5, OldLess DEF Sound
<1>7. Reads(c, d.t, Current(d))
  BY <1>1, <1>2, <1>3, <1>5, ReadsLess DEF Sound
<1>8. Sound(d, c)
  BY <1>1, <1>3, <1>4, <1>6, <1>7 DEF Sound
<1>9. <<>> \in Seq(Byte) /\ Len(<<>>) = 0 /\ \A p : Reads(c, p, <<>>)
  BY DEF Reads
<1>. HIDE DEF c
<1>10. Log(d, c, <<>>, <<>>)
  BY <1>1, <1>3, <1>4, <1>8, <1>9, PosNat DEF Log
<1>. QED  BY <1>10 DEF c, n

\* Bytes are put into the buffer.
LEMMA LogEmit ==
  ASSUME NEW d, NEW e, NEW out, NEW b, Log(d, e, out, b), NEW w \in Seq(Byte)
  PROVE  Log(d, e \o w, out, b \o w)
<1>1. /\ e \in Seq(Byte) /\ out \in Seq(Byte) /\ b \in Seq(Byte) /\ Sound(d, e)
      /\ d \in DiskType /\ Pos(d) \in Nat \ {0} /\ d.t \in Nat \ {0} /\ Current(d) \in Seq(Byte)
  BY PosNat, CurrentType DEF Log, Sound
<1>2. Len(e) \in Nat /\ Len(out) \in Nat /\ Len(b) \in Nat /\ Len(w) \in Nat /\ Len(Current(d)) \in Nat
  BY <1>1
<1>3. /\ e \o w \in Seq(Byte) /\ Len(e \o w) = Len(e) + Len(w)
      /\ b \o w \in Seq(Byte) /\ Len(b \o w) = Len(b) + Len(w)
  BY <1>1
<1>4. Pos(d) + Len(out) + Len(b) = Len(e) + 1 /\ Pos(d) = d.t + Len(Current(d))
  BY DEF Log, Pos
<1>5. OldOK(d.old, d.t, e \o w)
  <2>1. d.t <= Len(e) + 1
    BY <1>1, <1>2, <1>4
  <2>. QED  BY <1>1, <2>1, OldMore DEF Sound
<1>6. Reads(e \o w, d.t, Current(d))
  BY <1>1, <1>2, <1>4, ReadsMore DEF Sound
<1>7. Reads(e \o w, Pos(d), out)
  <2>1. Pos(d) + Len(out) <= Len(e) + 1 /\ Reads(e, Pos(d), out)
    BY <1>1, <1>2, <1>4 DEF Log
  <2>. QED  BY <1>1, <2>1, ReadsMore
<1>. DEFINE q == Pos(d) + Len(out)
<1>8. q \in Nat \ {0} /\ q + Len(b) = Len(e) + 1
  BY <1>1, <1>2, <1>4, SMTT(40)
<1>. HIDE DEF q
<1>9. Reads(e \o w, q, b)
  <2>1. q + Len(b) <= Len(e) + 1 /\ Reads(e, q, b)
    BY <1>2, <1>8 DEF Log, q
  <2>. QED  BY <1>1, <1>8, <2>1, ReadsMore
<1>10. Reads(e \o w, q + Len(b), w)
  BY <1>1, <1>8, ReadsNew
<1>11. Reads(e \o w, q, b \o w)
  BY <1>1, <1>8, <1>9, <1>10, ReadsJoin
<1>12. Sound(d, e \o w)
  BY <1>1, <1>2, <1>3, <1>5, <1>6 DEF Sound
<1>13. Pos(d) + Len(out) + Len(b \o w) = Len(e \o w) + 1
  <2>. DEFINE p == Pos(d)
              o == Len(out)
              m == Len(b)
              k == Len(w)
              l == Len(e)
  <2>1. p \in Nat /\ o \in Nat /\ m \in Nat /\ k \in Nat /\ l \in Nat
    BY <1>1, <1>2
  <2>2. p + o + m = l + 1
    BY <1>4
  <2>. HIDE DEF p, o, m, k, l
  <2>3. p + o + (m + k) = (l + k) + 1
    BY <2>1, <2>2
  <2>4. Len(b \o w) = m + k /\ Len(e \o w) = l + k
    BY <1>3 DEF m, k, l
  <2>. QED  BY <2>3, <2>4 DEF p, o
<1>. QED  BY <1>1, <1>3, <1>7, <1>11, <1>12, <1>13 DEF Log, q

\* The buffer is flushed.
LEMMA LogFlush ==
  ASSUME NEW d, NEW e, NEW b, Log(d, e, <<>>, b)
  PROVE  Log(d, e, b, <<>>)
<1>. DEFINE p == Pos(d)
            n == Len(b)
<1>1. d \in DiskType /\ p \in Nat /\ b \in Seq(Byte) /\ n \in Nat
  BY PosNat DEF Log, Sound
<1>2. Len(<<>>) = 0 /\ <<>> \in Seq(Byte)
  OBVIOUS
<1>3. p + Len(<<>>) = p /\ p + Len(<<>>) + n = p + n + Len(<<>>)
  <2>. HIDE DEF p, n
  <2>. QED  BY <1>1, <1>2
<1>4. \A q : Reads(e, q, <<>>)
  BY DEF Reads
<1>. QED  BY <1>1, <1>2, <1>3, <1>4 DEF Log

\* n of the bytes being written are appended to current.
LEMMA LogWrite ==
  ASSUME NEW d, NEW e, NEW out, NEW b, Log(d, e, out, b), NEW n \in 0..Len(out), d.cur # NoFile
  PROVE  Log([d EXCEPT !.cur = @ \o SubSeq(out, 1, n)], e, SubSeq(out, n + 1, Len(out)), b)
<1>. DEFINE w == SubSeq(out, 1, n)
            o == SubSeq(out, n + 1, Len(out))
            r == [d EXCEPT !.cur = @ \o w]
            p == Pos(d)
<1>1. /\ e \in Seq(Byte) /\ out \in Seq(Byte) /\ b \in Seq(Byte) /\ Sound(d, e) /\ d \in DiskType
      /\ p \in Nat \ {0} /\ d.t \in Nat \ {0} /\ d.cur \in Seq(Byte) /\ Current(d) = d.cur
      /\ p = d.t + Len(d.cur)
  BY PosNat, CurrentType DEF Log, Sound, Pos
<1>2. /\ w \in Seq(Byte) /\ Len(w) = n /\ o \in Seq(Byte) /\ Len(o) = Len(out) - n /\ Len(out) \in Nat
      /\ n \in Nat /\ Len(b) \in Nat /\ Len(e) \in Nat
  BY <1>1
<1>3. Reads(e, p, w) /\ Reads(e, p + n, o)
  BY <1>1, ReadsSplit DEF Log
<1>. HIDE DEF w, o
<1>4. d.cur \o w \in Seq(Byte) /\ Len(d.cur \o w) = Len(d.cur) + n
  <2>1. \A a, c \in Seq(Byte) : a \o c \in Seq(Byte) /\ Len(a \o c) = Len(a) + Len(c)
    OBVIOUS
  <2>. QED  BY <1>1, <1>2, <2>1, Zenon
<1>5. r \in DiskType /\ r.cur = d.cur \o w /\ r.old = d.old /\ r.t = d.t
  BY <1>1, <1>4 DEF DiskType
<1>. HIDE DEF r
<1>6. Current(r) = d.cur \o w
  BY <1>4, <1>5, NoFileApart DEF Current
<1>7. Reads(e, d.t, d.cur \o w)
  <2>1. Reads(e, d.t, d.cur) /\ Reads(e, d.t + Len(d.cur), w)
    BY <1>1, <1>3 DEF Sound
  <2>. QED  BY <1>1, <1>2, <2>1, ReadsJoin
<1>8. Pos(r) = p + n
  BY <1>1, <1>2, <1>4, <1>5, <1>6, SMTT(40) DEF Pos
<1>9. p + Len(out) + Len(b) = Len(e) + 1 /\ Reads(e, p + Len(out), b)
  BY DEF Log
<1>. HIDE DEF p
<1>10. p + n <= Len(e) + 1 /\ p + n + Len(o) = p + Len(out)
  <2>1. p \in Nat /\ n <= Len(out)
    BY <1>1, <1>2
  <2>2. p + Len(out) + Len(b) = Len(e) + 1
    BY <1>9
  <2>. QED  BY <1>2, <2>1, <2>2, SMTT(40)
<1>11. Sound(r, e)
  BY <1>1, <1>5, <1>6, <1>7, <1>8, <1>10 DEF Sound
<1>12. Log(r, e, o, b)
  BY <1>1, <1>2, <1>3, <1>8, <1>9, <1>10, <1>11 DEF Log
<1>. QED  BY <1>12 DEF r, o, w

\* The oldest file is given up for lack of space.
LEMMA LogGiveUp ==
  ASSUME NEW d, NEW e, NEW out, NEW b, Log(d, e, out, b), d.old # {}
  PROVE  /\ Log([d EXCEPT !.old = @ \ {oldest(@)}], e, out, b)
         /\ Cardinality(Logs([d EXCEPT !.old = @ \ {oldest(@)}])) <= Cardinality(Logs(d))
         /\ Kept(d, [d EXCEPT !.old = @ \ {oldest(@)}])
<1>. DEFINE S == d.old \ {oldest(d.old)}
            r == [d EXCEPT !.old = S]
<1>1. d \in DiskType /\ OldOK(d.old, d.t, e) /\ d.t \in Nat
  BY DEF Log, Sound, DiskType
<1>2. OldOK(S, d.t, e) /\ S \subseteq d.old
  BY <1>1, OldGiveUp
<1>. HIDE DEF S
<1>3. r \in DiskType /\ r.old = S /\ r.t = d.t /\ r.cur = d.cur
  BY <1>1, <1>2 DEF DiskType
<1>. HIDE DEF r
<1>4. Current(r) = Current(d) /\ Pos(r) = Pos(d)
  BY <1>3 DEF Current, Pos
<1>5. Sound(r, e)
  BY <1>2, <1>3, <1>4 DEF Sound, Log
<1>6. Log(r, e, out, b)
  BY <1>4, <1>5 DEF Log
<1>7. Logs(r) \in SUBSET Logs(d)
  BY <1>2, <1>3 DEF Logs
<1>8. IsFiniteSet(Logs(d))
  BY <1>1, LogsFinite
<1>9. Cardinality(Logs(r)) <= Cardinality(Logs(d))
  BY <1>7, <1>8, FS_Subset
<1>10. Kept(d, r)
  BY <1>2, <1>3, KeptSame
<1>. QED  BY <1>6, <1>9, <1>10 DEF r, S

\* The processor writes its output, all of it or a part.
LEMMA WrittenMoves ==
  ASSUME NEW d, NEW e, Sound(d, e), NEW t, Has(d, t, "u"), NEW m \in Nat
  PROVE  /\ Moves(d, Written(d, t, m), e) /\ Ends(d, Written(d, t, m))
         /\ Written(d, t, m).cur = d.cur /\ Written(d, t, m).t = d.t
         /\ \A g \in Written(d, t, m).old :
              g \in d.old \/ (g.t = t /\ g.c = File(d, t, "u").c /\ g.n = m)
<1>. DEFINE u == File(d, t, "u")
            d0 == Drop(d, t, "t")
            n == [t |-> t, k |-> "t", c |-> u.c, n |-> m]
            r == [d EXCEPT !.old = d0.old \cup {n}]
<1>0. d \in DiskType /\ d.t \in Nat \ {0} /\ d.old \subseteq OldFile
  BY DEF Sound, DiskType
<1>1. u \in d.old /\ u.t = t /\ u.k = "u"
  BY FileThere
<1>2. n \in OldFile /\ n.t = u.t /\ n.c = u.c /\ n.k = "t" /\ n.n = m
  BY <1>0, <1>1 DEF OldFile
<1>3. OldOK(d0.old, d.t, e) /\ d0.old = {f \in d.old : ~(f.t = t /\ f.k = "t")}
  <2>1. Sound(d0, e) /\ d0.t = d.t
    BY ViaDropT, ViaDisk
  <2>2. d0.old = {f \in d.old : ~(f.t = t /\ f.k = "t")}
    BY <1>0 DEF Drop, DiskType
  <2>. QED  BY <2>1, <2>2 DEF Sound
<1>4. u \in d0.old
  BY <1>1, <1>3
<1>. HIDE DEF u, n, d0
<1>5. OldOK(d0.old \cup {n}, d.t, e)
  BY <1>0, <1>1, <1>2, <1>3, <1>4, OldCopy
<1>6. r \in DiskType /\ r.old = d0.old \cup {n} /\ r.t = d.t /\ r.cur = d.cur
  BY <1>0, <1>5 DEF DiskType, OldOK
<1>. HIDE DEF r
<1>7. Logs(r) = Logs(d)
  BY <1>2, <1>3, <1>6 DEF Logs
<1>8. Current(r) = Current(d) /\ Pos(r) = Pos(d)
  BY <1>6 DEF Current, Pos
<1>9. Sound(r, e)
  BY <1>5, <1>6, <1>8 DEF Sound
<1>10. Cardinality(Logs(d)) \in Nat /\ Len(Current(d)) \in Nat
  BY <1>0, LogsFinite, CurrentType, SMTT(40) DEF Sound
<1>11. Moves(d, r, e) /\ Ends(d, r)
  BY <1>6, <1>7, <1>8, <1>9, <1>10, Numbers, SMTT(40) DEF Moves, Ends
<1>12. Written(d, t, m) = r
  BY DEF Written, r, n, d0, u
<1>13. \A g \in r.old : g \in d.old \/ (g.t = t /\ g.c = u.c /\ g.n = m)
  BY <1>1, <1>2, <1>3, <1>6
<1>. QED  BY <1>6, <1>11, <1>12, <1>13 DEF u

\* What a processor creates when it is not killed is whole.
LEMMA ViaWritten ==
  ASSUME NEW d, NEW e, Sound(d, e), NEW t, Has(d, t, "u")
  PROVE  LET r == Written(d, t, Len(File(d, t, "u").c))
         IN  Via(d, r, e) /\ Ends(d, r) /\ r.cur = d.cur /\ r.t = d.t
<1>. DEFINE m == Len(File(d, t, "u").c)
            r == Written(d, t, m)
<1>1. m \in Nat
  BY FileThere DEF Sound, DiskType, OldFile
<1>. HIDE DEF m
<1>2. /\ Moves(d, r, e) /\ Ends(d, r) /\ r.cur = d.cur /\ r.t = d.t
      /\ \A g \in r.old : g \in d.old \/ (g.c = File(d, t, "u").c /\ g.n = m)
  BY <1>1, WrittenMoves, SMTT(40)
<1>3. Kept(d, r)
  BY <1>2 DEF Kept, m
<1>. QED  BY <1>2, <1>3 DEF Via, m

=============================================================================
