---------------------------- MODULE EditorProofs ----------------------------
(***************************************************************************)
(* The entry editor keeps text, cursor and screen in agreement, for every  *)
(* text, every size of the screen and of the buffer, and every sequence of *)
(* keys and clicks.                                                        *)
(***************************************************************************)
EXTENDS Editor, FiniteSetTheorems, WellFoundedInduction, SequenceTheorems, TLAPS

-----------------------------------------------------------------------------
(* The inductive invariant. *)
CellRec == [x : Nat, y : Nat, i : Nat]
DrawRec == [i : Nat, line : Nat, lo : Nat, rows : Nat, tab : Nat, early : BOOLEAN,
            shown : BOOLEAN, cx : Nat, cy : Nat, x : Nat, y : Nat, cells : Seq(CellRec)]

(* a is drawn before b: in a row above, or further left in the same row. *)
Before(a, b) == a.y < b.y \/ (a.y = b.y /\ a.x < b.x)

(* Cells are mapped in the order in which they are drawn, none twice, and  *)
(* each to an offset of the text or its terminator.                        *)
CellsSound(c) ==
  /\ c \in Seq(CellRec)
  /\ \A k \in 1 .. Len(c) : c[k].i <= Len(buffer)
  /\ \A j, k \in 1 .. Len(c) : j < k => Before(c[j], c[k])

(* The cursor was drawn in a mapped cell that shows its offset. *)
CursorCell(s) ==
  \E k \in 1 .. Len(s.cells) : s.cells[k] = [x |-> s.cx, y |-> s.cy, i |-> cursor_offset]

(* A refresh pass: it is in the text, the pending spaces are those of a    *)
(* tab, and every mapped cell is before the position.                      *)
Drawn(s) ==
  /\ s \in DrawRec /\ s.i <= Len(buffer) /\ CellsSound(s.cells)
  /\ s.tab # 0 => At(buffer, s.i) = "t"
  /\ \A k \in 1 .. Len(s.cells) : Before(s.cells[k], s)

(* Between two cells nothing is printed early, and a cursor that was drawn *)
(* is in a mapped cell.                                                    *)
BetweenCells(s) == Drawn(s) /\ ~s.early /\ (s.shown => CursorCell(s))

(* On a cell, the cursor may be drawn before the cell is mapped. *)
OnCell(s) ==
  /\ Drawn(s)
  /\ s.early /\ s.i = cursor_offset => s.shown
  /\ s.shown => \/ CursorCell(s)
                \/ ~s.early /\ Visible(s) /\ s.i = cursor_offset /\ s.cx = s.x /\ s.cy = s.y

EdInv ==
  /\ buffer \in Seq(EditorChar) /\ Len(buffer) < EDITOR_MAX_BUFFER_SIZE
  /\ cursor_offset \in 0 .. Len(buffer) /\ window_offset \in Int
  /\ edpc \in {"draw", "input", "booted", "discarded"} /\ keys \in Nat
  /\ edpc = "draw" => BetweenCells(draw)
  /\ edpc = "input" => CellsSound(draw.cells) /\ CursorCell(draw)

-----------------------------------------------------------------------------
(* Least and greatest members. *)
LEMMA NatLeast ==
  ASSUME NEW T, T \subseteq Nat, T # {}
  PROVE  \E m \in T : \A n \in T : m <= n
<1>1. PICK m \in T : \A n \in T : ~(<<n, m>> \in OpToRel(<, Nat))
  BY NatLessThanWellFounded, WFMin, Zenon
<1>2. OpToRel(<, Nat) = {p \in Nat \X Nat : p[1] < p[2]}
  BY Zenon DEF OpToRel
<1>3. \A n, k \in Nat : n < k => <<n, k>> \in {p \in Nat \X Nat : p[1] < p[2]}
  OBVIOUS
<1>4. \A n \in T : ~(n < m)
  BY <1>1, <1>2, <1>3, Zenon
<1>5. \A n, k \in Nat : ~(n < k) => k <= n
  OBVIOUS
<1>6. \A n \in T : m <= n
  BY <1>4, <1>5, Zenon
<1>. QED  BY <1>6, Zenon

LEMMA MinFact ==
  ASSUME NEW T, T \subseteq Nat, T # {}
  PROVE  Min(T) \in T /\ \A n \in T : Min(T) <= n
<1>1. \E m \in T : \A n \in T : m <= n
  BY NatLeast
<1>. QED  BY <1>1 DEF Min

LEMMA MaxFact ==
  ASSUME NEW T, T \subseteq Nat, T # {}, NEW c \in Nat, \A n \in T : n <= c
  PROVE  Max(T) \in T /\ \A n \in T : Max(T) >= n
<1>. DEFINE U == {c - n : n \in T}
<1>1. U \subseteq Nat /\ U # {}
  OBVIOUS
<1>2. PICK u \in U : \A v \in U : u <= v
  BY <1>1, NatLeast
<1>3. PICK m \in T : u = c - m
  OBVIOUS
<1>4. \A n \in T : m >= n
  <2>1. TAKE n \in T
  <2>2. c - n \in U
    OBVIOUS
  <2>3. u <= c - n
    BY <1>2, <2>2
  <2>. QED  BY <1>3, <2>3
<1>5. \E x \in T : \A n \in T : x >= n
  BY <1>4
<1>. QED  BY <1>5 DEF Max

LEMMA PairFact ==
  ASSUME NEW a \in Int, NEW b \in Int
  PROVE  /\ Min({a, b}) = IF a <= b THEN a ELSE b
         /\ Max({a, b}) = IF a >= b THEN a ELSE b
<1>1. \E x \in {a, b} : \A y \in {a, b} : x <= y
  OBVIOUS
<1>2. \E x \in {a, b} : \A y \in {a, b} : x >= y
  OBVIOUS
<1>3. Min({a, b}) \in {a, b} /\ \A y \in {a, b} : Min({a, b}) <= y
  BY <1>1 DEF Min
<1>4. Max({a, b}) \in {a, b} /\ \A y \in {a, b} : Max({a, b}) >= y
  BY <1>2 DEF Max
<1>. QED  BY <1>3, <1>4

-----------------------------------------------------------------------------
(* Lines. *)
LEMMA LineStartsFact ==
  ASSUME NEW b \in Seq(EditorChar)
  PROVE  /\ LineStarts(b) \subseteq 0 .. Len(b) /\ 0 \in LineStarts(b)
         /\ \A j \in 0 .. Len(b) : At(b, j) = "0" <=> j = Len(b)
         /\ \A j \in 0 .. Len(b) : At(b, j) = "n" => j + 1 \in LineStarts(b)
         /\ \A s \in LineStarts(b) : s # 0 => At(b, s - 1) = "n"
<1>1. Len(b) \in Nat /\ \A j \in 1 .. Len(b) : b[j] \in {"x", "n", "t"}
  BY DEF EditorChar
<1>. QED  BY <1>1 DEF LineStarts, At

(* The line an offset is in starts at the last start up to the offset. *)
LEMMA OffsetFact ==
  ASSUME NEW b \in Seq(EditorChar), NEW i \in 0 .. Len(b)
  PROVE  /\ get_line_offset(i, b) \in LineStarts(b) /\ get_line_offset(i, b) \in 0 .. i
         /\ \A s \in LineStarts(b) : s <= i => s <= get_line_offset(i, b)
<1>. DEFINE T == {s \in LineStarts(b) : s <= i}
<1>1. T \subseteq Nat /\ T # {} /\ i \in Nat /\ \A n \in T : n <= i
  BY LineStartsFact
<1>2. Max(T) \in T /\ \A n \in T : Max(T) >= n
  <2>. HIDE DEF T
  <2>. QED  BY <1>1, MaxFact
<1>3. Max(T) = get_line_offset(i, b)
  BY DEF get_line_offset
<1>4. \A n \in T : n \in Nat
  BY <1>1
<1>. QED  BY <1>2, <1>3, <1>4, LineStartsFact

(* The rest of a line is up to the next start, or to the end of the text. *)
LEMMA LengthFact ==
  ASSUME NEW b \in Seq(EditorChar), NEW i \in 0 .. Len(b)
  PROVE  LET l == get_line_length(i, b) IN
         /\ l \in 0 .. Len(b) - i
         /\ i + l # Len(b) => i + l + 1 \in LineStarts(b)
         /\ \A s \in LineStarts(b) : s <= i \/ s > i + l
<1>. DEFINE T == {j \in i .. Len(b) : At(b, j) \in {"n", "0"}}
            m == Min(T)
            l == get_line_length(i, b)
<1>1. Len(b) \in T /\ T \subseteq Nat
  BY LineStartsFact
<1>2. m \in T /\ \A n \in T : m <= n
  <2>. HIDE DEF T
  <2>. QED  BY <1>1, MinFact
<1>3. l = m - i
  BY DEF get_line_length
<1>4. l \in 0 .. Len(b) - i /\ i + l = m /\ m \in i .. Len(b)
  BY <1>2, <1>3
<1>5. m # Len(b) => m + 1 \in LineStarts(b)
  BY <1>2, <1>4, LineStartsFact
<1>6. ASSUME NEW s \in LineStarts(b), s > i, s <= m
      PROVE  FALSE
  <2>1. s \in Nat /\ s \in 1 .. Len(b) /\ s - 1 \in i .. Len(b)
    BY <1>6, <1>4, LineStartsFact
  <2>2. At(b, s - 1) = "n"
    BY <2>1, LineStartsFact
  <2>3. s - 1 \in T
    BY <2>1, <2>2
  <2>. QED  BY <2>1, <2>3, <1>2, <1>6, <1>4
<1>7. \A s \in LineStarts(b) : s \in Nat
  BY LineStartsFact
<1>. HIDE DEF T, m, l
<1>8. \A s \in LineStarts(b) : s <= i \/ s > m
  BY <1>6, <1>7, <1>4
<1>. QED  BY <1>4, <1>5, <1>8 DEF l

UpTo(i) == {s \in LineStarts(buffer) : s <= i}

LEMMA CountFact ==
  ASSUME buffer \in Seq(EditorChar), NEW i \in 0 .. Len(buffer)
  PROVE  /\ IsFiniteSet(UpTo(i)) /\ Cardinality(UpTo(i)) \in Nat \ {0}
         /\ LineOf(i) = Cardinality(UpTo(i)) - 1
         /\ \A j \in 0 .. Len(buffer) : i <= j => Cardinality(UpTo(i)) <= Cardinality(UpTo(j))
<1>1. \A j \in 0 .. Len(buffer) : UpTo(j) \in SUBSET (0 .. Len(buffer)) /\ 0 \in UpTo(j)
  BY LineStartsFact DEF UpTo
<1>2. IsFiniteSet(0 .. Len(buffer))
  BY FS_Interval
<1>3. \A j \in 0 .. Len(buffer) :
        /\ IsFiniteSet(UpTo(j))
        /\ \A T \in SUBSET UpTo(j) : Cardinality(T) <= Cardinality(UpTo(j))
  <2>1. TAKE j \in 0 .. Len(buffer)
  <2>2. IsFiniteSet(UpTo(j))
    BY <1>1, <1>2, FS_Subset
  <2>. QED  BY <2>2, FS_Subset
<1>4. Cardinality(UpTo(i)) \in Nat \ {0}
  BY <1>1, <1>3, FS_CardinalityType, FS_EmptySet
<1>5. \A j \in 0 .. Len(buffer) : i <= j => UpTo(i) \in SUBSET UpTo(j)
  <2>1. \A s \in LineStarts(buffer) : s \in Nat
    BY LineStartsFact
  <2>. QED  BY <2>1 DEF UpTo
<1>6. LineOf(i) = Cardinality(UpTo(i)) - 1
  BY DEF LineOf, UpTo
<1>. QED  BY <1>3, <1>4, <1>5, <1>6

(* Down: to the next line, no further right than its end; at the last      *)
(* line, to the end of the text.                                           *)
LEMMA DownFact ==
  ASSUME buffer \in Seq(EditorChar), NEW i \in 0 .. Len(buffer)
  PROVE  LET d == get_next_line(i, buffer)
             o == get_line_offset(i, buffer)
             n == i + get_line_length(i, buffer) + 1
         IN /\ d \in i .. Len(buffer)
            /\ n > Len(buffer) => d = Len(buffer) /\ UpTo(d) = UpTo(i)
            /\ n <= Len(buffer) =>
                 /\ n \in LineStarts(buffer) /\ n \in 1 .. d /\ d <= n + (i - o)
                 /\ UpTo(d) = UpTo(i) \cup {n} /\ n \notin UpTo(i)
                 /\ get_line_offset(d, buffer) = n
<1>. DEFINE b == buffer
            o == get_line_offset(i, b)
            l == get_line_length(i, b)
            n == i + l + 1
            k == get_line_length(n, b)
            d == get_next_line(i, b)
<1>1. Len(b) \in Nat /\ o \in 0 .. i /\ l \in 0 .. Len(b) - i
  BY OffsetFact, LengthFact
<1>2. \A s \in LineStarts(b) : s \in 0 .. Len(b) /\ (s <= i \/ s > i + l)
  BY LengthFact, LineStartsFact
<1>3. d = IF n > Len(b) THEN n - 1 ELSE n + Min({i - o, k})
  BY DEF get_next_line
<1>4. CASE n > Len(b)
  <2>1. d = Len(b)
    BY <1>1, <1>3, <1>4
  <2>2. UpTo(d) = UpTo(i)
    BY <2>1, <1>1, <1>2, <1>4 DEF UpTo
  <2>3. d \in i .. Len(b) /\ ~(n <= Len(b))
    BY <2>1, <1>1, <1>4
  <2>. QED  BY <2>1, <2>2, <2>3, <1>4, Zenon
<1>5. CASE n <= Len(b)
  <2>1. n \in LineStarts(b) /\ n \in 0 .. Len(b)
    BY <1>1, <1>5, LengthFact
  <2>2. k \in 0 .. Len(b) - n /\ \A s \in LineStarts(b) : s <= n \/ s > n + k
    BY <2>1, LengthFact
  <2>. HIDE DEF k
  <2>3. d \in n .. n + k /\ d <= n + (i - o)
    <3>1. i - o \in Int /\ k \in Int
      BY <1>1, <2>2
    <3>2. Min({i - o, k}) = IF i - o <= k THEN i - o ELSE k
      BY <3>1, PairFact
    <3>. HIDE DEF o, l, d
    <3>. QED  BY <1>1, <1>3, <1>5, <2>2, <3>2
  <2>4. d \in 0 .. Len(b)
    BY <2>1, <2>2, <2>3, <1>1, SMTT(40)
  <2>. HIDE DEF d, l, o
  <2>5. UpTo(d) = UpTo(i) \cup {n} /\ n \notin UpTo(i)
    <3>1. \A s \in LineStarts(b) : s <= d <=> s <= i \/ s = n
      BY <1>1, <1>2, <2>1, <2>2, <2>3
    <3>2. ~(n <= i)
      BY <1>1
    <3>. HIDE DEF n
    <3>. QED  BY <2>1, <3>1, <3>2 DEF UpTo
  <2>6. get_line_offset(d, b) = n
    <3>1. /\ get_line_offset(d, b) \in LineStarts(b) /\ get_line_offset(d, b) \in 0 .. d
          /\ \A s \in LineStarts(b) : s <= d => s <= get_line_offset(d, b)
      BY <2>4, OffsetFact
    <3>. QED  BY <3>1, <2>1, <2>2, <2>3, <1>1
  <2>7. n \in 1 .. d /\ d \in i .. Len(b)
    BY <1>1, <2>1, <2>3, <2>4
  <2>. QED  BY <1>5, <2>1, <2>3, <2>5, <2>6, <2>7, <1>1 DEF d, l, o
<1>. HIDE DEF l, d, o, k
<1>6. n > Len(b) \/ n <= Len(b)
  BY <1>1
<1>. QED  BY <1>4, <1>5, <1>6 DEF l, d, o

(* Up: to the line before, no further right than its end; at the first     *)
(* line, to its start.                                                     *)
LEMMA UpFact ==
  ASSUME buffer \in Seq(EditorChar), NEW i \in 0 .. Len(buffer)
  PROVE  LET o == get_line_offset(i, buffer)
             p == get_line_offset(o - 1, buffer)
             u == get_prev_line(i, buffer)
         IN /\ u \in 0 .. i
            /\ o = 0 => u = 0 /\ UpTo(u) = UpTo(i)
            /\ o # 0 =>
                 /\ UpTo(i) = UpTo(u) \cup {o} /\ o \notin UpTo(u)
                 /\ i - o <= get_line_length(p, buffer) => u = p + (i - o)
<1>. DEFINE b == buffer
            o == get_line_offset(i, b)
            p == get_line_offset(o - 1, b)
            k == get_line_length(p, b)
            u == get_prev_line(i, b)
<1>1. Len(b) \in Nat /\ o \in 0 .. i /\ i \in 0 .. Len(b)
  BY OffsetFact
<1>2. /\ o \in LineStarts(b)
      /\ \A s \in LineStarts(b) : s \in 0 .. Len(b) /\ (s <= i => s <= o)
  BY OffsetFact, LineStartsFact
<1>3. u = IF o = 0 THEN 0 ELSE p + Min({i - o, k})
  BY DEF get_prev_line
<1>4. CASE o = 0
  <2>1. u = 0
    BY <1>3, <1>4
  <2>2. UpTo(u) = UpTo(i)
    <3>1. \A s \in LineStarts(b) : s <= 0 <=> s <= i
      BY <1>1, <1>2, <1>4
    <3>. QED  BY <2>1, <3>1 DEF UpTo
  <2>3. u \in 0 .. i
    BY <2>1, <1>1
  <2>. QED  BY <2>1, <2>2, <2>3, <1>4, Zenon
<1>5. CASE o # 0
  <2>1. o - 1 \in 0 .. Len(b)
    BY <1>1, <1>5
  <2>2. /\ p \in LineStarts(b) /\ p \in 0 .. o - 1
        /\ \A s \in LineStarts(b) : s <= o - 1 => s <= p
    <3>. HIDE DEF o
    <3>. QED  BY <2>1, OffsetFact
  <2>3. p \in 0 .. Len(b)
    BY <2>1, <2>2
  <2>4. k \in 0 .. Len(b) - p /\ \A s \in LineStarts(b) : s <= p \/ s > p + k
    <3>. HIDE DEF p
    <3>. QED  BY <2>3, LengthFact
  <2>5. Min({i - o, k}) = IF i - o <= k THEN i - o ELSE k
    <3>1. i - o \in Int /\ k \in Int
      BY <1>1, <2>4
    <3>. QED  BY <3>1, PairFact
  <2>. HIDE DEF k, p, o, u
  <2>6. u \in p .. p + k /\ (i - o <= k => u = p + (i - o))
    BY <1>1, <1>3, <1>5, <2>2, <2>4, <2>5
  <2>7. o > p + k
    BY <1>1, <1>2, <2>2, <2>4
  <2>8. UpTo(i) = UpTo(u) \cup {o} /\ o \notin UpTo(u)
    <3>1. \A s \in LineStarts(b) : s <= i <=> s <= u \/ s = o
      BY <1>1, <1>2, <2>2, <2>3, <2>4, <2>6, <2>7
    <3>2. ~(o <= u)
      BY <1>1, <2>3, <2>4, <2>6, <2>7
    <3>. QED  BY <1>2, <3>1, <3>2 DEF UpTo
  <2>9. u \in 0 .. i
    BY <1>1, <2>3, <2>4, <2>6, <2>7
  <2>. QED  BY <1>5, <2>6, <2>8, <2>9, Zenon DEF k, p, o, u
<1>. QED  BY <1>4, <1>5, Zenon

LEMMA LinesMove ==
  ASSUME buffer \in Seq(EditorChar)
  PROVE  OneLineMoves
<1>. DEFINE b == buffer
<1>1. SUFFICES ASSUME NEW i \in 0 .. Len(b)
               PROVE  LET d == get_next_line(i, b)
                      IN /\ LineOf(d) = Min({LineOf(i) + 1, LineOf(Len(b))})
                         /\ LineOf(get_prev_line(i, b)) = Max({LineOf(i) - 1, 0})
                         /\ d - get_line_offset(d, b) = i - get_line_offset(i, b) /\ d > i =>
                              get_prev_line(d, b) = i
  BY DEF OneLineMoves, buflen
<1>. DEFINE d == get_next_line(i, b)
            u == get_prev_line(i, b)
            o == get_line_offset(i, b)
            l == get_line_length(i, b)
            n == i + l + 1
            C(j) == Cardinality(UpTo(j))
<1>2. Len(b) \in Nat /\ d \in i .. Len(b) /\ u \in 0 .. i /\ o \in 0 .. i /\ l \in 0 .. Len(b) - i
  BY DownFact, UpFact, OffsetFact, LengthFact
<1>3. \A j \in 0 .. Len(b) :
        /\ IsFiniteSet(UpTo(j)) /\ C(j) \in Nat \ {0} /\ LineOf(j) = C(j) - 1
        /\ \A m \in 0 .. Len(b) : j <= m => C(j) <= C(m)
  BY CountFact
<1>4. /\ n > Len(b) => d = Len(b) /\ UpTo(d) = UpTo(i)
      /\ n <= Len(b) =>
           /\ n \in LineStarts(b) /\ n \in 1 .. d /\ d <= n + (i - o)
           /\ UpTo(d) = UpTo(i) \cup {n} /\ n \notin UpTo(i)
           /\ get_line_offset(d, b) = n
  BY DownFact
<1>5. /\ o = 0 => u = 0 /\ UpTo(u) = UpTo(i)
      /\ o # 0 => UpTo(i) = UpTo(u) \cup {o} /\ o \notin UpTo(u)
  BY UpFact
<1>6. d \in 0 .. Len(b) /\ u \in 0 .. Len(b) /\ Len(b) \in 0 .. Len(b)
  BY <1>2
<1>7. /\ n > Len(b) => C(d) = C(i) /\ d = Len(b)
      /\ n <= Len(b) => C(d) = C(i) + 1
  BY <1>3, <1>4, FS_AddElement
<1>8. /\ o = 0 => C(u) = C(i) /\ u = 0
      /\ o # 0 => C(i) = C(u) + 1
  BY <1>3, <1>5, <1>6, FS_AddElement
<1>9. C(0) = 1
  <2>1. UpTo(0) = {0}
    BY LineStartsFact DEF UpTo
  <2>. QED  BY <2>1, FS_Singleton
<1>10. LineOf(d) = Min({LineOf(i) + 1, LineOf(Len(b))})
  <2>. HIDE DEF C, d, n
  <2>0. i <= Len(b) /\ d <= Len(b)
    BY <1>2
  <2>1. /\ LineOf(i) = C(i) - 1 /\ LineOf(Len(b)) = C(Len(b)) - 1 /\ LineOf(d) = C(d) - 1
        /\ C(i) \in Nat \ {0} /\ C(d) \in Nat \ {0} /\ C(Len(b)) \in Nat \ {0}
        /\ C(i) <= C(Len(b)) /\ C(d) <= C(Len(b))
    BY <2>0, <1>1, <1>3, <1>6, Zenon
  <2>2. Min({(C(i) - 1) + 1, C(Len(b)) - 1})
          = IF (C(i) - 1) + 1 <= C(Len(b)) - 1 THEN (C(i) - 1) + 1 ELSE C(Len(b)) - 1
    BY <2>1, PairFact
  <2>3. n > Len(b) \/ n <= Len(b)
    BY <1>2 DEF n
  <2>. QED  BY <1>7, <2>1, <2>2, <2>3
<1>11. LineOf(u) = Max({LineOf(i) - 1, 0})
  <2>. HIDE DEF C, u, o
  <2>1. /\ LineOf(i) = C(i) - 1 /\ LineOf(u) = C(u) - 1
        /\ C(i) \in Nat \ {0} /\ C(u) \in Nat \ {0}
    BY <1>1, <1>3, <1>6, Zenon
  <2>2. Max({(C(i) - 1) - 1, 0}) = IF (C(i) - 1) - 1 >= 0 THEN (C(i) - 1) - 1 ELSE 0
    <3>1. (C(i) - 1) - 1 \in Int /\ 0 \in Int
      BY <2>1
    <3>. QED  BY <3>1, PairFact, Zenon
  <2>3. o = 0 => C(u) = 1 /\ C(i) = 1
    BY <1>8, <1>9, Zenon
  <2>4. Max({LineOf(i) - 1, 0}) = IF (C(i) - 1) - 1 >= 0 THEN (C(i) - 1) - 1 ELSE 0
    BY <2>1, <2>2, Zenon
  <2>5. C(u) - 1 = IF (C(i) - 1) - 1 >= 0 THEN (C(i) - 1) - 1 ELSE 0
    BY <1>8, <2>1, <2>3
  <2>. QED  BY <2>1, <2>4, <2>5, Zenon
<1>12. ASSUME d - get_line_offset(d, b) = i - o, d > i
       PROVE  get_prev_line(d, b) = i
  <2>1. n <= Len(b)
    <3>1. ASSUME n > Len(b) PROVE FALSE
      <4>1. UpTo(d) = UpTo(i)
        BY <1>4, <3>1
      <4>2. get_line_offset(d, b) = o
        BY <4>1, Zenon DEF get_line_offset, UpTo
      <4>. HIDE DEF d, o
      <4>. QED  BY <4>2, <1>12, <1>2
    <3>. QED  BY <3>1, <1>2
  <2>2. get_line_offset(d, b) = n /\ n # 0 /\ n - 1 \in 0 .. Len(b) /\ n - 1 = i + l
    BY <1>4, <2>1, <1>2
  <2>3. get_line_offset(n - 1, b) = o
    <3>1. UpTo(n - 1) = UpTo(i)
      <4>1. \A s \in LineStarts(b) : s \in Nat /\ (s <= i \/ s > i + l)
        BY LengthFact, LineStartsFact
      <4>2. \A s \in LineStarts(b) : s <= n - 1 <=> s <= i
        BY <4>1, <1>2
      <4>. QED  BY <4>2 DEF UpTo
    <3>. QED  BY <3>1, Zenon DEF get_line_offset, UpTo
  <2>4. d - n = i - o
    BY <1>12, <2>2
  <2>5. i - o <= get_line_length(o, b)
    <3>. DEFINE k == get_line_length(o, b)
    <3>1. k \in 0 .. Len(b) - o /\ (o + k # Len(b) => o + k + 1 \in LineStarts(b))
      BY <1>2, LengthFact
    <3>2. \A s \in LineStarts(b) : s <= i => s <= o
      BY OffsetFact
    <3>. HIDE DEF k, o
    <3>3. k >= i - o
      BY <3>1, <3>2, <1>2
    <3>. QED  BY <3>1, <3>3, <1>2 DEF k
  <2>6. get_prev_line(d, b) = o + (d - n)
    <3>1. LET q == get_line_offset(d, b)
              p == get_line_offset(q - 1, b)
          IN q # 0 => (d - q <= get_line_length(p, b) => get_prev_line(d, b) = p + (d - q))
      BY <1>6, UpFact
    <3>. QED  BY <3>1, <2>2, <2>3, <2>4, <2>5
  <2>. QED  BY <2>4, <2>6, <1>2
<1>. QED  BY <1>10, <1>11, <1>12, Zenon

-----------------------------------------------------------------------------
(* The refresh pass. *)
Cell(s) == [x |-> s.x, y |-> s.y, i |-> s.i]

LEMMA AppendCell ==
  ASSUME NEW s, Drawn(s), NEW c, c = Append(s.cells, Cell(s))
  PROVE  /\ CellsSound(c) /\ Len(c) = Len(s.cells) + 1 /\ c[Len(c)] = Cell(s)
         /\ \A k \in 1 .. Len(s.cells) : c[k] = s.cells[k]
         /\ \A k \in 1 .. Len(c) : c[k].y < s.y \/ (c[k].y = s.y /\ c[k].x <= s.x)
<1>. DEFINE n == Len(s.cells)
            q == Cell(s)
<1>1. s.x \in Nat /\ s.y \in Nat /\ s.i \in Nat /\ s.cells \in Seq(CellRec) /\ n \in Nat
  BY DEF Drawn, DrawRec
<1>2. q \in CellRec /\ q.x = s.x /\ q.y = s.y /\ q.i = s.i
  BY <1>1 DEF Cell, CellRec
<1>3. /\ \A k \in 1 .. n : s.cells[k] \in CellRec
      /\ \A k \in 1 .. n : s.cells[k].i <= Len(buffer) /\ Before(s.cells[k], s)
      /\ \A j, k \in 1 .. n : j < k => Before(s.cells[j], s.cells[k])
      /\ s.i <= Len(buffer)
  BY <1>1 DEF Drawn, CellsSound
<1>. HIDE DEF q
<1>4. c \in Seq(CellRec) /\ Len(c) = n + 1 /\ c[n + 1] = q /\ \A k \in 1 .. n : c[k] = s.cells[k]
  BY <1>1, <1>2 DEF q
<1>5. \A k \in 1 .. n + 1 : c[k].i <= Len(buffer)
  BY <1>1, <1>2, <1>3, <1>4
<1>6. \A j, k \in 1 .. n + 1 : j < k => Before(c[j], c[k])
  <2>1. TAKE j, k \in 1 .. n + 1
  <2>2. HAVE j < k
  <2>3. j \in 1 .. n
    BY <1>1, <2>2
  <2>4. CASE k = n + 1
    <3>1. Before(s.cells[j], s)
      BY <2>3, <1>3
    <3>. QED  BY <3>1, <2>3, <2>4, <1>2, <1>4 DEF Before
  <2>5. CASE k \in 1 .. n
    BY <2>2, <2>3, <2>5, <1>3, <1>4
  <2>. QED  BY <2>4, <2>5, <1>1
<1>7. \A k \in 1 .. n + 1 : c[k].y < s.y \/ (c[k].y = s.y /\ c[k].x <= s.x)
  <2>1. \A k \in 1 .. n : c[k].y < s.y \/ (c[k].y = s.y /\ c[k].x <= s.x)
    <3>1. TAKE k \in 1 .. n
    <3>2. s.cells[k] \in CellRec /\ Before(s.cells[k], s) /\ c[k] = s.cells[k]
      BY <1>3, <1>4
    <3>3. s.cells[k].x \in Nat
      BY <3>2 DEF CellRec
    <3>. QED  BY <3>2, <3>3, <1>1 DEF Before
  <2>. QED  BY <2>1, <1>1, <1>2, <1>4
<1>. QED  BY <1>4, <1>5, <1>6, <1>7 DEF CellsSound, q

(* The cursor is marked where its offset is met first; nothing else moves. *)
LEMMA MarkFact ==
  ASSUME NEW s, Drawn(s)
  PROVE  LET m == MarkCursor(s) IN
         /\ Drawn(m)
         /\ m.i = s.i /\ m.line = s.line /\ m.lo = s.lo /\ m.rows = s.rows /\ m.tab = s.tab
         /\ m.early = s.early /\ m.x = s.x /\ m.y = s.y /\ m.cells = s.cells
         /\ m.i = cursor_offset => m.shown
         /\ m.shown => \/ s.shown /\ m.cx = s.cx /\ m.cy = s.cy
                       \/ s.i = cursor_offset /\ m.cx = s.x /\ m.cy = s.y
<1>. DEFINE m == MarkCursor(s)
<1>1. s \in DrawRec
  BY DEF Drawn
<1>2. /\ m \in DrawRec
      /\ m.i = s.i /\ m.line = s.line /\ m.lo = s.lo /\ m.rows = s.rows /\ m.tab = s.tab
      /\ m.early = s.early /\ m.x = s.x /\ m.y = s.y /\ m.cells = s.cells
      /\ m.i = cursor_offset => m.shown
      /\ m.shown => \/ s.shown /\ m.cx = s.cx /\ m.cy = s.cy
                    \/ s.i = cursor_offset /\ m.cx = s.x /\ m.cy = s.y
  BY <1>1 DEF MarkCursor, DrawRec
<1>. HIDE DEF m
<1>3. Drawn(m)
  BY <1>2 DEF Drawn, Before
<1>. QED  BY <1>2, <1>3, Zenon DEF m

(* A cell is mapped at the position; a cursor drawn there is in that cell. *)
LEMMA MapFact ==
  ASSUME NEW s, Drawn(s)
  PROVE  LET t == MapCell(s) IN
         /\ t \in DrawRec /\ CellsSound(t.cells)
         /\ t.i = s.i /\ t.line = s.line /\ t.lo = s.lo /\ t.rows = s.rows /\ t.tab = s.tab
         /\ t.early = s.early /\ t.shown = s.shown /\ t.cx = s.cx /\ t.cy = s.cy
         /\ t.x = s.x /\ t.y = s.y
         /\ \A k \in 1 .. Len(t.cells) :
              t.cells[k].y < s.y \/ (t.cells[k].y = s.y /\ t.cells[k].x <= s.x)
         /\ CursorCell(s) => CursorCell(t)
         /\ s.i = cursor_offset /\ s.cx = s.x /\ s.cy = s.y => CursorCell(t)
<1>. DEFINE t == MapCell(s)
            c == Append(s.cells, Cell(s))
<1>1. s \in DrawRec
  BY DEF Drawn
<1>2. /\ CellsSound(c) /\ Len(c) = Len(s.cells) + 1 /\ c[Len(c)] = Cell(s)
      /\ \A k \in 1 .. Len(s.cells) : c[k] = s.cells[k]
      /\ \A k \in 1 .. Len(c) : c[k].y < s.y \/ (c[k].y = s.y /\ c[k].x <= s.x)
  BY AppendCell
<1>. HIDE DEF c
<1>3. t = [s EXCEPT !.cells = c]
  BY DEF MapCell, Cell, c
<1>4. /\ t \in DrawRec /\ t.cells = c
      /\ t.i = s.i /\ t.line = s.line /\ t.lo = s.lo /\ t.rows = s.rows /\ t.tab = s.tab
      /\ t.early = s.early /\ t.shown = s.shown /\ t.cx = s.cx /\ t.cy = s.cy
      /\ t.x = s.x /\ t.y = s.y
  BY <1>1, <1>2, <1>3 DEF DrawRec, CellsSound
<1>. HIDE DEF t
<1>5. Len(s.cells) \in Nat /\ Len(c) \in 1 .. Len(c) /\ \A k \in 1 .. Len(s.cells) : k \in 1 .. Len(c)
  BY <1>1, <1>2 DEF DrawRec
<1>6. CursorCell(s) => CursorCell(t)
  BY <1>2, <1>4, <1>5 DEF CursorCell
<1>7. s.i = cursor_offset /\ s.cx = s.x /\ s.cy = s.y => CursorCell(t)
  BY <1>2, <1>4, <1>5 DEF CursorCell, Cell
<1>8. CellsSound(t.cells) /\ \A k \in 1 .. Len(t.cells) :
        t.cells[k].y < s.y \/ (t.cells[k].y = s.y /\ t.cells[k].x <= s.x)
  BY <1>2, <1>4
<1>. QED  BY <1>4, <1>6, <1>7, <1>8, Zenon DEF t

(* The position after a mapped cell is behind it, to the right or below. *)
LEMMA BehindFact ==
  ASSUME NEW t, NEW u, NEW s, s.x \in Nat, s.y \in Nat, t \in DrawRec,
         \A k \in 1 .. Len(t.cells) :
           t.cells[k].y < s.y \/ (t.cells[k].y = s.y /\ t.cells[k].x <= s.x),
         u.cells = t.cells, \/ u.x = s.x + 1 /\ u.y = s.y
                            \/ u.y = s.y + 1
  PROVE  \A k \in 1 .. Len(u.cells) : Before(u.cells[k], u)
<1>1. TAKE k \in 1 .. Len(u.cells)
<1>2. t.cells[k] \in CellRec
  BY DEF DrawRec
<1>3. t.cells[k].x \in Nat /\ t.cells[k].y \in Nat
  BY <1>2 DEF CellRec
<1>4. t.cells[k].y < s.y \/ (t.cells[k].y = s.y /\ t.cells[k].x <= s.x)
  OBVIOUS
<1>5. u.cells[k] = t.cells[k]
  OBVIOUS
<1>. QED  BY <1>3, <1>4, <1>5 DEF Before

LEMMA RowFact ==
  ASSUME NEW s \in DrawRec
  PROVE  LET u == NextRow(s) IN
         /\ u \in DrawRec /\ u.i = s.i /\ u.line = s.line /\ u.lo = s.lo /\ u.rows = s.rows
         /\ u.tab = s.tab /\ u.early = s.early /\ u.shown = s.shown /\ u.cx = s.cx /\ u.cy = s.cy
         /\ u.x = 1 /\ u.y = s.y + 1 /\ u.cells = s.cells
<1>. DEFINE a == [s EXCEPT !.x = 1]
<1>1. /\ a \in DrawRec /\ a.i = s.i /\ a.line = s.line /\ a.lo = s.lo
      /\ a.rows = s.rows /\ a.tab = s.tab /\ a.early = s.early /\ a.shown = s.shown
      /\ a.cx = s.cx /\ a.cy = s.cy /\ a.x = 1 /\ a.y = s.y /\ a.cells = s.cells
  BY DEF DrawRec
<1>. HIDE DEF a
<1>. DEFINE v == s.y + 1
            u == [a EXCEPT !.y = v]
<1>0. v \in Nat
  BY DEF DrawRec
<1>. HIDE DEF v
<1>2. /\ u \in DrawRec /\ u.i = a.i /\ u.line = a.line /\ u.lo = a.lo
      /\ u.rows = a.rows /\ u.tab = a.tab /\ u.early = a.early /\ u.shown = a.shown
      /\ u.cx = a.cx /\ u.cy = a.cy /\ u.x = a.x /\ u.y = v /\ u.cells = a.cells
  BY <1>0, <1>1 DEF DrawRec
<1>. HIDE DEF u
<1>3. NextRow(s) = u
  BY <1>1 DEF NextRow, a, u, v
<1>. QED  BY <1>1, <1>2, <1>3 DEF v

LEMMA DoneFact ==
  ASSUME NEW s \in DrawRec
  PROVE  LET u == LineDone(s) IN
         /\ u \in DrawRec /\ u.i = s.i + 1 /\ u.rows = s.rows
         /\ u.tab = s.tab /\ u.early = s.early /\ u.shown = s.shown /\ u.cx = s.cx /\ u.cy = s.cy
         /\ u.x = s.x /\ u.y = s.y /\ u.cells = s.cells
<1>. DEFINE a == [s EXCEPT !.line = s.line + 1]
<1>1. /\ a \in DrawRec /\ a.i = s.i /\ a.line = s.line + 1 /\ a.lo = s.lo
      /\ a.rows = s.rows /\ a.tab = s.tab /\ a.early = s.early /\ a.shown = s.shown
      /\ a.cx = s.cx /\ a.cy = s.cy /\ a.x = s.x /\ a.y = s.y /\ a.cells = s.cells
  BY SMTT(40) DEF DrawRec
<1>. HIDE DEF a
<1>. DEFINE b == [a EXCEPT !.lo = 0]
<1>2. /\ b \in DrawRec /\ b.i = a.i /\ b.line = a.line /\ b.lo = 0 /\ b.rows = a.rows
      /\ b.tab = a.tab /\ b.early = a.early /\ b.shown = a.shown /\ b.cx = a.cx
      /\ b.cy = a.cy /\ b.x = a.x /\ b.y = a.y /\ b.cells = a.cells
  BY <1>1 DEF DrawRec
<1>. HIDE DEF b
<1>. DEFINE v == s.i + 1
            u == [b EXCEPT !.i = v]
<1>0. v \in Nat
  BY DEF DrawRec
<1>. HIDE DEF v
<1>3. /\ u \in DrawRec /\ u.i = v /\ u.line = b.line /\ u.lo = b.lo
      /\ u.rows = b.rows /\ u.tab = b.tab /\ u.early = b.early /\ u.shown = b.shown
      /\ u.cx = b.cx /\ u.cy = b.cy /\ u.x = b.x /\ u.y = b.y /\ u.cells = b.cells
  BY <1>0, <1>2 DEF DrawRec
<1>. HIDE DEF u
<1>4. LineDone(s) = u
  BY <1>1, <1>2 DEF LineDone, a, b, u, v
<1>. QED  BY <1>1, <1>2, <1>3, <1>4 DEF v

(* A newline in the window: its cell is mapped and the next row begins. *)
LEMMA NewlineFact ==
  ASSUME buffer \in Seq(EditorChar), NEW s, BetweenCells(s), AtNewline(s)
  PROVE  BetweenCells(LineDone(NextRow(MapCell(MarkCursor(s)))))
<1>. DEFINE m == MarkCursor(s)
            t == MapCell(m)
            u == LineDone(NextRow(t))
<1>1. /\ Drawn(m) /\ m.i = s.i /\ m.tab = s.tab /\ m.early = s.early /\ m.cells = s.cells
      /\ m.shown => \/ s.shown /\ m.cx = s.cx /\ m.cy = s.cy
                    \/ m.i = cursor_offset /\ m.cx = m.x /\ m.cy = m.y
  BY MarkFact DEF BetweenCells
<1>2. m.shown => CursorCell(m) \/ (m.i = cursor_offset /\ m.cx = m.x /\ m.cy = m.y)
  BY <1>1 DEF BetweenCells, CursorCell
<1>. HIDE DEF m
<1>3. /\ t \in DrawRec /\ CellsSound(t.cells) /\ t.i = m.i /\ t.tab = m.tab /\ t.early = m.early
      /\ t.shown = m.shown /\ t.x = m.x /\ t.y = m.y
      /\ \A k \in 1 .. Len(t.cells) :
           t.cells[k].y < m.y \/ (t.cells[k].y = m.y /\ t.cells[k].x <= m.x)
      /\ m.shown => CursorCell(t)
  BY <1>1, <1>2, MapFact
<1>. HIDE DEF t
<1>4. /\ u \in DrawRec /\ u.i = t.i + 1 /\ u.tab = t.tab /\ u.early = t.early /\ u.shown = t.shown
      /\ u.cx = t.cx /\ u.cy = t.cy /\ u.y = t.y + 1 /\ u.cells = t.cells
  BY <1>3, RowFact, DoneFact
<1>. HIDE DEF u
<1>5. m.x \in Nat /\ m.y \in Nat /\ s.i \in Nat /\ s.i <= Len(buffer)
  BY <1>1 DEF Drawn, DrawRec, BetweenCells
<1>6. \A k \in 1 .. Len(u.cells) : Before(u.cells[k], u)
  BY <1>3, <1>4, <1>5, BehindFact
<1>7. s.tab = 0 /\ At(buffer, s.i) = "n"
  BY DEF AtNewline
<1>8. u.i <= Len(buffer)
  BY <1>1, <1>3, <1>4, <1>5, <1>7, LineStartsFact, SMTT(40)
<1>9. Drawn(u)
  BY <1>1, <1>3, <1>4, <1>6, <1>7, <1>8 DEF Drawn
<1>10. ~u.early /\ (u.shown => CursorCell(u))
  BY <1>1, <1>3, <1>4 DEF BetweenCells, CursorCell
<1>. QED  BY <1>9, <1>10 DEF BetweenCells, u, t, m

(* A tab begins: its spaces are pending. *)
LEMMA TabFact ==
  ASSUME NEW s, BetweenCells(s)
  PROVE  LET a == AtTab(s) IN
         /\ BetweenCells(a) /\ a.i = s.i /\ a.line = s.line /\ a.rows = s.rows
         /\ At(buffer, s.i) # "t" => a = s
<1>. DEFINE a == AtTab(s)
            v == TabStop - (s.lo % TabStop)
<1>1. s \in DrawRec /\ s.lo \in Nat
  BY DEF BetweenCells, Drawn, DrawRec
<1>2. v \in Nat
  <2>1. s.lo % TabStop \in 0 .. TabStop - 1
    BY <1>1, EditorAssumption
  <2>. QED  BY <2>1, EditorAssumption
<1>. HIDE DEF v
<1>3. a = IF s.tab = 0 /\ At(buffer, s.i) = "t" THEN [s EXCEPT !.tab = v] ELSE s
  BY DEF AtTab, v
<1>. HIDE DEF a
<1>4. /\ a \in DrawRec /\ a.i = s.i /\ a.line = s.line /\ a.rows = s.rows /\ a.early = s.early
      /\ a.shown = s.shown /\ a.cx = s.cx /\ a.cy = s.cy /\ a.x = s.x /\ a.y = s.y /\ a.cells = s.cells
  BY <1>1, <1>2, <1>3 DEF DrawRec
<1>5. a.tab # 0 => At(buffer, a.i) = "t"
  BY <1>3, <1>4 DEF BetweenCells, Drawn
<1>6. BetweenCells(a)
  BY <1>4, <1>5 DEF BetweenCells, Drawn, Before, CursorCell
<1>. QED  BY <1>3, <1>4, <1>6 DEF a

(* The last column: the cell is mapped early, with the cursor if it is     *)
(* there, or the line is above the window; the window loses a row.         *)
LEMMA WrapFact ==
  ASSUME NEW s, BetweenCells(s)
  PROVE  LET w == Wrapped(s) IN
         /\ Drawn(w) /\ w.i = s.i /\ w.line = s.line
         /\ w.rows \in Nat /\ w.rows <= s.rows /\ (w.shown => CursorCell(w))
         /\ w.early => Visible(s) /\ (w.i = cursor_offset => w.shown)
         /\ ~w.early => w.tab = s.tab
<1>. DEFINE m == MarkCursor(s)
            t == MapCell(m)
            e == OneLess(t.tab)
            f == [t EXCEPT !.early = TRUE]
            g == [f EXCEPT !.tab = e]
            h == NextRow(g)
            r == OneLess(s.rows)
            v == [h EXCEPT !.rows = r]
            o == [s EXCEPT !.rows = r]
<1>1. s \in DrawRec /\ Drawn(s) /\ s.rows \in Nat /\ ~s.early /\ (s.shown => CursorCell(s))
  BY DEF BetweenCells, Drawn, DrawRec
<1>2. r \in Nat /\ r <= s.rows
  BY <1>1 DEF OneLess
<1>3. Wrapped(s) \in {s} \cup {IF Visible(s) THEN v ELSE o}
  <2>1. t.rows = s.rows /\ t \in DrawRec
    BY <1>1, MarkFact, MapFact
  <2>2. h = NextRow([t EXCEPT !.early = TRUE, !.tab = OneLess(@)])
    <3>. HIDE DEF t
    <3>1. f.tab = t.tab
      BY <2>1 DEF DrawRec
    <3>. QED  BY <3>1
  <2>3. h.rows = s.rows
    <3>. HIDE DEF t, e
    <3>1. g.rows = s.rows
      BY <2>1 DEF DrawRec
    <3>2. NextRow(g).rows = g.rows
      BY <2>1 DEF NextRow, DrawRec
    <3>. QED  BY <3>1, <3>2
  <2>. HIDE DEF h
  <2>4. Wrapped(s) = IF At(buffer, s.i) # "0" /\ s.lo % line_size = line_size - 1
                     THEN IF Visible(s) THEN [h EXCEPT !.rows = OneLess(@)]
                          ELSE [s EXCEPT !.rows = OneLess(@)]
                     ELSE s
    BY <2>2, Zenon DEF Wrapped, t, m
  <2>. QED  BY <2>3, <2>4
<1>4. CASE Wrapped(s) = s
  <2>1. s.i = s.i /\ s.line = s.line /\ s.rows <= s.rows /\ s.tab = s.tab
    BY <1>1
  <2>. QED  BY <1>1, <1>4, <2>1, Zenon
<1>5. CASE Wrapped(s) = o /\ ~Visible(s)
  <2>. HIDE DEF r
  <2>1. /\ o \in DrawRec /\ o.i = s.i /\ o.line = s.line /\ o.rows = r /\ o.tab = s.tab
        /\ o.early = s.early /\ o.shown = s.shown /\ o.cx = s.cx /\ o.cy = s.cy
        /\ o.x = s.x /\ o.y = s.y /\ o.cells = s.cells
    BY <1>1, <1>2 DEF DrawRec
  <2>. HIDE DEF o
  <2>2. Drawn(o) /\ (o.shown => CursorCell(o))
    BY <1>1, <2>1 DEF Drawn, Before, CursorCell
  <2>3. ~o.early /\ o.rows \in Nat /\ o.rows <= s.rows
    BY <1>1, <1>2, <2>1
  <2>. QED  BY <1>5, <2>1, <2>2, <2>3, Zenon
<1>6. CASE Wrapped(s) = v /\ Visible(s)
  <2>1. /\ Drawn(m) /\ m.i = s.i /\ m.line = s.line /\ m.tab = s.tab /\ m.cells = s.cells
        /\ m.i = cursor_offset => m.shown
        /\ m.shown => CursorCell(m) \/ (m.i = cursor_offset /\ m.cx = m.x /\ m.cy = m.y)
    <3>1. /\ Drawn(m) /\ m.i = s.i /\ m.line = s.line /\ m.tab = s.tab /\ m.cells = s.cells
          /\ m.x = s.x /\ m.y = s.y /\ (m.i = cursor_offset => m.shown)
          /\ m.shown => \/ s.shown /\ m.cx = s.cx /\ m.cy = s.cy
                        \/ s.i = cursor_offset /\ m.cx = s.x /\ m.cy = s.y
      BY <1>1, MarkFact
    <3>. HIDE DEF m
    <3>. QED  BY <1>1, <3>1 DEF CursorCell
  <2>. HIDE DEF m
  <2>2. /\ t \in DrawRec /\ CellsSound(t.cells) /\ t.i = m.i /\ t.line = m.line /\ t.tab = m.tab
        /\ t.shown = m.shown /\ t.x = m.x /\ t.y = m.y
        /\ \A k \in 1 .. Len(t.cells) :
             t.cells[k].y < m.y \/ (t.cells[k].y = m.y /\ t.cells[k].x <= m.x)
        /\ m.shown => CursorCell(t)
    BY <2>1, MapFact
  <2>. HIDE DEF t
  <2>3. e \in Nat /\ (e # 0 => t.tab # 0)
    BY <2>2 DEF OneLess, DrawRec
  <2>. HIDE DEF e, r
  <2>4. /\ f \in DrawRec /\ f.i = t.i /\ f.line = t.line /\ f.early = TRUE
        /\ f.shown = t.shown /\ f.cx = t.cx /\ f.cy = t.cy /\ f.x = t.x /\ f.y = t.y /\ f.cells = t.cells
    BY <2>2 DEF DrawRec
  <2>. HIDE DEF f
  <2>5. /\ g \in DrawRec /\ g.i = f.i /\ g.line = f.line /\ g.early = f.early /\ g.tab = e
        /\ g.shown = f.shown /\ g.cx = f.cx /\ g.cy = f.cy /\ g.x = f.x /\ g.y = f.y /\ g.cells = f.cells
    BY <2>3, <2>4 DEF DrawRec
  <2>. HIDE DEF g
  <2>6. /\ h \in DrawRec /\ h.i = g.i /\ h.line = g.line /\ h.early = g.early /\ h.tab = g.tab
        /\ h.shown = g.shown /\ h.cx = g.cx /\ h.cy = g.cy /\ h.y = g.y + 1 /\ h.cells = g.cells
    BY <2>5, RowFact
  <2>. HIDE DEF h
  <2>7. /\ v \in DrawRec /\ v.i = h.i /\ v.line = h.line /\ v.early = h.early /\ v.tab = h.tab
        /\ v.rows = r /\ v.shown = h.shown /\ v.cx = h.cx /\ v.cy = h.cy /\ v.y = h.y /\ v.cells = h.cells
    BY <2>6, <1>2 DEF DrawRec
  <2>. HIDE DEF v
  <2>8. \A k \in 1 .. Len(v.cells) : Before(v.cells[k], v)
    <3>1. v.cells = t.cells /\ v.y = m.y + 1 /\ m.x \in Nat /\ m.y \in Nat
      BY <2>1, <2>2, <2>4, <2>5, <2>6, <2>7 DEF Drawn, DrawRec
    <3>. QED  BY <3>1, <2>2, BehindFact
  <2>9. /\ v.cells = t.cells /\ v.i = s.i /\ v.line = s.line /\ v.early /\ v.tab = e
        /\ v.shown = m.shown /\ v.cx = t.cx /\ v.cy = t.cy
    BY <2>1, <2>2, <2>4, <2>5, <2>6, <2>7
  <2>10. Drawn(v)
    BY <1>1, <2>1, <2>2, <2>3, <2>7, <2>8, <2>9 DEF Drawn
  <2>11. v.shown => CursorCell(v)
    BY <2>2, <2>9 DEF CursorCell
  <2>12. v.i = cursor_offset => v.shown
    BY <2>1, <2>9
  <2>13. v.rows \in Nat /\ v.rows <= s.rows
    BY <2>7, <1>2
  <2>. QED  BY <1>6, <2>9, <2>10, <2>11, <2>12, <2>13, Zenon
<1>. QED  BY <1>3, <1>4, <1>5, <1>6, Zenon

(* On the cell: a cursor met here is drawn here, if it was not drawn       *)
(* before.                                                                 *)
LEMMA CellFact ==
  ASSUME NEW s, BetweenCells(s), window_offset \in Int
  PROVE  LET c == AtCell(s) IN
         /\ OnCell(c) /\ c.i = s.i /\ c.line = s.line
         /\ c.early => c.line >= window_offset
         /\ At(buffer, s.i) = "n" /\ ~Visible(s) => BetweenCells(c) /\ c.tab = 0
<1>. DEFINE a == AtTab(s)
            w == Wrapped(a)
            m == MarkCursor(w)
            c == AtCell(s)
<1>1. /\ BetweenCells(a) /\ a.i = s.i /\ a.line = s.line /\ a.rows = s.rows
      /\ At(buffer, s.i) # "t" => a = s
  BY TabFact
<1>. HIDE DEF a
<1>2. /\ Drawn(w) /\ w.i = a.i /\ w.line = a.line
      /\ w.rows \in Nat /\ w.rows <= a.rows /\ (w.shown => CursorCell(w))
      /\ w.early => Visible(a) /\ (w.i = cursor_offset => w.shown)
      /\ ~w.early => w.tab = a.tab
  BY <1>1, WrapFact
<1>. HIDE DEF w
<1>3. c = IF Visible(w) THEN m ELSE w
  BY DEF AtCell, w, a
<1>4. s.line \in Nat /\ s.rows \in Nat /\ (s.tab # 0 => At(buffer, s.i) = "t")
  BY DEF BetweenCells, Drawn, DrawRec
<1>5. w.line = s.line /\ w.rows <= s.rows /\ a.line = s.line /\ a.rows = s.rows
  BY <1>1, <1>2
<1>6. (Visible(w) => Visible(s)) /\ (w.early => Visible(s)) /\ (Visible(s) => s.line >= window_offset)
  BY <1>2, <1>4, <1>5 DEF Visible
<1>7. CASE ~Visible(w)
  <2>1. c = w
    BY <1>3, <1>7
  <2>2. OnCell(w)
    BY <1>2 DEF OnCell
  <2>3. At(buffer, s.i) = "n" /\ ~Visible(s) => BetweenCells(w) /\ w.tab = 0
    BY <1>1, <1>2, <1>4, <1>6 DEF BetweenCells
  <2>. QED  BY <2>1, <2>2, <2>3, <1>1, <1>2, <1>5, <1>6
<1>8. CASE Visible(w)
  <2>1. c = m
    BY <1>3, <1>8
  <2>2. /\ Drawn(m) /\ m.i = w.i /\ m.line = w.line /\ m.rows = w.rows
        /\ m.early = w.early /\ m.x = w.x /\ m.y = w.y /\ m.cells = w.cells
        /\ m.i = cursor_offset => m.shown
        /\ m.shown => \/ w.shown /\ m.cx = w.cx /\ m.cy = w.cy
                      \/ w.i = cursor_offset /\ m.cx = w.x /\ m.cy = w.y
    BY <1>2, MarkFact
  <2>3. w.early /\ w.i = cursor_offset => m = w
    BY <1>2 DEF MarkCursor
  <2>. HIDE DEF m
  <2>4. Visible(m)
    BY <1>8, <2>2 DEF Visible
  <2>5. m.shown => \/ CursorCell(m)
                   \/ ~m.early /\ Visible(m) /\ m.i = cursor_offset /\ m.cx = m.x /\ m.cy = m.y
    <3>1. CASE w.early /\ w.i = cursor_offset
      BY <3>1, <2>3, <1>2
    <3>2. CASE w.shown /\ m.cx = w.cx /\ m.cy = w.cy
      BY <3>2, <1>2, <2>2 DEF CursorCell
    <3>3. CASE ~w.early /\ w.i = cursor_offset /\ m.cx = w.x /\ m.cy = w.y
      BY <3>3, <2>2, <2>4
    <3>. QED  BY <3>1, <3>2, <3>3, <2>2, Zenon
  <2>6. OnCell(m)
    BY <2>2, <2>5 DEF OnCell
  <2>. QED  BY <2>1, <2>2, <2>6, <1>1, <1>2, <1>5, <1>6, <1>8
<1>. QED  BY <1>7, <1>8, Zenon

(* The cell is passed: printed if it was not printed early. *)
LEMMA PassedFact ==
  ASSUME buffer \in Seq(EditorChar), NEW s, OnCell(s), window_offset \in Int,
         s.early => s.line >= window_offset, ~AtEnd(s)
  PROVE  BetweenCells(Passed(s))
<1>. DEFINE l == s.lo + 1
            q == [s EXCEPT !.lo = l]
            t == MapCell(q)
            z == t.x + 1
            e == OneLess(t.tab)
            f == [t EXCEPT !.x = z]
            g == [f EXCEPT !.tab = e]
            r == Printed(q)
            p == IF s.line >= window_offset THEN [r EXCEPT !.early = FALSE] ELSE s
            u == [p EXCEPT !.i = p.i + 1]
<1>1. s \in DrawRec /\ Drawn(s) /\ l \in Nat /\ s.line \in Nat /\ s.rows \in Nat
  BY DEF OnCell, Drawn, DrawRec
<1>2. At(buffer, s.i) # "0" /\ ~(s.line >= window_offset + s.rows)
  BY DEF AtEnd
<1>3. s.i \in Nat /\ s.i + 1 <= Len(buffer)
  <2>1. s.i \in 0 .. Len(buffer)
    BY <1>1 DEF Drawn, DrawRec
  <2>. QED  BY <2>1, <1>2, LineStartsFact
<1>. HIDE DEF l
<1>4. /\ q \in DrawRec /\ q.i = s.i /\ q.tab = s.tab /\ q.early = s.early /\ q.shown = s.shown
      /\ q.cx = s.cx /\ q.cy = s.cy /\ q.x = s.x /\ q.y = s.y /\ q.cells = s.cells
  BY <1>1 DEF DrawRec
<1>. HIDE DEF q
<1>5. Drawn(q)
  BY <1>1, <1>4 DEF Drawn, Before
<1>6. /\ s.line >= window_offset => BetweenCells([r EXCEPT !.early = FALSE])
      /\ s.line >= window_offset => [r EXCEPT !.early = FALSE].i = s.i
  <2>. SUFFICES ASSUME s.line >= window_offset
                PROVE  BetweenCells([r EXCEPT !.early = FALSE]) /\ [r EXCEPT !.early = FALSE].i = s.i
    OBVIOUS
  <2>1. /\ Drawn(r) /\ r.i = s.i /\ (r.shown => CursorCell(r))
    <3>1. CASE s.early
      <4>1. r = q
        BY <3>1, <1>4 DEF Printed
      <4>2. s.shown => CursorCell(s)
        BY <3>1 DEF OnCell
      <4>3. q.shown => CursorCell(q)
        BY <4>2, <1>4 DEF CursorCell
      <4>. QED  BY <4>1, <4>3, <1>4, <1>5
    <3>2. CASE ~s.early
      <4>1. s.shown => CursorCell(s) \/ (s.i = cursor_offset /\ s.cx = s.x /\ s.cy = s.y)
        BY DEF OnCell
      <4>2. q.shown => CursorCell(q) \/ (q.i = cursor_offset /\ q.cx = q.x /\ q.cy = q.y)
        BY <4>1, <1>4 DEF CursorCell
      <4>3. /\ t \in DrawRec /\ CellsSound(t.cells) /\ t.i = q.i /\ t.tab = q.tab
            /\ t.shown = q.shown /\ t.x = q.x /\ t.y = q.y
            /\ \A k \in 1 .. Len(t.cells) :
                 t.cells[k].y < q.y \/ (t.cells[k].y = q.y /\ t.cells[k].x <= q.x)
            /\ q.shown => CursorCell(t)
        BY <4>2, <1>5, MapFact
      <4>4. r = [t EXCEPT !.x = @ + 1, !.tab = OneLess(@)]
        BY <3>2, <1>4 DEF Printed
      <4>. HIDE DEF t
      <4>5. e \in Nat /\ (e # 0 => t.tab # 0) /\ z \in Nat
        BY <4>3, SMTT(40) DEF OneLess, DrawRec
      <4>6. f.tab = t.tab
        BY <4>3 DEF DrawRec
      <4>7. r = g
        BY <4>4, <4>6
      <4>. HIDE DEF e, z
      <4>8. /\ f \in DrawRec /\ f.i = t.i /\ f.shown = t.shown
            /\ f.cx = t.cx /\ f.cy = t.cy /\ f.x = z /\ f.y = t.y /\ f.cells = t.cells
        BY <4>3, <4>5 DEF DrawRec
      <4>. HIDE DEF f
      <4>9. /\ g \in DrawRec /\ g.i = f.i /\ g.tab = e /\ g.shown = f.shown
            /\ g.cx = f.cx /\ g.cy = f.cy /\ g.x = f.x /\ g.y = f.y /\ g.cells = f.cells
        BY <4>5, <4>8 DEF DrawRec
      <4>. HIDE DEF g
      <4>10. \A k \in 1 .. Len(g.cells) : Before(g.cells[k], g)
        <5>1. /\ g.cells = t.cells /\ g.x = q.x + 1 /\ g.y = q.y /\ q.x \in Nat /\ q.y \in Nat
          BY <1>4, <4>3, <4>8, <4>9 DEF DrawRec, z
        <5>. QED  BY <5>1, <4>3, BehindFact
      <4>11. Drawn(g)
        BY <1>1, <1>4, <4>3, <4>5, <4>8, <4>9, <4>10 DEF Drawn
      <4>12. g.shown => CursorCell(g)
        BY <4>3, <4>8, <4>9, SMTT(40) DEF CursorCell
      <4>. QED  BY <4>3, <4>7, <4>8, <4>9, <4>11, <4>12, <1>4
    <3>. QED  BY <3>1, <3>2
  <2>. DEFINE n == [r EXCEPT !.early = FALSE]
  <2>2. r \in DrawRec
    BY <2>1 DEF Drawn
  <2>. HIDE DEF r
  <2>3. /\ n \in DrawRec /\ n.i = r.i /\ n.tab = r.tab /\ n.early = FALSE /\ n.shown = r.shown
        /\ n.cx = r.cx /\ n.cy = r.cy /\ n.x = r.x /\ n.y = r.y /\ n.cells = r.cells
    BY <2>2 DEF DrawRec
  <2>. HIDE DEF n
  <2>4. BetweenCells(n) /\ n.i = s.i
    BY <2>1, <2>3 DEF BetweenCells, Drawn, Before, CursorCell
  <2>. QED  BY <2>4 DEF n
<1>7. s.line < window_offset => BetweenCells(s)
  BY <1>1 DEF OnCell, BetweenCells, Visible
<1>8. BetweenCells(p) /\ p.i = s.i
  BY <1>1, <1>6, <1>7
<1>9. Passed(s) = IF p.tab = 0 THEN u ELSE p
  BY DEF Passed, q, l
<1>. HIDE DEF p
<1>10. ASSUME p.tab = 0
       PROVE  BetweenCells(u)
  <2>. DEFINE j == p.i + 1
  <2>1. j \in Nat /\ j <= Len(buffer) /\ p \in DrawRec
    BY <1>3, <1>8 DEF BetweenCells, Drawn
  <2>2. u = [p EXCEPT !.i = j]
    OBVIOUS
  <2>. HIDE DEF u, j
  <2>3. /\ u \in DrawRec /\ u.i = j /\ u.tab = p.tab /\ u.early = p.early /\ u.shown = p.shown
        /\ u.cx = p.cx /\ u.cy = p.cy /\ u.x = p.x /\ u.y = p.y /\ u.cells = p.cells
    BY <2>1, <2>2 DEF DrawRec
  <2>. QED  BY <1>8, <1>10, <2>1, <2>3 DEF BetweenCells, Drawn, Before, CursorCell
<1>. QED  BY <1>8, <1>9, <1>10

(* The pass ends with the cursor drawn: it is in a mapped cell, the one    *)
(* past the text included.                                                 *)
LEMMA EndFact ==
  ASSUME NEW s, OnCell(s), AtEnd(s), s.shown, window_offset \in Int, NEW d,
         d = IF At(buffer, s.i) = "0" /\ Visible(s) THEN MapCell(s) ELSE s
  PROVE  CellsSound(d.cells) /\ CursorCell(d)
<1>1. Drawn(s) /\ CellsSound(s.cells) /\ s.line \in Nat /\ s.rows \in Nat
  BY DEF OnCell, Drawn, DrawRec
<1>2. \/ CursorCell(s)
      \/ Visible(s) /\ s.i = cursor_offset /\ s.cx = s.x /\ s.cy = s.y
  BY DEF OnCell
<1>3. CASE d = s
  <2>1. CursorCell(s)
    BY <1>1, <1>2, <1>3, MapFact, SMTT(40) DEF AtEnd, Visible
  <2>. QED  BY <1>1, <1>3, <2>1
<1>4. CASE d = MapCell(s)
  BY <1>1, <1>2, <1>4, MapFact
<1>. QED  BY <1>3, <1>4

LEMMA FreshFact ==
  ASSUME buffer \in Seq(EditorChar)
  PROVE  BetweenCells(Fresh)
<1>1. /\ Fresh \in DrawRec /\ Fresh.i = 0 /\ Fresh.tab = 0 /\ Fresh.early = FALSE
      /\ Fresh.shown = FALSE /\ Fresh.cells = <<>>
  BY EditorAssumption DEF Fresh, DrawRec
<1>2. CellsSound(<<>>) /\ Len(buffer) \in Nat /\ Len(<<>>) = 0
  BY DEF CellsSound
<1>. QED  BY <1>1, <1>2 DEF BetweenCells, Drawn

(* A click goes to a mapped offset; a click on a mapped cell goes to what  *)
(* the cell shows.                                                         *)
LEMMA ClickFact ==
  ASSUME CellsSound(draw.cells), NEW x \in Nat, NEW y \in Nat
  PROVE  LET o == editor_cell_to_offset(x, y) IN
         /\ o = -1 \/ \E k \in 1 .. Len(draw.cells) : o = draw.cells[k].i
         /\ \A k \in 1 .. Len(draw.cells) : draw.cells[k].x = x /\ draw.cells[k].y = y =>
              o = draw.cells[k].i
<1>. DEFINE c == draw.cells
            left == {k \in 1 .. Len(c) : c[k].y = y /\ c[k].x <= x}
            xs == {c[k].x : k \in left}
            near == Max(xs)
            ks == {k \in left : c[k].x = near}
            o == editor_cell_to_offset(x, y)
<1>1. /\ c \in Seq(CellRec) /\ Len(c) \in Nat /\ DOMAIN c = 1 .. Len(c)
      /\ \A k \in 1 .. Len(c) : c[k] \in CellRec
      /\ \A j, k \in 1 .. Len(c) : j < k => Before(c[j], c[k])
  BY DEF CellsSound
<1>2. \A k \in 1 .. Len(c) : c[k].x \in Nat /\ c[k].y \in Nat
  BY <1>1 DEF CellRec
<1>3. o = IF left = {} THEN -1 ELSE c[Max(ks)].i
  BY <1>1 DEF editor_cell_to_offset
<1>4. CASE left = {}
  <2>1. \A k \in 1 .. Len(c) : ~(c[k].x = x /\ c[k].y = y)
    BY <1>2, <1>4
  <2>2. o = -1
    BY <1>3, <1>4
  <2>. QED  BY <2>1, <2>2, Zenon
<1>5. CASE left # {}
  <2>1. xs \subseteq Nat /\ xs # {} /\ \A n \in xs : n <= x
    BY <1>2, <1>5
  <2>2. near \in xs /\ \A n \in xs : near >= n
    <3>. HIDE DEF xs
    <3>. QED  BY <2>1, MaxFact
  <2>3. \A k \in left : near >= c[k].x
    BY <2>2
  <2>4. \E k \in left : near = c[k].x
    BY <2>2
  <2>. HIDE DEF near
  <2>5. ks \subseteq Nat /\ ks # {} /\ \A n \in ks : n <= Len(c)
    BY <1>1, <2>4
  <2>6. Max(ks) \in ks
    <3>. HIDE DEF ks
    <3>. QED  BY <2>5, <1>1, MaxFact
  <2>7. o = c[Max(ks)].i
    BY <1>3, <1>5
  <2>8. \A k \in 1 .. Len(c) : c[k].x = x /\ c[k].y = y => k = Max(ks)
    <3>1. TAKE k \in 1 .. Len(c)
    <3>2. HAVE c[k].x = x /\ c[k].y = y
    <3>. DEFINE m == Max(ks)
    <3>3. m \in 1 .. Len(c) /\ c[m].y = y /\ c[m].x = near /\ near <= x
      BY <2>6
    <3>. HIDE DEF m
    <3>4. k \in left
      BY <3>2, <1>2
    <3>5. near >= x
      BY <3>2, <3>4, <2>3
    <3>6. c[m].x = c[k].x /\ c[m].y = c[k].y
      BY <3>2, <3>3, <3>5, <1>2
    <3>7. m < k \/ k < m \/ k = m
      BY <3>3, <1>1
    <3>8. ~Before(c[m], c[k]) /\ ~Before(c[k], c[m])
      BY <3>3, <3>6, <1>2 DEF Before
    <3>9. k = m
      BY <3>3, <3>7, <3>8, <1>1
    <3>. QED  BY <3>9 DEF m
  <2>9. Max(ks) \in 1 .. Len(c)
    BY <2>6
  <2>. HIDE DEF ks
  <2>. QED  BY <2>7, <2>8, <2>9
<1>. QED  BY <1>4, <1>5

LEMMA InvScreen == EdInv => ScreenTrue
<1>. SUFFICES ASSUME EdInv, edpc = "input"
              PROVE  /\ \E k \in DOMAIN draw.cells :
                          draw.cells[k] = [x |-> draw.cx, y |-> draw.cy, i |-> cursor_offset]
                     /\ \A k \in DOMAIN draw.cells :
                          editor_cell_to_offset(draw.cells[k].x, draw.cells[k].y) = draw.cells[k].i
  BY DEF ScreenTrue
<1>1. CellsSound(draw.cells) /\ CursorCell(draw)
  BY DEF EdInv
<1>2. /\ DOMAIN draw.cells = 1 .. Len(draw.cells)
      /\ \A k \in 1 .. Len(draw.cells) : draw.cells[k] \in CellRec
  BY <1>1 DEF CellsSound
<1>3. \A k \in 1 .. Len(draw.cells) : draw.cells[k].x \in Nat /\ draw.cells[k].y \in Nat
  BY <1>2 DEF CellRec
<1>4. \A k \in 1 .. Len(draw.cells) :
        editor_cell_to_offset(draw.cells[k].x, draw.cells[k].y) = draw.cells[k].i
  BY <1>1, <1>3, ClickFact
<1>. QED  BY <1>1, <1>2, <1>4 DEF CursorCell

LEMMA InvTrue == EdInv => EditorTrue
<1>1. EdInv => CursorInBuffer
  BY DEF EdInv, CursorInBuffer, buflen
<1>. QED  BY <1>1, InvScreen, LinesMove DEF EdInv, EditorTrue

-----------------------------------------------------------------------------
(* Every step keeps the invariant. *)
LEMMA FirstInv == EdInit => EdInv
<1>. SUFFICES ASSUME EdInit PROVE EdInv
  OBVIOUS
<1>1. PICK t \in EntryTexts :
        LET skip == Min({i \in 0 .. Len(t) : At(t, i) # "n"})
        IN buffer = SubSeq(t, skip + 1, Len(t)) /\ Len(t) - skip < EDITOR_MAX_BUFFER_SIZE
  BY DEF EdInit
<1>. DEFINE T == {i \in 0 .. Len(t) : At(t, i) # "n"}
            skip == Min(T)
<1>2. t \in Seq(EditorChar) /\ Len(t) \in Nat
  BY EditorAssumption
<1>3. Len(t) \in T /\ T \subseteq Nat
  BY <1>2, LineStartsFact
<1>4. skip \in T
  <2>. HIDE DEF T
  <2>. QED  BY <1>3, MinFact
<1>5. skip \in 0 .. Len(t)
  BY <1>4
<1>. HIDE DEF skip
<1>6. buffer = SubSeq(t, skip + 1, Len(t)) /\ Len(t) - skip < EDITOR_MAX_BUFFER_SIZE
  BY <1>1 DEF skip
<1>7. buffer \in Seq(EditorChar) /\ Len(buffer) = Len(t) - skip
  BY <1>2, <1>5, <1>6
<1>8. /\ cursor_offset = 0 /\ window_offset = 0 /\ draw = Fresh /\ edpc = "draw" /\ keys = 0
      /\ Len(buffer) \in Nat
  BY <1>7 DEF EdInit
<1>9. BetweenCells(draw)
  BY <1>7, <1>8, FreshFact
<1>. QED  BY <1>6, <1>7, <1>8, <1>9 DEF EdInv

LEMMA RedrawFact ==
  ASSUME EdInv, Redraw, keys' \in Nat,
         buffer' \in Seq(EditorChar), Len(buffer') < EDITOR_MAX_BUFFER_SIZE,
         cursor_offset' \in 0 .. Len(buffer')
  PROVE  EdInv'
<1>1. /\ Fresh \in DrawRec /\ Fresh.i = 0 /\ Fresh.tab = 0 /\ Fresh.early = FALSE
      /\ Fresh.shown = FALSE /\ Fresh.cells = <<>>
  BY EditorAssumption DEF Fresh, DrawRec
<1>2. draw' = Fresh /\ edpc' = "draw" /\ window_offset' = window_offset
  BY DEF Redraw
<1>3. CellsSound(draw.cells)' /\ Len(buffer') \in Nat /\ Len(<<>>) = 0
  <2>1. draw'.cells = <<>>
    BY <1>1, <1>2
  <2>2. Len(buffer') \in Nat /\ Len(<<>>) = 0 /\ <<>> \in Seq(CellRec) /\ 1 .. 0 = {}
    OBVIOUS
  <2>. QED  BY <2>1, <2>2, Zenon DEF CellsSound
<1>4. BetweenCells(draw)'
  BY <1>1, <1>2, <1>3 DEF BetweenCells, Drawn
<1>. QED  BY <1>2, <1>4 DEF EdInv

LEMMA MoveFact ==
  ASSUME EdInv, NEW i, MoveTo(i), i \in 0 .. Len(buffer)
  PROVE  EdInv'
<1>1. /\ Redraw /\ buffer' = buffer /\ cursor_offset' = i /\ keys' \in Nat
      /\ buffer \in Seq(EditorChar) /\ Len(buffer) < EDITOR_MAX_BUFFER_SIZE
  BY DEF MoveTo, Key, EdInv
<1>. QED  BY <1>1, RedrawFact

LEMMA MovesFact ==
  ASSUME EdInv, CursorDown \/ CursorUp \/ CursorLeft \/ CursorRight \/ Home \/ End
  PROVE  EdInv'
<1>. DEFINE b == buffer
            i == cursor_offset
<1>1. b \in Seq(EditorChar) /\ i \in 0 .. Len(b) /\ Len(b) \in Nat
  BY DEF EdInv
<1>2. /\ get_next_line(i, b) \in i .. Len(b)
      /\ get_prev_line(i, b) \in 0 .. i /\ get_line_offset(i, b) \in 0 .. i
      /\ get_line_length(i, b) \in 0 .. Len(b) - i
  BY <1>1, DownFact, UpFact, OffsetFact, LengthFact
<1>3. CASE CursorDown
  <2>1. get_next_line(i, b) \in 0 .. Len(b)
    BY <1>1, <1>2
  <2>. QED  BY <1>3, <2>1, MoveFact DEF CursorDown
<1>4. CASE CursorUp
  <2>1. get_prev_line(i, b) \in 0 .. Len(b)
    BY <1>1, <1>2
  <2>. QED  BY <1>4, <2>1, MoveFact DEF CursorUp
<1>5. CASE CursorLeft
  <2>1. (IF i > 0 THEN i - 1 ELSE 0) \in 0 .. Len(b)
    BY <1>1
  <2>. QED  BY <1>5, <2>1, MoveFact DEF CursorLeft
<1>6. CASE CursorRight
  <2>1. (IF i < Len(b) THEN i + 1 ELSE i) \in 0 .. Len(b)
    BY <1>1
  <2>. QED  BY <1>6, <2>1, MoveFact DEF CursorRight, buflen
<1>7. CASE Home
  <2>1. get_line_offset(i, b) \in 0 .. Len(b)
    BY <1>1, <1>2
  <2>. QED  BY <1>7, <2>1, MoveFact DEF Home
<1>8. CASE End
  <2>1. i + get_line_length(i, b) \in 0 .. Len(b)
    BY <1>1, <1>2
  <2>. QED  BY <1>8, <2>1, MoveFact DEF End
<1>. QED  BY <1>3, <1>4, <1>5, <1>6, <1>7, <1>8

LEMMA ClickStep ==
  ASSUME EdInv, NEW x \in 0 .. line_size + 1, NEW y \in 0 .. _window_size - 1, Click(x, y)
  PROVE  EdInv'
<1>. DEFINE o == editor_cell_to_offset(x, y)
<1>1. edpc = "input" /\ o # -1 /\ MoveTo(o)
  BY DEF Click, MoveTo, Key
<1>2. CellsSound(draw.cells) /\ x \in Nat /\ y \in Nat /\ Len(buffer) \in Nat
  BY <1>1, EditorAssumption DEF EdInv
<1>3. PICK k \in 1 .. Len(draw.cells) : o = draw.cells[k].i
  BY <1>1, <1>2, ClickFact
<1>. HIDE DEF o
<1>4. draw.cells[k] \in CellRec /\ draw.cells[k].i <= Len(buffer)
  BY <1>2 DEF CellsSound
<1>5. o \in 0 .. Len(buffer)
  BY <1>2, <1>3, <1>4 DEF CellRec
<1>. QED  BY <1>1, <1>5, MoveFact

(* The text is edited at the cursor. *)
LEMMA WithoutFact ==
  ASSUME buffer \in Seq(EditorChar), NEW i \in 0 .. Len(buffer) - 1
  PROVE  Without(i) \in Seq(EditorChar) /\ Len(Without(i)) = Len(buffer) - 1
<1>. DEFINE n == Len(buffer) - 1
            w == [k \in 1 .. n |-> IF k <= i THEN buffer[k] ELSE buffer[k + 1]]
<1>1. n \in Nat
  OBVIOUS
<1>2. \A k \in 1 .. n : k \in 1 .. Len(buffer) /\ k + 1 \in 1 .. Len(buffer)
  OBVIOUS
<1>3. w \in [1 .. n -> EditorChar]
  BY <1>2
<1>4. w = Without(i)
  BY DEF Without, buflen
<1>. HIDE DEF w
<1>. QED  BY <1>1, <1>3, <1>4

LEMMA EditStep ==
  ASSUME EdInv, Backspace \/ Delete \/ \E c \in Typed : Insert(c)
  PROVE  EdInv'
<1>. DEFINE b == buffer
            i == cursor_offset
<1>1. /\ b \in Seq(EditorChar) /\ i \in 0 .. Len(b) /\ Len(b) \in Nat
      /\ Len(b) < EDITOR_MAX_BUFFER_SIZE /\ keys \in Nat
  BY DEF EdInv
<1>2. Redraw /\ keys' \in Nat
  <2>1. Key /\ Redraw
    BY Zenon DEF Backspace, Delete, Insert
  <2>. QED  BY <1>1, <2>1 DEF Key
<1>3. CASE Backspace
  <2>1. CASE i = 0
    <3>1. buffer' = b /\ cursor_offset' = i
      BY <1>3, <2>1 DEF Backspace
    <3>. QED  BY <3>1, <1>1, <1>2, RedrawFact
  <2>2. CASE i # 0
    <3>1. buffer' = Without(i - 1) /\ cursor_offset' = i - 1
      BY <1>3, <2>2 DEF Backspace
    <3>2. buffer' \in Seq(EditorChar) /\ Len(buffer') = Len(b) - 1
      BY <3>1, <2>2, <1>1, WithoutFact
    <3>. QED  BY <3>1, <3>2, <2>2, <1>1, <1>2, EditorAssumption, RedrawFact
  <2>. QED  BY <2>1, <2>2
<1>4. CASE Delete
  <2>1. CASE i < Len(b)
    <3>1. buffer' = Without(i) /\ cursor_offset' = i
      BY <1>4, <2>1 DEF Delete, buflen
    <3>2. buffer' \in Seq(EditorChar) /\ Len(buffer') = Len(b) - 1
      BY <3>1, <2>1, <1>1, WithoutFact
    <3>. QED  BY <3>1, <3>2, <2>1, <1>1, <1>2, EditorAssumption, RedrawFact
  <2>2. CASE ~(i < Len(b))
    <3>1. buffer' = b /\ cursor_offset' = i
      BY <1>4, <2>2 DEF Delete, buflen
    <3>. QED  BY <3>1, <1>1, <1>2, RedrawFact
  <2>. QED  BY <2>1, <2>2
<1>5. ASSUME NEW c \in Typed, Insert(c)
      PROVE  EdInv'
  <2>1. CASE Room
    <3>. DEFINE f == SubSeq(b, 1, i)
                g == SubSeq(b, i + 1, Len(b))
    <3>1. buffer' = f \o <<c>> \o g /\ cursor_offset' = i + 1
      BY <1>5, <2>1 DEF Insert, buflen
    <3>2. c \in EditorChar
      BY EditorAssumption
    <3>3. f \in Seq(EditorChar) /\ Len(f) = i /\ g \in Seq(EditorChar) /\ Len(g) = Len(b) - i
      BY <1>1
    <3>. HIDE DEF f, g
    <3>4. buffer' \in Seq(EditorChar) /\ Len(buffer') = Len(b) + 1
      <4>1. <<c>> \in Seq(EditorChar) /\ Len(<<c>>) = 1
        BY <3>2
      <4>. DEFINE h == <<c>>
                  j == f \o h
      <4>. HIDE DEF h
      <4>2. j \in Seq(EditorChar) /\ Len(j) = i + 1
        BY <4>1, <3>3, <1>1 DEF h
      <4>. HIDE DEF j
      <4>3. j \o g \in Seq(EditorChar) /\ Len(j \o g) = Len(j) + Len(g)
        BY <4>2, <3>3, SMTT(40)
      <4>4. buffer' = j \o g
        BY <3>1 DEF j, h
      <4>5. Len(j) + Len(g) = Len(b) + 1
        <5>. DEFINE p == Len(j)
                    q == Len(g)
                    n == Len(b)
        <5>1. p = i + 1 /\ q = n - i /\ n \in Nat /\ i \in Nat
          BY <4>2, <3>3, <1>1
        <5>. HIDE DEF p, q, n
        <5>2. p + q = n + 1
          BY <5>1
        <5>. QED  BY <5>2 DEF p, q, n
      <4>. QED  BY <4>3, <4>4, <4>5, Zenon
    <3>5. Len(b) + 1 < EDITOR_MAX_BUFFER_SIZE
      BY <2>1, <1>1, EditorAssumption DEF Room, buflen
    <3>6. cursor_offset' \in 0 .. Len(buffer')
      BY <3>1, <3>4, <1>1
    <3>. QED  BY <3>4, <3>5, <3>6, <1>2, RedrawFact
  <2>2. CASE ~Room
    <3>1. buffer' = b /\ cursor_offset' = i
      BY <1>5, <2>2 DEF Insert
    <3>. QED  BY <3>1, <1>1, <1>2, RedrawFact
  <2>. QED  BY <2>1, <2>2
<1>. QED  BY <1>3, <1>4, <1>5

(* A step of the refresh pass. *)
LEMMA StillDrawing ==
  ASSUME EdInv, BetweenCells(draw'), edpc' = edpc, edpc = "draw",
         UNCHANGED <<buffer, cursor_offset, window_offset, keys>>
  PROVE  EdInv'
<1>1. BetweenCells(draw)'
  BY DEF BetweenCells, Drawn, CellsSound, CursorCell, At
<1>. QED  BY <1>1 DEF EdInv

LEMMA DrawStep ==
  ASSUME EdInv, DrawEditor
  PROVE  EdInv'
<1>. DEFINE s == AtCell(draw)
<1>1. /\ edpc = "draw" /\ buffer \in Seq(EditorChar) /\ window_offset \in Int
      /\ BetweenCells(draw) /\ buffer' = buffer /\ cursor_offset' = cursor_offset /\ keys' = keys
  BY DEF EdInv, DrawEditor, DrawNewline, DrawCell, DrawEnd
<1>2. /\ OnCell(s) /\ s.i = draw.i /\ s.line = draw.line
      /\ s.early => s.line >= window_offset
      /\ At(buffer, draw.i) = "n" /\ ~Visible(draw) => BetweenCells(s) /\ s.tab = 0
  BY <1>1, CellFact
<1>. HIDE DEF s
<1>3. CASE DrawNewline
  <2>1. AtNewline(draw) /\ draw' = LineDone(NextRow(MapCell(MarkCursor(draw)))) /\ edpc' = edpc
        /\ window_offset' = window_offset
    BY <1>3 DEF DrawNewline
  <2>2. BetweenCells(draw')
    BY <2>1, <1>1, NewlineFact
  <2>. QED  BY <2>1, <2>2, <1>1, StillDrawing
<1>4. CASE DrawCell
  <2>1. /\ ~AtNewline(draw) /\ ~AtEnd(s) /\ edpc' = edpc /\ window_offset' = window_offset
        /\ draw' = IF At(buffer, s.i) = "n" THEN LineDone(s) ELSE Passed(s)
    BY <1>4 DEF DrawCell, s
  <2>2. CASE At(buffer, s.i) = "n"
    <3>1. draw.tab # 0 => At(buffer, draw.i) = "t"
      BY <1>1 DEF BetweenCells, Drawn
    <3>2. ~Visible(draw)
      BY <2>1, <2>2, <3>1, <1>2 DEF AtNewline
    <3>3. BetweenCells(s) /\ s.tab = 0 /\ s \in DrawRec
      BY <2>2, <3>2, <1>2 DEF BetweenCells, Drawn
    <3>. DEFINE u == LineDone(s)
    <3>4. /\ u \in DrawRec /\ u.i = s.i + 1 /\ u.tab = s.tab /\ u.early = s.early
          /\ u.shown = s.shown /\ u.cx = s.cx /\ u.cy = s.cy
          /\ u.x = s.x /\ u.y = s.y /\ u.cells = s.cells
      BY <3>3, DoneFact
    <3>. HIDE DEF u
    <3>5. u.i <= Len(buffer)
      <4>1. s.i \in 0 .. Len(buffer)
        BY <3>3, <1>1 DEF BetweenCells, Drawn, DrawRec
      <4>. QED  BY <4>1, <3>4, <2>2, <1>1, LineStartsFact, SMTT(40)
    <3>6. BetweenCells(u)
      BY <3>3, <3>4, <3>5 DEF BetweenCells, Drawn, Before, CursorCell
    <3>7. draw' = u
      BY <2>1, <2>2 DEF u
    <3>. QED  BY <3>6, <3>7, <2>1, <1>1, StillDrawing
  <2>3. CASE At(buffer, s.i) # "n"
    <3>1. BetweenCells(Passed(s))
      BY <1>1, <1>2, <2>1, PassedFact
    <3>2. draw' = Passed(s)
      BY <2>1, <2>3
    <3>. QED  BY <3>1, <3>2, <2>1, <1>1, StillDrawing
  <2>. QED  BY <2>2, <2>3
<1>5. CASE DrawEnd
  <2>1. /\ AtEnd(s)
        /\ IF s.shown
           THEN /\ draw' = IF At(buffer, s.i) = "0" /\ Visible(s) THEN MapCell(s) ELSE s
                /\ edpc' = "input" /\ window_offset' = window_offset
           ELSE draw' = Fresh /\ window_offset' = Moved(s) /\ edpc' = edpc
    BY <1>5 DEF DrawEnd, s
  <2>2. CASE s.shown
    <3>1. CellsSound(draw'.cells) /\ CursorCell(draw')
      BY <2>1, <2>2, <1>1, <1>2, EndFact
    <3>2. (CellsSound(draw.cells) /\ CursorCell(draw))'
      BY <3>1, <1>1 DEF CellsSound, CursorCell
    <3>3. edpc' = "input" /\ window_offset' = window_offset
      BY <2>1, <2>2
    <3>. QED  BY <3>2, <3>3, <1>1 DEF EdInv
  <2>3. CASE ~s.shown
    <3>1. draw' = Fresh /\ window_offset' \in Int /\ edpc' = "draw"
      BY <2>1, <2>3, <1>1 DEF Moved
    <3>2. BetweenCells(draw')
      BY <3>1, <1>1, FreshFact
    <3>3. BetweenCells(draw)'
      BY <3>2, <1>1 DEF BetweenCells, Drawn, CellsSound, CursorCell, At
    <3>. QED  BY <3>1, <3>3, <1>1 DEF EdInv
  <2>. QED  BY <2>2, <2>3
<1>. QED  BY <1>3, <1>4, <1>5 DEF DrawEditor

LEMMA LeaveStep ==
  ASSUME EdInv, F10 \/ Escape
  PROVE  EdInv'
<1>1. /\ edpc' \in {"booted", "discarded"} /\ keys' \in Nat
      /\ UNCHANGED <<buffer, cursor_offset, window_offset, draw>>
  BY DEF F10, Escape, Key, EdInv
<1>. QED  BY <1>1 DEF EdInv

LEMMA StepInv == EdInv /\ EdNext => EdInv'
<1>. SUFFICES ASSUME EdInv, EdNext PROVE EdInv'
  OBVIOUS
<1>. QED  BY DrawStep, MovesFact, EditStep, LeaveStep, ClickStep, Zenon DEF EdNext

LEMMA StutterInv == EdInv /\ UNCHANGED edvars => EdInv'
<1>. SUFFICES ASSUME EdInv, UNCHANGED edvars PROVE EdInv'
  OBVIOUS
<1>1. (BetweenCells(draw) => BetweenCells(draw)') /\ (CellsSound(draw.cells) => CellsSound(draw.cells)')
      /\ (CursorCell(draw) => CursorCell(draw)')
  BY DEF edvars, BetweenCells, Drawn, CellsSound, CursorCell, At
<1>. QED  BY <1>1 DEF EdInv, edvars

-----------------------------------------------------------------------------
(* The refresh pass maps cells in the order it draws them, none twice,     *)
(* each to an offset of the text, and a cursor it drew is in one of them,  *)
(* whatever the text, the sizes and the keys.                              *)
THEOREM EditorInvariant == EdSpec => []EdInv
<1>1. EdInv /\ [EdNext]_edvars => EdInv'
  BY StepInv, StutterInv
<1>. QED  BY <1>1, FirstInv, PTL DEF EdSpec

(* Text, cursor and screen agree after any sequence of keys and clicks, on *)
(* every text and every size of screen and buffer: the cursor is in the    *)
(* text and on the cell that shows its character, a click goes to what its *)
(* cell shows, and Up and Down move by whole lines (config_entry_editor).  *)
THEOREM EditorIsTrue == EdSpec => []EditorTrue
BY EditorInvariant, InvTrue, PTL
=============================================================================
