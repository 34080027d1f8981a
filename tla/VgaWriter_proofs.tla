-------------------------- MODULE VgaWriter_proofs --------------------------
(***************************************************************************)
(* Proofs about module VgaWriter, for every size of the screen and every   *)
(* text: the buffer is what the reference layout says.                     *)
(***************************************************************************)
EXTENDS VgaWriter, FiniteSetTheorems, SequenceTheorems, WellFoundedInduction, TLAPS

Byte    == 0 .. 255
Cells   == [ascii_character : Nat, color_code : Nat]
Writers == [chars : [Rows -> [Cols -> Cells]], column_position : 0 .. BUFFER_WIDTH]

(* No byte of the text belongs right of the next byte, or below.           *)
Laid(t) ==
  \A i \in DOMAIN t : t[i] # NewLine =>
    /\ LineOf(t, i) <= LastLine(t)
    /\ LineOf(t, i) = LastLine(t) => Column(t, i) % BUFFER_WIDTH < LastCol(t)

(* The writer w has written the text t.                                    *)
Wrote(w, t) == w \in Writers /\ t \in Seq(Byte) /\ Laid(t) /\ Displays(w, t)

-----------------------------------------------------------------------------
(* Induction up to a number, with the statement as a set.                  *)
LEMMA UpTo ==
  ASSUME NEW n \in Nat, NEW S, 0 \in S, \A i \in 0 .. n - 1 : i \in S => i + 1 \in S
  PROVE  \A i \in 0 .. n : i \in S
<1> DEFINE R == {p \in Nat \X Nat : p[1] < p[2]}
           T == {i \in 0 .. n : i \notin S}
<1>1. IsWellFoundedOn(R, Nat)
  BY NatLessThanWellFounded DEF OpToRel
<1>2. T \in SUBSET Nat
  OBVIOUS
<1>3. CASE T # {}
  <2>1. PICK x \in T : \A y \in T : ~ (<<y, x>> \in R)
    BY <1>1, <1>2, <1>3, WFMin
  <2>2. x \in 1 .. n /\ x \notin S
    BY <2>1
  <2>3. x - 1 \in 0 .. n - 1 /\ <<x - 1, x>> \in R
    BY <2>2
  <2>4. x - 1 \in S
    BY <2>1, <2>3
  <2>5. (x - 1) + 1 \in S
    BY <2>3, <2>4
  <2> QED
    BY <2>2, <2>5
<1>4. CASE T = {}
  BY <1>4
<1> QED
  BY <1>3, <1>4

(* Division by the width.                                                  *)
LEMMA Quotient ==
  ASSUME NEW d \in Nat \ {0}, NEW a \in Nat, NEW r \in 0 .. d - 1
  PROVE  (d * a + r) \div d = a /\ (d * a + r) % d = r
<1> DEFINE m == d * a + r
           b == m \div d
           s == m % d
<1>1. m \in Nat
  OBVIOUS
<1>2. b \in Nat /\ s \in 0 .. d - 1 /\ m = d * b + s
  BY <1>1
<1>3. d * a + r = d * b + s
  BY <1>2
<1> HIDE DEF b, s, m
<1>4. a = b
  <2>1. CASE a < b
    <3>1. PICK x \in Nat : b = a + 1 + x
      BY <2>1, <1>2
    <3>2. d * b = d * a + d + d * x
      BY <3>1
    <3>3. d * x \in Nat /\ d * a \in Nat
      BY <3>1
    <3> QED
      BY <3>2, <3>3, <1>2, <1>3
  <2>2. CASE b < a
    <3>1. PICK x \in Nat : a = b + 1 + x
      BY <2>2, <1>2
    <3>2. d * a = d * b + d + d * x
      BY <3>1, <1>2
    <3>3. d * x \in Nat /\ d * b \in Nat
      BY <3>1, <1>2
    <3> QED
      BY <3>2, <3>3, <1>2, <1>3
  <2> QED
    BY <2>1, <2>2, <1>2
<1>5. r = s
  BY <1>2, <1>3, <1>4
<1> QED
  BY <1>4, <1>5 DEF b, s, m

(***************************************************************************)
(* The number of lines of a paragraph, and the place of its next byte.     *)
(***************************************************************************)
LEMMA LinesOfFacts ==
  ASSUME NEW col \in Nat
  PROVE  /\ LinesOf(col) \in Nat \ {0}
         /\ LinesOf(col + 1) = (col \div BUFFER_WIDTH) + 1
         /\ LinesOf(col) = IF col > 0 /\ col % BUFFER_WIDTH = 0 THEN col \div BUFFER_WIDTH
                           ELSE (col \div BUFFER_WIDTH) + 1
         /\ col - (LinesOf(col) - 1) * BUFFER_WIDTH =
              IF col > 0 /\ col % BUFFER_WIDTH = 0 THEN BUFFER_WIDTH ELSE col % BUFFER_WIDTH
         /\ (col + 1) - (LinesOf(col + 1) - 1) * BUFFER_WIDTH = (col % BUFFER_WIDTH) + 1
         /\ col % BUFFER_WIDTH \in Cols /\ col \div BUFFER_WIDTH \in Nat
<1> DEFINE W == BUFFER_WIDTH
           q == col \div W
           m == col % W
<1>1. W \in Nat \ {0}
  BY VgaAssumption
<1>2. q \in Nat /\ m \in 0 .. W - 1 /\ col = W * q + m
  BY <1>1
<1> HIDE DEF W, q, m
<1>3. \A a \in Nat, r \in 0 .. W - 1 : (W * a + r) \div W = a
  BY <1>1, Quotient
<1>4. LinesOf(col + 1) = q + 1
  <2>1. col + 1 + W - 1 = W * (q + 1) + m /\ q + 1 \in Nat
    BY <1>1, <1>2
  <2>2. (W * (q + 1) + m) \div W = q + 1
    BY <1>2, <1>3, <2>1
  <2> QED
    BY <2>1, <2>2, <1>2 DEF LinesOf, W
<1>5. (col + 1) - ((q + 1) - 1) * W = m + 1
  BY <1>1, <1>2
<1>6. CASE col > 0 /\ m = 0
  <2>1. q \in Nat \ {0}
    BY <1>1, <1>2, <1>6
  <2>2. col + W - 1 = W * q + (W - 1) /\ W - 1 \in 0 .. W - 1
    BY <1>1, <1>2, <1>6
  <2>3. (W * q + (W - 1)) \div W = q
    BY <1>2, <1>3, <2>2
  <2>4. LinesOf(col) = q
    BY <2>2, <2>3, <1>6 DEF LinesOf, W
  <2>5. col - (q - 1) * W = W
    BY <1>1, <1>2, <1>6
  <2> QED
    BY <1>2, <1>4, <1>5, <1>6, <2>1, <2>4, <2>5 DEF W, q, m, Cols
<1>7. CASE ~(col > 0 /\ m = 0)
  <2>1. LinesOf(col) = q + 1
    <3>1. CASE col = 0
      <4>1. q = 0
        BY <1>1, <1>2, <3>1
      <4> QED
        BY <4>1, <3>1 DEF LinesOf
    <3>2. CASE col # 0
      <4>1. m - 1 \in 0 .. W - 1 /\ q + 1 \in Nat
        BY <1>1, <1>2, <1>7, <3>2
      <4>2. col + W - 1 = W * (q + 1) + (m - 1)
        BY <1>1, <1>2
      <4>3. (W * (q + 1) + (m - 1)) \div W = q + 1
        BY <1>3, <4>1
      <4> QED
        BY <4>2, <4>3, <3>2 DEF LinesOf, W
    <3> QED
      BY <3>1, <3>2
  <2>2. col - ((q + 1) - 1) * W = m
    BY <1>1, <1>2
  <2>3. q + 1 \in Nat \ {0}
    BY <1>2
  <2> QED
    BY <1>2, <1>4, <1>5, <1>7, <2>1, <2>2, <2>3 DEF W, q, m, Cols
<1> QED
  BY <1>6, <1>7

-----------------------------------------------------------------------------
(* A set of breaks has a last one.                                         *)
LEMMA LastBreak ==
  ASSUME NEW t, NEW n \in Nat, Breaks(t, n) # {}
  PROVE  Max(Breaks(t, n)) \in Breaks(t, n)
<1> DEFINE HasMax(B) == \E x \in B : \A y \in B : x >= y
           S == {k \in Nat : Breaks(t, k) # {} => HasMax(Breaks(t, k))}
<1>1. 0 \in S
  BY DEF Breaks
<1>2. ASSUME NEW k \in 0 .. n - 1, k \in S PROVE k + 1 \in S
  <2>1. CASE t[k + 1] = NewLine
    <3>1. k + 1 \in Breaks(t, k + 1) /\ \A y \in Breaks(t, k + 1) : k + 1 >= y
      BY <2>1 DEF Breaks
    <3> QED
      BY <3>1
  <2>2. CASE t[k + 1] # NewLine
    <3>1. Breaks(t, k + 1) = Breaks(t, k)
      BY <2>2 DEF Breaks
    <3> QED
      BY <1>2, <3>1
  <2> QED
    BY <2>1, <2>2
<1>3. n \in S
  <2> HIDE DEF S
  <2>1. \A k \in 0 .. n : k \in S
    BY <1>1, <1>2, UpTo
  <2> QED
    BY <2>1
<1> QED
  BY <1>3 DEF Max

(* The column counts on, and starts again after a line break.              *)
LEMMA ColumnType ==
  ASSUME NEW t, NEW n \in Nat \ {0}
  PROVE  Column(t, n) \in Nat
<1>1. CASE Breaks(t, n - 1) = {}
  BY <1>1 DEF Column
<1>2. CASE Breaks(t, n - 1) # {}
  <2>1. Max(Breaks(t, n - 1)) \in Breaks(t, n - 1)
    BY <1>2, LastBreak
  <2>2. Max(Breaks(t, n - 1)) \in 1 .. n - 1
    BY <2>1 DEF Breaks
  <2> QED
    BY <1>2, <2>2 DEF Column
<1> QED
  BY <1>1, <1>2

(* The column of the next byte.                                            *)
LEMMA ColumnStep ==
  ASSUME NEW t, NEW n \in Nat \ {0}
  PROVE  Column(t, n + 1) = IF t[n] = NewLine THEN 0 ELSE Column(t, n) + 1
<1>1. CASE t[n] = NewLine
  <2>1. n \in Breaks(t, n) /\ \A y \in Breaks(t, n) : n >= y /\ y \in Nat
    BY <1>1 DEF Breaks
  <2>2. Max(Breaks(t, n)) \in Breaks(t, n)
    BY <2>1, LastBreak
  <2>3. Max(Breaks(t, n)) >= n
    BY <2>1 DEF Max
  <2>4. Max(Breaks(t, n)) = n
    BY <2>1, <2>2, <2>3
  <2>5. Breaks(t, (n + 1) - 1) = Breaks(t, n)
    OBVIOUS
  <2> QED
    BY <1>1, <2>1, <2>4, <2>5 DEF Column
<1>2. CASE t[n] # NewLine
  <2>1. Breaks(t, (n + 1) - 1) = Breaks(t, n - 1)
    BY <1>2 DEF Breaks
  <2>2. CASE Breaks(t, n - 1) = {}
    BY <1>2, <2>1, <2>2 DEF Column
  <2>3. CASE Breaks(t, n - 1) # {}
    <3>1. Max(Breaks(t, n - 1)) \in Breaks(t, n - 1)
      BY <2>3, LastBreak
    <3>2. Max(Breaks(t, n - 1)) \in 1 .. n - 1
      BY <3>1 DEF Breaks
    <3> QED
      BY <1>2, <2>1, <2>3, <3>2 DEF Column
  <2> QED
    BY <2>2, <2>3
<1> QED
  BY <1>1, <1>2

(* The lines of a paragraph are added at the break that ends it.           *)
LEMMA LinesStep ==
  ASSUME NEW t, NEW n \in Nat \ {0}, IsFiniteSet(LinesBefore(t, n))
  PROVE  /\ IsFiniteSet(LinesBefore(t, n + 1))
         /\ FirstLine(t, n + 1) =
              FirstLine(t, n) + (IF t[n] = NewLine THEN LinesOf(Column(t, n)) ELSE 0)
<1>0. FirstLine(t, n) \in Nat
  BY FS_CardinalityType DEF FirstLine
<1>1. CASE t[n] = NewLine
  <2> DEFINE L == LinesOf(Column(t, n))
             P == {n} \X (1 .. L)
  <2>1. L \in Nat \ {0}
    BY ColumnType, LinesOfFacts
  <2>2. Breaks(t, (n + 1) - 1) = Breaks(t, n - 1) \union {n} /\ n \notin Breaks(t, n - 1)
    BY <1>1 DEF Breaks
  <2>3. LinesBefore(t, n + 1) = LinesBefore(t, n) \union P
    BY <2>2 DEF LinesBefore
  <2>4. LinesBefore(t, n) \cap P = {}
    BY <2>2 DEF LinesBefore
  <2>5. IsFiniteSet(1 .. L) /\ Cardinality(1 .. L) = L
    <3> HIDE DEF L
    <3> QED
      BY <2>1, FS_Interval
  <2>6. IsFiniteSet({n}) /\ Cardinality({n}) = 1
    BY FS_Singleton
  <2>7. IsFiniteSet(P) /\ Cardinality(P) = 1 * L
    BY <2>5, <2>6, FS_Product
  <2> HIDE DEF P
  <2>8. /\ IsFiniteSet(LinesBefore(t, n) \union P)
        /\ Cardinality(LinesBefore(t, n) \union P) =
             Cardinality(LinesBefore(t, n)) + Cardinality(P)
               - Cardinality(LinesBefore(t, n) \cap P)
    BY <2>7, FS_Union
  <2>9. Cardinality(LinesBefore(t, n) \cap P) = 0
    BY <2>4, FS_EmptySet
  <2> HIDE DEF L
  <2> QED
    BY <1>0, <1>1, <2>1, <2>3, <2>7, <2>8, <2>9 DEF FirstLine, L
<1>2. CASE t[n] # NewLine
  <2>1. Breaks(t, (n + 1) - 1) = Breaks(t, n - 1)
    BY <1>2 DEF Breaks
  <2>2. LinesBefore(t, n + 1) = LinesBefore(t, n)
    BY <2>1 DEF LinesBefore
  <2> QED
    BY <1>0, <1>2, <2>2 DEF FirstLine
<1> QED
  BY <1>1, <1>2

(* The lines before a byte can be counted.                                 *)
LEMMA LinesFinite ==
  ASSUME NEW t, NEW n \in Nat \ {0}
  PROVE  IsFiniteSet(LinesBefore(t, n)) /\ FirstLine(t, n) \in Nat
<1> DEFINE S == {k \in Nat : IsFiniteSet(LinesBefore(t, k + 1))}
<1>1. 0 \in S
  <2>1. LinesBefore(t, 0 + 1) = {}
    BY DEF LinesBefore, Breaks
  <2> QED
    BY <2>1, FS_EmptySet
<1>2. ASSUME NEW k \in 0 .. n - 1, k \in S PROVE k + 1 \in S
  BY <1>2, LinesStep
<1>3. n - 1 \in S
  <2> HIDE DEF S
  <2>1. \A k \in 0 .. n : k \in S
    BY <1>1, <1>2, UpTo
  <2> QED
    BY <2>1
<1>4. IsFiniteSet(LinesBefore(t, n))
  BY <1>3
<1> QED
  BY <1>4, FS_CardinalityType DEF FirstLine

(* Where a byte belongs depends on the bytes before it only.               *)
LEMMA PrefixKept ==
  ASSUME NEW t \in Seq(Byte), NEW b \in Byte, NEW n \in 1 .. Len(t) + 1
  PROVE  /\ Column(Append(t, b), n) = Column(t, n)
         /\ FirstLine(Append(t, b), n) = FirstLine(t, n)
         /\ LineOf(Append(t, b), n) = LineOf(t, n)
<1> DEFINE u == Append(t, b)
<1>1. \A i \in 1 .. Len(t) : u[i] = t[i]
  OBVIOUS
<1> HIDE DEF u
<1>2. \A k \in 0 .. Len(t) : Breaks(u, k) = Breaks(t, k)
  BY <1>1 DEF Breaks
<1>3. \A k \in 1 .. Len(t) + 1 : Breaks(u, k - 1) = Breaks(t, k - 1)
  BY <1>2
<1>4. \A k \in 1 .. Len(t) + 1 : Column(u, k) = Column(t, k)
  BY <1>3 DEF Column
<1>5. LinesBefore(u, n) = LinesBefore(t, n)
  <2>1. Breaks(t, n - 1) \subseteq 1 .. Len(t) + 1
    BY DEF Breaks
  <2>2. Breaks(u, n - 1) = Breaks(t, n - 1)
    BY <1>3
  <2>3. \A k \in Breaks(t, n - 1) : Column(u, k) = Column(t, k)
    BY <1>4, <2>1
  <2> QED
    BY <2>2, <2>3 DEF LinesBefore
<1> QED
  BY <1>4, <1>5 DEF LineOf, FirstLine, u

-----------------------------------------------------------------------------
(* Where the text ends, before and after one more byte.                    *)
LEMMA EndOfText ==
  ASSUME NEW t \in Seq(Byte)
  PROVE  /\ LastLine(t) \in Nat /\ LastCol(t) \in 0 .. BUFFER_WIDTH
         /\ LineOf(t, Len(t) + 1) =
              IF LastCol(t) >= BUFFER_WIDTH THEN LastLine(t) + 1 ELSE LastLine(t)
         /\ Column(t, Len(t) + 1) % BUFFER_WIDTH =
              IF LastCol(t) >= BUFFER_WIDTH THEN 0 ELSE LastCol(t)
         /\ Column(t, Len(t) + 1) % BUFFER_WIDTH \in Cols
<1> DEFINE W == BUFFER_WIDTH
           e == Len(t) + 1
           col == Column(t, e)
           q == col \div W
           m == col % W
           F == FirstLine(t, e)
<1>1. W \in Nat \ {0} /\ e \in Nat \ {0}
  BY VgaAssumption
<1>2. col \in Nat /\ F \in Nat
  BY <1>1, ColumnType, LinesFinite
<1>3. q \in Nat /\ m \in Cols /\ m \in 0 .. W - 1
  <2> HIDE DEF col
  <2> QED
    BY <1>2, LinesOfFacts DEF Cols
<1>4. /\ LinesOf(col) = IF col > 0 /\ m = 0 THEN q ELSE q + 1
      /\ LastCol(t) = IF col > 0 /\ m = 0 THEN W ELSE m
  <2>1. LastCol(t) = col - (LinesOf(col) - 1) * W
    BY DEF LastCol, Wrapped
  <2> HIDE DEF col
  <2> QED
    BY <1>2, <2>1, LinesOfFacts
<1>5. LastLine(t) = F + (LinesOf(col) - 1) /\ LineOf(t, e) = F + q
  BY DEF LastLine, LineOf, Wrapped
<1>6. LinesOf(col) \in Nat \ {0}
  BY <1>2, LinesOfFacts
<1> HIDE DEF W, e, col, q, m, F
<1>7. CASE col > 0 /\ m = 0
  BY <1>1, <1>2, <1>3, <1>4, <1>5, <1>6, <1>7 DEF W, e, col, q, m, F
<1>8. CASE ~(col > 0 /\ m = 0)
  BY <1>1, <1>2, <1>3, <1>4, <1>5, <1>6, <1>8 DEF W, e, col, q, m, F
<1> QED
  BY <1>7, <1>8

(* A line break ends the line, another byte takes its place.               *)
LEMMA EndStep ==
  ASSUME NEW t \in Seq(Byte), NEW b \in Byte
  PROVE  /\ b = NewLine => /\ LastLine(Append(t, b)) = LastLine(t) + 1
                           /\ LastCol(Append(t, b)) = 0
         /\ b # NewLine => /\ LastLine(Append(t, b)) = LineOf(t, Len(t) + 1)
                           /\ LastCol(Append(t, b)) =
                                (Column(t, Len(t) + 1) % BUFFER_WIDTH) + 1
<1> DEFINE W == BUFFER_WIDTH
           u == Append(t, b)
           e == Len(t) + 1
           col == Column(t, e)
           F == FirstLine(t, e)
<1>1. W \in Nat \ {0} /\ e \in Nat \ {0}
  BY VgaAssumption
<1>2. Len(u) = e /\ u[e] = b /\ Column(u, e) = col /\ FirstLine(u, e) = F
  BY <1>1, PrefixKept
<1>3. col \in Nat /\ F \in Nat
  BY <1>1, ColumnType, LinesFinite
<1> HIDE DEF u, e, col, F, W
<1>4. Column(u, e + 1) = IF b = NewLine THEN 0 ELSE col + 1
  BY <1>1, <1>2, ColumnStep
<1>5. FirstLine(u, e + 1) = F + (IF b = NewLine THEN LinesOf(col) ELSE 0)
  BY <1>1, <1>2, LinesFinite, LinesStep
<1>6. /\ LastLine(u) = FirstLine(u, e + 1) + (LinesOf(Column(u, e + 1)) - 1)
      /\ LastCol(u) = Column(u, e + 1) - (LinesOf(Column(u, e + 1)) - 1) * W
  BY <1>2 DEF LastLine, LastCol, Wrapped, W
<1>7. LastLine(t) = F + (LinesOf(col) - 1) /\ LineOf(t, e) = F + (col \div W)
  BY DEF LastLine, LineOf, Wrapped, W, F, e, col
<1>8. /\ LinesOf(col) \in Nat \ {0} /\ LinesOf(col + 1) = (col \div W) + 1
      /\ (col + 1) - (LinesOf(col + 1) - 1) * W = (col % W) + 1
      /\ col \div W \in Nat
  BY <1>3, LinesOfFacts DEF W
<1>9. CASE b = NewLine
  <2>1. LinesOf(0) = 1
    BY DEF LinesOf
  <2> QED
    BY <1>1, <1>3, <1>4, <1>5, <1>6, <1>7, <1>8, <1>9, <2>1 DEF u
<1>10. CASE b # NewLine
  BY <1>1, <1>3, <1>4, <1>5, <1>6, <1>7, <1>8, <1>10 DEF u, W, e, col
<1> QED
  BY <1>9, <1>10

(* A byte adds itself, in its place, to what has to be shown.              *)
LEMMA BytesAtStep ==
  ASSUME NEW t \in Seq(Byte), NEW b \in Byte, NEW l, NEW c
  PROVE  /\ b # NewLine /\ l = LineOf(t, Len(t) + 1)
              /\ c = Column(t, Len(t) + 1) % BUFFER_WIDTH
           => BytesAt(Append(t, b), l, c) = BytesAt(t, l, c) \union {Len(t) + 1}
         /\ ~(b # NewLine /\ l = LineOf(t, Len(t) + 1)
              /\ c = Column(t, Len(t) + 1) % BUFFER_WIDTH)
           => BytesAt(Append(t, b), l, c) = BytesAt(t, l, c)
<1> DEFINE u == Append(t, b)
           e == Len(t) + 1
<1>1. DOMAIN u = DOMAIN t \union {e} /\ e \notin DOMAIN t /\ u[e] = b
  OBVIOUS
<1>2. \A i \in DOMAIN t : /\ u[i] = t[i] /\ LineOf(u, i) = LineOf(t, i)
                          /\ Column(u, i) = Column(t, i)
  BY PrefixKept
<1>3. LineOf(u, e) = LineOf(t, e) /\ Column(u, e) = Column(t, e)
  BY PrefixKept
<1> HIDE DEF u, e
<1>4. BytesAt(t, l, c) = {i \in DOMAIN t : u[i] # NewLine /\ LineOf(u, i) = l
                            /\ Column(u, i) % BUFFER_WIDTH = c}
  BY <1>2 DEF BytesAt
<1>5. BytesAt(u, l, c) = {i \in DOMAIN t \union {e} : u[i] # NewLine /\ LineOf(u, i) = l
                            /\ Column(u, i) % BUFFER_WIDTH = c}
  BY <1>1 DEF BytesAt
<1> QED
  BY <1>1, <1>3, <1>4, <1>5 DEF u, e

(* What a place shows does not change but for the byte that is written.    *)
LEMMA ShowsStep ==
  ASSUME NEW t \in Seq(Byte), NEW b \in Byte, NEW l, NEW c, NEW x, Shows(t, l, c, x),
         ~(b # NewLine /\ l = LineOf(t, Len(t) + 1)
           /\ c = Column(t, Len(t) + 1) % BUFFER_WIDTH)
  PROVE  Shows(Append(t, b), l, c, x)
<1> DEFINE u == Append(t, b)
<1>1. BytesAt(u, l, c) = BytesAt(t, l, c)
  BY BytesAtStep
<1>2. \A i \in BytesAt(t, l, c) : u[i] = t[i]
  BY DEF BytesAt
<1> HIDE DEF u
<1> QED
  BY <1>1, <1>2 DEF Shows, u

(* One more byte is laid after all others.                                 *)
LEMMA LaidStep ==
  ASSUME NEW t \in Seq(Byte), NEW b \in Byte, Laid(t)
  PROVE  Laid(Append(t, b))
<1> DEFINE u == Append(t, b)
           e == Len(t) + 1
<1> SUFFICES ASSUME NEW i \in DOMAIN u, u[i] # NewLine
             PROVE  /\ LineOf(u, i) <= LastLine(u)
                    /\ LineOf(u, i) = LastLine(u) => Column(u, i) % BUFFER_WIDTH < LastCol(u)
  BY DEF Laid
<1>1. i \in 1 .. Len(t) + 1 /\ (i # e => i \in DOMAIN t /\ t[i] # NewLine) /\ (i = e => b # NewLine)
  OBVIOUS
<1>2. LineOf(u, i) = LineOf(t, i) /\ Column(u, i) = Column(t, i)
  BY <1>1, PrefixKept
<1>3. /\ LineOf(t, i) \in Nat /\ Column(t, i) % BUFFER_WIDTH \in Nat
      /\ LastLine(t) \in Nat /\ LastCol(t) \in Nat /\ BUFFER_WIDTH \in Nat \ {0}
  <2>1. Column(t, i) \in Nat /\ FirstLine(t, i) \in Nat
    BY <1>1, ColumnType, LinesFinite
  <2>2. Column(t, i) % BUFFER_WIDTH \in Cols /\ Column(t, i) \div BUFFER_WIDTH \in Nat
    BY <2>1, LinesOfFacts
  <2> QED
    BY <2>1, <2>2, EndOfText, VgaAssumption DEF LineOf, Cols
<1>4. i # e => /\ LineOf(t, i) <= LastLine(t)
               /\ LineOf(t, i) = LastLine(t) => Column(t, i) % BUFFER_WIDTH < LastCol(t)
  BY <1>1 DEF Laid
<1> HIDE DEF u, e
<1>5. CASE b = NewLine
  <2>1. LastLine(u) = LastLine(t) + 1
    BY <1>5, EndStep DEF u
  <2> QED
    BY <1>1, <1>2, <1>3, <1>4, <1>5, <2>1
<1>6. CASE b # NewLine
  <2>1. /\ LastLine(u) = LineOf(t, e)
        /\ LastCol(u) = (Column(t, e) % BUFFER_WIDTH) + 1
    BY <1>6, EndStep DEF u, e
  <2>2. /\ LineOf(t, e) = IF LastCol(t) >= BUFFER_WIDTH THEN LastLine(t) + 1 ELSE LastLine(t)
        /\ Column(t, e) % BUFFER_WIDTH = IF LastCol(t) >= BUFFER_WIDTH THEN 0 ELSE LastCol(t)
    BY EndOfText DEF e
  <2>3. CASE i = e
    BY <2>3, <1>2, <1>3, <2>1
  <2>4. CASE i # e
    BY <2>4, <1>2, <1>3, <1>4, <2>1, <2>2
  <2> QED
    BY <2>3, <2>4
<1> QED
  BY <1>5, <1>6

-----------------------------------------------------------------------------
(* The rows of a buffer show lines of the text t, the last of them the     *)
(* line last.                                                              *)
RowsShow(buffer, t, last) ==
  \A r \in Rows, c \in Cols : Shows(t, last - (BUFFER_HEIGHT - 1 - r), c, buffer[r][c])

(* The buffer after new_line.                                              *)
LEMMA NewLineFacts ==
  ASSUME NEW w \in Writers
  PROVE  /\ new_line(w) \in Writers /\ new_line(w).column_position = 0
         /\ \A r \in Rows, c \in Cols : new_line(w).chars[r][c] =
              IF r = BUFFER_HEIGHT - 1 THEN ScreenChar(Space, color_code)
              ELSE w.chars[r + 1][c]
<1>1. BUFFER_HEIGHT \in Nat \ {0} /\ BUFFER_WIDTH \in Nat \ {0}
  BY VgaAssumption
<1>2. BlankRow \in [Cols -> Cells] /\ \A c \in Cols : BlankRow[c] = ScreenChar(Space, color_code)
  BY DEF BlankRow, ScreenChar, Cells, Space, color_code, ColorCode
<1>3. \A r \in Rows : r + 1 \in Rows <=> r # BUFFER_HEIGHT - 1
  BY <1>1 DEF Rows
<1>4. w.chars \in [Rows -> [Cols -> Cells]]
  BY DEF Writers
<1>5. [r \in Rows |-> IF r + 1 \in Rows THEN w.chars[r + 1] ELSE BlankRow]
        \in [Rows -> [Cols -> Cells]]
  BY <1>2, <1>4
<1> QED
  BY <1>1, <1>2, <1>3, <1>5 DEF new_line, Writers

(* A new line scrolls: the rows show the same lines one row further up,    *)
(* and the last row is the blank line after the text.                      *)
LEMMA ScrollShows ==
  ASSUME NEW w, NEW t, Wrote(w, t)
  PROVE  RowsShow(new_line(w).chars, t, LastLine(t) + 1)
<1> DEFINE v == new_line(w)
           l(r) == (LastLine(t) + 1) - (BUFFER_HEIGHT - 1 - r)
<1>1. BUFFER_HEIGHT \in Nat \ {0} /\ w \in Writers /\ t \in Seq(Byte) /\ LastLine(t) \in Nat
  BY VgaAssumption, EndOfText DEF Wrote
<1> SUFFICES ASSUME NEW r \in Rows, NEW c \in Cols
             PROVE  Shows(t, l(r), c, v.chars[r][c])
  BY DEF RowsShow
<1>2. CASE r = BUFFER_HEIGHT - 1
  <2>1. l(r) = LastLine(t) + 1 /\ l(r) > 0
    BY <1>1, <1>2
  <2>2. BytesAt(t, LastLine(t) + 1, c) = {}
    <3> SUFFICES ASSUME NEW i \in BytesAt(t, LastLine(t) + 1, c) PROVE FALSE
      OBVIOUS
    <3>1. LineOf(t, i) = LastLine(t) + 1 /\ LineOf(t, i) <= LastLine(t)
      BY DEF BytesAt, Wrote, Laid
    <3> QED
      BY <1>1, <3>1
  <2>3. v.chars[r][c] = ScreenChar(Space, color_code)
    BY <1>1, <1>2, NewLineFacts
  <2> QED
    BY <2>1, <2>2, <2>3 DEF Shows
<1>3. CASE r # BUFFER_HEIGHT - 1
  <2>1. r + 1 \in Rows /\ l(r) = LastLine(t) - (BUFFER_HEIGHT - 1 - (r + 1))
    BY <1>1, <1>3 DEF Rows
  <2>2. v.chars[r][c] = w.chars[r + 1][c]
    BY <1>1, <1>3, NewLineFacts
  <2>3. Shows(t, LastLine(t) - (BUFFER_HEIGHT - 1 - (r + 1)), c, w.chars[r + 1][c])
    BY <2>1 DEF Wrote, Displays
  <2> QED
    BY <2>1, <2>2, <2>3
<1> QED
  BY <1>2, <1>3

(* A character is put into the place of the next byte.                     *)
LEMMA PutShows ==
  ASSUME NEW v \in Writers, NEW t \in Seq(Byte), NEW b \in Byte, Laid(t), b # NewLine,
         RowsShow(v.chars, t, LineOf(t, Len(t) + 1)),
         v.column_position = Column(t, Len(t) + 1) % BUFFER_WIDTH
  PROVE  Wrote([chars |-> [v.chars EXCEPT ![BUFFER_HEIGHT - 1][v.column_position] =
                             ScreenChar(b, color_code)],
                column_position |-> v.column_position + 1], Append(t, b))
<1> DEFINE u == Append(t, b)
           e == Len(t) + 1
           x == ScreenChar(b, color_code)
           k == v.column_position
           h == BUFFER_HEIGHT - 1
           buf == [v.chars EXCEPT ![h][k] = x]
<1>1. h \in Rows /\ h \in Nat /\ BUFFER_WIDTH \in Nat \ {0} /\ BUFFER_HEIGHT \in Nat
  BY VgaAssumption DEF Rows
<1>2. k \in Cols /\ LineOf(t, e) \in Nat /\ k \in Nat /\ k + 1 \in 0 .. BUFFER_WIDTH
  BY EndOfText, VgaAssumption DEF Cols
<1>3. x \in Cells /\ v.chars \in [Rows -> [Cols -> Cells]]
  BY DEF ScreenChar, Cells, color_code, ColorCode, Writers, Byte
<1>4. buf \in [Rows -> [Cols -> Cells]]
  BY <1>1, <1>2, <1>3
<1>5. \A r \in Rows, c \in Cols : buf[r][c] = IF r = h /\ c = k THEN x ELSE v.chars[r][c]
  BY <1>1, <1>2, <1>3
<1>6. LastLine(u) = LineOf(t, e) /\ LastCol(u) = k + 1
  BY EndStep
<1> HIDE DEF buf, x, h, k, e, u
<1>7. BytesAt(t, LineOf(t, e), k) = {}
  <2> SUFFICES ASSUME NEW i \in BytesAt(t, LineOf(t, e), k) PROVE FALSE
    OBVIOUS
  <2>1. /\ LineOf(t, i) = LineOf(t, e) /\ Column(t, i) % BUFFER_WIDTH = k
        /\ LineOf(t, i) <= LastLine(t)
        /\ LineOf(t, i) = LastLine(t) => Column(t, i) % BUFFER_WIDTH < LastCol(t)
    BY DEF BytesAt, Laid
  <2>2. /\ LastLine(t) \in Nat /\ LastCol(t) \in 0 .. BUFFER_WIDTH
        /\ LineOf(t, e) = IF LastCol(t) >= BUFFER_WIDTH THEN LastLine(t) + 1 ELSE LastLine(t)
        /\ k = IF LastCol(t) >= BUFFER_WIDTH THEN 0 ELSE LastCol(t)
    BY EndOfText DEF e, k
  <2> QED
    BY <2>1, <2>2, <1>1
<1>8. ASSUME NEW r \in Rows, NEW c \in Cols
      PROVE  Shows(u, LastLine(u) - (h - r), c, buf[r][c])
  <2> DEFINE l == LineOf(t, e) - (h - r)
  <2>1. l = LineOf(t, e) <=> r = h
    BY <1>1, <1>2 DEF Rows
  <2>2. CASE r = h /\ c = k
    <3>1. BytesAt(u, l, c) = {e}
      <4>1. BytesAt(u, LineOf(t, e), k) = BytesAt(t, LineOf(t, e), k) \union {e}
        BY BytesAtStep DEF u, e, k
      <4> QED
        BY <4>1, <1>7, <2>1, <2>2
    <3>2. buf[r][c] = x /\ u[e] = b
      BY <1>5, <2>2 DEF u, e
    <3> QED
      BY <1>6, <3>1, <3>2 DEF Shows, x
  <2>3. CASE ~(r = h /\ c = k)
    <3>1. Shows(t, l, c, v.chars[r][c])
      BY DEF RowsShow, h, e
    <3>2. buf[r][c] = v.chars[r][c]
      BY <1>5, <2>3
    <3>3. ~(b # NewLine /\ l = LineOf(t, Len(t) + 1)
            /\ c = Column(t, Len(t) + 1) % BUFFER_WIDTH)
      BY <2>1, <2>3 DEF e, k
    <3> HIDE DEF l
    <3>4. Shows(u, l, c, v.chars[r][c])
      BY <3>1, <3>3, ShowsStep DEF u
    <3> QED
      BY <3>2, <3>4, <1>6 DEF l
  <2> QED
    BY <2>2, <2>3
<1>9. Laid(u) /\ u \in Seq(Byte)
  BY LaidStep DEF u
<1> DEFINE w == [chars |-> buf, column_position |-> k + 1]
<1>10. w \in Writers
  BY <1>2, <1>4 DEF Writers
<1>11. Displays(w, u)
  BY <1>6, <1>8 DEF Displays, h
<1>12. Wrote(w, u)
  BY <1>9, <1>10, <1>11 DEF Wrote
<1> QED
  BY <1>12 DEF buf, x, k, h, u

(* write_byte adds its byte to what the writer has written.                *)
LEMMA ByteWritten ==
  ASSUME NEW w, NEW t, NEW b \in Byte, Wrote(w, t)
  PROVE  Wrote(write_byte(w, b), Append(t, b))
<1>1. /\ w \in Writers /\ t \in Seq(Byte) /\ Laid(t) /\ Displays(w, t)
      /\ BUFFER_WIDTH \in Nat \ {0}
  BY VgaAssumption DEF Wrote
<1>2. CASE b = NewLine
  <2> DEFINE v == new_line(w)
             u == Append(t, b)
  <2>1. LastLine(u) = LastLine(t) + 1 /\ LastCol(u) = 0
    BY <1>1, <1>2, EndStep
  <2>2. RowsShow(v.chars, t, LastLine(t) + 1)
    BY ScrollShows
  <2>3. v \in Writers /\ v.column_position = 0
    BY <1>1, NewLineFacts
  <2>4. Laid(u) /\ u \in Seq(Byte)
    BY <1>1, LaidStep
  <2>5. RowsShow(v.chars, u, LastLine(t) + 1)
    <3> HIDE DEF v
    <3> QED
      BY <1>1, <1>2, <2>2, ShowsStep DEF RowsShow
  <2> HIDE DEF v, u
  <2>6. Displays(v, u)
    BY <2>1, <2>3, <2>5 DEF Displays, RowsShow
  <2>7. Wrote(v, u)
    BY <2>3, <2>4, <2>6 DEF Wrote
  <2> QED
    BY <1>2, <2>7 DEF write_byte, v, u
<1>3. CASE b # NewLine
  <2> DEFINE v == IF LineFull(w) THEN new_line(w) ELSE w
  <2>1. /\ LineOf(t, Len(t) + 1) =
             IF LastCol(t) >= BUFFER_WIDTH THEN LastLine(t) + 1 ELSE LastLine(t)
        /\ Column(t, Len(t) + 1) % BUFFER_WIDTH =
             IF LastCol(t) >= BUFFER_WIDTH THEN 0 ELSE LastCol(t)
    BY <1>1, EndOfText
  <2>2. LineFull(w) <=> LastCol(t) >= BUFFER_WIDTH
    BY <1>1 DEF LineFull, Displays
  <2>3. v \in Writers /\ v.column_position = IF LineFull(w) THEN 0 ELSE LastCol(t)
    BY <1>1, NewLineFacts DEF Displays
  <2>4. RowsShow(v.chars, t, IF LineFull(w) THEN LastLine(t) + 1 ELSE LastLine(t))
    <3>1. CASE LineFull(w)
      BY <3>1, ScrollShows
    <3>2. CASE ~LineFull(w)
      BY <1>1, <3>2 DEF RowsShow, Displays
    <3> QED
      BY <3>1, <3>2
  <2> HIDE DEF v
  <2>5. /\ RowsShow(v.chars, t, LineOf(t, Len(t) + 1))
        /\ v.column_position = Column(t, Len(t) + 1) % BUFFER_WIDTH
    BY <2>1, <2>2, <2>3, <2>4
  <2>6. Wrote([chars |-> [v.chars EXCEPT ![BUFFER_HEIGHT - 1][v.column_position] =
                            ScreenChar(b, color_code)],
               column_position |-> v.column_position + 1], Append(t, b))
    BY <1>1, <1>3, <2>3, <2>5, PutShows
  <2> QED
    BY <1>3, <2>6 DEF write_byte, v
<1> QED
  BY <1>2, <1>3

-----------------------------------------------------------------------------
(* The loop of write_string, as the function of WriteString.               *)
IsLoop(f, w, bytes, n) ==
  f = [i \in 0 .. n |-> IF i = 0 THEN w ELSE write_byte(f[i - 1], bytes[i])]

(* There is such a function for every string.                              *)
LEMMA LoopExists ==
  ASSUME NEW w, NEW bytes, NEW n \in Nat
  PROVE  \E f : IsLoop(f, w, bytes, n)
<1> DEFINE St(f, i) == IF i = 0 THEN w ELSE write_byte(f[i - 1], bytes[i])
           G(k, f) == f = [i \in 0 .. k |-> St(f, i)]
           S == {k \in Nat : \E f : G(k, f)}
<1>1. 0 \in S
  <2> DEFINE f == [i \in 0 .. 0 |-> w]
  <2>1. G(0, f)
    OBVIOUS
  <2> HIDE DEF f, G
  <2> QED
    BY <2>1
<1>2. ASSUME NEW k \in 0 .. n - 1, k \in S PROVE k + 1 \in S
  <2>1. PICK f : G(k, f)
    BY <1>2
  <2> DEFINE h == [i \in 0 .. k + 1 |-> IF i = k + 1 THEN St(f, k + 1) ELSE f[i]]
  <2>2. G(k + 1, h)
    <3> SUFFICES ASSUME NEW i \in 0 .. k + 1 PROVE h[i] = St(h, i)
      OBVIOUS
    <3>1. CASE i = k + 1
      <4>1. h[k + 1] = St(f, k + 1) /\ h[k] = f[k] /\ i # 0 /\ i - 1 = k
        BY <3>1
      <4> QED
        BY <3>1, <4>1
    <3>2. CASE i = 0
      BY <3>2, <2>1
    <3>3. CASE i \in 1 .. k
      <4>1. h[i] = f[i] /\ h[i - 1] = f[i - 1] /\ i \in 0 .. k
        BY <3>3
      <4> HIDE DEF h
      <4> QED
        BY <3>3, <4>1, <2>1
    <3> QED
      BY <3>1, <3>2, <3>3
  <2> HIDE DEF h, G
  <2> QED
    BY <2>2
<1>3. n \in S
  <2> HIDE DEF S
  <2>1. \A k \in 0 .. n : k \in S
    BY <1>1, <1>2, UpTo
  <2> QED
    BY <2>1
<1>4. PICK f : G(n, f)
  BY <1>3
<1>5. IsLoop(f, w, bytes, n)
  BY <1>4 DEF IsLoop
<1> QED
  BY <1>5

(* The bytes of a string are written one after the other.                  *)
LEMMA LoopWritten ==
  ASSUME NEW w, NEW t, Wrote(w, t), NEW bytes \in Seq(Byte), NEW f,
         IsLoop(f, w, bytes, Len(bytes))
  PROVE  Wrote(f[Len(bytes)], t \o bytes)
<1> DEFINE n == Len(bytes)
           S == {k \in 0 .. n : Wrote(f[k], t \o SubSeq(bytes, 1, k))}
<1>0. n \in Nat /\ t \in Seq(Byte)
  BY DEF Wrote
<1> USE DEF IsLoop
<1>1. 0 \in S
  <2>1. t \o SubSeq(bytes, 1, 0) = t
    BY <1>0
  <2>2. f[0] = w
    BY <1>0
  <2>3. Wrote(f[0], t \o SubSeq(bytes, 1, 0))
    BY <2>1, <2>2
  <2> QED
    BY <1>0, <2>3
<1>2. ASSUME NEW k \in 0 .. n - 1, k \in S PROVE k + 1 \in S
  <2> DEFINE u == t \o SubSeq(bytes, 1, k)
  <2>1. Wrote(f[k], u)
    BY <1>2
  <2>2. k + 1 \in 0 .. n /\ k + 1 # 0 /\ (k + 1) - 1 = k
    BY <1>0
  <2>3. f[k + 1] = write_byte(f[k], bytes[k + 1])
    BY <2>2
  <2>4. bytes[k + 1] \in Byte
    BY <1>0
  <2>5. Append(u, bytes[k + 1]) = t \o SubSeq(bytes, 1, k + 1)
    <3>1. SubSeq(bytes, 1, k + 1) = Append(SubSeq(bytes, 1, k), bytes[k + 1])
      BY <1>0
    <3>2. SubSeq(bytes, 1, k) \in Seq(Byte)
      BY <1>0
    <3>3. \A a \in Seq(Byte), x \in Byte : Append(t \o a, x) = t \o Append(a, x)
      <4> SUFFICES ASSUME NEW a \in Seq(Byte), NEW x \in Byte
                   PROVE  Append(t \o a, x) = t \o Append(a, x)
        OBVIOUS
      <4>1. Append(a, x) = a \o <<x>> /\ <<x>> \in Seq(Byte) /\ t \o a \in Seq(Byte)
        BY <1>0, AppendIsConcat
      <4>2. Append(t \o a, x) = (t \o a) \o <<x>>
        BY <4>1, AppendIsConcat
      <4> QED
        BY <1>0, <4>1, <4>2, ConcatAssociative
    <3> QED
      BY <2>4, <3>1, <3>2, <3>3
  <2> HIDE DEF u
  <2>6. Wrote(f[k + 1], Append(u, bytes[k + 1]))
    BY <2>1, <2>3, <2>4, ByteWritten
  <2> QED
    BY <2>2, <2>5, <2>6
<1>3. n \in S
  <2> HIDE DEF S
  <2>1. \A k \in 0 .. n : k \in S
    BY <1>0, <1>1, <1>2, UpTo
  <2> QED
    BY <1>0, <2>1
<1>4. SubSeq(bytes, 1, n) = bytes
  BY <1>0
<1> QED
  BY <1>3, <1>4

-----------------------------------------------------------------------------
(* The firmware's screen shows the empty text.                             *)
LEMMA VgaInitial == VgaInit => Wrote(Writer, text)
<1> SUFFICES ASSUME VgaInit PROVE Wrote(Writer, text)
  OBVIOUS
<1>1. BUFFER_HEIGHT \in Nat \ {0} /\ BUFFER_WIDTH \in Nat \ {0}
  BY VgaAssumption
<1>2. text = << >> /\ text \in Seq(Byte) /\ Len(text) = 0
  BY DEF VgaInit
<1>3. Breaks(text, 0) = {}
  BY DEF Breaks
<1>4. Column(text, 1) = 0 /\ FirstLine(text, 1) = 0
  <2>1. Breaks(text, 1 - 1) = {}
    BY <1>3
  <2>2. LinesBefore(text, 1) = {}
    BY <2>1 DEF LinesBefore
  <2> QED
    BY <2>1, <2>2, FS_EmptySet DEF Column, FirstLine
<1>5. LastLine(text) = 0 /\ LastCol(text) = 0
  <2>1. Wrapped(text) = 0
    BY <1>2, <1>4 DEF Wrapped, LinesOf
  <2> QED
    BY <1>1, <1>2, <1>4, <2>1 DEF LastLine, LastCol
<1>6. \A l, c : BytesAt(text, l, c) = {}
  BY <1>2 DEF BytesAt
<1>7. Laid(text)
  BY <1>2 DEF Laid
<1>8. \A r \in Rows : FirmwareChar(r) \in Cells
  BY <1>1 DEF FirmwareChar, Rows, ScreenChar, ColorCode, Cells
<1>9. chars \in [Rows -> [Cols -> Cells]] /\ column_position \in 0 .. BUFFER_WIDTH
  BY <1>1, <1>8 DEF VgaInit
<1>10. Writer \in Writers
  BY <1>9 DEF Writer, Writers
<1>11. ASSUME NEW r \in Rows, NEW c \in Cols
       PROVE  Shows(text, LastLine(text) - (BUFFER_HEIGHT - 1 - r), c, Writer.chars[r][c])
  <2>1. Writer.chars[r][c] = FirmwareChar(r)
    BY DEF Writer, VgaInit
  <2> DEFINE l == LastLine(text) - (BUFFER_HEIGHT - 1 - r)
  <2>2. ~(l > 0) /\ BUFFER_HEIGHT - 1 + l = r
    BY <1>1, <1>5 DEF Rows
  <2> HIDE DEF l
  <2>3. Shows(text, l, c, Writer.chars[r][c])
    BY <1>6, <2>1, <2>2 DEF Shows
  <2> QED
    BY <2>3 DEF l
<1>12. Displays(Writer, text)
  BY <1>5, <1>11 DEF Displays, Writer, VgaInit
<1> QED
  BY <1>2, <1>7, <1>10, <1>12 DEF Wrote

(* Every call keeps the screen true to the text.                           *)
LEMMA VgaStep == Wrote(Writer, text) /\ [VgaNext]_vgaVars => Wrote(Writer, text)'
<1> SUFFICES ASSUME Wrote(Writer, text), [VgaNext]_vgaVars PROVE Wrote(Writer', text')
  OBVIOUS
<1>0. text \in Seq(Byte)
  BY DEF Wrote
<1>1. ASSUME NEW w, NEW written, Becomes(w, written), Wrote(w, text \o written)
      PROVE  Wrote(Writer', text')
  <2>1. Writer' = [chars |-> w.chars, column_position |-> w.column_position]
    BY <1>1 DEF Writer, Becomes
  <2>2. w \in Writers
    BY <1>1 DEF Wrote
  <2>3. Writer' = w
    BY <2>1, <2>2 DEF Writers
  <2> QED
    BY <1>1, <2>3 DEF Becomes
<1>2. ASSUME NEW byte \in Bytes, WriteByte(byte) PROVE Wrote(Writer', text')
  <2>1. byte \in Byte /\ text \o <<byte>> = Append(text, byte)
    BY <1>0, VgaAssumption DEF Byte
  <2>2. Wrote(write_byte(Writer, byte), Append(text, byte))
    BY <2>1, ByteWritten
  <2>3. Becomes(write_byte(Writer, byte), <<byte>>)
    BY <1>2 DEF WriteByte
  <2> QED
    BY <1>1, <2>1, <2>2, <2>3
<1>3. ASSUME NEW s \in Strings, WriteString(s) PROVE Wrote(Writer', text')
  <2> DEFINE bytes == [i \in DOMAIN s |-> Shown(s[i])]
             Loop(f) == f = [i \in 0 .. Len(s) |->
                              IF i = 0 THEN Writer ELSE write_byte(f[i - 1], bytes[i])]
             after == CHOOSE f : Loop(f)
  <2>1. s \in Seq(Byte) /\ Len(s) \in Nat
    BY VgaAssumption DEF Byte
  <2>2. bytes \in Seq(Byte) /\ Len(bytes) = Len(s)
    <3>1. \A i \in DOMAIN s : Shown(s[i]) \in Byte
      BY <2>1 DEF Shown, Byte, Square, NewLine
    <3>2. bytes = [i \in 1 .. Len(s) |-> Shown(s[i])]
      BY <2>1
    <3> HIDE DEF bytes
    <3> QED
      BY <2>1, <3>1, <3>2
  <2>3. Becomes(after[Len(s)], bytes)
    BY <1>3 DEF WriteString
  <2> HIDE DEF bytes
  <2>4. \E f : Loop(f)
    <3>1. \E f : IsLoop(f, Writer, bytes, Len(s))
      BY <2>1, LoopExists
    <3> QED
      BY <3>1 DEF IsLoop
  <2>5. Loop(after)
    BY <2>4
  <2> HIDE DEF after
  <2>6. Wrote(after[Len(s)], text \o bytes)
    <3>1. IsLoop(after, Writer, bytes, Len(bytes))
      BY <2>2, <2>5 DEF IsLoop
    <3> QED
      BY <2>2, <3>1, LoopWritten
  <2> QED
    BY <1>1, <2>3, <2>6
<1>4. CASE UNCHANGED vgaVars
  BY <1>4 DEF vgaVars, Writer
<1> QED
  BY <1>2, <1>3, <1>4 DEF VgaNext

(***************************************************************************)
(* For every size of the screen and every sequence of write_byte and       *)
(* write_string: the buffer shows the end of the text, every byte in its   *)
(* place, wraps, scrolling and replaced bytes included.                    *)
(***************************************************************************)
THEOREM ScreenIsText == VgaSpec => []ScreenShowsText
<1>1. Wrote(Writer, text) => ScreenShowsText
  BY DEF Wrote, ScreenShowsText
<1> QED
  BY <1>1, VgaInitial, VgaStep, PTL DEF VgaSpec
=============================================================================
