------------------------- MODULE Allocators_proofs -------------------------
(***************************************************************************)
(* Proofs about the three heap allocators, for any heap, any layouts and   *)
(* any block sizes that meet the modules' assumptions.                     *)
(***************************************************************************)
EXTENDS BumpAllocator, LinkedListAllocator, FixedSizeBlockAllocator,
        FiniteSetTheorems, SequenceTheorems, WellFoundedInduction, Integers, TLAPS

-----------------------------------------------------------------------------
(* Quotient and remainder.                                                 *)
LEMMA DivMod ==
  ASSUME NEW m \in Nat, NEW n \in Nat \ {0}
  PROVE  /\ m \div n \in Nat /\ m % n \in 0 .. n - 1
         /\ m = n * (m \div n) + (m % n)
  OBVIOUS

(* They are the only ones.                                                 *)
LEMMA DivModUnique ==
  ASSUME NEW k \in Nat, NEW n \in Nat \ {0}, NEW r \in 0 .. n - 1
  PROVE  (n * k + r) % n = r /\ (n * k + r) \div n = k
  OBVIOUS

(* Without its remainder a number is a multiple.                           *)
LEMMA ModRemoved ==
  ASSUME NEW m \in Nat, NEW n \in Nat \ {0}
  PROVE  (m - (m % n)) % n = 0
<1>1. PICK k \in Nat, r \in 0 .. n - 1 : m = n * k + r /\ r = m % n
  BY DivMod
<1>2. PICK p \in Nat : p = n * k
  OBVIOUS
<1>3. m - r = n * k + 0
  BY <1>1, <1>2
<1>4. (n * k + 0) % n = 0
  BY DivModUnique
<1> QED
  BY <1>1, <1>3, <1>4

(* A number without remainder is a multiple.                               *)
LEMMA Multiple ==
  ASSUME NEW a \in Nat, NEW n \in Nat \ {0}, a % n = 0
  PROVE  \E k \in Nat : a = n * k
<1>1. a \div n \in Nat /\ a = n * (a \div n) + 0
  BY DivMod
<1>2. a = n * (a \div n)
  BY <1>1
<1> QED
  BY <1>1, <1>2

(* A multiple of a multiple.                                               *)
LEMMA ModTransitive ==
  ASSUME NEW a \in Nat, NEW m \in Nat \ {0}, NEW n \in Nat \ {0},
         a % m = 0, m % n = 0
  PROVE  a % n = 0
<1>1. PICK j \in Nat : a = m * j
  BY Multiple
<1>2. PICK k \in Nat : m = n * k
  BY Multiple
<1>3. a = n * (k * j) + 0 /\ k * j \in Nat /\ 0 \in 0 .. n - 1
  BY <1>1, <1>2
<1> QED
  BY <1>3, DivModUnique

(* Sums of multiples are multiples.                                        *)
LEMMA ModSum ==
  ASSUME NEW a \in Nat, NEW b \in Nat, NEW n \in Nat \ {0},
         a % n = 0, b % n = 0
  PROVE  (a + b) % n = 0
<1>1. PICK j \in Nat : a = n * j
  BY Multiple
<1>2. PICK k \in Nat : b = n * k
  BY Multiple
<1>3. a + b = n * (j + k) + 0 /\ j + k \in Nat /\ 0 \in 0 .. n - 1
  BY <1>1, <1>2
<1>4. (n * (j + k) + 0) % n = 0
  BY <1>3, DivModUnique
<1> QED
  BY <1>3, <1>4

(* Two multiples are at least n apart.                                     *)
LEMMA ModGap ==
  ASSUME NEW a \in Nat, NEW b \in Nat, NEW n \in Nat \ {0},
         a % n = 0, b % n = 0, a < b
  PROVE  a + n <= b
<1>1. PICK j \in Nat : a = n * j
  BY Multiple
<1>2. PICK k \in Nat : b = n * k
  BY Multiple
<1>3. j + 1 <= k
  BY <1>1, <1>2
<1>4. n * (j + 1) <= n * k
  BY <1>3
<1> QED
  BY <1>1, <1>2, <1>4

(* align_up returns the first multiple that is not below the address.      *)
LEMMA AlignUp ==
  ASSUME NEW a \in Nat, NEW n \in Nat \ {0}
  PROVE  /\ align_up(a, n) \in Nat /\ align_up(a, n) % n = 0
         /\ a <= align_up(a, n) /\ align_up(a, n) <= a + n - 1
<1> DEFINE m == a + n - 1
<1>1. m \in Nat /\ m % n \in 0 .. n - 1 /\ m % n <= m
  OBVIOUS
<1>2. (m - (m % n)) % n = 0
  BY <1>1, ModRemoved
<1> QED
  BY <1>1, <1>2 DEF align_up

(* The extents of two blocks share no byte if one ends before the other.   *)
LEMMA ExtentsApart ==
  ASSUME NEW a \in Nat, NEW m \in Nat \ {0}, NEW b \in Nat, NEW n \in Nat \ {0}
  PROVE  Extent(a, m) \intersect Extent(b, n) = {} <=> a + m <= b \/ b + n <= a
<1>1. ASSUME a + m <= b \/ b + n <= a
      PROVE  Extent(a, m) \intersect Extent(b, n) = {}
  BY <1>1 DEF Extent
<1>2. ASSUME ~ (a + m <= b), ~ (b + n <= a)
      PROVE  Extent(a, m) \intersect Extent(b, n) # {}
  <2>1. CASE a <= b
    <3>1. b \in Extent(a, m) /\ b \in Extent(b, n)
      BY <1>2, <2>1 DEF Extent
    <3> QED
      BY <3>1
  <2>2. CASE b <= a
    <3>1. a \in Extent(a, m) /\ a \in Extent(b, n)
      BY <1>2, <2>2 DEF Extent
    <3> QED
      BY <3>1
  <2> QED
    BY <2>1, <2>2
<1> QED
  BY <1>1, <1>2

(* A set of numbers that is not empty has a least element.                 *)
LEMMA MinInSet ==
  ASSUME NEW S \in SUBSET Nat, S # {}
  PROVE  Min(S) \in S /\ \A y \in S : Min(S) <= y
<1> DEFINE R == {p \in Nat \X Nat : p[1] < p[2]}
<1>1. IsWellFoundedOn(R, Nat)
  BY NatLessThanWellFounded DEF OpToRel
<1>2. PICK x \in S : \A y \in S : ~ (<<y, x>> \in R)
  BY <1>1, WFMin
<1>3. ASSUME NEW y \in S PROVE x <= y
  <2>1. x \in Nat /\ y \in Nat /\ ~ (<<y, x>> \in R)
    BY <1>2
  <2>2. ~ (y < x)
    BY <2>1
  <2> QED
    BY <2>1, <2>2
<1> QED
  BY <1>3 DEF Min

(* The greater of two numbers.                                             *)
LEMMA MaxOfTwo ==
  ASSUME NEW a \in Nat, NEW b \in Nat
  PROVE  /\ Max({a, b}) \in {a, b}
         /\ a <= Max({a, b}) /\ b <= Max({a, b})
         /\ a <= b => Max({a, b}) = b
         /\ b <= a => Max({a, b}) = a
<1>1. \E x \in {a, b} : \A y \in {a, b} : x >= y
  OBVIOUS
<1> QED
  BY <1>1 DEF Max
-----------------------------------------------------------------------------
(***************************************************************************)
(* The bump allocator.  Its inductive invariant: before init the allocator *)
(* has no memory and no blocks; then next lies in the heap, behind every   *)
(* block in use, and the counter is their number.                          *)
(***************************************************************************)
BumpTypeOK ==
  /\ next \in Nat /\ allocations \in Nat
  /\ live \subseteq [ptr : Nat, layout : Layouts] /\ IsFiniteSet(live)

BumpInv ==
  /\ BumpTypeOK
  /\ \/ heap_start = 0 /\ heap_end = 0 /\ next = 0 /\ live = {}
     \/ /\ heap_start = HEAP_START /\ heap_end = HEAP_START + HEAP_SIZE
        /\ HEAP_START <= next /\ next <= heap_end
  /\ allocations = Cardinality(live)
  /\ \A b \in live : HEAP_START <= b.ptr /\ b.ptr + b.layout.size <= next
  /\ live = {} => next = heap_start

(* new sets the fields to zero.                                            *)
LEMMA BumpInvInit == BumpNew => BumpInv
  BY FS_EmptySet DEF BumpNew, BumpInv, BumpTypeOK

(* A new block lies behind all others, so alloc is a step of the heap.     *)
LEMMA BumpAllocStep ==
  ASSUME BumpInv, NEW l \in Layouts, BumpAlloc(l)
  PROVE  BumpInv' /\ \E p \in HeapBytes : HeapAlloc(l, p)
<1> DEFINE p == align_up(next, l.align)
<1> USE HeapAssumption DEF BumpInv, BumpTypeOK
<1>1. /\ l.size \in Nat \ {0} /\ l.align \in Nat \ {0}
      /\ p \in Nat /\ p % l.align = 0 /\ next <= p
  BY AlignUp
<1> HIDE DEF p
<1>2. /\ p + l.size <= heap_end /\ next' = p + l.size
      /\ live' = live \union {Block(p, l)} /\ allocations' = allocations + 1
      /\ heap_start' = heap_start /\ heap_end' = heap_end
  BY DEF BumpAlloc, AllocEnd, p
<1>3. /\ heap_start = HEAP_START /\ heap_end = HEAP_START + HEAP_SIZE
      /\ HEAP_START <= next
  BY <1>1, <1>2
<1>4. ASSUME NEW b \in live
      PROVE  /\ b.ptr \in Nat /\ b.layout.size \in Nat \ {0}
             /\ b.ptr + b.layout.size <= p /\ b # Block(p, l)
  BY <1>1 DEF Block
<1>5. BumpInv'
  <2>1. Block(p, l) \notin live
    BY <1>4
  <2>2. IsFiniteSet(live') /\ allocations' = Cardinality(live')
    BY <1>2, <2>1, FS_AddElement
  <2>3. live' \subseteq [ptr : Nat, layout : Layouts]
    BY <1>1, <1>2 DEF Block
  <2>4. \A b \in live' : HEAP_START <= b.ptr /\ b.ptr + b.layout.size <= next'
    <3>1. ASSUME NEW b \in live PROVE HEAP_START <= b.ptr /\ b.ptr + b.layout.size <= next'
      BY <1>1, <1>2, <1>4
    <3>2. HEAP_START <= Block(p, l).ptr /\ Block(p, l).ptr + Block(p, l).layout.size <= next'
      BY <1>1, <1>2, <1>3 DEF Block
    <3> QED
      BY <1>2, <3>1, <3>2
  <2> QED
    BY <1>1, <1>2, <1>3, <2>2, <2>3, <2>4
<1>6. Extent(p, l.size) \subseteq HeapBytes /\ p \in HeapBytes
  BY <1>1, <1>2, <1>3 DEF Extent, HeapBytes
<1>7. ASSUME NEW b \in live PROVE BlockBytes(b) \intersect Extent(p, l.size) = {}
  BY <1>1, <1>4 DEF BlockBytes, Extent
<1> QED
  BY <1>1, <1>2, <1>5, <1>6, <1>7 DEF HeapAlloc

(* The other steps.                                                        *)
LEMMA BumpInvStep ==
  BumpInv /\ [BumpNext]_bumpVars => BumpInv' /\ [HeapNext]_live
<1> SUFFICES ASSUME BumpInv, [BumpNext]_bumpVars PROVE BumpInv' /\ [HeapNext]_live
  OBVIOUS
<1> USE HeapAssumption DEF BumpInv, BumpTypeOK
<1>1. CASE BumpInit
  BY <1>1, FS_EmptySet DEF BumpInit
<1>2. ASSUME NEW l \in Layouts, BumpAlloc(l) PROVE BumpInv' /\ HeapNext
  BY <1>2, BumpAllocStep DEF HeapNext
<1>3. ASSUME NEW l \in Layouts, BumpAllocNull(l) PROVE BumpInv' /\ UNCHANGED live
  BY <1>3 DEF BumpAllocNull, bumpVars
<1>4. ASSUME NEW b \in live, BumpDealloc(b) PROVE BumpInv' /\ HeapNext
  <2>1. IsFiniteSet(live') /\ Cardinality(live') = allocations - 1 /\ live' \subseteq live
    BY <1>4, FS_RemoveElement DEF BumpDealloc
  <2>2. Cardinality(live') \in Nat /\ (Cardinality(live') = 0 <=> live' = {})
    BY <2>1, FS_CardinalityType, FS_EmptySet
  <2>3. HeapNext
    BY <1>4 DEF BumpDealloc, HeapNext, HeapFree
  <2>4. CASE live' = {}
    BY <1>4, <2>1, <2>2, <2>3, <2>4 DEF BumpDealloc
  <2>5. CASE live' # {}
    BY <1>4, <2>1, <2>2, <2>3, <2>5 DEF BumpDealloc
  <2> QED
    BY <2>4, <2>5
<1>5. CASE UNCHANGED bumpVars
  BY <1>5 DEF bumpVars
<1> QED
  BY <1>1, <1>2, <1>3, <1>4, <1>5 DEF BumpNext, BumpInit

(***************************************************************************)
(* BumpAllocator of src/allocator/bump.rs takes its memory back exactly    *)
(* when the last block is freed, for any heap and any layouts.             *)
(***************************************************************************)
THEOREM BumpResetsWhenEmpty == BumpSpec => []BumpReset
<1>1. BumpInv => BumpReset
  BY HeapAssumption DEF BumpInv, BumpReset
<1> QED
  BY <1>1, BumpInvInit, BumpInvStep, PTL DEF BumpSpec

(***************************************************************************)
(* The bump allocator keeps GlobalAlloc's promise: no two blocks in use    *)
(* share a byte, and each is aligned and in the heap.                      *)
(***************************************************************************)
THEOREM BumpImplementsHeap == BumpSpec => ImplementsHeap
<1>1. BumpNew => live = {}
  BY DEF BumpNew
<1> QED
  BY <1>1, BumpInvInit, BumpInvStep, PTL DEF BumpSpec, ImplementsHeap, HeapSpec

-----------------------------------------------------------------------------
(* No element of a sequence occurs twice.                                  *)
Distinct(s) == \A i, j \in 1 .. Len(s) : i # j => s[i] # s[j]

(* Cons puts an element in front.                                          *)
LEMMA ConsProperties ==
  ASSUME NEW S, NEW s \in Seq(S), NEW e \in S
  PROVE  /\ Cons(e, s) \in Seq(S) /\ Len(Cons(e, s)) = Len(s) + 1 /\ Len(s) \in Nat
         /\ Cons(e, s)[1] = e
         /\ \A i \in 1 .. Len(s) : Cons(e, s)[i + 1] = s[i]
         /\ ToSet(Cons(e, s)) = ToSet(s) \union {e}
<1> DEFINE c == Cons(e, s)
<1>1. <<e>> \in Seq(S) /\ Len(<<e>>) = 1 /\ <<e>>[1] = e
  OBVIOUS
<1>2. /\ c \in Seq(S) /\ Len(c) = Len(s) + 1 /\ Len(s) \in Nat
      /\ \A i \in 1 .. Len(s) + 1 : c[i] = IF i <= 1 THEN <<e>>[i] ELSE s[i - 1]
  BY <1>1, ConcatProperties, LenProperties DEF Cons
<1> HIDE DEF c
<1>3. c[1] = e /\ \A i \in 1 .. Len(s) : c[i + 1] = s[i]
  BY <1>1, <1>2
<1>4. /\ ToSet(c) = {c[i] : i \in 1 .. Len(c)}
      /\ ToSet(s) = {s[i] : i \in 1 .. Len(s)}
  BY <1>2, LenProperties DEF ToSet
<1>5. ToSet(c) = ToSet(s) \union {e}
  <2>1. ASSUME NEW x \in ToSet(c) PROVE x \in ToSet(s) \/ x = e
    <3>1. PICK i \in 1 .. Len(c) : x = c[i]
      BY <1>4
    <3>2. i = 1 \/ (i - 1 \in 1 .. Len(s) /\ c[i] = s[i - 1])
      BY <1>2
    <3> QED
      BY <1>3, <1>4, <3>1, <3>2
  <2>2. ASSUME NEW x \in ToSet(s) PROVE x \in ToSet(c)
    <3>1. PICK i \in 1 .. Len(s) : x = s[i]
      BY <1>4
    <3>2. i + 1 \in 1 .. Len(c) /\ c[i + 1] = x
      BY <1>2, <1>3, <3>1
    <3> QED
      BY <1>4, <3>2
  <2>3. e \in ToSet(c)
    BY <1>2, <1>3, <1>4
  <2> QED
    BY <2>1, <2>2, <2>3
<1> QED
  BY <1>2, <1>3, <1>5 DEF c

(* It keeps the elements distinct.                                         *)
LEMMA ConsDistinct ==
  ASSUME NEW S, NEW s \in Seq(S), NEW e \in S, Distinct(s), e \notin ToSet(s)
  PROVE  Distinct(Cons(e, s))
<1> DEFINE c == Cons(e, s)
<1>1. /\ Len(c) = Len(s) + 1 /\ Len(s) \in Nat /\ c[1] = e
      /\ \A i \in 1 .. Len(s) : c[i + 1] = s[i]
  BY ConsProperties
<1>2. \A i \in 1 .. Len(s) : s[i] # e
  BY LenProperties DEF ToSet
<1> HIDE DEF c
<1>3. ASSUME NEW i \in 1 .. Len(c), NEW j \in 1 .. Len(c), i # j
      PROVE  c[i] # c[j]
  <2>1. i = 1 \/ (i - 1 \in 1 .. Len(s) /\ c[i] = s[i - 1])
    BY <1>1
  <2>2. j = 1 \/ (j - 1 \in 1 .. Len(s) /\ c[j] = s[j - 1])
    BY <1>1
  <2> QED
    BY <1>1, <1>2, <1>3, <2>1, <2>2 DEF Distinct
<1>4. Distinct(c)
  BY <1>3 DEF Distinct
<1> QED
  BY <1>4 DEF c

(* Tail takes the first element out.                                       *)
LEMMA TailOfDistinct ==
  ASSUME NEW S, NEW s \in Seq(S), s # << >>, Distinct(s)
  PROVE  /\ Tail(s) \in Seq(S) /\ Len(Tail(s)) = Len(s) - 1 /\ Len(s) \in Nat \ {0}
         /\ Head(s) \in ToSet(s) /\ ToSet(Tail(s)) = ToSet(s) \ {Head(s)}
         /\ Distinct(Tail(s))
<1> DEFINE t == Tail(s)
<1>1. /\ t \in Seq(S) /\ Len(t) = Len(s) - 1 /\ Len(s) \in Nat \ {0}
      /\ \A i \in 1 .. Len(t) : t[i] = s[i + 1]
      /\ Head(s) = s[1]
  BY HeadTailProperties, EmptySeq
<1> HIDE DEF t
<1>2. /\ ToSet(t) = {t[i] : i \in 1 .. Len(t)}
      /\ ToSet(s) = {s[i] : i \in 1 .. Len(s)}
  BY <1>1, LenProperties DEF ToSet
<1>3. \A i \in 1 .. Len(t) : i + 1 \in 1 .. Len(s) /\ i + 1 # 1
  BY <1>1
<1>4. 1 \in 1 .. Len(s)
  BY <1>1
<1>5. Distinct(t)
  BY <1>1, <1>3 DEF Distinct
<1>6. ASSUME NEW x \in ToSet(t) PROVE x \in ToSet(s) /\ x # Head(s)
  BY <1>1, <1>2, <1>3, <1>4 DEF Distinct
<1>7. ASSUME NEW x \in ToSet(s), x # Head(s) PROVE x \in ToSet(t)
  <2>1. PICK i \in 1 .. Len(s) : x = s[i]
    BY <1>2
  <2>2. i - 1 \in 1 .. Len(t) /\ t[i - 1] = x
    BY <1>1, <1>7, <2>1
  <2> QED
    BY <1>2, <2>2
<1> QED
  BY <1>1, <1>2, <1>4, <1>5, <1>6, <1>7 DEF t

-----------------------------------------------------------------------------
(***************************************************************************)
(* The fixed-size block allocator.                                         *)
(***************************************************************************)
(* list_index returns a class whose blocks are large enough, or none.      *)
LEMMA ListIndexFits ==
  ASSUME NEW l \in Layouts
  PROVE  /\ list_index(l) \in Classes \union {NoClass}
         /\ list_index(l) # NoClass =>
              /\ l.size <= BLOCK_SIZES[list_index(l)]
              /\ l.align <= BLOCK_SIZES[list_index(l)]
<1> DEFINE m   == Max({l.size, l.align})
           fit == {i \in Classes : BLOCK_SIZES[i] >= m}
<1>1. /\ l.size \in Nat /\ l.align \in Nat
      /\ m \in Nat /\ l.size <= m /\ l.align <= m
  BY MaxOfTwo, HeapAssumption
<1> HIDE DEF m
<1>2. fit \subseteq Classes /\ Classes \subseteq Nat
  BY BlockSizesAssumption, LenProperties DEF Classes
<1>3. CASE fit = {}
  BY <1>3 DEF list_index, m
<1>4. CASE fit # {}
  <2>1. Min(fit) \in fit
    BY <1>2, <1>4, MinInSet
  <2>2. list_index(l) = Min(fit)
    BY <1>4 DEF list_index, m
  <2>3. list_index(l) \in Classes /\ m <= BLOCK_SIZES[list_index(l)]
    BY <2>1, <2>2
  <2>4. BLOCK_SIZES[list_index(l)] \in Nat
    BY <2>3, BlockSizesAssumption, LenProperties DEF Classes
  <2> QED
    BY <1>1, <2>3, <2>4
<1> QED
  BY <1>3, <1>4

(* What alloc asks of the fallback allocator is enough for the layout.     *)
LEMMA NewLayoutCovers ==
  ASSUME NEW l \in Layouts
  PROVE  /\ l.size \in Nat \ {0} /\ l.align \in Nat \ {0}
         /\ NewLayout(l).size \in Nat \ {0} /\ NewLayout(l).align \in Nat \ {0}
         /\ l.size <= NewLayout(l).size
         /\ NewLayout(l).align % l.align = 0
<1>1. l.size \in Nat \ {0} /\ l.align \in Nat \ {0}
  BY HeapAssumption
<1>2. CASE list_index(l) = NoClass
  <2>1. l.align % l.align = 0
    BY <1>1
  <2> QED
    BY <1>1, <1>2, <2>1 DEF NewLayout
<1>3. CASE list_index(l) # NoClass
  <2> DEFINE i == list_index(l)
  <2>1. i \in Classes /\ l.size <= BLOCK_SIZES[i] /\ l.align <= BLOCK_SIZES[i]
    BY <1>3, ListIndexFits
  <2>2. BLOCK_SIZES[i] \in Nat \ {0} /\ BLOCK_SIZES[i] % l.align = 0
    BY <2>1, BlockSizesAssumption, BlockAlignmentAssumption, LenProperties DEF Classes
  <2> QED
    BY <1>1, <1>3, <2>1, <2>2 DEF NewLayout, ClassLayout
<1> QED
  BY <1>2, <1>3

(* Two classes have different layouts.                                     *)
LEMMA ClassLayoutsDiffer ==
  ASSUME NEW i \in Classes, NEW j \in Classes, ClassLayout(i) = ClassLayout(j)
  PROVE  i = j
<1>1. BLOCK_SIZES[i] = BLOCK_SIZES[j]
  BY DEF ClassLayout
<1>2. Classes \subseteq Nat /\ BLOCK_SIZES[i] \in Nat /\ BLOCK_SIZES[j] \in Nat
  BY BlockSizesAssumption, LenProperties DEF Classes
<1> QED
  BY <1>1, <1>2, BlockSizesAssumption

(***************************************************************************)
(* The inductive invariant.  OneOwner counts; the steps need to know which *)
(* block is whose.  The blocks of the fallback allocator share no byte and *)
(* are aligned (what the fallback promises), each is owned by a block in   *)
(* use or by an entry of the list of its class, and no two owners have the *)
(* same address.                                                           *)
(***************************************************************************)
BlockTypeOK ==
  /\ list_heads \in [Classes -> Seq(Nat)]
  /\ live \subseteq [ptr : Nat, layout : Layouts] /\ IsFiniteSet(live)
  /\ fallback \subseteq [ptr : Nat, layout : Layouts \union {ClassLayout(i) : i \in Classes}]
  /\ peak \in [Classes -> Nat]

FallbackSound ==
  /\ \A f \in fallback : BlockBytes(f) \subseteq HeapBytes /\ f.ptr % f.layout.align = 0
  /\ \A f, g \in fallback : f # g => BlockBytes(f) \intersect BlockBytes(g) = {}

(* The block of the fallback allocator behind a block in use.              *)
Owned(b) == Block(b.ptr, NewLayout(b.layout))

OwnersSound ==
  /\ \A b \in live : Owned(b) \in fallback
  /\ \A b, c \in live : b.ptr = c.ptr => b = c
  /\ \A i \in Classes : \A p \in Listed(i) :
       Block(p, ClassLayout(i)) \in fallback /\ \A b \in live : b.ptr # p
  /\ \A f \in fallback :
       \/ \E b \in live : f = Owned(b)
       \/ \E i \in Classes : \E p \in Listed(i) : f = Block(p, ClassLayout(i))

ListsSound ==
  \A i \in Classes :
    /\ Distinct(list_heads[i])
    /\ IsFiniteSet(Listed(i)) /\ Len(list_heads[i]) = Cardinality(Listed(i))

PeakSound ==
  \A i \in Classes : Len(list_heads[i]) + Cardinality(InClass(live, i)) = peak[i]

BlockInv == BlockTypeOK /\ FallbackSound /\ OwnersSound /\ ListsSound /\ PeakSound

(* new: no lists, no memory.                                               *)
LEMMA BlockInvInit == BlockNew => BlockInv
<1> SUFFICES ASSUME BlockNew PROVE BlockInv
  OBVIOUS
<1>1. \A i \in Classes : list_heads[i] = << >> /\ Len(list_heads[i]) = 0 /\ Listed(i) = {}
  BY DEF BlockNew, Listed, ToSet
<1>2. list_heads \in [Classes -> Seq(Nat)]
  BY EmptySeq DEF BlockNew
<1>3. BlockTypeOK
  BY <1>2, FS_EmptySet DEF BlockNew, BlockTypeOK
<1>4. FallbackSound /\ OwnersSound
  BY <1>1 DEF BlockNew, FallbackSound, OwnersSound
<1>5. ListsSound
  BY <1>1, FS_EmptySet DEF ListsSound, Distinct
<1>6. PeakSound
  <2>1. ASSUME NEW i \in Classes PROVE Cardinality(InClass(live, i)) = 0
    <3>1. InClass(live, i) = {}
      BY DEF BlockNew, InClass
    <3> QED
      BY <3>1, FS_EmptySet
  <2>2. \A i \in Classes : peak[i] = 0
    BY DEF BlockNew
  <2> QED
    BY <1>1, <2>1, <2>2 DEF PeakSound
<1> QED
  BY <1>3, <1>4, <1>5, <1>6 DEF BlockInv

(* A block of the fallback allocator is known by its address.              *)
LEMMA FallbackByAddress ==
  ASSUME BlockInv, NEW f \in fallback, NEW g \in fallback, f.ptr = g.ptr
  PROVE  f = g
<1>1. /\ f.ptr \in Nat /\ f.layout.size \in Nat \ {0}
      /\ g.ptr \in Nat /\ g.layout.size \in Nat \ {0}
  <2>1. ASSUME NEW h \in fallback PROVE h.ptr \in Nat /\ h.layout.size \in Nat \ {0}
    <3>1. h.ptr \in Nat /\ h.layout \in Layouts \union {ClassLayout(i) : i \in Classes}
      BY DEF BlockInv, BlockTypeOK
    <3>2. ASSUME NEW i \in Classes PROVE ClassLayout(i).size \in Nat \ {0}
      BY BlockSizesAssumption, LenProperties DEF Classes, ClassLayout
    <3> QED
      BY <3>1, <3>2, HeapAssumption
  <2> QED
    BY <2>1
<1>2. BlockBytes(f) \intersect BlockBytes(g) # {}
  <2>1. f.ptr \in BlockBytes(f) /\ f.ptr \in BlockBytes(g)
    BY <1>1 DEF BlockBytes, Extent
  <2> QED
    BY <2>1
<1> QED
  BY <1>2 DEF BlockInv, FallbackSound

(* A place the fallback allocator would give for the layout alloc asks     *)
(* for, away from what the blocks in use own, is one the heap may give.    *)
LEMMA PlaceIsFree ==
  ASSUME BlockInv, NEW l \in Layouts, NEW p \in Nat,
         Extent(p, NewLayout(l).size) \subseteq HeapBytes,
         p % NewLayout(l).align = 0,
         \A b \in live : BlockBytes(Owned(b)) \intersect Extent(p, NewLayout(l).size) = {},
         live' = live \union {Block(p, l)}
  PROVE  HeapNext
<1>1. /\ l.size \in Nat \ {0} /\ l.align \in Nat \ {0}
      /\ NewLayout(l).size \in Nat \ {0} /\ NewLayout(l).align \in Nat \ {0}
      /\ l.size <= NewLayout(l).size /\ NewLayout(l).align % l.align = 0
  BY NewLayoutCovers
<1>2. Extent(p, l.size) \subseteq Extent(p, NewLayout(l).size) /\ p \in Extent(p, l.size)
  BY <1>1 DEF Extent
<1>3. p % l.align = 0
  BY <1>1, ModTransitive
<1>4. ASSUME NEW b \in live PROVE BlockBytes(b) \intersect Extent(p, l.size) = {}
  <2>1. /\ b.ptr \in Nat /\ b.layout \in Layouts
        /\ Owned(b).ptr = b.ptr /\ Owned(b).layout = NewLayout(b.layout)
    BY DEF BlockInv, BlockTypeOK, Owned, Block
  <2>2. b.layout.size <= NewLayout(b.layout).size /\ b.layout.size \in Nat
        /\ NewLayout(b.layout).size \in Nat
    BY <2>1, NewLayoutCovers
  <2>3. BlockBytes(b) \subseteq BlockBytes(Owned(b))
    BY <2>1, <2>2 DEF BlockBytes, Extent
  <2> QED
    BY <1>2, <2>3
<1>5. HeapAlloc(l, p)
  BY <1>2, <1>3, <1>4 DEF HeapAlloc
<1> QED
  BY <1>2, <1>5 DEF HeapNext

(* In a class, a new block is one more.                                    *)
LEMMA InClassGrows ==
  ASSUME BlockInv, NEW l \in Layouts, NEW p, \A b \in live : b.ptr # p,
         live' = live \union {Block(p, l)}, NEW i \in Classes
  PROVE  /\ IsFiniteSet(InClass(live, i)) /\ Cardinality(InClass(live, i)) \in Nat
         /\ Cardinality(InClass(live', i)) \in Nat
         /\ i = list_index(l) =>
              Cardinality(InClass(live', i)) = Cardinality(InClass(live, i)) + 1
         /\ i # list_index(l) => InClass(live', i) = InClass(live, i)
<1>1. InClass(live, i) \subseteq live
  BY DEF InClass
<1>2. IsFiniteSet(InClass(live, i)) /\ Cardinality(InClass(live, i)) \in Nat
  BY <1>1, FS_Subset, FS_CardinalityType DEF BlockInv, BlockTypeOK
<1>3. Block(p, l).ptr = p /\ Block(p, l).layout = l /\ Block(p, l) \notin live
  BY DEF Block
<1>4. CASE i = list_index(l)
  <2>1. InClass(live', i) = InClass(live, i) \union {Block(p, l)}
    BY <1>3, <1>4 DEF InClass
  <2>2. Block(p, l) \notin InClass(live, i)
    BY <1>1, <1>3
  <2>3. Cardinality(InClass(live', i)) = Cardinality(InClass(live, i)) + 1
    BY <1>2, <2>1, <2>2, FS_AddElement
  <2> QED
    BY <1>2, <1>4, <2>3
<1>5. CASE i # list_index(l)
  <2>1. InClass(live', i) = InClass(live, i)
    BY <1>3, <1>5 DEF InClass
  <2> QED
    BY <1>2, <1>5, <2>1
<1> QED
  BY <1>4, <1>5

(* In a class, a block that is freed is one less.                          *)
LEMMA InClassShrinks ==
  ASSUME BlockInv, NEW b \in live, live' = live \ {b}, NEW i \in Classes
  PROVE  /\ IsFiniteSet(InClass(live, i)) /\ Cardinality(InClass(live, i)) \in Nat
         /\ i = list_index(b.layout) =>
              Cardinality(InClass(live', i)) = Cardinality(InClass(live, i)) - 1
         /\ i # list_index(b.layout) => InClass(live', i) = InClass(live, i)
<1>1. InClass(live, i) \subseteq live
  BY DEF InClass
<1>2. IsFiniteSet(InClass(live, i)) /\ Cardinality(InClass(live, i)) \in Nat
  BY <1>1, FS_Subset, FS_CardinalityType DEF BlockInv, BlockTypeOK
<1>3. CASE i = list_index(b.layout)
  <2>1. InClass(live', i) = InClass(live, i) \ {b} /\ b \in InClass(live, i)
    BY <1>3 DEF InClass
  <2> QED
    BY <1>2, <1>3, <2>1, FS_RemoveElement
<1>4. CASE i # list_index(b.layout)
  <2>1. InClass(live', i) = InClass(live, i)
    BY <1>4 DEF InClass
  <2> QED
    BY <1>2, <1>4, <2>1
<1> QED
  BY <1>3, <1>4

(* alloc from a list: the entry becomes the block in use.                  *)
LEMMA AllocFromListStep ==
  ASSUME BlockInv, NEW l \in Layouts, AllocFromList(l)
  PROVE  BlockInv' /\ HeapNext
<1> DEFINE i == list_index(l)
           p == Head(list_heads[i])
<1> USE DEF BlockInv
<1>1. /\ i \in Classes /\ list_heads[i] # << >>
      /\ list_heads' = [list_heads EXCEPT ![i] = Tail(list_heads[i])]
      /\ live' = live \union {Block(p, l)}
      /\ peak' = [j \in Classes |-> Max({peak[j], Cardinality(InClass(live', j))})]
      /\ fallback' = fallback
  BY ListIndexFits DEF AllocFromList, UpdatePeak
<1>2. NewLayout(l) = ClassLayout(i)
  BY DEF AllocFromList, NewLayout
<1>3. Block(p, l).ptr = p /\ Block(p, l).layout = l
  BY DEF Block
<1>4. /\ list_heads[i] \in Seq(Nat) /\ Tail(list_heads[i]) \in Seq(Nat)
      /\ Len(list_heads[i]) \in Nat \ {0} /\ Len(Tail(list_heads[i])) = Len(list_heads[i]) - 1
      /\ p \in Listed(i) /\ ToSet(Tail(list_heads[i])) = Listed(i) \ {p}
      /\ Distinct(Tail(list_heads[i])) /\ p \in Nat
  BY <1>1, TailOfDistinct, HeadTailProperties DEF BlockTypeOK, ListsSound, Listed
<1> HIDE DEF i, p
<1>5. /\ Block(p, ClassLayout(i)) \in fallback
      /\ \A b \in live : b.ptr # p
      /\ \A j \in Classes : j # i => p \notin Listed(j)
  <2>1. Block(p, ClassLayout(i)) \in fallback /\ \A b \in live : b.ptr # p
    BY <1>1, <1>4 DEF OwnersSound
  <2>2. ASSUME NEW j \in Classes, p \in Listed(j) PROVE j = i
    <3>1. Block(p, ClassLayout(j)) \in fallback
      BY <2>2 DEF OwnersSound
    <3>2. Block(p, ClassLayout(j)) = Block(p, ClassLayout(i))
      BY <2>1, <3>1, FallbackByAddress DEF Block
    <3> QED
      BY <1>1, <3>2, ClassLayoutsDiffer DEF Block
  <2> QED
    BY <2>1, <2>2
<1>6. /\ Listed(i)' = Listed(i) \ {p}
      /\ \A j \in Classes : j # i => list_heads'[j] = list_heads[j] /\ Listed(j)' = Listed(j)
      /\ list_heads'[i] = Tail(list_heads[i])
  BY <1>1, <1>4 DEF BlockTypeOK, Listed
<1>7. BlockTypeOK'
  <2>0. IsFiniteSet(live')
    BY <1>1, FS_AddElement DEF BlockTypeOK
  <2>1. live' \subseteq [ptr : Nat, layout : Layouts]
    BY <1>1, <1>4 DEF BlockTypeOK, Block
  <2>2. peak' \in [Classes -> Nat]
    <3>1. ASSUME NEW j \in Classes
          PROVE  Max({peak[j], Cardinality(InClass(live', j))}) \in Nat
      <4>1. Cardinality(InClass(live', j)) \in Nat /\ peak[j] \in Nat
        BY <1>1, <1>5, InClassGrows DEF BlockTypeOK
      <4> QED
        BY <4>1, MaxOfTwo
    <3> QED
      BY <1>1, <3>1
  <2>3. list_heads' \in [Classes -> Seq(Nat)]
    BY <1>1, <1>4 DEF BlockTypeOK
  <2> QED
    BY <1>1, <2>0, <2>1, <2>2, <2>3 DEF BlockTypeOK
<1>8. FallbackSound'
  BY <1>1 DEF FallbackSound, BlockBytes
<1>9. Owned(Block(p, l)) = Block(p, ClassLayout(i))
  BY <1>2, <1>3 DEF Owned
<1>10. OwnersSound'
  <2>1. \A b \in live' : Owned(b) \in fallback'
    BY <1>1, <1>5, <1>9 DEF OwnersSound
  <2>2. \A b, c \in live' : b.ptr = c.ptr => b = c
    BY <1>1, <1>3, <1>5 DEF OwnersSound
  <2>3. \A j \in Classes : \A q \in Listed(j)' :
          Block(q, ClassLayout(j)) \in fallback' /\ \A b \in live' : b.ptr # q
    BY <1>1, <1>3, <1>5, <1>6 DEF OwnersSound
  <2>4. ASSUME NEW f \in fallback'
        PROVE  \/ \E b \in live' : f = Owned(b)
               \/ \E j \in Classes : \E q \in Listed(j)' : f = Block(q, ClassLayout(j))
    <3>1. CASE \E b \in live : f = Owned(b)
      BY <1>1, <3>1
    <3>2. CASE f = Block(p, ClassLayout(i))
      BY <1>1, <1>9, <3>2
    <3>3. ASSUME NEW j \in Classes, NEW q \in Listed(j), f = Block(q, ClassLayout(j)),
                 f # Block(p, ClassLayout(i))
          PROVE  q \in Listed(j)'
      BY <1>6, <3>3
    <3> QED
      BY <1>1, <3>1, <3>2, <3>3 DEF OwnersSound
  <2> QED
    BY <2>1, <2>2, <2>3, <2>4 DEF OwnersSound
<1>11. ListsSound'
  <2>1. Distinct(list_heads'[i]) /\ IsFiniteSet(Listed(i)')
        /\ Len(list_heads'[i]) = Cardinality(Listed(i)')
    <3>1. IsFiniteSet(Listed(i)) /\ Len(list_heads[i]) = Cardinality(Listed(i))
      BY <1>1 DEF ListsSound
    <3>2. IsFiniteSet(Listed(i)') /\ Cardinality(Listed(i)') = Cardinality(Listed(i)) - 1
      BY <1>4, <1>6, <3>1, FS_RemoveElement
    <3> QED
      BY <1>4, <1>6, <3>1, <3>2
  <2>2. ASSUME NEW j \in Classes, j # i
        PROVE  Distinct(list_heads'[j]) /\ IsFiniteSet(Listed(j)')
               /\ Len(list_heads'[j]) = Cardinality(Listed(j)')
    BY <1>6, <2>2 DEF ListsSound
  <2> QED
    BY <2>1, <2>2 DEF ListsSound, Distinct
<1>12. PeakSound'
  <2>1. ASSUME NEW j \in Classes
        PROVE  Len(list_heads'[j]) + Cardinality(InClass(live', j)) = peak'[j]
    <3>1. /\ Cardinality(InClass(live, j)) \in Nat /\ Len(list_heads[j]) \in Nat
          /\ peak[j] \in Nat
          /\ Len(list_heads[j]) + Cardinality(InClass(live, j)) = peak[j]
      BY <1>1, <1>5, InClassGrows, LenProperties DEF BlockTypeOK, PeakSound
    <3>2. Cardinality(InClass(live', j)) \in Nat
          /\ Len(list_heads'[j]) + Cardinality(InClass(live', j)) = peak[j]
          /\ Len(list_heads'[j]) \in Nat
      <4>1. CASE j = i
        <5>1. Cardinality(InClass(live', j)) = Cardinality(InClass(live, j)) + 1
          BY <1>1, <1>5, <4>1, InClassGrows DEF i
        <5>2. Len(list_heads'[j]) = Len(list_heads[j]) - 1 /\ Len(list_heads[j]) \in Nat \ {0}
          BY <1>4, <1>6, <4>1
        <5> QED
          BY <3>1, <5>1, <5>2
      <4>2. CASE j # i
        BY <1>1, <1>5, <1>6, <3>1, <4>2, InClassGrows DEF i
      <4> QED
        BY <4>1, <4>2
    <3>3. peak'[j] = Max({peak[j], Cardinality(InClass(live', j))})
      BY <1>1
    <3>4. peak'[j] = peak[j]
      <4>1. Cardinality(InClass(live', j)) <= peak[j]
        BY <3>1, <3>2
      <4> QED
        BY <3>1, <3>2, <3>3, <4>1, MaxOfTwo
    <3> QED
      BY <3>2, <3>4
  <2> QED
    BY <2>1 DEF PeakSound
<1>13. HeapNext
  <2> DEFINE f == Block(p, ClassLayout(i))
  <2>1. /\ f.ptr = p /\ f.layout = NewLayout(l)
        /\ BlockBytes(f) = Extent(p, NewLayout(l).size)
    BY <1>2 DEF Block, BlockBytes
  <2>2. BlockBytes(f) \subseteq HeapBytes /\ p % NewLayout(l).align = 0
    BY <1>5, <2>1 DEF FallbackSound
  <2>3. ASSUME NEW b \in live PROVE BlockBytes(Owned(b)) \intersect BlockBytes(f) = {}
    <3>1. Owned(b) \in fallback /\ Owned(b) # f
      BY <1>5 DEF OwnersSound, Owned, Block
    <3> QED
      BY <1>5, <3>1 DEF FallbackSound
  <2> QED
    BY <1>1, <1>4, <2>1, <2>2, <2>3, PlaceIsFree
<1> QED
  BY <1>7, <1>8, <1>10, <1>11, <1>12, <1>13

(* alloc from the fallback allocator: the list of the class is empty, and  *)
(* the class has one block more than ever.                                 *)
LEMMA AllocFromFallbackStep ==
  ASSUME BlockInv, NEW l \in Layouts, NEW p \in HeapBytes, AllocFromFallback(l, p)
  PROVE  BlockInv' /\ HeapNext
<1> DEFINE n == NewLayout(l)
           f == Block(p, n)
<1> USE DEF BlockInv
<1>1. /\ Extent(p, n.size) \subseteq HeapBytes /\ p % n.align = 0
      /\ \A g \in fallback : BlockBytes(g) \intersect Extent(p, n.size) = {}
      /\ fallback' = fallback \union {f}
      /\ live' = live \union {Block(p, l)}
      /\ peak' = [j \in Classes |-> Max({peak[j], Cardinality(InClass(live', j))})]
      /\ list_heads' = list_heads
  BY DEF AllocFromFallback, UpdatePeak, Fallback!HeapAlloc, Fallback!Extent, Extent,
         Fallback!HeapBytes, HeapBytes, Fallback!BlockBytes, BlockBytes, Fallback!Block, Block
<1>2. n \in Layouts \union {ClassLayout(j) : j \in Classes}
  BY ListIndexFits DEF NewLayout
<1>3. n.size \in Nat \ {0} /\ p \in Nat /\ p \in Extent(p, n.size)
  BY NewLayoutCovers, HeapAssumption DEF Extent, HeapBytes
<1>4. /\ f.ptr = p /\ f.layout = n /\ BlockBytes(f) = Extent(p, n.size)
      /\ Block(p, l).ptr = p /\ Block(p, l).layout = l /\ Owned(Block(p, l)) = f
  BY DEF Block, BlockBytes, Owned
<1> HIDE DEF n, f
<1>5. ASSUME NEW g \in fallback PROVE g.ptr # p
  <2>1. g.ptr \in Nat /\ g.layout.size \in Nat \ {0}
    <3>1. g.ptr \in Nat /\ g.layout \in Layouts \union {ClassLayout(i) : i \in Classes}
      BY DEF BlockTypeOK
    <3>2. ASSUME NEW i \in Classes PROVE ClassLayout(i).size \in Nat \ {0}
      BY BlockSizesAssumption, LenProperties DEF Classes, ClassLayout
    <3> QED
      BY <3>1, <3>2, HeapAssumption
  <2>2. g.ptr \in BlockBytes(g)
    BY <2>1 DEF BlockBytes, Extent
  <2> QED
    BY <1>1, <1>3, <2>2
<1>6. /\ \A b \in live : b.ptr # p
      /\ \A j \in Classes : p \notin Listed(j)
  BY <1>5 DEF OwnersSound, Owned, Block
<1>7. \A j \in Classes : Listed(j)' = Listed(j)
  BY <1>1 DEF Listed
<1>8. BlockTypeOK'
  <2>0. IsFiniteSet(live')
    BY <1>1, FS_AddElement DEF BlockTypeOK
  <2>1. live' \subseteq [ptr : Nat, layout : Layouts]
    BY <1>1, <1>3 DEF BlockTypeOK, Block
  <2>2. peak' \in [Classes -> Nat]
    <3>1. ASSUME NEW j \in Classes
          PROVE  Max({peak[j], Cardinality(InClass(live', j))}) \in Nat
      <4>1. Cardinality(InClass(live', j)) \in Nat /\ peak[j] \in Nat
        BY <1>1, <1>6, InClassGrows DEF BlockTypeOK
      <4> QED
        BY <4>1, MaxOfTwo
    <3> QED
      BY <1>1, <3>1
  <2>3. fallback' \subseteq [ptr : Nat, layout : Layouts \union {ClassLayout(i) : i \in Classes}]
    BY <1>1, <1>2, <1>3 DEF BlockTypeOK, f, Block
  <2> QED
    BY <1>1, <2>0, <2>1, <2>2, <2>3 DEF BlockTypeOK
<1>9. FallbackSound'
  <2>1. \A g \in fallback' : BlockBytes(g) \subseteq HeapBytes /\ g.ptr % g.layout.align = 0
    BY <1>1, <1>4 DEF FallbackSound
  <2>2. \A g, h \in fallback' : g # h => BlockBytes(g) \intersect BlockBytes(h) = {}
    BY <1>1, <1>4 DEF FallbackSound
  <2> QED
    BY <2>1, <2>2 DEF FallbackSound, BlockBytes
<1>10. OwnersSound'
  <2>1. \A b \in live' : Owned(b) \in fallback'
    BY <1>1, <1>4 DEF OwnersSound
  <2>2. \A b, c \in live' : b.ptr = c.ptr => b = c
    BY <1>1, <1>4, <1>6 DEF OwnersSound
  <2>3. \A j \in Classes : \A q \in Listed(j)' :
          Block(q, ClassLayout(j)) \in fallback' /\ \A b \in live' : b.ptr # q
    BY <1>1, <1>4, <1>6, <1>7 DEF OwnersSound
  <2>4. ASSUME NEW g \in fallback'
        PROVE  \/ \E b \in live' : g = Owned(b)
               \/ \E j \in Classes : \E q \in Listed(j)' : g = Block(q, ClassLayout(j))
    BY <1>1, <1>4, <1>7 DEF OwnersSound
  <2> QED
    BY <2>1, <2>2, <2>3, <2>4 DEF OwnersSound
<1>11. ListsSound'
  BY <1>1, <1>7 DEF ListsSound, Distinct
<1>12. PeakSound'
  <2>1. ASSUME NEW j \in Classes
        PROVE  Len(list_heads'[j]) + Cardinality(InClass(live', j)) = peak'[j]
    <3>1. /\ Cardinality(InClass(live, j)) \in Nat /\ Len(list_heads[j]) \in Nat
          /\ peak[j] \in Nat
          /\ Len(list_heads[j]) + Cardinality(InClass(live, j)) = peak[j]
      BY <1>1, <1>6, InClassGrows, LenProperties DEF BlockTypeOK, PeakSound
    <3>0. peak'[j] = Max({peak[j], Cardinality(InClass(live', j))})
      BY <1>1
    <3>2. CASE j = list_index(l)
      <4>1. Len(list_heads[j]) = 0
        BY <3>2, EmptySeq DEF AllocFromFallback, NeedsFallback
      <4>2. Cardinality(InClass(live', j)) = peak[j] + 1
        <5>1. Cardinality(InClass(live', j)) = Cardinality(InClass(live, j)) + 1
          BY <1>1, <1>6, <3>2, InClassGrows
        <5> QED
          BY <3>1, <4>1, <5>1
      <4>3. peak'[j] = peak[j] + 1
        <5>1. /\ peak[j] \in Nat /\ Cardinality(InClass(live', j)) \in Nat
              /\ peak[j] <= Cardinality(InClass(live', j))
          BY <3>1, <4>2
        <5>2. peak'[j] = Cardinality(InClass(live', j))
          BY <3>0, <5>1, MaxOfTwo
        <5> QED
          BY <4>2, <5>2
      <4> QED
        BY <1>1, <4>1, <4>2, <4>3, <3>1
    <3>3. CASE j # list_index(l)
      <4>1. InClass(live', j) = InClass(live, j)
        BY <1>1, <1>6, <3>3, InClassGrows
      <4>2. peak'[j] = peak[j]
        <5>1. Cardinality(InClass(live', j)) <= peak[j]
          BY <3>1, <4>1
        <5> QED
          BY <3>0, <3>1, <4>1, <5>1, MaxOfTwo
      <4> QED
        BY <1>1, <3>1, <4>1, <4>2
    <3> QED
      BY <3>2, <3>3
  <2> QED
    BY <2>1 DEF PeakSound
<1>13. HeapNext
  <2>1. \A b \in live : BlockBytes(Owned(b)) \intersect Extent(p, n.size) = {}
    BY <1>1 DEF OwnersSound
  <2> QED
    BY <1>1, <1>3, <2>1, PlaceIsFree DEF n
<1> QED
  BY <1>8, <1>9, <1>10, <1>11, <1>12, <1>13

(* dealloc of a block of a class: its address goes to the list.            *)
LEMMA DeallocToListStep ==
  ASSUME BlockInv, NEW b \in live, DeallocToList(b)
  PROVE  BlockInv' /\ HeapNext
<1> DEFINE i == list_index(b.layout)
           p == b.ptr
<1> USE DEF BlockInv
<1>1. /\ i \in Classes /\ p \in Nat /\ b.layout \in Layouts
      /\ list_heads' = [list_heads EXCEPT ![i] = Cons(p, list_heads[i])]
      /\ live' = live \ {b}
      /\ fallback' = fallback /\ peak' = peak
  BY ListIndexFits DEF DeallocToList, BlockTypeOK
<1>2. Owned(b) = Block(p, ClassLayout(i))
  BY DEF DeallocToList, Owned, NewLayout
<1>3. \A j \in Classes : p \notin Listed(j)
  BY DEF OwnersSound
<1> HIDE DEF i, p
<1>4. /\ list_heads[i] \in Seq(Nat) /\ Cons(p, list_heads[i]) \in Seq(Nat)
      /\ Len(list_heads[i]) \in Nat
      /\ Len(Cons(p, list_heads[i])) = Len(list_heads[i]) + 1
      /\ ToSet(Cons(p, list_heads[i])) = Listed(i) \union {p}
      /\ Distinct(Cons(p, list_heads[i]))
  <2>1. list_heads[i] \in Seq(Nat) /\ Distinct(list_heads[i]) /\ p \notin ToSet(list_heads[i])
    BY <1>1, <1>3 DEF BlockTypeOK, ListsSound, Listed
  <2>2. p \in Nat
    BY <1>1
  <2>3. /\ Cons(p, list_heads[i]) \in Seq(Nat) /\ Len(list_heads[i]) \in Nat
        /\ Len(Cons(p, list_heads[i])) = Len(list_heads[i]) + 1
        /\ ToSet(Cons(p, list_heads[i])) = ToSet(list_heads[i]) \union {p}
    BY <2>1, <2>2, ConsProperties
  <2>4. Distinct(Cons(p, list_heads[i]))
    BY <2>1, <2>2, ConsDistinct
  <2> QED
    BY <2>1, <2>3, <2>4 DEF Listed
<1>5. /\ Listed(i)' = Listed(i) \union {p}
      /\ \A j \in Classes : j # i => list_heads'[j] = list_heads[j] /\ Listed(j)' = Listed(j)
      /\ list_heads'[i] = Cons(p, list_heads[i])
  BY <1>1, <1>4 DEF BlockTypeOK, Listed
<1>6. BlockTypeOK'
  <2>1. IsFiniteSet(live') /\ live' \subseteq live
    BY <1>1, FS_RemoveElement DEF BlockTypeOK
  <2> QED
    BY <1>1, <1>4, <2>1 DEF BlockTypeOK
<1>7. FallbackSound'
  BY <1>1 DEF FallbackSound, BlockBytes
<1>8. OwnersSound'
  <2>1. \A c \in live' : Owned(c) \in fallback' /\ c \in live /\ c.ptr # p
    BY <1>1 DEF OwnersSound, p
  <2>2. \A c, d \in live' : c.ptr = d.ptr => c = d
    BY <1>1 DEF OwnersSound
  <2>3. \A j \in Classes : \A q \in Listed(j)' :
          Block(q, ClassLayout(j)) \in fallback' /\ \A c \in live' : c.ptr # q
    <3>1. Block(p, ClassLayout(i)) \in fallback
      BY <1>2 DEF OwnersSound
    <3> QED
      BY <1>1, <1>5, <2>1, <3>1 DEF OwnersSound
  <2>4. ASSUME NEW f \in fallback'
        PROVE  \/ \E c \in live' : f = Owned(c)
               \/ \E j \in Classes : \E q \in Listed(j)' : f = Block(q, ClassLayout(j))
    <3>1. CASE f = Owned(b)
      BY <1>1, <1>2, <1>5, <3>1
    <3>2. ASSUME NEW c \in live, f = Owned(c), f # Owned(b) PROVE c \in live'
      BY <1>1, <3>2
    <3>3. ASSUME NEW j \in Classes, NEW q \in Listed(j) PROVE q \in Listed(j)'
      BY <1>5
    <3> QED
      BY <1>1, <3>1, <3>2, <3>3 DEF OwnersSound
  <2> QED
    BY <2>1, <2>2, <2>3, <2>4 DEF OwnersSound
<1>9. ListsSound'
  <2>1. Distinct(list_heads'[i]) /\ IsFiniteSet(Listed(i)')
        /\ Len(list_heads'[i]) = Cardinality(Listed(i)')
    <3>1. IsFiniteSet(Listed(i)) /\ Len(list_heads[i]) = Cardinality(Listed(i))
      BY <1>1 DEF ListsSound
    <3>2. IsFiniteSet(Listed(i)') /\ Cardinality(Listed(i)') = Cardinality(Listed(i)) + 1
      BY <1>1, <1>3, <1>5, <3>1, FS_AddElement
    <3> QED
      BY <1>4, <1>5, <3>1, <3>2
  <2>2. ASSUME NEW j \in Classes, j # i
        PROVE  Distinct(list_heads'[j]) /\ IsFiniteSet(Listed(j)')
               /\ Len(list_heads'[j]) = Cardinality(Listed(j)')
    BY <1>5, <2>2 DEF ListsSound
  <2> QED
    BY <2>1, <2>2 DEF ListsSound, Distinct
<1>10. PeakSound'
  <2>1. ASSUME NEW j \in Classes
        PROVE  Len(list_heads'[j]) + Cardinality(InClass(live', j)) = peak'[j]
    <3>1. /\ Cardinality(InClass(live, j)) \in Nat /\ Len(list_heads[j]) \in Nat
          /\ peak[j] \in Nat
          /\ Len(list_heads[j]) + Cardinality(InClass(live, j)) = peak[j]
      BY <1>1, InClassShrinks, LenProperties DEF BlockTypeOK, PeakSound
    <3>2. CASE j = i
      <4>1. Cardinality(InClass(live', j)) = Cardinality(InClass(live, j)) - 1
        BY <1>1, <3>2, InClassShrinks DEF i
      <4>2. Len(list_heads'[j]) = Len(list_heads[j]) + 1
        BY <1>4, <1>5, <3>2
      <4> QED
        BY <1>1, <3>1, <4>1, <4>2
    <3>3. CASE j # i
      <4>1. InClass(live', j) = InClass(live, j)
        BY <1>1, <3>3, InClassShrinks DEF i
      <4> QED
        BY <1>1, <1>5, <3>1, <3>3, <4>1
    <3> QED
      BY <3>2, <3>3
  <2> QED
    BY <2>1 DEF PeakSound
<1>11. HeapNext
  BY <1>1 DEF HeapNext, HeapFree
<1> QED
  BY <1>6, <1>7, <1>8, <1>9, <1>10, <1>11

(* dealloc of a large block: the fallback allocator takes it back.         *)
LEMMA DeallocToFallbackStep ==
  ASSUME BlockInv, NEW b \in live, DeallocToFallback(b)
  PROVE  BlockInv' /\ HeapNext
<1> USE DEF BlockInv
<1>1. /\ list_index(b.layout) = NoClass /\ live' = live \ {b}
      /\ fallback' = fallback \ {b} /\ b \in fallback
      /\ list_heads' = list_heads /\ peak' = peak
  BY DEF DeallocToFallback, Fallback!HeapFree
<1>2. \A j \in Classes : Listed(j)' = Listed(j)
  BY <1>1 DEF Listed
<1>3. NoClass \notin Classes
  BY BlockSizesAssumption, LenProperties DEF Classes, NoClass
<1>4. BlockTypeOK'
  <2>1. IsFiniteSet(live') /\ live' \subseteq live
    BY <1>1, FS_RemoveElement DEF BlockTypeOK
  <2> QED
    BY <1>1, <2>1 DEF BlockTypeOK
<1>5. FallbackSound'
  BY <1>1 DEF FallbackSound, BlockBytes
<1>6. Owned(b) = b
  BY <1>1 DEF Owned, NewLayout, Block, BlockTypeOK
<1>7. OwnersSound'
  <2>1. ASSUME NEW c \in live' PROVE Owned(c) \in fallback' /\ c \in live
    <3>1. c \in live /\ c.ptr # b.ptr
      BY <1>1 DEF OwnersSound
    <3>2. Owned(c).ptr = c.ptr
      BY DEF Owned, Block
    <3> QED
      BY <1>1, <3>1, <3>2 DEF OwnersSound
  <2>2. \A c, d \in live' : c.ptr = d.ptr => c = d
    BY <1>1 DEF OwnersSound
  <2>3. \A j \in Classes : \A q \in Listed(j)' :
          Block(q, ClassLayout(j)) \in fallback' /\ \A c \in live' : c.ptr # q
    BY <1>1, <1>2 DEF OwnersSound, Block
  <2>4. ASSUME NEW f \in fallback'
        PROVE  \/ \E c \in live' : f = Owned(c)
               \/ \E j \in Classes : \E q \in Listed(j)' : f = Block(q, ClassLayout(j))
    BY <1>1, <1>2, <1>6 DEF OwnersSound
  <2> QED
    BY <2>1, <2>2, <2>3, <2>4 DEF OwnersSound
<1>8. ListsSound'
  BY <1>1, <1>2 DEF ListsSound, Distinct
<1>9. PeakSound'
  <2>1. ASSUME NEW j \in Classes PROVE InClass(live', j) = InClass(live, j)
    BY <1>1, <1>3, InClassShrinks
  <2> QED
    BY <1>1, <2>1 DEF PeakSound
<1>10. HeapNext
  BY <1>1 DEF HeapNext, HeapFree
<1> QED
  BY <1>4, <1>5, <1>7, <1>8, <1>9, <1>10

(* Every step of the allocator is a step of the heap or changes nothing.   *)
LEMMA BlockInvStep ==
  BlockInv /\ [BlockNext]_blockVars => BlockInv' /\ [HeapNext]_live
<1> SUFFICES ASSUME BlockInv, [BlockNext]_blockVars PROVE BlockInv' /\ [HeapNext]_live
  OBVIOUS
<1>1. ASSUME UNCHANGED <<list_heads, fallback, peak, live>> PROVE BlockInv'
  <2>1. \A i \in Classes : Listed(i)' = Listed(i)
    BY <1>1 DEF Listed
  <2>2. BlockTypeOK' /\ FallbackSound'
    BY <1>1 DEF BlockInv, BlockTypeOK, FallbackSound, BlockBytes
  <2>3. OwnersSound'
    BY <1>1, <2>1 DEF BlockInv, OwnersSound
  <2>4. ListsSound' /\ PeakSound'
    BY <1>1, <2>1 DEF BlockInv, ListsSound, Distinct, PeakSound
  <2> QED
    BY <2>2, <2>3, <2>4 DEF BlockInv
<1>2. CASE BlockInit
  BY <1>1, <1>2 DEF BlockInit
<1>3. ASSUME NEW l \in Layouts, AllocFromList(l) PROVE BlockInv' /\ HeapNext
  BY <1>3, AllocFromListStep
<1>4. ASSUME NEW l \in Layouts, NEW p \in HeapBytes, AllocFromFallback(l, p)
      PROVE  BlockInv' /\ HeapNext
  BY <1>4, AllocFromFallbackStep
<1>5. ASSUME NEW l \in Layouts, AllocNull(l) PROVE BlockInv' /\ UNCHANGED live
  BY <1>1, <1>5 DEF AllocNull, blockVars
<1>6. ASSUME NEW b \in live, DeallocToList(b) PROVE BlockInv' /\ HeapNext
  BY <1>6, DeallocToListStep
<1>7. ASSUME NEW b \in live, DeallocToFallback(b) PROVE BlockInv' /\ HeapNext
  BY <1>7, DeallocToFallbackStep
<1>8. CASE UNCHANGED blockVars
  BY <1>1, <1>8 DEF blockVars
<1> QED
  BY <1>2, <1>3, <1>4, <1>5, <1>6, <1>7, <1>8 DEF BlockNext, BlockInit

(* The invariant holds throughout.                                         *)
LEMMA BlockInvHolds == BlockSpec => []BlockInv
  BY BlockInvInit, BlockInvStep, PTL DEF BlockSpec

(***************************************************************************)
(* The kernel's global allocator keeps GlobalAlloc's promise, whatever     *)
(* place the fallback allocator chooses: blocks in use share no byte and   *)
(* are aligned, those that went through a free list too.                   *)
(***************************************************************************)
THEOREM BlocksImplementHeap == BlockSpec => ImplementsHeap
<1>1. BlockNew => live = {}
  BY DEF BlockNew
<1> QED
  BY <1>1, BlockInvInit, BlockInvStep, PTL DEF BlockSpec, ImplementsHeap, HeapSpec

(***************************************************************************)
(* A block is in use or in one list, once, so dealloc never writes its     *)
(* ListNode into memory that belongs to someone.                           *)
(***************************************************************************)
THEOREM BlocksHaveOneOwner == BlockSpec => []OneOwner
<1>1. BlockInv => OneOwner
  <2> SUFFICES ASSUME BlockInv PROVE OneOwner
    OBVIOUS
  <2> USE DEF BlockInv
  <2>1. ASSUME NEW f \in fallback
        PROVE  f \in InClass(live, NoClass) \/ \E i \in Classes : f \in ClassBlocks(i)
    <3>1. ASSUME NEW b \in live, f = Owned(b), list_index(b.layout) = NoClass
          PROVE  f \in InClass(live, NoClass)
      <4>1. Owned(b) = b
        BY <3>1 DEF Owned, NewLayout, Block, BlockTypeOK
      <4> QED
        BY <3>1, <4>1 DEF InClass
    <3>2. ASSUME NEW b \in live, f = Owned(b), list_index(b.layout) # NoClass
          PROVE  \E i \in Classes : f \in ClassBlocks(i)
      <4>1. list_index(b.layout) \in Classes
        BY <3>2, ListIndexFits DEF BlockTypeOK
      <4>2. b \in InClass(live, list_index(b.layout))
        BY DEF InClass
      <4>3. f = Block(b.ptr, ClassLayout(list_index(b.layout)))
        BY <3>2 DEF Owned, NewLayout
      <4>4. f \in ClassBlocks(list_index(b.layout))
        BY <4>2, <4>3 DEF ClassBlocks
      <4> QED
        BY <4>1, <4>4
    <3>3. ASSUME NEW i \in Classes, NEW p \in Listed(i), f = Block(p, ClassLayout(i))
          PROVE  f \in ClassBlocks(i)
      BY <3>3 DEF ClassBlocks
    <3> QED
      BY <3>1, <3>2, <3>3 DEF OwnersSound
  <2>2. ASSUME NEW b \in InClass(live, NoClass) PROVE b \in fallback
    <3>1. b \in live /\ Owned(b) = b
      BY DEF InClass, Owned, NewLayout, Block, BlockTypeOK
    <3> QED
      BY <3>1 DEF OwnersSound
  <2>3. ASSUME NEW i \in Classes, NEW f \in ClassBlocks(i) PROVE f \in fallback
    <3>1. PICK p \in Listed(i) \union {b.ptr : b \in InClass(live, i)} :
            f = Block(p, ClassLayout(i))
      BY DEF ClassBlocks
    <3>2. CASE p \in Listed(i)
      BY <3>1, <3>2 DEF OwnersSound
    <3>3. CASE p \in {b.ptr : b \in InClass(live, i)}
      <4>1. PICK b \in live : list_index(b.layout) = i /\ p = b.ptr
        BY <3>3 DEF InClass
      <4>2. NoClass \notin Classes
        BY BlockSizesAssumption, LenProperties DEF Classes, NoClass
      <4>3. Owned(b) = f
        BY <3>1, <4>1, <4>2 DEF Owned, NewLayout
      <4> QED
        BY <4>3 DEF OwnersSound
    <3> QED
      BY <3>1, <3>2, <3>3
  <2>4. fallback = InClass(live, NoClass) \union UNION {ClassBlocks(i) : i \in Classes}
    BY <2>1, <2>2, <2>3
  <2>5. \A i \in Classes :
          /\ Len(list_heads[i]) = Cardinality(Listed(i))
          /\ \A b \in live : b.ptr \notin Listed(i)
    BY DEF ListsSound, OwnersSound
  <2> QED
    BY <2>4, <2>5 DEF OneOwner
<1> QED
  BY <1>1, BlockInvHolds, PTL

(***************************************************************************)
(* The memory of a class is what its layouts needed at their worst moment, *)
(* after any number of alloc and dealloc.                                  *)
(***************************************************************************)
THEOREM ClassesKeepTheirPeak == BlockSpec => []ClassMemoryIsPeak
<1>1. BlockInv => ClassMemoryIsPeak
  BY DEF BlockInv, PeakSound, ClassMemoryIsPeak
<1> QED
  BY <1>1, BlockInvHolds, PTL

Aligned(a, n)        == a % n = 0
SamePage(a, n, page) == a \div page = (a + n - 1) \div page

(* A part of an aligned block does not leave the page the block starts in. *)
LEMMA AlignedWithinPage ==
  ASSUME NEW a \in Nat, NEW s \in Nat \ {0}, NEW page \in Nat \ {0}, NEW n \in Nat \ {0},
         Aligned(a, s), Aligned(page, s), n <= s
  PROVE  SamePage(a, n, page)
<1> USE DEF Aligned, SamePage
<1>1. PICK q \in Nat, r \in 0 .. page - 1 : a = page * q + r /\ q = a \div page
  BY DivMod
<1>2. PICK k \in Nat : a = s * k
  BY Multiple
<1>3. PICK m \in Nat : page = s * m
  BY Multiple
<1>4. r % s = 0
  <2>1. r = s * (k - m * q)
    BY <1>1, <1>2, <1>3
  <2>2. PICK d \in Int : d = k - m * q
    OBVIOUS
  <2>3. d \in Nat
    BY <2>1, <2>2
  <2>4. r = s * d + 0 /\ 0 \in 0 .. s - 1
    BY <2>1, <2>2
  <2> QED
    BY <2>3, <2>4, DivModUnique
<1>5. r + s <= page
  <2>1. r \in Nat /\ r < page
    OBVIOUS
  <2> QED
    BY <1>4, <2>1, ModGap
<1>6. a + n - 1 = page * q + (r + n - 1) /\ r + n - 1 \in 0 .. page - 1
  <2>1. PICK z \in Nat : z = page * q
    OBVIOUS
  <2>2. r + n - 1 \in 0 .. page - 1
    BY <1>5
  <2>3. a = z + r
    BY <1>1, <2>1
  <2> QED
    BY <2>1, <2>2, <2>3
<1>7. (page * q + (r + n - 1)) \div page = q
  BY <1>6, DivModUnique
<1> QED
  BY <1>1, <1>6, <1>7

(***************************************************************************)
(* A buffer of at most the largest block size lies in one page, so the     *)
(* address OsHal::share translates stands for the whole buffer.            *)
(***************************************************************************)
THEOREM ClassBlocksStayInPage == BlockSpec => []ClassBlocksWithinPage
<1>1. BlockInv => ClassBlocksWithinPage
  <2> SUFFICES ASSUME BlockInv, NEW b \in live \ InClass(live, NoClass)
               PROVE  b.ptr \div PAGE_SIZE = (b.ptr + b.layout.size - 1) \div PAGE_SIZE
    BY DEF ClassBlocksWithinPage
  <2> DEFINE i == list_index(b.layout)
  <2>1. b.ptr \in Nat /\ b.layout \in Layouts /\ i # NoClass
    BY DEF BlockInv, BlockTypeOK, InClass
  <2>2. /\ i \in Classes /\ b.layout.size <= BLOCK_SIZES[i]
        /\ b.layout.size \in Nat \ {0}
    BY <2>1, ListIndexFits, HeapAssumption
  <2>3. Owned(b) \in fallback /\ Owned(b).ptr = b.ptr /\ Owned(b).layout.align = BLOCK_SIZES[i]
    BY <2>1 DEF BlockInv, OwnersSound, Owned, NewLayout, ClassLayout, Block
  <2>4. b.ptr % BLOCK_SIZES[i] = 0
    BY <2>3 DEF BlockInv, FallbackSound
  <2>5. /\ BLOCK_SIZES[i] \in Nat \ {0} /\ PAGE_SIZE \in Nat \ {0}
        /\ PAGE_SIZE % BLOCK_SIZES[i] = 0
    BY <2>2, BlockSizesAssumption, LenProperties DEF Classes
  <2> DEFINE s == BLOCK_SIZES[i]
             n == b.layout.size
  <2>6. Aligned(b.ptr, s) /\ Aligned(PAGE_SIZE, s)
    BY <2>4, <2>5 DEF Aligned
  <2>7. s \in Nat \ {0} /\ n \in Nat \ {0} /\ n <= s
    BY <2>2, <2>5
  <2> HIDE DEF i, s, n
  <2>8. SamePage(b.ptr, n, PAGE_SIZE)
    BY <2>1, <2>5, <2>6, <2>7, AlignedWithinPage
  <2> QED
    BY <2>8 DEF n, SamePage
<1> QED
  BY <1>1, BlockInvHolds, PTL

-----------------------------------------------------------------------------
(***************************************************************************)
(* The linked list allocator.                                              *)
(***************************************************************************)
(* RemoveAt takes one element out.                                         *)
LEMMA RemoveAtOfDistinct ==
  ASSUME NEW S, NEW s \in Seq(S), NEW i \in 1 .. Len(s), Distinct(s)
  PROVE  /\ RemoveAt(s, i) \in Seq(S)
         /\ ToSet(RemoveAt(s, i)) = ToSet(s) \ {s[i]}
         /\ Distinct(RemoveAt(s, i))
<1> DEFINE t == RemoveAt(s, i)
           k(j) == IF j < i THEN j ELSE j + 1
<1>1. /\ Len(s) \in Nat /\ i \in Nat
      /\ \A j \in 1 .. Len(s) : s[j] \in S
  BY LenProperties, ElementOfSeq
<1>2. /\ SubSeq(s, 1, i - 1) \in Seq(S) /\ Len(SubSeq(s, 1, i - 1)) = i - 1
      /\ \A j \in 1 .. i - 1 : SubSeq(s, 1, i - 1)[j] = s[j]
  <2>1. \A j \in 1 .. i - 1 : s[j] \in S
    BY <1>1
  <2>2. /\ SubSeq(s, 1, i - 1) \in Seq(S)
        /\ Len(SubSeq(s, 1, i - 1)) = IF 1 <= i - 1 THEN i - 1 - 1 + 1 ELSE 0
        /\ \A j \in 1 .. i - 1 - 1 + 1 : SubSeq(s, 1, i - 1)[j] = s[1 + j - 1]
    BY <1>1, <2>1, SubSeqProperties
  <2> QED
    BY <1>1, <2>2
<1>3. /\ SubSeq(s, i + 1, Len(s)) \in Seq(S) /\ Len(SubSeq(s, i + 1, Len(s))) = Len(s) - i
      /\ \A j \in 1 .. Len(s) - i : SubSeq(s, i + 1, Len(s))[j] = s[i + j]
  <2>1. \A j \in i + 1 .. Len(s) : s[j] \in S
    BY <1>1
  <2>2. /\ SubSeq(s, i + 1, Len(s)) \in Seq(S)
        /\ Len(SubSeq(s, i + 1, Len(s))) =
             IF i + 1 <= Len(s) THEN Len(s) - (i + 1) + 1 ELSE 0
        /\ \A j \in 1 .. Len(s) - (i + 1) + 1 :
             SubSeq(s, i + 1, Len(s))[j] = s[(i + 1) + j - 1]
    BY <1>1, <2>1, SubSeqProperties
  <2> QED
    BY <1>1, <2>2
<1>4. /\ t \in Seq(S) /\ Len(t) = Len(s) - 1
      /\ \A j \in 1 .. Len(s) - 1 : t[j] = s[k(j)]
  <2>1. /\ t \in Seq(S) /\ Len(t) = Len(s) - 1
        /\ \A j \in 1 .. Len(s) - 1 :
             t[j] = IF j <= i - 1 THEN SubSeq(s, 1, i - 1)[j]
                                  ELSE SubSeq(s, i + 1, Len(s))[j - (i - 1)]
    <3> DEFINE a == SubSeq(s, 1, i - 1)
               b == SubSeq(s, i + 1, Len(s))
    <3>1. a \in Seq(S) /\ Len(a) = i - 1 /\ b \in Seq(S) /\ Len(b) = Len(s) - i /\ t = a \o b
      BY <1>2, <1>3 DEF RemoveAt
    <3> HIDE DEF a, b, t
    <3>2. /\ a \o b \in Seq(S) /\ Len(a \o b) = Len(a) + Len(b)
          /\ \A j \in 1 .. Len(a) + Len(b) :
               (a \o b)[j] = IF j <= Len(a) THEN a[j] ELSE b[j - Len(a)]
      BY <3>1, ConcatProperties
    <3>3. Len(a) + Len(b) = Len(s) - 1
      BY <1>1, <3>1
    <3> QED
      BY <1>1, <3>1, <3>2, <3>3 DEF a, b
  <2>2. ASSUME NEW j \in 1 .. Len(s) - 1 PROVE t[j] = s[k(j)]
    <3>1. CASE j <= i - 1
      BY <1>1, <1>2, <2>1, <3>1
    <3>2. CASE i <= j
      <4>1. j - (i - 1) \in 1 .. Len(s) - i /\ i + (j - (i - 1)) = j + 1
        BY <1>1, <3>2
      <4> QED
        BY <1>1, <1>3, <2>1, <3>2, <4>1
    <3> QED
      BY <1>1, <3>1, <3>2
  <2> QED
    BY <2>1, <2>2
<1>5. /\ ToSet(t) = {t[j] : j \in 1 .. Len(t)}
      /\ ToSet(s) = {s[j] : j \in 1 .. Len(s)}
  BY <1>4, LenProperties DEF ToSet
<1> HIDE DEF t
<1>6. \A j \in 1 .. Len(t) : k(j) \in 1 .. Len(s) /\ k(j) # i
  BY <1>1, <1>4
<1>7. ASSUME NEW x \in ToSet(t) PROVE x \in ToSet(s) /\ x # s[i]
  BY <1>4, <1>5, <1>6 DEF Distinct
<1>8. ASSUME NEW x \in ToSet(s), x # s[i] PROVE x \in ToSet(t)
  <2>1. PICK m \in 1 .. Len(s) : x = s[m]
    BY <1>5
  <2>2. CASE m < i
    <3>1. m \in 1 .. Len(t) /\ t[m] = x
      BY <1>1, <1>4, <2>1, <2>2
    <3> QED
      BY <1>5, <3>1
  <2>3. CASE m > i
    <3>1. m - 1 \in 1 .. Len(t) /\ t[m - 1] = x
      BY <1>1, <1>4, <2>1, <2>3
    <3> QED
      BY <1>5, <3>1
  <2> QED
    BY <1>1, <1>8, <2>1, <2>2, <2>3
<1>9. Distinct(t)
  <2>1. ASSUME NEW j \in 1 .. Len(t), NEW m \in 1 .. Len(t), j # m PROVE t[j] # t[m]
    <3>1. k(j) # k(m)
      BY <1>1, <1>4, <2>1
    <3> QED
      BY <1>4, <1>6, <3>1 DEF Distinct
  <2> QED
    BY <2>1 DEF Distinct
<1> QED
  BY <1>4, <1>7, <1>8, <1>9 DEF t

(* What size_align asks for has room for the layout and for a ListNode,    *)
(* and keeps the addresses aligned for a ListNode.                         *)
LEMMA SizeAlignSound ==
  ASSUME NEW l \in Layouts
  PROVE  /\ l.size \in Nat \ {0} /\ l.align \in Nat \ {0}
         /\ size_align(l).size \in Nat \ {0} /\ size_align(l).align \in Nat \ {0}
         /\ l.size <= size_align(l).size /\ NODE_SIZE <= size_align(l).size
         /\ size_align(l).align \in {l.align, NODE_ALIGN}
         /\ size_align(l).align % l.align = 0
         /\ size_align(l).align % NODE_ALIGN = 0
         /\ size_align(l).size % NODE_ALIGN = 0
<1> DEFINE al == Max({l.align, NODE_ALIGN})
           up == align_up(l.size, al)
<1>1. /\ l.size \in Nat \ {0} /\ l.align \in Nat \ {0}
      /\ NODE_SIZE \in Nat \ {0} /\ NODE_ALIGN \in Nat \ {0} /\ NODE_SIZE % NODE_ALIGN = 0
  BY HeapAssumption, ListNodeAssumption
<1>2. al \in {l.align, NODE_ALIGN} /\ l.align <= al /\ NODE_ALIGN <= al /\ al \in Nat \ {0}
  BY <1>1, MaxOfTwo
<1>3. size_align(l).align = al /\ size_align(l).size = Max({up, NODE_SIZE})
  BY DEF size_align
<1>4. al % l.align = 0 /\ al % NODE_ALIGN = 0
  BY <1>2, ListAlignmentAssumption
<1> HIDE DEF al
<1>5. up \in Nat /\ l.size <= up /\ up % al = 0
  BY <1>1, <1>2, AlignUp
<1> HIDE DEF up
<1>6. up % NODE_ALIGN = 0
  BY <1>1, <1>2, <1>4, <1>5, ModTransitive
<1>7. Max({up, NODE_SIZE}) \in {up, NODE_SIZE}
      /\ up <= Max({up, NODE_SIZE}) /\ NODE_SIZE <= Max({up, NODE_SIZE})
  BY <1>1, <1>5, MaxOfTwo
<1> QED
  BY <1>1, <1>2, <1>3, <1>4, <1>5, <1>6, <1>7

(* align_up leaves an aligned address alone.                               *)
LEMMA AlignUpFixed ==
  ASSUME NEW a \in Nat, NEW n \in Nat \ {0}, a % n = 0
  PROVE  align_up(a, n) = a
<1>1. /\ align_up(a, n) \in Nat /\ align_up(a, n) % n = 0
      /\ a <= align_up(a, n) /\ align_up(a, n) <= a + n - 1
  BY AlignUp
<1>2. ~ (a < align_up(a, n))
  <2> SUFFICES ASSUME a < align_up(a, n) PROVE FALSE
    OBVIOUS
  <2>1. a + n <= align_up(a, n)
    BY <1>1, ModGap
  <2> QED
    BY <1>1, <2>1
<1> QED
  BY <1>1, <1>2

(***************************************************************************)
(* The inductive invariant.  Free regions and the memory reserved for the  *)
(* blocks in use, which is more than the program asked for, lie apart in   *)
(* the heap and keep the alignment of a ListNode; a lost byte is one that  *)
(* no block of some layout could start at.                                 *)
(***************************************************************************)
Piece        == [start_addr : Nat, size : Nat \ {0}]
Apart(r, q)  == end_addr(r) <= q.start_addr \/ end_addr(q) <= r.start_addr
Within(r, q) == q.start_addr <= r.start_addr /\ end_addr(r) <= end_addr(q)
WholeHeap    == Region(HEAP_START, HEAP_SIZE)

(* The memory reserved for a block in use, as a region.                    *)
Reserved(b) == Region(b.ptr, size_align(b.layout).size)

ListTypeOK ==
  /\ regions \in Seq(Piece)
  /\ list_ready \in BOOLEAN /\ panicked = FALSE
  /\ live \subseteq [ptr : Nat, layout : Layouts]

RegionsPlaced ==
  /\ Distinct(regions)
  /\ \A r \in ToSet(regions) :
       Within(r, WholeHeap) /\ r.start_addr % NODE_ALIGN = 0 /\ NODE_SIZE <= r.size
  /\ \A r, q \in ToSet(regions) : r # q => Apart(r, q)

BlocksPlaced ==
  /\ \A b \in live :
       Within(Reserved(b), WholeHeap) /\ b.ptr % size_align(b.layout).align = 0
  /\ \A b, c \in live : b # c => Apart(Reserved(b), Reserved(c))
  /\ \A b \in live : \A r \in ToSet(regions) : Apart(Reserved(b), r)

NotYetReady == ~list_ready => regions = << >> /\ live = {}

LostAreMisaligned ==
  list_ready => \A a \in LostBytes : \E l \in Layouts : a % size_align(l).align # 0

ListInv ==
  ListTypeOK /\ RegionsPlaced /\ BlocksPlaced /\ NotYetReady /\ LostAreMisaligned

(* new: an empty list.                                                     *)
LEMMA ListInvInit == ListNew => ListInv
<1> SUFFICES ASSUME ListNew PROVE ListInv
  OBVIOUS
<1>1. regions \in Seq(Piece) /\ Len(regions) = 0
  BY EmptySeq DEF ListNew
<1>2. ToSet(regions) = {}
  BY DEF ListNew, ToSet
<1> QED
  <2>1. ListTypeOK /\ NotYetReady /\ LostAreMisaligned
    BY <1>1 DEF ListNew, ListTypeOK, NotYetReady, LostAreMisaligned
  <2>2. Distinct(regions)
    BY <1>1 DEF Distinct
  <2>3. RegionsPlaced /\ BlocksPlaced
    BY <1>2, <2>2 DEF ListNew, RegionsPlaced, BlocksPlaced
  <2> QED
    BY <2>1, <2>3 DEF ListInv

(* The extents of regions.                                                 *)
LEMMA RegionFacts ==
  ASSUME NEW a \in Nat, NEW n \in Nat
  PROVE  /\ Region(a, n).start_addr = a /\ Region(a, n).size = n
         /\ end_addr(Region(a, n)) = a + n /\ end_addr(Region(a, n)) \in Nat
         /\ n # 0 => Region(a, n) \in Piece
  BY DEF Region, end_addr, Piece

(* The free regions and the reserved memory are numbers.                   *)
LEMMA PiecesTyped ==
  ASSUME ListInv
  PROVE  /\ \A r \in ToSet(regions) :
              /\ r \in Piece
              /\ r.start_addr \in Nat /\ r.size \in Nat \ {0} /\ end_addr(r) \in Nat
         /\ \A b \in live :
              /\ Reserved(b).start_addr = b.ptr
              /\ Reserved(b).size = size_align(b.layout).size
              /\ Reserved(b).start_addr \in Nat /\ Reserved(b).size \in Nat \ {0}
              /\ end_addr(Reserved(b)) \in Nat
              /\ Reserved(b) \in Piece
<1>1. ASSUME NEW r \in ToSet(regions)
      PROVE  /\ r \in Piece
             /\ r.start_addr \in Nat /\ r.size \in Nat \ {0} /\ end_addr(r) \in Nat
  <2>1. r \in Piece
    <3>1. regions \in Seq(Piece) /\ DOMAIN regions = 1 .. Len(regions)
      BY LenProperties DEF ListInv, ListTypeOK
    <3>2. PICK i \in 1 .. Len(regions) : r = regions[i]
      BY <3>1 DEF ToSet
    <3> QED
      BY <3>1, <3>2, ElementOfSeq
  <2> QED
    BY <2>1 DEF end_addr, Piece
<1>2. ASSUME NEW b \in live
      PROVE  /\ Reserved(b).start_addr = b.ptr
             /\ Reserved(b).size = size_align(b.layout).size
             /\ Reserved(b).start_addr \in Nat /\ Reserved(b).size \in Nat \ {0}
             /\ end_addr(Reserved(b)) \in Nat
             /\ Reserved(b) \in Piece
  <2>1. b.ptr \in Nat /\ size_align(b.layout).size \in Nat \ {0}
    BY SizeAlignSound DEF ListInv, ListTypeOK
  <2> QED
    BY <2>1, RegionFacts DEF Reserved
<1> QED
  BY <1>1, <1>2

(* A part of a region is apart from what the region is apart from.         *)
LEMMA ApartWithin ==
  ASSUME NEW r \in Piece,
         NEW q \in Piece,
         NEW p \in Piece,
         Within(p, r), Apart(r, q)
  PROVE  Apart(p, q) /\ Apart(q, p) /\ p # q
  BY DEF Apart, Within, end_addr, Piece

(* Bytes of a region, and of a part of it.                                 *)
LEMMA BytesOfRegion ==
  ASSUME NEW r \in Piece, NEW a
  PROVE  a \in RegionBytes(r) <=> a \in Nat /\ r.start_addr <= a /\ a < end_addr(r)
  BY DEF RegionBytes, Extent, end_addr, Piece

(* Two regions that are apart share no byte.                               *)
LEMMA ApartBytes ==
  ASSUME NEW r \in Piece,
         NEW q \in Piece, Apart(r, q)
  PROVE  RegionBytes(r) \intersect RegionBytes(q) = {}
  BY DEF RegionBytes, Extent, end_addr, Apart, Piece

(* Neither assert of add_free_region fails for a region with room for a    *)
(* ListNode; it becomes the first of the list.                             *)
LEMMA AddFreeRegion ==
  ASSUME NEW list \in Seq(Piece), Distinct(list),
         NEW a \in Nat, NEW n \in Nat, a % NODE_ALIGN = 0, NODE_SIZE <= n,
         Region(a, n) \notin ToSet(list), panicked = FALSE,
         add_free_region(list, a, n)
  PROVE  /\ panicked' = FALSE
         /\ regions' \in Seq(Piece)
         /\ ToSet(regions') = ToSet(list) \union {Region(a, n)}
         /\ Distinct(regions')
         /\ 1 \in DOMAIN regions' /\ regions'[1] = Region(a, n)
<1>1. align_up(a, NODE_ALIGN) = a
  BY AlignUpFixed, ListNodeAssumption
<1>2. regions' = Cons(Region(a, n), list) /\ panicked' = FALSE
  BY <1>1 DEF add_free_region
<1>3. Region(a, n) \in Piece
  <2>1. n # 0
    BY ListNodeAssumption
  <2> QED
    BY <2>1, RegionFacts
<1>4. /\ regions' \in Seq(Piece)
      /\ Len(regions') = Len(list) + 1 /\ Len(list) \in Nat
      /\ regions'[1] = Region(a, n)
      /\ ToSet(regions') = ToSet(list) \union {Region(a, n)}
  <2> DEFINE e == Region(a, n)
  <2>1. e \in Piece
    BY <1>3
  <2> HIDE DEF e
  <2>2. /\ Cons(e, list) \in Seq(Piece)
        /\ Len(Cons(e, list)) = Len(list) + 1 /\ Len(list) \in Nat
        /\ Cons(e, list)[1] = e /\ ToSet(Cons(e, list)) = ToSet(list) \union {e}
    BY <2>1, ConsProperties
  <2> QED
    BY <1>2, <2>2 DEF e
<1>5. Distinct(regions')
  BY <1>2, <1>3, ConsDistinct
<1>6. 1 \in DOMAIN regions'
  BY <1>4, LenProperties
<1> QED
  BY <1>2, <1>4, <1>5, <1>6

(* init: the heap is one region.                                           *)
LEMMA ListInitStep ==
  ASSUME ListInv, ListInit
  PROVE  ListInv' /\ UNCHANGED live
<1>1. regions = << >> /\ live = {} /\ live' = live /\ list_ready' = TRUE
      /\ add_free_region(regions, HEAP_START, HEAP_SIZE) /\ panicked = FALSE
  BY DEF ListInv, ListTypeOK, NotYetReady, ListInit
<1>2. ToSet(regions) = {} /\ Distinct(regions)
  BY <1>1, EmptySeq DEF ToSet, Distinct
<1>3. /\ panicked' = FALSE
      /\ regions' \in Seq(Piece)
      /\ ToSet(regions') = {WholeHeap} /\ Distinct(regions')
  <2>1. /\ HEAP_START \in Nat /\ HEAP_SIZE \in Nat
        /\ HEAP_START % NODE_ALIGN = 0 /\ NODE_SIZE <= HEAP_SIZE
    BY HeapAssumption, ListAlignmentAssumption
  <2> QED
    BY <1>1, <1>2, <2>1, AddFreeRegion DEF ListInv, ListTypeOK, WholeHeap
<1>4. /\ Within(WholeHeap, WholeHeap) /\ WholeHeap.start_addr % NODE_ALIGN = 0 /\ NODE_SIZE <= WholeHeap.size
  BY HeapAssumption, ListAlignmentAssumption DEF WholeHeap, Within, Region, end_addr
<1>5. LostBytes' = {}
  <2>1. RegionBytes(WholeHeap) = HeapBytes
    BY DEF RegionBytes, HeapBytes, WholeHeap, Region
  <2>2. LostBytes' \subseteq HeapBytes \ UNION {RegionBytes(r) : r \in ToSet(regions')}
    BY DEF LostBytes
  <2> QED
    BY <1>3, <2>1, <2>2
<1>6. ListTypeOK'
  BY <1>1, <1>3 DEF ListTypeOK
<1>7. RegionsPlaced'
  BY <1>3, <1>4 DEF RegionsPlaced
<1>8. BlocksPlaced'
  BY <1>1 DEF BlocksPlaced
<1>9. NotYetReady' /\ LostAreMisaligned'
  BY <1>1, <1>5 DEF NotYetReady, LostAreMisaligned
<1> QED
  BY <1>1, <1>6, <1>7, <1>8, <1>9 DEF ListInv

(* Membership in the bytes that neither R nor L have.                      *)
LEMMA BytesOfNone ==
  ASSUME NEW H, NEW R, NEW L, NEW a
  PROVE  a \in H \ ((UNION {RegionBytes(r) : r \in R})
                    \union (UNION {ReservedBytes(b) : b \in L}))
           <=> /\ a \in H
               /\ \A r \in R : a \notin RegionBytes(r)
               /\ \A b \in L : a \notin ReservedBytes(b)
<1>1. a \in UNION {RegionBytes(r) : r \in R} <=> \E r \in R : a \in RegionBytes(r)
  OBVIOUS
<1>2. a \in UNION {ReservedBytes(b) : b \in L} <=> \E b \in L : a \in ReservedBytes(b)
  OBVIOUS
<1> QED
  BY <1>1, <1>2

(* Bytes of the heap that are neither free nor reserved.                   *)
LEMMA LostByte ==
  ASSUME ListInv, NEW a \in HeapBytes, a \notin LostBytes
  PROVE  \/ \E r \in ToSet(regions) : a \in RegionBytes(r)
         \/ \E b \in live : a \in RegionBytes(Reserved(b))
<1>1. \A b \in live : ReservedBytes(b) = RegionBytes(Reserved(b))
  BY PiecesTyped DEF ReservedBytes, RegionBytes
<1> QED
  BY <1>1, BytesOfNone DEF LostBytes

(* alloc: the region is cut into a gap, which is lost, the memory reserved *)
(* for the block, and a rest that goes back to the list.                   *)
LEMMA ListAllocStep ==
  ASSUME ListInv, NEW l \in Layouts, ListAlloc(l)
  PROVE  ListInv' /\ HeapNext
<1> DEFINE need == size_align(l)
           i    == Min(Fitting(need))
           r    == regions[i]
           addr == align_up(r.start_addr, need.align)
           left == Excess(r, need)
           used == Region(addr, need.size)
           back == Region(addr + need.size, left)
           new  == IF left > 0 THEN {back} ELSE {}
           nb   == Block(addr, l)
           R    == ToSet(regions)
<1> USE DEF ListInv
<1>1. /\ l.size \in Nat \ {0} /\ l.align \in Nat \ {0}
      /\ need.size \in Nat \ {0} /\ need.align \in Nat \ {0}
      /\ l.size <= need.size /\ NODE_SIZE <= need.size
      /\ need.align % l.align = 0 /\ need.align % NODE_ALIGN = 0 /\ need.size % NODE_ALIGN = 0
  BY SizeAlignSound
<1>2. i \in 1 .. Len(regions) /\ alloc_from_region(r, need)
  <2>1. Fitting(need) # {} /\ Fitting(need) \subseteq Nat
    BY LenProperties DEF ListAlloc, Fitting, ListTypeOK
  <2>2. i \in Fitting(need)
    BY <2>1, MinInSet
  <2> QED
    BY <2>2, LenProperties DEF Fitting, ListTypeOK
<1>3. /\ r \in R /\ r \in Piece
      /\ r.start_addr \in Nat /\ r.size \in Nat \ {0} /\ end_addr(r) \in Nat
      /\ Within(r, WholeHeap) /\ r.start_addr % NODE_ALIGN = 0
  <2>1. r \in R
    BY <1>2, LenProperties DEF ToSet, ListTypeOK
  <2> HIDE DEF r, R
  <2> QED
    BY <2>1, PiecesTyped DEF RegionsPlaced, R
<1>4. /\ panicked = FALSE /\ list_ready' = list_ready
      /\ IF left > 0 THEN add_free_region(RemoveAt(regions, i), addr + need.size, left)
                     ELSE regions' = RemoveAt(regions, i) /\ panicked' = panicked
      /\ live' = IF panicked' THEN live ELSE live \union {nb}
  BY DEF ListAlloc, ListTypeOK
<1>5. list_ready
  BY <1>3 DEF NotYetReady, ToSet
<1>6. /\ addr + need.size <= end_addr(r) /\ left = end_addr(r) - (addr + need.size)
      /\ left = 0 \/ left >= NODE_SIZE
  BY <1>2 DEF alloc_from_region, Excess
<1>7. /\ RemoveAt(regions, i) \in Seq(Piece) /\ ToSet(RemoveAt(regions, i)) = R \ {r}
      /\ Distinct(RemoveAt(regions, i))
  BY <1>2, RemoveAtOfDistinct DEF ListTypeOK, RegionsPlaced
<1> HIDE DEF need, i, r
<1>8. /\ addr \in Nat /\ addr % need.align = 0
      /\ r.start_addr <= addr /\ addr <= r.start_addr + need.align - 1
  BY <1>1, <1>3, AlignUp
<1> HIDE DEF addr, left
<1>9. left \in Nat /\ addr + need.size \in Nat /\ NODE_SIZE \in Nat \ {0}
  BY <1>1, <1>3, <1>6, <1>8, ListNodeAssumption
<1>10. /\ used \in Piece /\ used.start_addr = addr /\ end_addr(used) = addr + need.size
       /\ Within(used, r)
  BY <1>1, <1>3, <1>6, <1>8, <1>9 DEF Region, end_addr, Piece, Within
<1>11. ASSUME left > 0
       PROVE  /\ back \in Piece /\ Within(back, r) /\ Apart(back, used) /\ Apart(used, back)
              /\ back.start_addr = addr + need.size /\ end_addr(back) = end_addr(r)
              /\ back.start_addr % NODE_ALIGN = 0 /\ NODE_SIZE <= back.size
  <2>1. (addr + need.size) % NODE_ALIGN = 0
    <3>1. addr % NODE_ALIGN = 0
      BY <1>1, <1>8, ModTransitive, ListNodeAssumption
    <3> QED
      BY <1>1, <1>8, <3>1, ModSum, ListNodeAssumption
  <2> QED
    BY <1>1, <1>3, <1>6, <1>8, <1>9, <1>10, <1>11, <2>1
       DEF Region, end_addr, Piece, Within, Apart
<1>12. /\ nb.ptr = addr /\ nb.layout = l /\ Reserved(nb) = used
       /\ nb \in [ptr : Nat, layout : Layouts]
  BY <1>8 DEF Block, Reserved, need
<1> HIDE DEF used, back, nb
<1>13. \A q \in R \ {r} :
         /\ q \in Piece /\ q # r
         /\ Apart(used, q) /\ Apart(q, used)
         /\ left > 0 => Apart(back, q) /\ Apart(q, back) /\ back # q
  <2>1. ASSUME NEW q \in R \ {r} PROVE q \in Piece /\ Apart(r, q)
    BY <1>3, PiecesTyped DEF RegionsPlaced
  <2> QED
    BY <1>3, <1>10, <1>11, <2>1, ApartWithin
<1>14. \A b \in live :
         /\ Reserved(b) \in Piece
         /\ Apart(used, Reserved(b)) /\ Apart(Reserved(b), used)
         /\ left > 0 => Apart(Reserved(b), back)
  <2>1. ASSUME NEW b \in live PROVE Reserved(b) \in Piece /\ Apart(r, Reserved(b))
    BY <1>3, PiecesTyped DEF BlocksPlaced, Apart
  <2> QED
    BY <1>3, <1>10, <1>11, <2>1, ApartWithin
<1>15. /\ panicked' = FALSE /\ regions' \in Seq(Piece) /\ Distinct(regions')
       /\ ToSet(regions') = (R \ {r}) \union new
  <2>1. CASE left > 0
    <3>1. back \notin ToSet(RemoveAt(regions, i))
      BY <1>7, <1>13, <2>1
    <3>2. (addr + need.size) % NODE_ALIGN = 0 /\ NODE_SIZE <= left
      BY <1>6, <1>9, <1>11, <2>1
    <3>3. /\ panicked' = FALSE /\ regions' \in Seq(Piece) /\ Distinct(regions')
          /\ ToSet(regions') = ToSet(RemoveAt(regions, i)) \union {back}
      BY <1>4, <1>7, <1>9, <2>1, <3>1, <3>2, AddFreeRegion DEF back
    <3> QED
      BY <1>7, <2>1, <3>3
  <2>2. CASE left = 0
    <3>1. ~ (left > 0) /\ new = {}
      BY <2>2
    <3> QED
      BY <1>4, <1>7, <3>1
  <2>3. left > 0 \/ left = 0
    BY <1>9
  <2> QED
    BY <2>1, <2>2, <2>3
<1>16. live' = live \union {nb}
  BY <1>4, <1>15
<1>17. ASSUME NEW q \in new
       PROVE  left > 0 /\ q = back /\ q \in Piece /\ Within(q, r)
  BY <1>11
<1> HIDE DEF new, R
<1>18. \A q \in ToSet(regions)' : q \in Piece
  <2>1. \A q \in R : q \in Piece
    BY PiecesTyped DEF R
  <2> QED
    BY <1>15, <1>17, <2>1
<1>19. ListTypeOK'
  BY <1>4, <1>12, <1>15, <1>16 DEF ListTypeOK
<1>20. RegionsPlaced'
  <2>1. ASSUME NEW q \in ToSet(regions)'
        PROVE  Within(q, WholeHeap) /\ q.start_addr % NODE_ALIGN = 0 /\ NODE_SIZE <= q.size
    <3>1. CASE q \in R
      BY <3>1 DEF RegionsPlaced, R
    <3>2. CASE q \in new
      <4>1. q = back /\ q \in Piece /\ Within(q, r) /\ left > 0
        BY <3>2, <1>17
      <4>2. Within(q, WholeHeap)
        BY <1>3, <4>1, HeapAssumption DEF Within, end_addr, Piece, WholeHeap, Region
      <4> QED
        BY <1>11, <4>1, <4>2
    <3> QED
      BY <1>15, <3>1, <3>2
  <2>2. ASSUME NEW q \in ToSet(regions)', NEW p \in ToSet(regions)', q # p PROVE Apart(q, p)
    <3>1. CASE q \in R /\ p \in R
      BY <2>2, <3>1 DEF RegionsPlaced, R
    <3>2. CASE q \in new \/ p \in new
      BY <1>13, <1>15, <1>17, <2>2, <3>2
    <3> QED
      BY <1>15, <3>1, <3>2
  <2> QED
    BY <1>15, <2>1, <2>2 DEF RegionsPlaced
<1>21. BlocksPlaced'
  <2>1. Within(used, WholeHeap)
    BY <1>3, <1>10, HeapAssumption DEF Within, end_addr, Piece, WholeHeap, Region
  <2>2. \A b \in live' : Within(Reserved(b), WholeHeap) /\ b.ptr % size_align(b.layout).align = 0
    BY <1>8, <1>12, <1>16, <2>1 DEF BlocksPlaced, need
  <2>3. \A b, c \in live' : b # c => Apart(Reserved(b), Reserved(c))
    BY <1>12, <1>14, <1>16 DEF BlocksPlaced
  <2>4. ASSUME NEW b \in live', NEW q \in ToSet(regions)' PROVE Apart(Reserved(b), q)
    <3>1. CASE q \in R \ {r}
      BY <1>12, <1>13, <1>16, <3>1 DEF BlocksPlaced, R
    <3>2. CASE q \in new
      BY <1>11, <1>12, <1>14, <1>16, <1>17, <3>2
    <3> QED
      BY <1>15, <3>1, <3>2
  <2> QED
    BY <2>2, <2>3, <2>4 DEF BlocksPlaced
<1>22. LostAreMisaligned'
  <2> SUFFICES ASSUME NEW a \in LostBytes'
               PROVE  \E k \in Layouts : a % size_align(k).align # 0
    BY DEF LostAreMisaligned
  <2>1. a \in HeapBytes /\ a \in Nat
    BY HeapAssumption DEF LostBytes, HeapBytes, Extent
  <2>2. /\ \A q \in ToSet(regions)' : a \notin RegionBytes(q)
        /\ \A b \in live' : a \notin ReservedBytes(b)
    BY BytesOfNone DEF LostBytes
  <2>3. CASE a \in LostBytes
    BY <1>5, <2>3 DEF LostAreMisaligned
  <2>4. ASSUME NEW b \in live, a \in RegionBytes(Reserved(b)) PROVE FALSE
    <3>1. RegionBytes(Reserved(b)) = ReservedBytes(b)
      BY PiecesTyped DEF ReservedBytes, RegionBytes
    <3> QED
      BY <1>16, <2>2, <2>4, <3>1
  <2>5. CASE a \in RegionBytes(r)
    <3>1. r.start_addr <= a /\ a < end_addr(r)
      BY <1>3, <2>5, BytesOfRegion
    <3>2. ~ (addr <= a /\ a < addr + need.size)
      <4>1. ReservedBytes(nb) = Extent(addr, need.size)
        BY <1>12 DEF ReservedBytes, need
      <4>2. a \notin Extent(addr, need.size)
        BY <1>16, <2>2, <4>1
      <4> QED
        BY <1>1, <1>8, <2>1, <4>2 DEF Extent
    <3>3. ~ (addr + need.size <= a)
      <4> SUFFICES ASSUME addr + need.size <= a PROVE FALSE
        OBVIOUS
      <4>1. left > 0
        BY <1>1, <1>3, <1>6, <1>8, <2>1, <3>1
      <4>2. a \in RegionBytes(back)
        BY <1>11, <2>1, <3>1, <4>1, BytesOfRegion
      <4> QED
        BY <1>15, <2>2, <4>1, <4>2 DEF new
    <3>4. a < addr
      BY <1>1, <1>8, <2>1, <3>2, <3>3
    <3>5. a % need.align # 0
      <4> SUFFICES ASSUME a % need.align = 0 PROVE FALSE
        OBVIOUS
      <4>1. a + need.align <= addr
        BY <1>1, <1>8, <2>1, <3>4, ModGap
      <4> QED
        BY <1>1, <1>3, <1>8, <2>1, <3>1, <4>1
    <3> QED
      BY <3>5 DEF need
  <2>6. ASSUME NEW q \in R, q # r, a \in RegionBytes(q) PROVE FALSE
    BY <1>15, <2>2, <2>6
  <2> QED
    BY <2>1, <2>3, <2>4, <2>5, <2>6, LostByte DEF R
<1>23. HeapNext
  <2>1. Extent(addr, l.size) \subseteq HeapBytes /\ addr \in HeapBytes
    <3>1. HEAP_START <= addr /\ addr + need.size <= HEAP_START + HEAP_SIZE
      BY <1>1, <1>3, <1>6, <1>8, HeapAssumption DEF Within, end_addr, WholeHeap, Region
    <3> QED
      BY <1>1, <1>8, <3>1, HeapAssumption DEF Extent, HeapBytes
  <2>2. addr % l.align = 0
    BY <1>1, <1>8, ModTransitive
  <2>3. ASSUME NEW b \in live PROVE BlockBytes(b) \intersect Extent(addr, l.size) = {}
    <3>1. /\ b.ptr \in Nat /\ b.layout.size \in Nat \ {0}
          /\ b.layout.size <= size_align(b.layout).size /\ size_align(b.layout).size \in Nat
      BY SizeAlignSound DEF ListTypeOK
    <3>2. /\ Reserved(b).start_addr = b.ptr
          /\ end_addr(Reserved(b)) = b.ptr + size_align(b.layout).size
      BY <3>1, RegionFacts DEF Reserved
    <3>3. addr + need.size <= b.ptr \/ b.ptr + size_align(b.layout).size <= addr
      BY <1>10, <1>14, <3>2 DEF Apart
    <3>4. b.ptr + b.layout.size <= addr \/ addr + l.size <= b.ptr
      BY <1>1, <1>8, <3>1, <3>3
    <3> QED
      BY <1>1, <1>8, <3>1, <3>4, ExtentsApart DEF BlockBytes
  <2>4. HeapAlloc(l, addr)
    BY <1>16, <2>1, <2>2, <2>3 DEF HeapAlloc, nb
  <2> QED
    BY <2>1, <2>4 DEF HeapNext
<1>24. NotYetReady'
  BY <1>4, <1>5 DEF NotYetReady
<1> QED
  BY <1>19, <1>20, <1>21, <1>22, <1>23, <1>24

(* dealloc: what was reserved becomes a region of its own, which alloc of  *)
(* the same layout fits into.                                              *)
LEMMA ListDeallocStep ==
  ASSUME ListInv, NEW b \in live, ListDealloc(b)
  PROVE  ListInv' /\ HeapNext /\ Fitting(size_align(b.layout))' # {}
<1> DEFINE need == size_align(b.layout)
<1> USE DEF ListInv
<1>1. /\ live' = live \ {b} /\ panicked = FALSE /\ list_ready' = list_ready
      /\ add_free_region(regions, b.ptr, need.size)
  BY DEF ListDealloc, ListTypeOK
<1>2. list_ready
  BY DEF NotYetReady
<1>3. /\ b.layout \in Layouts /\ b.ptr \in Nat
      /\ need.size \in Nat \ {0} /\ need.align \in Nat \ {0} /\ NODE_SIZE <= need.size
      /\ need.align % NODE_ALIGN = 0 /\ b.ptr % need.align = 0 /\ b.ptr % NODE_ALIGN = 0
  <2>1. b.layout \in Layouts /\ b.ptr \in Nat
    BY DEF ListTypeOK
  <2>2. /\ need.size \in Nat \ {0} /\ need.align \in Nat \ {0} /\ NODE_SIZE <= need.size
        /\ need.align % NODE_ALIGN = 0
    BY <2>1, SizeAlignSound
  <2>3. b.ptr % need.align = 0
    BY DEF BlocksPlaced
  <2>4. b.ptr % NODE_ALIGN = 0
    BY <2>1, <2>2, <2>3, ModTransitive, ListNodeAssumption
  <2> QED
    BY <2>1, <2>2, <2>3, <2>4
<1>4. Reserved(b) = Region(b.ptr, need.size)
  BY DEF Reserved
<1> HIDE DEF need
<1>5. Reserved(b) \in Piece /\ Reserved(b).start_addr = b.ptr /\ Reserved(b).size = need.size
      /\ end_addr(Reserved(b)) = b.ptr + need.size
  <2>1. need.size \in Nat /\ need.size # 0
    BY <1>3
  <2>2. LET r == Region(b.ptr, need.size)
        IN  r \in Piece /\ r.start_addr = b.ptr /\ r.size = need.size
            /\ end_addr(r) = b.ptr + need.size
    BY <1>3, <2>1, RegionFacts
  <2> QED
    BY <1>4, <2>2
<1>6. \A q \in ToSet(regions) : q \in Piece /\ q # Reserved(b) /\ Apart(Reserved(b), q)
                                /\ Apart(q, Reserved(b))
  <2>1. ASSUME NEW q \in ToSet(regions) PROVE q \in Piece /\ Apart(Reserved(b), q)
    BY PiecesTyped DEF BlocksPlaced
  <2>2. Within(Reserved(b), Reserved(b))
    BY <1>5 DEF Within, Piece, end_addr
  <2> QED
    BY <1>5, <2>1, <2>2, ApartWithin
<1>7. /\ panicked' = FALSE /\ regions' \in Seq(Piece) /\ Distinct(regions')
      /\ ToSet(regions') = ToSet(regions) \union {Reserved(b)}
      /\ 1 \in DOMAIN regions' /\ regions'[1] = Reserved(b)
  <2>1. Region(b.ptr, need.size) \notin ToSet(regions)
    BY <1>4, <1>6
  <2> QED
    BY <1>1, <1>3, <1>4, <2>1, AddFreeRegion DEF ListTypeOK, RegionsPlaced
<1>8. ListTypeOK'
  BY <1>1, <1>7 DEF ListTypeOK
<1>9. RegionsPlaced'
  <2>1. Within(Reserved(b), WholeHeap)
    BY DEF BlocksPlaced
  <2> QED
    BY <1>3, <1>5, <1>6, <1>7, <2>1 DEF RegionsPlaced
<1>10. BlocksPlaced'
  <2>1. \A c \in live' : c \in live /\ c # b
    BY <1>1
  <2>2. \A c \in live' : \A q \in ToSet(regions)' : Apart(Reserved(c), q)
    BY <1>7, <2>1 DEF BlocksPlaced
  <2> QED
    BY <2>1, <2>2 DEF BlocksPlaced
<1>11. LostAreMisaligned' /\ NotYetReady'
  <2>1. LostBytes' \subseteq LostBytes
    <3>1. ReservedBytes(b) = RegionBytes(Reserved(b))
      BY <1>5 DEF ReservedBytes, RegionBytes, need
    <3>2. ASSUME NEW a \in LostBytes' PROVE a \in LostBytes
      <4>1. a \in HeapBytes /\ (\A q \in ToSet(regions)' : a \notin RegionBytes(q))
            /\ (\A c \in live' : a \notin ReservedBytes(c))
        BY BytesOfNone DEF LostBytes
      <4>2. (\A q \in ToSet(regions) : a \notin RegionBytes(q))
            /\ (\A c \in live : a \notin ReservedBytes(c))
        BY <1>1, <1>7, <3>1, <4>1
      <4> QED
        BY <4>1, <4>2, BytesOfNone DEF LostBytes
    <3> QED
      BY <3>2
  <2> QED
    BY <1>1, <1>2, <2>1 DEF LostAreMisaligned, NotYetReady
<1>12. HeapNext
  BY <1>1 DEF HeapNext, HeapFree
<1>13. Fitting(size_align(b.layout))' # {}
  <2>1. align_up(b.ptr, need.align) = b.ptr
    BY <1>3, AlignUpFixed
  <2>2. alloc_from_region(Reserved(b), need)
    BY <1>3, <1>5, <2>1 DEF alloc_from_region, Excess
  <2>3. 1 \in Fitting(size_align(b.layout))'
    BY <1>7, <2>2 DEF Fitting, need
  <2> QED
    BY <2>3
<1> QED
  BY <1>8, <1>9, <1>10, <1>11, <1>12, <1>13

(* Every step of the allocator is a step of the heap or changes nothing.   *)
LEMMA ListInvStep ==
  ListInv /\ [ListNext]_listVars => ListInv' /\ [HeapNext]_live
<1> SUFFICES ASSUME ListInv, [ListNext]_listVars PROVE ListInv' /\ [HeapNext]_live
  OBVIOUS
<1>1. ASSUME UNCHANGED listVars PROVE ListInv'
  <2>1. ToSet(regions)' = ToSet(regions) /\ LostBytes' = LostBytes
    BY <1>1 DEF listVars, ToSet, LostBytes
  <2> QED
    BY <1>1, <2>1 DEF listVars, ListInv, ListTypeOK, RegionsPlaced, Distinct, BlocksPlaced,
                      NotYetReady, LostAreMisaligned
<1>2. CASE ListInit
  BY <1>2, ListInitStep
<1>3. ASSUME NEW l \in Layouts, ListAlloc(l) PROVE ListInv' /\ HeapNext
  BY <1>3, ListAllocStep
<1>4. ASSUME NEW l \in Layouts, ListAllocNull(l) PROVE ListInv' /\ UNCHANGED live
  BY <1>1, <1>4 DEF ListAllocNull, listVars
<1>5. ASSUME NEW b \in live, ListDealloc(b) PROVE ListInv' /\ HeapNext
  BY <1>5, ListDeallocStep
<1>6. CASE UNCHANGED listVars
  BY <1>1, <1>6 DEF listVars
<1> QED
  BY <1>2, <1>3, <1>4, <1>5, <1>6 DEF ListNext

(* The invariant holds throughout.                                         *)
LEMMA ListInvHolds == ListSpec => []ListInv
  BY ListInvInit, ListInvStep, PTL DEF ListSpec

(***************************************************************************)
(* LinkedListAllocator of src/allocator/linked_list.rs keeps GlobalAlloc's *)
(* promise, however fragmented its list is.                                *)
(***************************************************************************)
THEOREM ListImplementsHeap == ListSpec => ImplementsHeap
<1>1. ListNew => live = {}
  BY DEF ListNew
<1> QED
  BY <1>1, ListInvInit, ListInvStep, PTL DEF ListSpec, ImplementsHeap, HeapSpec

(***************************************************************************)
(* No ListNode is written over a block in use or over another region, and  *)
(* the asserts of add_free_region never fail.                              *)
(***************************************************************************)
THEOREM ListRegionsSound == ListSpec => []RegionsSound
<1>1. ListInv => RegionsSound
  <2> SUFFICES ASSUME ListInv PROVE RegionsSound
    OBVIOUS
  <2>1. ~panicked
    BY DEF ListInv, ListTypeOK
  <2>2. ASSUME NEW r \in ToSet(regions)
        PROVE  /\ RegionBytes(r) \subseteq HeapBytes
               /\ \A b \in live : RegionBytes(r) \intersect ReservedBytes(b) = {}
    <3>1. r \in Piece /\ Within(r, WholeHeap)
      BY PiecesTyped DEF ListInv, RegionsPlaced
    <3>2. RegionBytes(r) \subseteq HeapBytes
      BY <3>1, HeapAssumption
         DEF Piece, Within, WholeHeap, Region, end_addr, RegionBytes, HeapBytes, Extent
    <3>3. ASSUME NEW b \in live PROVE RegionBytes(r) \intersect ReservedBytes(b) = {}
      <4>1. Reserved(b) \in Piece /\ ReservedBytes(b) = RegionBytes(Reserved(b))
        BY PiecesTyped DEF ReservedBytes, RegionBytes
      <4>2. Apart(Reserved(b), r)
        BY DEF ListInv, BlocksPlaced
      <4> QED
        BY <3>1, <4>1, <4>2, ApartBytes
    <3> QED
      BY <3>2, <3>3
  <2>3. ASSUME NEW i \in DOMAIN regions, NEW j \in DOMAIN regions, i # j
        PROVE  RegionBytes(regions[i]) \intersect RegionBytes(regions[j]) = {}
    <3>1. i \in 1 .. Len(regions) /\ j \in 1 .. Len(regions)
      BY LenProperties DEF ListInv, ListTypeOK
    <3>2. regions[i] # regions[j]
      BY <2>3, <3>1 DEF ListInv, RegionsPlaced, Distinct
    <3>3. regions[i] \in ToSet(regions) /\ regions[j] \in ToSet(regions)
      BY DEF ToSet
    <3>4. Apart(regions[i], regions[j])
      BY <3>2, <3>3 DEF ListInv, RegionsPlaced
    <3> QED
      BY <3>3, <3>4, PiecesTyped, ApartBytes
  <2> QED
    BY <2>1, <2>2, <2>3 DEF RegionsSound
<1> QED
  BY <1>1, ListInvHolds, PTL

(***************************************************************************)
(* What the allocator loses for good is less than one largest alignment in *)
(* front of a block, after any number of alloc and dealloc.                *)
(***************************************************************************)
THEOREM ListLossBounded == ListSpec => []LossBounded
<1>1. ListInv => LossBounded
  <2> DEFINE aligns  == {size_align(l).align : l \in Layouts}
             largest == Max(aligns)
  <2> SUFFICES ASSUME ListInv, list_ready, NEW a \in LostBytes, a % largest = 0
               PROVE  FALSE
    BY DEF LossBounded
  <2>1. PICK l \in Layouts : a % size_align(l).align # 0
    BY DEF ListInv, LostAreMisaligned
  <2>2. a \in Nat
    BY HeapAssumption DEF LostBytes, HeapBytes, Extent
  <2>3. PICK top \in {NODE_ALIGN} \union {k.align : k \in Layouts} :
          \A b \in {NODE_ALIGN} \union {k.align : k \in Layouts} : b <= top
    BY ListAlignmentAssumption
  <2>4. \A b \in aligns : b \in {NODE_ALIGN} \union {k.align : k \in Layouts} /\ b \in Nat \ {0}
    BY SizeAlignSound
  <2>5. top \in aligns
    <3>1. CASE top = NODE_ALIGN
      <4>1. l.align <= NODE_ALIGN /\ l.align \in Nat /\ NODE_ALIGN \in Nat
        BY <2>3, <3>1, SizeAlignSound, ListNodeAssumption
      <4>2. size_align(l).align = NODE_ALIGN
        BY <4>1, MaxOfTwo DEF size_align
      <4> QED
        BY <3>1, <4>2
    <3>2. ASSUME NEW k \in Layouts, top = k.align PROVE top \in aligns
      <4>1. NODE_ALIGN <= k.align /\ k.align \in Nat /\ NODE_ALIGN \in Nat
        BY <2>3, <3>2, SizeAlignSound, ListNodeAssumption
      <4>2. size_align(k).align = k.align
        BY <4>1, MaxOfTwo DEF size_align
      <4> QED
        BY <3>2, <4>2
    <3> QED
      BY <2>3, <3>1, <3>2
  <2>6. largest \in aligns /\ \A b \in aligns : b <= largest
    <3>1. \E x \in aligns : \A y \in aligns : x >= y
      <4>1. \A y \in aligns : top >= y
        BY <2>3, <2>4, <2>5
      <4> QED
        BY <2>5, <4>1
    <3> HIDE DEF aligns
    <3>2. largest \in aligns /\ \A b \in aligns : largest >= b
      BY <3>1 DEF Max
    <3> QED
      BY <2>4, <3>2
  <2>7. size_align(l).align \in aligns
    OBVIOUS
  <2>8. largest % size_align(l).align = 0
    BY <2>4, <2>6, <2>7, ListAlignmentAssumption
  <2>9. largest \in Nat \ {0} /\ size_align(l).align \in Nat \ {0}
    BY <2>4, <2>6, <2>7
  <2> HIDE DEF largest
  <2>10. a % size_align(l).align = 0
    BY <2>2, <2>8, <2>9, ModTransitive
  <2> QED
    BY <2>1, <2>10
<1> QED
  BY <1>1, ListInvHolds, PTL

(***************************************************************************)
(* Right after dealloc of a block, find_region finds a region for the same *)
(* layout.                                                                 *)
(***************************************************************************)
THEOREM ListFreedIsReusable == ListSpec => FreedIsReusable
<1>1. ASSUME ListInv, [ListNext]_listVars
      PROVE  [list_ready => \A b \in live \ live' :
                              Fitting(size_align(b.layout))' # {}]_listVars
  <2> SUFFICES ASSUME ListNext, NEW b \in live \ live'
               PROVE  Fitting(size_align(b.layout))' # {}
    BY <1>1
  <2>1. ASSUME NEW c \in live, ListDealloc(c) PROVE Fitting(size_align(b.layout))' # {}
    <3>1. b = c
      BY <2>1 DEF ListDealloc
    <3> QED
      BY <1>1, <2>1, <3>1, ListDeallocStep
  <2>2. CASE ListInit
    BY <2>2 DEF ListInit
  <2>3. ASSUME NEW l \in Layouts, ListAlloc(l) \/ ListAllocNull(l)
        PROVE  FALSE
    BY <2>3 DEF ListAlloc, ListAllocNull, listVars
  <2> QED
    BY <2>1, <2>2, <2>3 DEF ListNext
<1> QED
  BY <1>1, ListInvHolds, PTL DEF ListSpec, FreedIsReusable
=============================================================================
