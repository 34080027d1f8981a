-------------------------- MODULE KernelStart_proofs --------------------------
(***************************************************************************)
(* Proofs about KernelStart, for every machine: the search for a VirtIO    *)
(* device and the writes to its configuration (PciScan), then frames and   *)
(* page tables (Memory), and why the kernel may panic.                     *)
(***************************************************************************)
EXTENDS KernelStart, FiniteSetTheorems, SequenceTheorems, WellFoundedInduction, TLAPS

Words == Vendors \union Data \union {Absent}

PciTypeOK ==
  /\ config \in [Functions -> [Registers -> Words]]
  /\ visited \subseteq Functions /\ found \subseteq Functions
  /\ scan_pc \in {"scan", "done"}
  /\ written \in [Offsets -> Data \union {Absent}]

(* What the loops have passed was no VirtIO function, and nothing is       *)
(* skipped.                                                                *)
ScanSound ==
  /\ scan_pc = "scan" => found = {}
  /\ visited \intersect Virtio = {}
  /\ scan_pc = "done" /\ found = {} => visited = Functions

(* The driver has one function and writes to no other.                     *)
DriverSound ==
  /\ \A f, g \in found : f = g
  /\ found = {} => \A o \in Offsets : written[o] = Absent

PciInv ==
  /\ PciTypeOK /\ ScanSound /\ DriverSound
  /\ ScanFindsFirst /\ WritesHitTheirRegister

-----------------------------------------------------------------------------
(* A bus, a device, a function and an offset share no bit of the packet.   *)
Packet(b, d, n, r) == b * 65536 + d * 2048 + n * 256 + r

Unpacks(a, b, d, n, r) ==
  /\ (a \div 65536) % 256 = b /\ (a \div 2048) % 32 = d
  /\ (a \div 256) % 8 = n /\ a % 256 = r

(* A packed address decodes to its fields.                                 *)
LEMMA Fields ==
  \A b \in 0 .. 255, d \in 0 .. 31, n \in 0 .. 7, r \in 0 .. 255 :
    Unpacks(Packet(b, d, n, r), b, d, n, r)
<1> TAKE b \in 0 .. 255, d \in 0 .. 31, n \in 0 .. 7, r \in 0 .. 255
<1> DEFINE a == b * 65536 + d * 2048 + n * 256 + r
<1>1. a \div 65536 = b
  OBVIOUS
<1>2. a \div 2048 = b * 32 + d
  OBVIOUS
<1>3. a \div 256 = b * 256 + d * 8 + n
  OBVIOUS
<1>4. a % 256 = r
  OBVIOUS
<1>5. b % 256 = b
  OBVIOUS
<1>6. (b * 32 + d) % 32 = d
  OBVIOUS
<1>7. (b * 256 + d * 8 + n) % 8 = n
  OBVIOUS
<1>8. Packet(b, d, n, r) = a
  BY DEF Packet
<1> HIDE DEF a
<1> QED
  BY <1>1, <1>2, <1>3, <1>4, <1>5, <1>6, <1>7, <1>8 DEF Unpacks

(* The register of an offset.                                              *)
LEMMA OffsetFacts ==
  ASSUME NEW o \in 0 .. 255
  PROVE  /\ o - (o % 4) \in 0 .. 255 /\ (o - (o % 4)) \div 4 = o \div 4
         /\ o \notin {0, 1, 2, 3} => o \div 4 # 0
  OBVIOUS

(* The host bridge finds what read_word and write_word mean.               *)
LEMMA AddressDecodes ==
  ASSUME NEW f \in Functions, NEW o \in Offsets
  PROVE  /\ FunctionOf(Address(f, o)) = f /\ RegisterOf(Address(f, o)) = o \div 4
         /\ o \div 4 \in Registers /\ 0 \in Registers
<1> DEFINE r == o - (o % 4)
<1>1. /\ f[1] \in 0 .. 255 /\ f[2] \in 0 .. 31 /\ f[3] \in 0 .. 7 /\ o \in 0 .. 255
      /\ f = <<f[1], f[2], f[3]>> /\ 0 \in Offsets
  <2>1. f \in Buses \X Devices \X Numbers
    BY DEF Functions
  <2>2. f[1] \in Buses /\ f[2] \in Devices /\ f[3] \in Numbers /\ f = <<f[1], f[2], f[3]>>
    BY <2>1
  <2> QED
    BY <2>2, PciAssumption
<1>2. r \in 0 .. 255 /\ r \div 4 = o \div 4
  BY <1>1, OffsetFacts
<1>3. 2^16 = 65536 /\ 2^11 = 2048 /\ 2^8 = 256
  OBVIOUS
<1> HIDE DEF r
<1> DEFINE a == Packet(f[1], f[2], f[3], r)
<1>4. Unpacks(a, f[1], f[2], f[3], r)
  BY <1>1, <1>2, Fields, Zenon
<1>5. Address(f, o) = a
  BY <1>3 DEF Address, Packet, r
<1> HIDE DEF a
<1>6. FunctionOf(a) = <<f[1], f[2], f[3]>>
  BY <1>3, <1>4 DEF FunctionOf, Unpacks
<1>7. RegisterOf(a) = o \div 4
  BY <1>2, <1>4 DEF RegisterOf, Unpacks
<1>8. o \div 4 \in Registers /\ 0 \in Registers
  <2>1. 0 \div 4 = 0
    OBVIOUS
  <2> QED
    BY <1>1, <2>1 DEF Registers
<1> QED
  BY <1>1, <1>5, <1>6, <1>7, <1>8

(* read_word reads the vendor of the function it is asked for.             *)
LEMMA ReadIdentity ==
  ASSUME NEW f \in Functions
  PROVE  read_word(f, 0) = config[f][0] /\ 0 \in Registers
<1>1. 0 \in Offsets /\ 0 \div 4 = 0
  BY PciAssumption
<1>2. FunctionOf(Address(f, 0)) = f /\ RegisterOf(Address(f, 0)) = 0 /\ 0 \in Registers
  BY <1>1, AddressDecodes
<1> QED
  BY <1>2 DEF read_word

-----------------------------------------------------------------------------
(* The invariant holds before the scan.                                    *)
LEMMA PciInvInit == PciInit => PciInv
<1> SUFFICES ASSUME PciInit PROVE PciInv
  OBVIOUS
<1> DEFINE Blank(v) == [r \in Registers |-> IF r = 0 THEN v ELSE Absent]
<1>1. config \in [Functions -> {Blank(v) : v \in Vendors \union {Absent}}]
  BY DEF PciInit
<1>2. ASSUME NEW f \in Functions
      PROVE  /\ config[f] \in [Registers -> Words] /\ config[f][0] \in Vendors \union {Absent}
             /\ \A r \in Registers : r # 0 => config[f][r] = Absent
  <2>1. PICK v \in Vendors \union {Absent} : config[f] = Blank(v)
    BY <1>1
  <2>2. 0 \in Registers
    BY ReadIdentity
  <2> QED
    BY <2>1, <2>2 DEF Words
<1> HIDE DEF Blank
<1>3. /\ visited = {} /\ found = {} /\ scan_pc = "scan"
      /\ written = [o \in Offsets |-> Absent]
  BY DEF PciInit
<1>4. PciTypeOK
  BY <1>1, <1>2, <1>3 DEF PciTypeOK
<1>5. ScanSound /\ DriverSound /\ ScanFindsFirst
  BY <1>3 DEF ScanSound, DriverSound, ScanFindsFirst
<1>6. WritesHitTheirRegister
  BY <1>2, <1>3 DEF WritesHitTheirRegister
<1> QED
  BY <1>4, <1>5, <1>6 DEF PciInv

(* A turn of the loops, and their end.                                     *)
LEMMA ScanKeeps ==
  ASSUME PciInv, ScanStep
  PROVE  PciInv'
<1> USE DEF PciInv
<1>0. scan_pc = "scan" /\ found = {} /\ UNCHANGED <<config, written>>
  BY DEF ScanStep, ScanNext, ScanEnd, ScanSound
<1>a. Virtio' = Virtio
  BY <1>0 DEF Virtio
<1>1. ASSUME NEW f \in Functions, ScanNext(f) PROVE PciInv'
  <2>1. /\ \A g \in Functions : Before(g, f) => g \in visited
        /\ read_word(f, 0) = config[f][0]
    BY <1>1, ReadIdentity DEF ScanNext
  <2>2. CASE config[f][0] \in VirtioVendors
    <3>1. found' = {Result(f)} /\ scan_pc' = "done" /\ visited' = visited
      BY <1>1, <2>1, <2>2 DEF ScanNext
    <3>2. Result(f) \in Functions /\ Result(f)[1] = f[1] /\ Result(f)[2] = f[2]
      <4>1. f[1] \in Buses /\ f[2] \in Devices /\ 0 \in Numbers
        BY PciAssumption DEF Functions
      <4> QED
        BY <4>1 DEF Result, Functions
    <3>3. f \in Virtio /\ \A g \in Virtio : ~Before(g, f)
      BY <2>1, <2>2 DEF Virtio, ScanSound
    <3>4. PciTypeOK' /\ ScanSound' /\ DriverSound'
      <4>1. PciTypeOK'
        BY <1>0, <3>1, <3>2 DEF PciTypeOK
      <4>2. ScanSound'
        BY <1>a, <3>1 DEF ScanSound
      <4>3. DriverSound'
        BY <1>0, <3>1 DEF DriverSound
      <4> QED
        BY <4>1, <4>2, <4>3
    <3>5. ScanFindsFirst'
      <4>1. \A r \in found' : r[1] = f[1] /\ r[2] = f[2]
        BY <3>1, <3>2
      <4>2. found' # {} /\ Virtio # {}
        BY <3>1, <3>3
      <4>3. \A r \in found' : \E h \in Virtio :
              h[1] = r[1] /\ h[2] = r[2] /\ \A g \in Virtio : ~Before(g, h)
        BY <3>3, <4>1
      <4> QED
        BY <1>a, <4>2, <4>3 DEF ScanFindsFirst
    <3>6. WritesHitTheirRegister'
      <4>1. \A o \in Offsets : written[o] = Absent
        BY <1>0 DEF DriverSound
      <4> QED
        BY <1>0, <4>1 DEF WritesHitTheirRegister
    <3> QED
      BY <3>4, <3>5, <3>6
  <2>3. CASE config[f][0] \notin VirtioVendors
    <3>1. visited' = visited \union {f} /\ UNCHANGED <<found, scan_pc>>
      BY <1>1, <2>1, <2>3 DEF ScanNext
    <3>2. f \notin Virtio
      BY <2>3 DEF Virtio
    <3>3. PciTypeOK' /\ WritesHitTheirRegister' /\ DriverSound'
      BY <1>0, <3>1 DEF PciTypeOK, WritesHitTheirRegister, DriverSound
    <3>4. ScanSound' /\ ScanFindsFirst'
      BY <1>0, <1>a, <3>1, <3>2 DEF ScanSound, ScanFindsFirst
    <3> QED
      BY <3>3, <3>4
  <2> QED
    BY <2>2, <2>3
<1>2. CASE ScanEnd
  <2>1. visited = Functions /\ scan_pc' = "done" /\ UNCHANGED <<visited, found>>
    BY <1>2 DEF ScanEnd
  <2>2. Virtio = {}
    BY <2>1 DEF ScanSound, Virtio
  <2>3. PciTypeOK' /\ WritesHitTheirRegister' /\ DriverSound'
    BY <1>0, <2>1 DEF PciTypeOK, WritesHitTheirRegister, DriverSound
  <2>4. ScanSound' /\ ScanFindsFirst'
    BY <1>0, <1>a, <2>1, <2>2 DEF ScanSound, ScanFindsFirst
  <2> QED
    BY <2>3, <2>4
<1> QED
  BY <1>1, <1>2 DEF ScanStep

(* A write of the driver.                                                  *)
LEMMA WriteKeeps ==
  ASSUME PciInv, WriteStep
  PROVE  PciInv'
<1> USE DEF PciInv
<1>1. PICK f \in found, o \in Offsets \ {0, 1, 2, 3}, w \in Data : WriteWord(f, o, w)
  BY DEF WriteStep
<1> DEFINE q == o \div 4
<1>2. f \in Functions /\ q \in Registers /\ 0 \in Registers /\ q # 0
      /\ FunctionOf(Address(f, o)) = f /\ RegisterOf(Address(f, o)) = q
  BY AddressDecodes, OffsetFacts, PciAssumption DEF PciTypeOK
<1>3. /\ config' = [config EXCEPT ![f][q] = w] /\ UNCHANGED <<visited, found, scan_pc>>
      /\ written' = [p \in Offsets |-> IF p \div 4 = q THEN w ELSE written[p]]
  BY <1>1, <1>2 DEF WriteWord, WriteAddress
<1> HIDE DEF q
<1>4. /\ config' \in [Functions -> [Registers -> Words]]
      /\ \A g \in Functions : g # f => config'[g] = config[g]
      /\ config'[f][q] = w /\ \A r \in Registers : r # q => config'[f][r] = config[f][r]
  BY <1>2, <1>3 DEF PciTypeOK, Words
<1>5. \A g \in Functions : config'[g][0] = config[g][0]
  BY <1>2, <1>4
<1>6. Virtio' = Virtio
  BY <1>5 DEF Virtio
<1>7. PciTypeOK'
  BY <1>3, <1>4 DEF PciTypeOK
<1>8. ScanSound' /\ ScanFindsFirst'
  BY <1>3, <1>6 DEF ScanSound, ScanFindsFirst
<1>9. DriverSound' /\ \A g \in found : g = f
  BY <1>3 DEF DriverSound
<1>10. WritesHitTheirRegister'
  <2>1. ASSUME NEW g \in found', NEW p \in Offsets, written'[p] # Absent
        PROVE  config'[g][p \div 4] = written'[p]
    <3>1. g = f
      BY <1>3, <1>9
    <3>2. p \div 4 \in Registers
      BY DEF Registers
    <3>3. CASE p \div 4 = q
      BY <1>3, <1>4, <3>1, <3>3
    <3>4. CASE p \div 4 # q
      <4>1. written'[p] = written[p] /\ config'[f][p \div 4] = config[f][p \div 4]
        BY <1>3, <1>4, <3>2, <3>4
      <4> QED
        BY <1>3, <2>1, <3>1, <4>1 DEF WritesHitTheirRegister
    <3> QED
      BY <3>3, <3>4
  <2>2. ASSUME NEW g \in Functions, NEW r \in Registers, g \notin found', r # 0
        PROVE  config'[g][r] = Absent
    <3>1. g # f /\ g \notin found
      BY <1>3, <2>2
    <3> QED
      BY <1>4, <2>2, <3>1 DEF WritesHitTheirRegister
  <2>3. \A g \in Functions : config'[g][0] \in Vendors \union {Absent}
    BY <1>5 DEF WritesHitTheirRegister
  <2> QED
    BY <2>1, <2>2, <2>3 DEF WritesHitTheirRegister
<1> QED
  BY <1>7, <1>8, <1>9, <1>10

(* Every step of the scan and of the driver keeps the invariant.           *)
LEMMA PciInvNext == PciInv /\ [ScanStep \/ WriteStep]_pciVars => PciInv'
<1> SUFFICES ASSUME PciInv, [ScanStep \/ WriteStep]_pciVars PROVE PciInv'
  OBVIOUS
<1>1. CASE UNCHANGED pciVars
  BY <1>1 DEF pciVars, PciInv, PciTypeOK, ScanSound, DriverSound, ScanFindsFirst,
     WritesHitTheirRegister, Virtio
<1> QED
  BY <1>1, ScanKeeps, WriteKeeps

(* The invariant of the scan.                                              *)
LEMMA PciInvAlways == PciSpec => []PciInv
  BY PciInvInit, PciInvNext, PTL DEF PciSpec

(* The kernel does nothing to the bus but scan it and let the driver write.*)
LEMMA StartIsPci == StartSpec => PciSpec
<1>1. StartInit => PciInit
  BY DEF StartInit
<1>2. [StartNext]_startVars => [ScanStep \/ WriteStep]_pciVars
  BY DEF StartNext, startVars
<1> QED
  BY <1>1, <1>2, PTL DEF StartSpec, PciSpec

(***************************************************************************)
(* Whatever devices a machine has, scan returns the first one with a       *)
(* VirtIO function, and none only if there is none.                        *)
(***************************************************************************)
THEOREM ScanIsComplete == StartSpec => []ScanFindsFirst
<1>1. PciInv => ScanFindsFirst
  BY DEF PciInv
<1> QED
  BY <1>1, PciInvAlways, StartIsPci, PTL

(***************************************************************************)
(* The address packets of write_word reach the register they are meant for *)
(* and no other, whatever functions are present.                           *)
(***************************************************************************)
THEOREM WritesAreAddressed == StartSpec => []WritesHitTheirRegister
<1>1. PciInv => WritesHitTheirRegister
  BY DEF PciInv
<1> QED
  BY <1>1, PciInvAlways, StartIsPci, PTL

-----------------------------------------------------------------------------
(* Induction over the numbers up to n.                                     *)
LEMMA UpTo ==
  ASSUME NEW n \in Nat, NEW S, 0 \in S, \A i \in 0 .. n - 1 : i \in S => i + 1 \in S
  PROVE  \A i \in 0 .. n : i \in S
<1> DEFINE R == {p \in Nat \X Nat : p[1] < p[2]}
           T == {i \in 0 .. n : i \notin S}
<1>1. IsWellFoundedOn(R, Nat)
  BY NatLessThanWellFounded DEF OpToRel
<1>2. T \in SUBSET Nat
  OBVIOUS
<1>3. CASE T # {}
  <2>1. PICK x \in T : \A y \in T : ~ (<<y, x>> \in R)
    BY <1>1, <1>2, <1>3, WFMin
  <2>2. x \in 1 .. n /\ x \notin S
    BY <2>1
  <2>3. x - 1 \in 0 .. n - 1 /\ <<x - 1, x>> \in R
    BY <2>2
  <2>4. x - 1 \in S
    BY <2>1, <2>3
  <2>5. (x - 1) + 1 \in S
    BY <2>3, <2>4
  <2> QED
    BY <2>2, <2>5
<1>4. CASE T = {}
  BY <1>4
<1> QED
  BY <1>3, <1>4

(* Quotient and remainder of natural numbers.                              *)
LEMMA DivModFacts ==
  ASSUME NEW m \in Nat, NEW n \in Nat \ {0}
  PROVE  /\ m \div n \in Nat /\ m % n \in 0 .. n - 1 /\ m % n \in Nat
         /\ m = n * (m \div n) + (m % n) /\ m \div n <= m
  OBVIOUS

(* A number has one quotient.                                              *)
LEMMA QuotientUnique ==
  ASSUME NEW d \in Nat \ {0}, NEW a \in Nat, NEW b \in Nat, NEW r \in 0 .. d - 1,
         NEW s \in 0 .. d - 1, d * a + r = d * b + s
  PROVE  a = b
<1>1. CASE a < b
  <2>1. PICK x \in Nat : b = a + 1 + x
    BY <1>1
  <2>2. d * b = d * a + d + d * x
    BY <2>1
  <2>3. d * x \in Nat /\ d * a \in Nat
    BY <2>1
  <2> QED
    BY <2>2, <2>3
<1>2. CASE b < a
  <2>1. PICK x \in Nat : a = b + 1 + x
    BY <1>2
  <2>2. d * a = d * b + d + d * x
    BY <2>1
  <2>3. d * x \in Nat /\ d * b \in Nat
    BY <2>1
  <2> QED
    BY <2>2, <2>3
<1> QED
  BY <1>1, <1>2

(* Dividing twice is dividing by the product.                              *)
LEMMA DivDiv ==
  ASSUME NEW p \in Nat, NEW u \in Nat \ {0}, NEW F \in Nat \ {0}
  PROVE  p \div (F * u) = (p \div u) \div F
<1> DEFINE a == p \div u
           r == p % u
           b == a \div F
           c == a % F
           d == F * u
           e == p \div d
           s == p % d
<1>1. a \in Nat /\ r \in 0 .. u - 1 /\ p = u * a + r
  BY DivModFacts
<1>2. b \in Nat /\ c \in 0 .. F - 1 /\ a = F * b + c
  BY <1>1, DivModFacts
<1>3. d \in Nat \ {0}
  OBVIOUS
<1>4. e \in Nat /\ s \in 0 .. d - 1 /\ p = d * e + s
  BY <1>3, DivModFacts
<1> HIDE DEF a, r, b, c, d, e, s
<1>5. u * a = (u * F) * b + u * c
  BY <1>2
<1>6. u * F = d
  BY DEF d
<1>7. p = d * b + (u * c + r)
  BY <1>1, <1>2, <1>3, <1>5, <1>6
<1>8. u * c + r \in 0 .. d - 1
  <2>1. PICK x \in Nat : F = c + 1 + x
    BY <1>2
  <2>2. u * F = u * c + u + u * x
    BY <2>1, <1>2
  <2>3. u * c \in Nat /\ u * x \in Nat
    BY <1>2, <2>1
  <2> QED
    BY <2>2, <2>3, <1>1, <1>3, <1>6
<1>9. e = b
  BY <1>2, <1>3, <1>4, <1>7, <1>8, QuotientUnique
<1> QED
  BY <1>9 DEF e, b, d, a

-----------------------------------------------------------------------------
(* The recursive functions of the model exist.                             *)
LEMMA PagesUnderFacts ==
  /\ PagesUnder \in [0 .. Levels -> Nat \ {0}] /\ PagesUnder[0] = 1
  /\ \A j \in 1 .. Levels : PagesUnder[j] = Fanout * PagesUnder[j - 1]
<1> DEFINE G(n, g) == g = [j \in 0 .. n |-> IF j = 0 THEN 1 ELSE Fanout * g[j - 1]]
           S == {n \in 0 .. Levels : \E g : G(n, g)}
<1>0. Levels \in Nat /\ Fanout \in Nat \ {0}
  BY MachineAssumption
<1>1. 0 \in S
  <2> DEFINE g == [j \in 0 .. 0 |-> 1]
  <2>1. G(0, g)
    OBVIOUS
  <2> HIDE DEF g, G
  <2> QED
    BY <1>0, <2>1
<1>2. ASSUME NEW n \in 0 .. Levels - 1, n \in S PROVE n + 1 \in S
  <2>1. PICK g : G(n, g)
    BY <1>2
  <2> DEFINE h == [j \in 0 .. n + 1 |-> IF j = n + 1 THEN Fanout * g[n] ELSE g[j]]
  <2>2. G(n + 1, h)
    <3> SUFFICES ASSUME NEW j \in 0 .. n + 1
                 PROVE  h[j] = IF j = 0 THEN 1 ELSE Fanout * h[j - 1]
      OBVIOUS
    <3>1. CASE j = n + 1
      BY <3>1, <1>0
    <3>2. CASE j \in 0 .. n
      BY <3>2, <2>1, <1>0
    <3> QED
      BY <3>1, <3>2, <1>0
  <2> HIDE DEF h, G
  <2> QED
    BY <2>2, <1>0
<1>3. Levels \in S
  <2> HIDE DEF S
  <2> QED
    BY <1>0, <1>1, <1>2, UpTo
<1>4. G(Levels, PagesUnder)
  <2>1. \E g : G(Levels, g)
    BY <1>3
  <2> QED
    BY <2>1 DEF PagesUnder
<1>5. PagesUnder[0] = 1 /\ \A j \in 1 .. Levels : PagesUnder[j] = Fanout * PagesUnder[j - 1]
  BY <1>0, <1>4
<1>6. \A j \in 0 .. Levels : j \in {i \in 0 .. Levels : PagesUnder[i] \in Nat \ {0}}
  <2> DEFINE T == {i \in 0 .. Levels : PagesUnder[i] \in Nat \ {0}}
  <2>1. 0 \in T
    BY <1>0, <1>5
  <2>2. ASSUME NEW i \in 0 .. Levels - 1, i \in T PROVE i + 1 \in T
    <3>1. PagesUnder[i + 1] = Fanout * PagesUnder[i] /\ PagesUnder[i] \in Nat \ {0}
      BY <1>0, <1>5, <2>2
    <3> QED
      BY <3>1, <1>0
  <2> HIDE DEF T
  <2> QED
    BY <1>0, <2>1, <2>2, UpTo DEF T
<1> QED
  BY <1>0, <1>4, <1>5, <1>6

(* The steps of a walk of translate_addr.                                  *)
LEMMA WalkFacts ==
  ASSUME NEW t, NEW page
  PROVE  /\ Walk(t, page)[0] = Root
         /\ \A k \in 1 .. Levels : Walk(t, page)[k] =
              IF Walk(t, page)[k - 1] \in Frames
                THEN t[Walk(t, page)[k - 1]][TableIndex(page, k)]
                ELSE Walk(t, page)[k - 1]
<1> DEFINE St(g, i) == IF i = 0 THEN Root
                       ELSE IF g[i - 1] \in Frames THEN t[g[i - 1]][TableIndex(page, i)]
                       ELSE g[i - 1]
           G(n, g) == g = [i \in 0 .. n |-> St(g, i)]
           S == {n \in 0 .. Levels : \E g : G(n, g)}
<1>0. Levels \in Nat
  BY MachineAssumption
<1>1. 0 \in S
  <2> DEFINE g == [j \in 0 .. 0 |-> Root]
  <2>1. G(0, g)
    OBVIOUS
  <2> HIDE DEF g, G
  <2> QED
    BY <1>0, <2>1
<1>2. ASSUME NEW n \in 0 .. Levels - 1, n \in S PROVE n + 1 \in S
  <2>1. PICK g : G(n, g)
    BY <1>2
  <2> DEFINE h == [j \in 0 .. n + 1 |-> IF j = n + 1 THEN St(g, n + 1) ELSE g[j]]
  <2>2. G(n + 1, h)
    <3> SUFFICES ASSUME NEW j \in 0 .. n + 1
                 PROVE  h[j] = St(h, j)
      OBVIOUS
    <3>1. CASE j = n + 1
      <4>1. h[n + 1] = St(g, n + 1) /\ h[n] = g[n] /\ j # 0 /\ j - 1 = n
        BY <3>1, <1>0
      <4> QED
        BY <3>1, <4>1
    <3>2. CASE j = 0
      BY <3>2, <2>1, <1>0
    <3>3. CASE j \in 1 .. n
      <4>1. h[j] = g[j] /\ h[j - 1] = g[j - 1] /\ j \in 0 .. n
        BY <3>3, <1>0
      <4> HIDE DEF h
      <4> QED
        BY <3>3, <4>1, <2>1
    <3> QED
      BY <3>1, <3>2, <3>3, <1>0
  <2> HIDE DEF h, G
  <2> QED
    BY <2>2, <1>0
<1>3. Levels \in S
  <2> HIDE DEF S
  <2> QED
    BY <1>0, <1>1, <1>2, UpTo
<1>4. G(Levels, Walk(t, page))
  <2>1. \E g : G(Levels, g)
    BY <1>3
  <2> QED
    BY <2>1 DEF Walk
<1> QED
  BY <1>0, <1>4

(* The types of the numbers that MachineAssumption speaks of.              *)
LEMMA MemNumbers ==
  /\ Levels \in Nat \ {0} /\ Fanout \in Nat \ {0} /\ PhysFrames \in Nat
  /\ HEAP_PAGE \in Nat /\ HEAP_PAGES \in Nat \ {0} /\ HeapPages \subseteq Pages
  /\ KernelPages \subseteq Pages /\ Pages \subseteq Nat
  /\ Frames \subseteq Nat /\ NotPresent \notin Frames /\ HugeFrame \notin Frames /\ NotPresent # HugeFrame
  /\ 0 .. PhysFrames + 1 = Frames \union {NotPresent, HugeFrame}
<1>1. PagesUnder[Levels] \in Nat
  BY MachineAssumption, PagesUnderFacts
<1>2. Pages \subseteq Nat
  BY <1>1 DEF Pages
<1> QED
  BY MachineAssumption, <1>2 DEF Frames, NotPresent, HugeFrame

(* A page is its upper part and its index.                                 *)
LEMMA IndexFacts ==
  ASSUME NEW page \in Nat, NEW k \in 1 .. Levels
  PROVE  /\ TableIndex(page, k) \in Indexes
         /\ page \div PagesUnder[Levels - k] \in Nat
         /\ page \div PagesUnder[Levels - (k - 1)] =
              (page \div PagesUnder[Levels - k]) \div Fanout
         /\ page \div PagesUnder[Levels - k] =
              Fanout * (page \div PagesUnder[Levels - (k - 1)]) + TableIndex(page, k)
<1> DEFINE u == PagesUnder[Levels - k]
           a == page \div u
<1>1. /\ Levels \in Nat /\ Fanout \in Nat \ {0} /\ u \in Nat \ {0}
      /\ PagesUnder[Levels - (k - 1)] = Fanout * u
  <2>1. /\ Levels \in Nat /\ Levels - k \in 0 .. Levels /\ Levels - (k - 1) \in 1 .. Levels
        /\ (Levels - (k - 1)) - 1 = Levels - k
    BY MemNumbers
  <2> QED
    BY <2>1, MemNumbers, PagesUnderFacts
<1> HIDE DEF u
<1>2. a \in Nat
  BY <1>1, DivModFacts
<1>3. page \div (Fanout * u) = a \div Fanout
  BY <1>1, DivDiv
<1> HIDE DEF a
<1>4. a % Fanout \in 0 .. Fanout - 1 /\ a = Fanout * (a \div Fanout) + (a % Fanout)
  BY <1>1, <1>2, DivModFacts
<1>5. TableIndex(page, k) = a % Fanout
  BY DEF TableIndex, a, u
<1> QED
  BY <1>1, <1>2, <1>3, <1>4, <1>5 DEF Indexes, a, u

(* Pages of one table have the same indexes down to that table.            *)
LEMMA SamePrefix ==
  ASSUME NEW p \in Nat, NEW q \in Nat, NEW k \in 0 .. Levels,
         p \div PagesUnder[Levels - k] = q \div PagesUnder[Levels - k]
  PROVE  \A i \in 1 .. k : TableIndex(p, i) = TableIndex(q, i)
<1> DEFINE E(i) == p \div PagesUnder[Levels - i] = q \div PagesUnder[Levels - i]
           S == {j \in 0 .. k : E(k - j)}
<1>0. Levels \in Nat /\ k \in Nat /\ Fanout \in Nat \ {0}
  BY MemNumbers
<1>1. 0 \in S
  <2>1. k - 0 = k
    BY <1>0
  <2> QED
    BY <2>1, <1>0
<1>2. ASSUME NEW j \in 0 .. k - 1, j \in S PROVE j + 1 \in S
  <2>1. k - j \in 1 .. Levels /\ (k - j) - 1 = k - (j + 1) /\ j + 1 \in 0 .. k
    BY <1>0
  <2>2. E(k - j)
    BY <1>2
  <2>3. E((k - j) - 1)
    BY <2>1, <2>2, IndexFacts
  <2> QED
    BY <2>1, <2>3
<1>3. \A j \in 0 .. k : j \in S
  <2> HIDE DEF S
  <2> QED
    BY <1>0, <1>1, <1>2, UpTo
<1>4. ASSUME NEW i \in 1 .. k PROVE TableIndex(p, i) = TableIndex(q, i)
  <2>1. k - i \in 0 .. k /\ k - (k - i) = i
    BY <1>0
  <2>2. E(i)
    BY <1>3, <2>1
  <2> QED
    BY <2>2 DEF TableIndex
<1> QED
  BY <1>4

(* Two pages with the same indexes are the same page.                      *)
LEMMA Digits ==
  ASSUME NEW p \in Pages, NEW q \in Pages,
         \A i \in 1 .. Levels : TableIndex(p, i) = TableIndex(q, i)
  PROVE  p = q
<1> DEFINE E(i) == p \div PagesUnder[Levels - i] = q \div PagesUnder[Levels - i]
           S == {j \in 0 .. Levels : E(j)}
<1>0. Levels \in Nat /\ Fanout \in Nat \ {0} /\ p \in Nat /\ q \in Nat
  BY MemNumbers
<1>1. 0 \in S
  <2> DEFINE u == PagesUnder[Levels]
  <2>1. u \in Nat \ {0} /\ p \in 0 .. u - 1 /\ q \in 0 .. u - 1 /\ Levels - 0 = Levels
    BY <1>0, PagesUnderFacts DEF Pages
  <2> HIDE DEF u
  <2>2. ASSUME NEW x \in 0 .. u - 1 PROVE x \div u = 0
    <3>1. x = u * (x \div u) + (x % u) /\ x \div u \in Nat /\ x % u \in 0 .. u - 1
      <4>1. x \in Nat
        BY <2>1
      <4> QED
        BY <2>1, <4>1, DivModFacts
    <3>2. x = u * 0 + x
      BY <2>1
    <3> QED
      BY <2>1, <3>1, <3>2, QuotientUnique
  <2>3. p \div u = q \div u
    BY <2>1, <2>2
  <2> QED
    BY <1>0, <2>1, <2>3 DEF u
<1>2. ASSUME NEW j \in 0 .. Levels - 1, j \in S PROVE j + 1 \in S
  <2>1. j + 1 \in 1 .. Levels /\ (j + 1) - 1 = j /\ j + 1 \in 0 .. Levels
    BY <1>0
  <2>2. E(j)
    BY <1>2
  <2>3. E(j + 1)
    <3>1. p \div PagesUnder[Levels - (j + 1)] =
            Fanout * (p \div PagesUnder[Levels - j]) + TableIndex(p, j + 1)
      BY <1>0, <2>1, IndexFacts
    <3>2. q \div PagesUnder[Levels - (j + 1)] =
            Fanout * (q \div PagesUnder[Levels - j]) + TableIndex(q, j + 1)
      BY <1>0, <2>1, IndexFacts
    <3> QED
      BY <2>1, <2>2, <3>1, <3>2
  <2> QED
    BY <2>1, <2>3
<1>3. Levels \in S
  <2> HIDE DEF S
  <2> QED
    BY <1>0, <1>1, <1>2, UpTo
<1>4. p \div 1 = q \div 1
  <2>1. E(Levels)
    BY <1>3
  <2>2. PagesUnder[Levels - Levels] = 1
    BY <1>0, PagesUnderFacts
  <2> QED
    BY <2>1, <2>2
<1> QED
  BY <1>0, <1>4

-----------------------------------------------------------------------------
(* Walks.                                                                  *)
LEMMA SameWalk ==
  ASSUME NEW t, NEW p, NEW q, NEW k \in 0 .. Levels,
         \A i \in 1 .. k : TableIndex(p, i) = TableIndex(q, i)
  PROVE  \A i \in 0 .. k : Walk(t, p)[i] = Walk(t, q)[i]
<1> DEFINE S == {i \in 0 .. k : Walk(t, p)[i] = Walk(t, q)[i]}
<1>0. Levels \in Nat /\ k \in Nat
  BY MemNumbers
<1>1. 0 \in S
  BY <1>0, WalkFacts
<1>2. ASSUME NEW i \in 0 .. k - 1, i \in S PROVE i + 1 \in S
  <2>1. i + 1 \in 1 .. k /\ i + 1 \in 1 .. Levels /\ (i + 1) - 1 = i /\ i + 1 \in 0 .. k
    BY <1>0
  <2>2. TableIndex(p, i + 1) = TableIndex(q, i + 1) /\ Walk(t, p)[i] = Walk(t, q)[i]
    BY <2>1, <1>2
  <2>3. Walk(t, p)[i + 1] = Walk(t, q)[i + 1]
    BY <2>1, <2>2, WalkFacts
  <2> QED
    BY <2>1, <2>3
<1> HIDE DEF S
<1> QED
  BY <1>0, <1>1, <1>2, UpTo DEF S

(* A walk goes down one level with every step, until it ends.              *)
LEMMA WalkTyped ==
  ASSUME NEW t, NEW level, Hierarchy(t, level), NEW page \in Nat
  PROVE  /\ \A k \in 0 .. Levels - 1 :
              \/ Walk(t, page)[k] \in DOMAIN t /\ level[Walk(t, page)[k]] = k
              \/ Walk(t, page)[k] \in {NotPresent, HugeFrame}
         /\ \A k \in 0 .. Levels : Walk(t, page)[k] \in Frames \union {NotPresent, HugeFrame}
<1> DEFINE W == Walk(t, page)
           D(k) == \/ W[k] \in DOMAIN t /\ level[W[k]] = k
                   \/ W[k] \in {NotPresent, HugeFrame}
           S == {k \in 0 .. Levels - 1 : D(k)}
<1>0. Levels \in Nat \ {0} /\ Levels - 1 \in Nat
  BY MemNumbers
<1>1. 0 \in S
  BY <1>0, WalkFacts DEF Hierarchy
<1>2. ASSUME NEW k \in 0 .. (Levels - 1) - 1, k \in S PROVE k + 1 \in S
  <2>1. k + 1 \in 1 .. Levels /\ (k + 1) - 1 = k /\ k + 1 \in 0 .. Levels - 1 /\ k < Levels - 1
    BY <1>0
  <2>2. W[k + 1] = IF W[k] \in Frames THEN t[W[k]][TableIndex(page, k + 1)] ELSE W[k]
    BY <2>1, WalkFacts
  <2>3. TableIndex(page, k + 1) \in Indexes
    BY <2>1, IndexFacts
  <2> HIDE DEF W
  <2>4. CASE W[k] \in DOMAIN t /\ level[W[k]] = k
    <3>1. W[k] \in Frames
      BY <2>4 DEF Hierarchy
    <3> DEFINE e == t[W[k]][TableIndex(page, k + 1)]
    <3>2. e \in 0 .. PhysFrames + 1 /\ W[k + 1] = e
      BY <3>1, <2>2, <2>3, <2>4 DEF Hierarchy
    <3>3. e \in Frames => e \in DOMAIN t /\ level[e] = k + 1
      BY <2>1, <2>3, <2>4 DEF Hierarchy
    <3> HIDE DEF e
    <3>4. e \in Frames \union {NotPresent, HugeFrame}
      BY <3>2, MemNumbers
    <3> QED
      BY <2>1, <3>2, <3>3, <3>4
  <2>5. CASE W[k] \in {NotPresent, HugeFrame}
    BY <2>1, <2>2, <2>5, MemNumbers
  <2> QED
    BY <1>2, <2>4, <2>5
<1>3. \A k \in 0 .. Levels - 1 : D(k)
  <2>1. \A k \in 0 .. Levels - 1 : k \in S
    <3> HIDE DEF S
    <3> QED
      BY <1>0, <1>1, <1>2, UpTo
  <2> QED
    BY <2>1
<1>4. \A k \in 0 .. Levels - 1 : W[k] \in Frames \union {NotPresent, HugeFrame}
  BY <1>3 DEF Hierarchy
<1>5. W[Levels] \in Frames \union {NotPresent, HugeFrame}
  <2>1. Levels \in 1 .. Levels /\ Levels - 1 \in 0 .. Levels - 1
    BY <1>0
  <2>2. W[Levels] = IF W[Levels - 1] \in Frames THEN t[W[Levels - 1]][TableIndex(page, Levels)]
                    ELSE W[Levels - 1]
    BY <2>1, WalkFacts
  <2>3. TableIndex(page, Levels) \in Indexes
    BY <2>1, IndexFacts
  <2> HIDE DEF W
  <2>4. CASE W[Levels - 1] \in DOMAIN t
    <3>1. W[Levels] \in 0 .. PhysFrames + 1
      BY <2>2, <2>3, <2>4 DEF Hierarchy
    <3> QED
      BY <3>1, MemNumbers
  <2> QED
    BY <2>1, <2>2, <2>4, <1>3, MemNumbers
<1>6. \A k \in 0 .. Levels : k \in 0 .. Levels - 1 \/ k = Levels
  BY <1>0
<1> QED
  BY <1>3, <1>4, <1>5, <1>6

(* A walk that met a missing or a huge entry ends with it.                 *)
LEMMA WalkStops ==
  ASSUME NEW t, NEW page, NEW k \in 0 .. Levels, Walk(t, page)[k] \notin Frames
  PROVE  \A i \in k .. Levels : Walk(t, page)[i] = Walk(t, page)[k]
<1> DEFINE S == {j \in 0 .. Levels - k : Walk(t, page)[k + j] = Walk(t, page)[k]}
<1>0. Levels \in Nat /\ Levels - k \in Nat /\ k \in Nat /\ k + 0 = k
  BY MemNumbers
<1>1. 0 \in S
  BY <1>0
<1>2. ASSUME NEW j \in 0 .. (Levels - k) - 1, j \in S PROVE j + 1 \in S
  <2>1. k + (j + 1) \in 1 .. Levels /\ (k + (j + 1)) - 1 = k + j /\ j + 1 \in 0 .. Levels - k
    BY <1>0
  <2>2. Walk(t, page)[k + j] = Walk(t, page)[k]
    BY <1>2
  <2>3. Walk(t, page)[k + (j + 1)] = Walk(t, page)[k]
    BY <2>1, <2>2, WalkFacts
  <2> QED
    BY <2>1, <2>3
<1>3. \A j \in 0 .. Levels - k : j \in S
  <2> HIDE DEF S
  <2> QED
    BY <1>0, <1>1, <1>2, UpTo
<1>4. ASSUME NEW i \in k .. Levels PROVE Walk(t, page)[i] = Walk(t, page)[k]
  <2>1. i - k \in 0 .. Levels - k /\ k + (i - k) = i
    BY <1>0
  <2> QED
    BY <1>3, <2>1
<1> QED
  BY <1>4

(* Two pages that share a table share the indexes down to it.              *)
LEMMA UniqueWalk ==
  ASSUME NEW t, NEW level, Hierarchy(t, level), NEW p \in Nat, NEW q \in Nat,
         NEW k \in 0 .. Levels - 1,
         Walk(t, p)[k] = Walk(t, q)[k], Walk(t, p)[k] \in Frames
  PROVE  \A i \in 1 .. k : TableIndex(p, i) = TableIndex(q, i)
<1> DEFINE P == Walk(t, p)
           Q == Walk(t, q)
           H(n) == P[n] = Q[n] /\ P[n] \in Frames
           C(n) == \A i \in 1 .. n : TableIndex(p, i) = TableIndex(q, i)
           S == {n \in 0 .. Levels - 1 : H(n) => C(n)}
<1>0. Levels \in Nat \ {0} /\ Levels - 1 \in Nat
  BY MemNumbers
<1>1. 0 \in S
  BY <1>0
<1>2. ASSUME NEW n \in 0 .. (Levels - 1) - 1, n \in S PROVE n + 1 \in S
  <2>1. /\ n + 1 \in 1 .. Levels /\ (n + 1) - 1 = n /\ n + 1 \in 0 .. Levels - 1
        /\ n < Levels - 1 /\ n \in 0 .. Levels - 1 /\ n \in Nat
    BY <1>0
  <2> SUFFICES ASSUME H(n + 1) PROVE C(n + 1)
    BY <2>1
  <2>2. P[n + 1] = IF P[n] \in Frames THEN t[P[n]][TableIndex(p, n + 1)] ELSE P[n]
    BY <2>1, WalkFacts
  <2>3. Q[n + 1] = IF Q[n] \in Frames THEN t[Q[n]][TableIndex(q, n + 1)] ELSE Q[n]
    BY <2>1, WalkFacts
  <2>4. TableIndex(p, n + 1) \in Indexes /\ TableIndex(q, n + 1) \in Indexes
    BY <2>1, IndexFacts
  <2>5. /\ P[n] \in Frames => P[n] \in DOMAIN t /\ level[P[n]] = n
        /\ Q[n] \in Frames => Q[n] \in DOMAIN t /\ level[Q[n]] = n
    BY <2>1, WalkTyped, MemNumbers
  <2> HIDE DEF P, Q
  <2>6. P[n] \in Frames /\ Q[n] \in Frames
    BY <2>2, <2>3
  <2>7. Q[n] = P[n] /\ TableIndex(q, n + 1) = TableIndex(p, n + 1)
    <3>1. \A f \in DOMAIN t : \A i \in Indexes :
            level[f] < Levels - 1 /\ t[f][i] \in Frames =>
              \A g \in DOMAIN t : \A j \in Indexes :
                level[g] < Levels - 1 /\ t[g][j] = t[f][i] => g = f /\ j = i
      BY DEF Hierarchy
    <3>2. /\ P[n] \in DOMAIN t /\ level[P[n]] < Levels - 1
          /\ Q[n] \in DOMAIN t /\ level[Q[n]] < Levels - 1
      BY <2>1, <2>5, <2>6
    <3>3. t[P[n]][TableIndex(p, n + 1)] \in Frames
          /\ t[Q[n]][TableIndex(q, n + 1)] = t[P[n]][TableIndex(p, n + 1)]
      BY <2>2, <2>3, <2>6
    <3> QED
      BY <2>4, <3>1, <3>2, <3>3
  <2>8. C(n)
    BY <1>2, <2>6, <2>7
  <2> QED
    BY <2>1, <2>7, <2>8
<1>3. \A n \in 0 .. Levels - 1 : n \in S
  <2> HIDE DEF S
  <2> QED
    BY <1>0, <1>1, <1>2, UpTo
<1> QED
  BY <1>3

(* What a new table changes.                                               *)
Added(t, at, i, new, u) ==
  /\ DOMAIN u = DOMAIN t \union {new}
  /\ \A j \in Indexes : u[new][j] = NotPresent
  /\ \A f \in DOMAIN t : \A j \in Indexes :
       u[f][j] = IF f = at /\ j = i THEN new ELSE t[f][j]
  /\ u \in [DOMAIN u -> [Indexes -> 0 .. PhysFrames + 1]]

(* The entries of the tables after a table is added.                       *)
LEMMA AddTableEntries ==
  ASSUME NEW t, NEW level, Hierarchy(t, level), NEW at \in DOMAIN t, NEW i \in Indexes,
         NEW new \in Frames \ DOMAIN t
  PROVE  Added(t, at, i, new, AddTable(t, at, i, new))
<1>1. /\ t \in [DOMAIN t -> [Indexes -> 0 .. PhysFrames + 1]] /\ new \in 0 .. PhysFrames + 1
      /\ NotPresent \in 0 .. PhysFrames + 1
  BY MemNumbers DEF Hierarchy
<1> QED
  BY <1>1 DEF Added, AddTable, EmptyTable

(* A new table, under a missing entry, keeps the tables a hierarchy.       *)
LEMMA AddTableHierarchy ==
  ASSUME NEW t, NEW level, Hierarchy(t, level), NEW at \in DOMAIN t, NEW i \in Indexes,
         level[at] < Levels - 1, t[at][i] = NotPresent, NEW new \in Frames \ DOMAIN t
  PROVE  \E l : Hierarchy(AddTable(t, at, i, new), l)
<1> DEFINE u == AddTable(t, at, i, new)
           l == [f \in DOMAIN t \union {new} |-> IF f = new THEN level[at] + 1 ELSE level[f]]
<1>1. /\ DOMAIN u = DOMAIN t \union {new} /\ \A j \in Indexes : u[new][j] = NotPresent
      /\ \A f \in DOMAIN t : \A j \in Indexes :
           u[f][j] = IF f = at /\ j = i THEN new ELSE t[f][j]
      /\ u \in [DOMAIN u -> [Indexes -> 0 .. PhysFrames + 1]]
  <2>1. Added(t, at, i, new, u)
    BY AddTableEntries
  <2> HIDE DEF u
  <2> QED
    BY <2>1 DEF Added
<1>3. /\ t \in [DOMAIN t -> [Indexes -> 0 .. PhysFrames + 1]] /\ DOMAIN t \subseteq Frames
      /\ level \in [DOMAIN t -> 0 .. Levels - 1] /\ Root \in DOMAIN t /\ level[Root] = 0
      /\ new \in Frames /\ new \notin DOMAIN t
  BY DEF Hierarchy
<1>4. \A f \in DOMAIN t : \A j \in Indexes :
        level[f] < Levels - 1 /\ t[f][j] \in Frames =>
          /\ t[f][j] \in DOMAIN t /\ level[t[f][j]] = level[f] + 1
          /\ \A g \in DOMAIN t : \A h \in Indexes :
               level[g] < Levels - 1 /\ t[g][h] = t[f][j] => g = f /\ h = j
  BY DEF Hierarchy
<1> HIDE DEF u
<1>5. \A j \in Indexes : u[new][j] = NotPresent /\ u[new][j] \notin Frames
  BY <1>1, MemNumbers
<1>6. u \in [DOMAIN u -> [Indexes -> 0 .. PhysFrames + 1]] /\ DOMAIN u \subseteq Frames
  BY <1>1, <1>3
<1>7. /\ \A f \in DOMAIN t : l[f] = level[f]
      /\ l[new] = level[at] + 1 /\ DOMAIN l = DOMAIN u
      /\ Levels \in Nat /\ level[at] \in Nat
  BY <1>1, <1>3, MemNumbers
<1>8. l \in [DOMAIN u -> 0 .. Levels - 1] /\ Root \in DOMAIN u /\ l[Root] = 0
  <2>1. level[at] + 1 \in 0 .. Levels - 1
    BY <1>3, <1>7
  <2> QED
    BY <1>1, <1>3, <1>7, <2>1
<1> HIDE DEF l
<1>9. ASSUME NEW f \in DOMAIN u, NEW j \in Indexes, l[f] < Levels - 1, u[f][j] \in Frames
      PROVE  /\ u[f][j] \in DOMAIN u /\ l[u[f][j]] = l[f] + 1
             /\ \A g \in DOMAIN u : \A h \in Indexes :
                  l[g] < Levels - 1 /\ u[g][h] = u[f][j] => g = f /\ h = j
  <2>1. f \in DOMAIN t /\ level[f] < Levels - 1
    BY <1>1, <1>5, <1>7, <1>9
  <2>2. CASE f = at /\ j = i
    <3>1. u[f][j] = new
      BY <1>1, <2>1, <2>2
    <3>2. ASSUME NEW g \in DOMAIN u, NEW h \in Indexes, l[g] < Levels - 1, u[g][h] = new
          PROVE  g = f /\ h = j
      <4>1. g \in DOMAIN t /\ level[g] < Levels - 1
        BY <1>1, <1>3, <1>5, <1>7, <3>2
      <4>2. CASE ~(g = at /\ h = i)
        <5>1. t[g][h] = new
          BY <1>1, <3>2, <4>1, <4>2
        <5> QED
          BY <1>3, <1>4, <4>1, <5>1
      <4> QED
        BY <4>2, <2>2
    <3> QED
      BY <1>1, <1>7, <2>2, <3>1, <3>2
  <2>3. CASE ~(f = at /\ j = i)
    <3>1. u[f][j] = t[f][j]
      BY <1>1, <2>1, <2>3
    <3>2. /\ t[f][j] \in DOMAIN t /\ level[t[f][j]] = level[f] + 1
      BY <1>4, <1>9, <2>1, <3>1
    <3>3. ASSUME NEW g \in DOMAIN u, NEW h \in Indexes, l[g] < Levels - 1, u[g][h] = u[f][j]
          PROVE  g = f /\ h = j
      <4>1. g \in DOMAIN t /\ level[g] < Levels - 1
        BY <1>1, <1>9, <1>5, <1>7, <3>3
      <4>2. ~(g = at /\ h = i)
        BY <1>1, <1>3, <3>1, <3>2, <3>3
      <4>3. t[g][h] = t[f][j]
        BY <1>1, <3>1, <3>3, <4>1, <4>2
      <4> QED
        BY <1>4, <1>9, <2>1, <3>1, <4>1, <4>3
    <3> QED
      BY <1>1, <1>7, <2>1, <3>1, <3>2, <3>3
  <2> QED
    BY <2>2, <2>3
<1>10. Hierarchy(u, l)
  BY <1>6, <1>8, <1>9 DEF Hierarchy
<1> QED
  BY <1>10 DEF u

(* A new, empty table changes the meaning of no page.                      *)
LEMMA AddTableWalk ==
  ASSUME NEW t, NEW level, Hierarchy(t, level), NEW p \in Nat, NEW m \in 1 .. Levels - 1,
         NEW at \in DOMAIN t, at = Walk(t, p)[m - 1],
         t[at][TableIndex(p, m)] = NotPresent, NEW new \in Frames \ DOMAIN t,
         NEW u, u = AddTable(t, at, TableIndex(p, m), new)
  PROVE  /\ Walk(u, p)[m] = new
         /\ \A q \in Nat : \A k \in 0 .. Levels :
              \/ Walk(u, q)[k] = Walk(t, q)[k]
              \/ /\ k >= m /\ Walk(t, q)[k] = NotPresent
                 /\ Walk(u, q)[k] = IF k = m THEN new ELSE NotPresent
<1>0. Levels \in Nat /\ m \in Nat /\ m - 1 \in 0 .. Levels - 1 /\ m \in 1 .. Levels
  BY MemNumbers
<1>1. TableIndex(p, m) \in Indexes
  BY <1>0, IndexFacts
<1>2. /\ DOMAIN u = DOMAIN t \union {new} /\ \A j \in Indexes : u[new][j] = NotPresent
      /\ \A f \in DOMAIN t : \A j \in Indexes :
           u[f][j] = IF f = at /\ j = TableIndex(p, m) THEN new ELSE t[f][j]
  <2>1. Added(t, at, TableIndex(p, m), new, u)
    BY <1>1, AddTableEntries
  <2> QED
    BY <2>1 DEF Added
<1>3. at \in Frames /\ level[at] = m - 1 /\ DOMAIN t \subseteq Frames /\ new \notin DOMAIN t
  <2>1. at \in Frames /\ DOMAIN t \subseteq Frames
    BY DEF Hierarchy
  <2> QED
    BY <2>1, <1>0, WalkTyped, MemNumbers
<1>4. ASSUME NEW q \in Nat
      PROVE  \A k \in 0 .. Levels :
              \/ Walk(u, q)[k] = Walk(t, q)[k]
              \/ /\ k >= m /\ Walk(t, q)[k] = NotPresent
                 /\ Walk(u, q)[k] = IF k = m THEN new ELSE NotPresent
  <2> DEFINE T == Walk(t, q)
             U == Walk(u, q)
             C(k) == \/ U[k] = T[k]
                     \/ k >= m /\ T[k] = NotPresent /\ U[k] = IF k = m THEN new ELSE NotPresent
             S == {k \in 0 .. Levels : C(k)}
  <2>1. 0 \in S
    BY <1>0, WalkFacts
  <2>2. ASSUME NEW k \in 0 .. Levels - 1, k \in S PROVE k + 1 \in S
    <3>1. /\ k + 1 \in 1 .. Levels /\ (k + 1) - 1 = k /\ k + 1 \in 0 .. Levels
          /\ k \in Nat /\ k \in 0 .. Levels
      BY <1>0
    <3>2. T[k + 1] = IF T[k] \in Frames THEN t[T[k]][TableIndex(q, k + 1)] ELSE T[k]
      BY <3>1, WalkFacts
    <3>3. U[k + 1] = IF U[k] \in Frames THEN u[U[k]][TableIndex(q, k + 1)] ELSE U[k]
      BY <3>1, WalkFacts
    <3>4. TableIndex(q, k + 1) \in Indexes
      BY <3>1, IndexFacts
    <3>5. T[k] \in Frames => T[k] \in DOMAIN t /\ level[T[k]] = k
      BY <3>1, WalkTyped, MemNumbers
    <3>6. T[k] = at => t[at][TableIndex(q, k + 1)] = T[k + 1]
      BY <1>3, <3>2
    <3> HIDE DEF T, U
    <3>7. CASE U[k] = T[k] /\ T[k] \in Frames
      <4>1. CASE T[k] = at /\ TableIndex(q, k + 1) = TableIndex(p, m)
        <5>1. k = m - 1
          BY <1>3, <3>5, <3>7, <4>1
        <5>2. T[k + 1] = NotPresent
          BY <3>6, <4>1
        <5>3. U[k + 1] = new
          BY <1>2, <3>3, <3>4, <3>5, <3>7, <4>1
        <5> QED
          BY <1>0, <3>1, <5>1, <5>2, <5>3
      <4>2. CASE ~(T[k] = at /\ TableIndex(q, k + 1) = TableIndex(p, m))
        <5>1. u[T[k]][TableIndex(q, k + 1)] = t[T[k]][TableIndex(q, k + 1)]
          BY <1>2, <3>4, <3>5, <3>7, <4>2
        <5> QED
          BY <3>1, <3>2, <3>3, <3>7, <5>1
      <4> QED
        BY <4>1, <4>2
    <3>8. CASE U[k] = T[k] /\ T[k] \notin Frames
      BY <3>1, <3>2, <3>3, <3>8
    <3>9. CASE k >= m /\ T[k] = NotPresent /\ U[k] = IF k = m THEN new ELSE NotPresent
      <4>1. k + 1 >= m /\ k + 1 # m
        BY <1>0, <3>1, <3>9
      <4>2. T[k + 1] = NotPresent
        BY <3>2, <3>9, MemNumbers
      <4>3. U[k + 1] = NotPresent
        BY <3>3, <3>4, <3>9, <1>2, MemNumbers
      <4> QED
        BY <3>1, <4>1, <4>2, <4>3
    <3> QED
      BY <2>2, <3>7, <3>8, <3>9
  <2>3. \A k \in 0 .. Levels : k \in S
    <3> HIDE DEF S
    <3> QED
      BY <1>0, <2>1, <2>2, UpTo
  <2> QED
    BY <2>3
<1>5. Walk(u, p)[m] = new
  <2>1. Walk(u, p)[m - 1] = at
    <3>1. m - 1 \in 0 .. Levels /\ ~(m - 1 >= m)
      BY <1>0
    <3> QED
      BY <1>4, <3>1
  <2>2. Walk(u, p)[m] = u[at][TableIndex(p, m)]
    BY <1>0, <1>3, <2>1, WalkFacts
  <2> QED
    BY <1>1, <1>2, <2>2
<1> QED
  BY <1>4, <1>5

(* What the entry of a page changes: the page and nothing else.            *)
WithEntry(t, at, i, e) == [t EXCEPT ![at][i] = e]

(* An entry of a last table changes the meaning of its page only.          *)
LEMMA LeafWalk ==
  ASSUME NEW t, NEW level, Hierarchy(t, level), NEW p \in Pages,
         NEW at \in DOMAIN t, at = Walk(t, p)[Levels - 1],
         t[at][TableIndex(p, Levels)] = NotPresent, NEW frame \in Frames,
         NEW u, u = WithEntry(t, at, TableIndex(p, Levels), frame)
  PROVE  /\ DOMAIN u = DOMAIN t /\ Hierarchy(u, level)
         /\ Walk(t, p)[Levels] = NotPresent /\ Walk(u, p)[Levels] = frame
         /\ \A q \in Pages : \A k \in 0 .. Levels :
              q # p \/ k < Levels => Walk(u, q)[k] = Walk(t, q)[k]
<1> DEFINE x == TableIndex(p, Levels)
<1>0. /\ Levels \in Nat \ {0} /\ Levels - 1 \in 0 .. Levels - 1 /\ Levels \in 1 .. Levels
      /\ p \in Nat /\ Levels - 1 \in Nat
  BY MemNumbers
<1>1. x \in Indexes
  BY <1>0, IndexFacts
<1>2. /\ t \in [DOMAIN t -> [Indexes -> 0 .. PhysFrames + 1]] /\ frame \in 0 .. PhysFrames + 1
      /\ DOMAIN t \subseteq Frames
      /\ level \in [DOMAIN t -> 0 .. Levels - 1] /\ Root \in DOMAIN t /\ level[Root] = 0
  BY MemNumbers DEF Hierarchy
<1>3. /\ DOMAIN u = DOMAIN t /\ u \in [DOMAIN u -> [Indexes -> 0 .. PhysFrames + 1]]
      /\ \A f \in DOMAIN t : \A j \in Indexes :
           u[f][j] = IF f = at /\ j = x THEN frame ELSE t[f][j]
  BY <1>1, <1>2 DEF WithEntry
<1>4. at \in Frames /\ level[at] = Levels - 1
  <2>1. at \in Frames
    BY <1>2
  <2> QED
    BY <2>1, <1>0, WalkTyped, MemNumbers
<1>5. Hierarchy(u, level)
  <2>1. \A f \in DOMAIN t : \A i \in Indexes :
       level[f] < Levels - 1 /\ t[f][i] \in Frames =>
         /\ t[f][i] \in DOMAIN t /\ level[t[f][i]] = level[f] + 1
         /\ \A g \in DOMAIN t : \A j \in Indexes :
              level[g] < Levels - 1 /\ t[g][j] = t[f][i] => g = f /\ j = i
    BY DEF Hierarchy
  <2>2. \A f \in DOMAIN t : level[f] < Levels - 1 => \A j \in Indexes : u[f][j] = t[f][j]
    BY <1>0, <1>3, <1>4
  <2>3. \A f \in DOMAIN u : \A i \in Indexes :
       level[f] < Levels - 1 /\ u[f][i] \in Frames =>
         /\ u[f][i] \in DOMAIN u /\ level[u[f][i]] = level[f] + 1
         /\ \A g \in DOMAIN u : \A j \in Indexes :
              level[g] < Levels - 1 /\ u[g][j] = u[f][i] => g = f /\ j = i
    BY <1>3, <2>1, <2>2
  <2> QED
    BY <1>2, <1>3, <2>3 DEF Hierarchy
<1>6. ASSUME NEW q \in Nat PROVE \A k \in 0 .. Levels - 1 : Walk(u, q)[k] = Walk(t, q)[k]
  <2> DEFINE S == {k \in 0 .. Levels - 1 : Walk(u, q)[k] = Walk(t, q)[k]}
  <2>1. 0 \in S
    BY <1>0, WalkFacts
  <2>2. ASSUME NEW k \in 0 .. (Levels - 1) - 1, k \in S PROVE k + 1 \in S
    <3>1. /\ k + 1 \in 1 .. Levels /\ (k + 1) - 1 = k /\ k + 1 \in 0 .. Levels - 1
          /\ k \in 0 .. Levels - 1 /\ k # Levels - 1
      BY <1>0
    <3>2. /\ Walk(u, q)[k] = Walk(t, q)[k] /\ TableIndex(q, k + 1) \in Indexes
      BY <2>2, <3>1, IndexFacts
    <3>3. Walk(t, q)[k] \in Frames => Walk(t, q)[k] \in DOMAIN t /\ level[Walk(t, q)[k]] = k
      BY <3>1, WalkTyped, MemNumbers
    <3>4. Walk(t, q)[k] \in Frames =>
            u[Walk(t, q)[k]][TableIndex(q, k + 1)] = t[Walk(t, q)[k]][TableIndex(q, k + 1)]
      BY <1>3, <1>4, <3>1, <3>2, <3>3
    <3>5. Walk(u, q)[k + 1] = Walk(t, q)[k + 1]
      <4>1. \A v : Walk(v, q)[k + 1] =
                     IF Walk(v, q)[k] \in Frames
                       THEN v[Walk(v, q)[k]][TableIndex(q, k + 1)] ELSE Walk(v, q)[k]
        BY <3>1, WalkFacts
      <4>2. Walk(u, q)[k + 1] = IF Walk(u, q)[k] \in Frames
              THEN u[Walk(u, q)[k]][TableIndex(q, k + 1)] ELSE Walk(u, q)[k]
        BY <4>1, Zenon
      <4>3. Walk(t, q)[k + 1] = IF Walk(t, q)[k] \in Frames
              THEN t[Walk(t, q)[k]][TableIndex(q, k + 1)] ELSE Walk(t, q)[k]
        BY <4>1, Zenon
      <4> QED
        BY <3>2, <3>4, <4>2, <4>3, Zenon
    <3> QED
      BY <3>1, <3>5
  <2>3. \A k \in 0 .. Levels - 1 : k \in S
    <3> HIDE DEF S
    <3> QED
      BY <1>0, <2>1, <2>2, UpTo
  <2> QED
    BY <2>3
<1>7. Walk(t, p)[Levels] = NotPresent /\ Walk(u, p)[Levels] = frame
  <2>1. Walk(u, p)[Levels - 1] = at
    BY <1>0, <1>6
  <2>2. Walk(u, p)[Levels] = u[at][x] /\ Walk(t, p)[Levels] = t[at][x]
    BY <1>0, <1>4, <2>1, WalkFacts
  <2> QED
    BY <1>1, <1>3, <2>2
<1>8. ASSUME NEW q \in Pages, q # p PROVE Walk(u, q)[Levels] = Walk(t, q)[Levels]
  <2> DEFINE T == Walk(t, q)
             U == Walk(u, q)
  <2>1. q \in Nat
    BY MemNumbers
  <2>2. T[Levels] = IF T[Levels - 1] \in Frames THEN t[T[Levels - 1]][TableIndex(q, Levels)]
                    ELSE T[Levels - 1]
    BY <1>0, WalkFacts
  <2>3. U[Levels] = IF U[Levels - 1] \in Frames THEN u[U[Levels - 1]][TableIndex(q, Levels)]
                    ELSE U[Levels - 1]
    <3>1. \A v : Walk(v, q)[Levels] =
                   IF Walk(v, q)[Levels - 1] \in Frames
                     THEN v[Walk(v, q)[Levels - 1]][TableIndex(q, Levels)]
                     ELSE Walk(v, q)[Levels - 1]
      BY <1>0, WalkFacts
    <3> QED
      BY <3>1, Zenon
  <2>4. U[Levels - 1] = T[Levels - 1] /\ TableIndex(q, Levels) \in Indexes
    BY <1>0, <1>6, <2>1, IndexFacts
  <2>5. T[Levels - 1] \in Frames => T[Levels - 1] \in DOMAIN t
    BY <1>0, <2>1, WalkTyped, MemNumbers
  <2>6. ~(T[Levels - 1] = at /\ TableIndex(q, Levels) = x)
    <3> SUFFICES ASSUME T[Levels - 1] = at, TableIndex(q, Levels) = x PROVE FALSE
      OBVIOUS
    <3>1. \A i \in 1 .. Levels - 1 : TableIndex(p, i) = TableIndex(q, i)
      BY <1>0, <1>4, <2>1, UniqueWalk
    <3>2. \A i \in 1 .. Levels : i \in 1 .. Levels - 1 \/ i = Levels
      BY <1>0
    <3>3. \A i \in 1 .. Levels : TableIndex(p, i) = TableIndex(q, i)
      BY <3>1, <3>2
    <3> QED
      BY <1>8, <3>3, Digits
  <2> HIDE DEF T, U
  <2>7. U[Levels] = T[Levels]
    BY <1>3, <2>2, <2>3, <2>4, <2>5, <2>6
  <2> QED
    BY <2>7 DEF T, U
<1>9. ASSUME NEW q \in Pages, NEW k \in 0 .. Levels, q # p \/ k < Levels
      PROVE  Walk(u, q)[k] = Walk(t, q)[k]
  <2>1. k \in 0 .. Levels - 1 \/ (k = Levels /\ q # p)
    BY <1>0, <1>9
  <2> QED
    BY <1>6, <1>8, <2>1, MemNumbers
<1> QED
  BY <1>3, <1>5, <1>7, <1>9

(* FlattenSeq as a sequence of its partial results.                        *)
LEMMA FlattenFacts ==
  ASSUME NEW seqs, Len(seqs) \in Nat \ {0}
  PROVE  \E fl : /\ FlattenSeq(seqs) = fl[Len(seqs)] /\ fl[1] = seqs[1]
                 /\ \A i \in 2 .. Len(seqs) : fl[i] = fl[i - 1] \o seqs[i]
<1> DEFINE N == Len(seqs)
           St(g, i) == IF i = 1 THEN seqs[i] ELSE g[i - 1] \o seqs[i]
           G(n, g) == g = [i \in 1 .. n |-> St(g, i)]
           S == {n \in 0 .. N : \E g : G(n, g)}
<1>1. 0 \in S
  <2> DEFINE g == [i \in 1 .. 0 |-> seqs[i]]
  <2>1. G(0, g)
    OBVIOUS
  <2> HIDE DEF g, G
  <2> QED
    BY <2>1
<1>2. ASSUME NEW n \in 0 .. N - 1, n \in S PROVE n + 1 \in S
  <2>1. PICK g : G(n, g)
    BY <1>2
  <2> DEFINE h == [j \in 1 .. n + 1 |-> IF j = n + 1 THEN St(g, n + 1) ELSE g[j]]
  <2>2. G(n + 1, h)
    <3> SUFFICES ASSUME NEW j \in 1 .. n + 1
                 PROVE  h[j] = St(h, j)
      OBVIOUS
    <3>1. CASE j = n + 1
      <4>1. h[n + 1] = St(g, n + 1) /\ j - 1 = n /\ (n # 0 => h[n] = g[n]) /\ (n = 0 => j = 1)
        BY <3>1
      <4> QED
        BY <3>1, <4>1
    <3>2. CASE j \in 1 .. n
      <4>1. h[j] = g[j] /\ (j # 1 => h[j - 1] = g[j - 1])
        BY <3>2
      <4> HIDE DEF h
      <4> QED
        BY <3>2, <4>1, <2>1
    <3> QED
      BY <3>1, <3>2
  <2> HIDE DEF h, G
  <2>3. n + 1 \in 0 .. N
    OBVIOUS
  <2> QED
    BY <2>2, <2>3
<1>3. N \in S
  <2>1. N \in Nat /\ N \in 0 .. N
    OBVIOUS
  <2> HIDE DEF N, S
  <2>2. \A i \in 0 .. N : i \in S
    BY <1>1, <1>2, <2>1, UpTo
  <2> QED
    BY <2>1, <2>2
<1>4. PICK fl : fl = CHOOSE g : G(N, g)
  OBVIOUS
<1>5. G(N, fl)
  <2>1. \E g : G(N, g)
    BY <1>3
  <2> HIDE DEF G
  <2> QED
    BY <1>4, <2>1
<1>6. FlattenSeq(seqs) = fl[N]
  BY <1>4 DEF FlattenSeq
<1>7. fl[1] = seqs[1] /\ \A i \in 2 .. N : fl[i] = fl[i - 1] \o seqs[i]
  <2>1. 1 \in 1 .. N /\ \A i \in 2 .. N : i \in 1 .. N /\ i # 1
    OBVIOUS
  <2>2. \A i \in 1 .. N : fl[i] = St(fl, i)
    <3> HIDE DEF N
    <3> QED
      BY <1>5, Zenon
  <2> HIDE DEF N
  <2> QED
    BY <2>1, <2>2
<1> QED
  BY <1>6, <1>7

(* allocate_frame never returns a frame twice, nor one of a boot table.    *)
LEMMA UsableFacts ==
  ASSUME NEW m \in Machines
  PROVE  /\ usable_frames(m.memory_map) \in Seq(Frames)
         /\ \A a, b \in 1 .. Len(usable_frames(m.memory_map)) :
              usable_frames(m.memory_map)[a] = usable_frames(m.memory_map)[b] => a = b
         /\ \A a \in 1 .. Len(usable_frames(m.memory_map)) :
              usable_frames(m.memory_map)[a] \notin DOMAIN m.tables
<1> DEFINE mm == m.memory_map
           n == Len(mm)
           rs == [i \in DOMAIN mm |-> IF IsUsable(mm[i]) THEN RegionFrames(mm[i]) ELSE << >>]
<1>1. /\ n \in Nat /\ DOMAIN mm = 1 .. n /\ PhysFrames \in Nat
      /\ \A i \in 1 .. n : /\ mm[i].start \in 0 .. PhysFrames /\ mm[i].end \in 0 .. PhysFrames
                           /\ mm[i].start <= mm[i].end
      /\ \A i, j \in 1 .. n : i < j => mm[i].end <= mm[j].start
      /\ \A i \in 1 .. n : IsUsable(mm[i]) => \A f \in DOMAIN m.tables :
                 ~(mm[i].start <= f /\ f < mm[i].end)
  <2>1. mm \in Seq([start : 0 .. PhysFrames, end : 0 .. PhysFrames, region_type : STRING])
    BY MachineAssumption
  <2>2. \A i \in DOMAIN mm :
            /\ mm[i].start <= mm[i].end
            /\ \A j \in DOMAIN mm : i < j => mm[i].end <= mm[j].start
            /\ mm[i].region_type = "Usable" => \A f \in DOMAIN m.tables :
                 ~(mm[i].start <= f /\ f < mm[i].end)
    BY MachineAssumption
  <2> HIDE DEF mm
  <2>3. n \in Nat /\ DOMAIN mm = 1 .. n /\ PhysFrames \in Nat
    BY <2>1, MemNumbers
  <2>4. \A i \in 1 .. n : mm[i] \in [start : 0 .. PhysFrames, end : 0 .. PhysFrames,
                                       region_type : STRING]
    BY <2>1, ElementOfSeq
  <2> HIDE DEF n
  <2>5. \A i \in 1 .. n : mm[i].start \in 0 .. PhysFrames /\ mm[i].end \in 0 .. PhysFrames
    BY <2>4
  <2> QED
    BY <2>2, <2>3, <2>5 DEF IsUsable
<1>2. FlattenSeq(rs) = usable_frames(mm)
  BY DEF usable_frames
<1> DEFINE In(f, i) == \E j \in 1 .. i : IsUsable(mm[j]) /\ mm[j].start <= f /\ f < mm[j].end
           Good(s, i) == /\ s \in Seq(Frames)
                         /\ \A a \in 1 .. Len(s) : In(s[a], i)
                         /\ \A a, b \in 1 .. Len(s) : s[a] = s[b] => a = b
<1> HIDE DEF mm
<1>3. ASSUME NEW i \in 1 .. n
      PROVE  /\ rs[i] \in Seq(Frames)
             /\ \A a \in 1 .. Len(rs[i]) :
                  IsUsable(mm[i]) /\ mm[i].start <= rs[i][a] /\ rs[i][a] < mm[i].end
             /\ \A a, b \in 1 .. Len(rs[i]) : rs[i][a] = rs[i][b] => a = b
  <2>1. CASE IsUsable(mm[i])
    <3> DEFINE lo == mm[i].start
               hi == mm[i].end
    <3>1. rs[i] = [k \in 1 .. hi - lo |-> lo + k - 1]
      BY <1>1, <2>1 DEF RegionFrames
    <3>2. hi - lo \in Nat /\ lo \in Nat /\ hi \in 0 .. PhysFrames
      BY <1>1
    <3> HIDE DEF lo, hi, rs
    <3>3. \A k \in 1 .. hi - lo : lo + k - 1 \in Frames
      BY <3>2, <1>1 DEF Frames
    <3>4. rs[i] \in Seq(Frames) /\ Len(rs[i]) = hi - lo
      BY <3>1, <3>2, <3>3
    <3>5. \A k \in 1 .. hi - lo : rs[i][k] = lo + k - 1
      BY <3>1
    <3>6. \A a \in 1 .. hi - lo : lo <= rs[i][a] /\ rs[i][a] < hi
      BY <3>2, <3>5
    <3>7. \A a, b \in 1 .. hi - lo : rs[i][a] = rs[i][b] => a = b
      BY <3>2, <3>5
    <3> QED
      BY <2>1, <3>4, <3>6, <3>7 DEF lo, hi
  <2>2. CASE ~IsUsable(mm[i])
    <3>1. rs[i] = << >>
      BY <1>1, <2>2
    <3> HIDE DEF rs
    <3>2. rs[i] \in Seq(Frames) /\ 1 .. Len(rs[i]) = {}
      BY <3>1
    <3> QED
      BY <3>2
  <2> QED
    BY <2>1, <2>2
<1>4. DOMAIN rs = 1 .. n /\ Len(rs) = n
  BY <1>1
<1> HIDE DEF rs
<1>5. CASE n = 0
  <2>1. FlattenSeq(rs) = rs
    BY <1>4, <1>5 DEF FlattenSeq
  <2>2. rs = << >>
    BY <1>1, <1>4, <1>5 DEF rs
  <2> QED
    BY <1>2, <2>1, <2>2 DEF mm
<1>6. CASE n # 0
  <2>1. PICK fl : /\ FlattenSeq(rs) = fl[n] /\ fl[1] = rs[1]
                  /\ \A i \in 2 .. n : fl[i] = fl[i - 1] \o rs[i]
    <3>1. Len(rs) \in Nat \ {0}
      BY <1>1, <1>4, <1>6
    <3> HIDE DEF n
    <3> QED
      BY <1>4, <3>1, FlattenFacts
  <2> DEFINE S == {i \in 0 .. n : i # 0 => Good(fl[i], i)}
  <2>2. 0 \in S
    BY <1>1
  <2>3. ASSUME NEW i \in 0 .. n - 1, i \in S PROVE i + 1 \in S
    <3>1. i + 1 \in 1 .. n /\ i \in Nat
      BY <1>1
    <3>2. CASE i = 0
      <4>1. fl[1] \in Seq(Frames) /\ \A a, b \in 1 .. Len(fl[1]) : fl[1][a] = fl[1][b] => a = b
        BY <2>1, <1>3, <3>1, <3>2
      <4>2. \A a \in 1 .. Len(fl[1]) : In(fl[1][a], 1)
        BY <2>1, <1>3, <3>1, <3>2
      <4> QED
        BY <3>1, <3>2, <4>1, <4>2
    <3>3. CASE i # 0
      <4> DEFINE x == fl[i]
                 y == rs[i + 1]
      <4>1. fl[i + 1] = x \o y
        <5>1. i + 1 \in 2 .. n /\ (i + 1) - 1 = i
          BY <3>1, <3>3
        <5> QED
          BY <5>1, <2>1
      <4>2. Good(x, i)
        BY <2>3, <3>3
      <4>3. /\ y \in Seq(Frames)
            /\ \A a \in 1 .. Len(y) :
                 IsUsable(mm[i + 1]) /\ mm[i + 1].start <= y[a] /\ y[a] < mm[i + 1].end
            /\ \A a, b \in 1 .. Len(y) : y[a] = y[b] => a = b
        BY <3>1, <1>3
      <4> HIDE DEF x, y
      <4>4. /\ x \o y \in Seq(Frames) /\ Len(x \o y) = Len(x) + Len(y)
            /\ \A a \in 1 .. Len(x) + Len(y) :
                 (x \o y)[a] = IF a <= Len(x) THEN x[a] ELSE y[a - Len(x)]
        BY <4>2, <4>3, ConcatProperties
      <4>5. Len(x) \in Nat /\ Len(y) \in Nat
        BY <4>2, <4>3
      <4>6. \A a \in 1 .. Len(x) : In(x[a], i + 1) /\ x[a] < mm[i + 1].start
        <5> TAKE a \in 1 .. Len(x)
        <5>1. PICK j \in 1 .. i : IsUsable(mm[j]) /\ mm[j].start <= x[a] /\ x[a] < mm[j].end
          BY <4>2
        <5>2. j \in 1 .. n /\ j \in 1 .. i + 1 /\ j < i + 1
          BY <3>1, <1>1
        <5>3. x[a] \in Nat
          BY <4>2, ElementOfSeq, MemNumbers
        <5>4. mm[j].end <= mm[i + 1].start /\ mm[j].end \in Nat /\ mm[i + 1].start \in Nat
          BY <1>1, <3>1, <5>2
        <5>5. x[a] < mm[i + 1].start
          BY <5>1, <5>3, <5>4
        <5>6. In(x[a], i + 1)
          BY <5>1, <5>2
        <5> QED
          BY <5>5, <5>6
      <4>7. \A a \in 1 .. Len(y) : In(y[a], i + 1) /\ mm[i + 1].start <= y[a]
        BY <4>3, <3>1
      <4>8. ASSUME NEW a \in 1 .. Len(x \o y) PROVE In((x \o y)[a], i + 1)
        <5>1. CASE a <= Len(x)
          <6>1. a \in 1 .. Len(x) /\ (x \o y)[a] = x[a]
            BY <4>4, <4>5, <5>1
          <6> QED
            BY <4>6, <6>1
        <5>2. CASE ~(a <= Len(x))
          <6>1. a - Len(x) \in 1 .. Len(y) /\ (x \o y)[a] = y[a - Len(x)]
            BY <4>4, <4>5, <5>2
          <6> QED
            BY <4>7, <6>1
        <5> QED
          BY <5>1, <5>2
      <4>9. ASSUME NEW a \in 1 .. Len(x \o y), NEW b \in 1 .. Len(x \o y),
                   (x \o y)[a] = (x \o y)[b]
            PROVE  a = b
        <5> DEFINE z == mm[i + 1].start
        <5>0. z \in Nat
          BY <1>1, <3>1
        <5> HIDE DEF z
        <5>1. \A c \in 1 .. Len(x \o y) :
                \/ c \in 1 .. Len(x) /\ (x \o y)[c] = x[c] /\ x[c] < z /\ x[c] \in Nat
                \/ /\ c > Len(x) /\ c - Len(x) \in 1 .. Len(y) /\ (x \o y)[c] = y[c - Len(x)]
                   /\ z <= y[c - Len(x)] /\ y[c - Len(x)] \in Nat
          <6> TAKE c \in 1 .. Len(x \o y)
          <6>1. CASE c <= Len(x)
            <7>1. c \in 1 .. Len(x) /\ (x \o y)[c] = x[c]
              BY <4>4, <4>5, <6>1
            <7>2. x[c] \in Nat /\ x[c] < z
              BY <4>2, <4>6, <7>1, ElementOfSeq, MemNumbers DEF z
            <7> QED
              BY <7>1, <7>2
          <6>2. CASE ~(c <= Len(x))
            <7>1. c > Len(x) /\ c - Len(x) \in 1 .. Len(y) /\ (x \o y)[c] = y[c - Len(x)]
              BY <4>4, <4>5, <6>2
            <7>2. y[c - Len(x)] \in Nat /\ z <= y[c - Len(x)]
              BY <4>3, <4>7, <7>1, ElementOfSeq, MemNumbers DEF z
            <7> QED
              BY <7>1, <7>2
          <6> QED
            BY <6>1, <6>2
        <5>2. CASE a \in 1 .. Len(x) /\ b \in 1 .. Len(x)
          <6>1. x[a] = x[b]
            BY <4>5, <4>9, <5>1, <5>2
          <6> QED
            BY <4>2, <5>2, <6>1
        <5>3. CASE a > Len(x) /\ b > Len(x)
          <6>1. /\ a - Len(x) \in 1 .. Len(y) /\ b - Len(x) \in 1 .. Len(y)
                /\ y[a - Len(x)] = y[b - Len(x)]
            BY <4>5, <4>9, <5>1, <5>3
          <6>2. a - Len(x) = b - Len(x)
            BY <4>3, <6>1
          <6> QED
            BY <4>5, <6>2
        <5>4. CASE a \in 1 .. Len(x) /\ b > Len(x)
          BY <4>5, <4>9, <5>0, <5>1, <5>4
        <5>5. CASE a > Len(x) /\ b \in 1 .. Len(x)
          BY <4>5, <4>9, <5>0, <5>1, <5>5
        <5> QED
          BY <4>5, <5>1, <5>2, <5>3, <5>4, <5>5
      <4>10. Good(x \o y, i + 1)
        BY <4>4, <4>8, <4>9
      <4>11. Good(fl[i + 1], i + 1)
        BY <4>1, <4>10
      <4>12. i + 1 \in 0 .. n
        BY <3>1
      <4> HIDE DEF Good
      <4> QED
        BY <4>11, <4>12
    <3> QED
      BY <3>2, <3>3
  <2>4. Good(fl[n], n)
    <3>1. n \in S
      <4>1. n \in Nat /\ n \in 0 .. n
        BY <1>1
      <4> HIDE DEF n, S
      <4>2. \A i \in 0 .. n : i \in S
        BY <4>1, <2>2, <2>3, UpTo
      <4> QED
        BY <4>1, <4>2
    <3> QED
      BY <3>1, <1>6
  <2> DEFINE U == usable_frames(mm)
  <2>5. Good(U, n)
    BY <2>1, <2>4, <1>2
  <2> HIDE DEF U
  <2>6. \A a \in 1 .. Len(U) : U[a] \notin DOMAIN m.tables
    <3> TAKE a \in 1 .. Len(U)
    <3>1. PICK j \in 1 .. n : IsUsable(mm[j]) /\ mm[j].start <= U[a] /\ U[a] < mm[j].end
      BY <2>5
    <3> QED
      BY <1>1, <3>1
  <2> QED
    BY <2>5, <2>6 DEF U, mm
<1> QED
  BY <1>5, <1>6

(* Tables of the boot loader, with tables for the heap added where it had  *)
(* none.                                                                   *)
TablesSound(t) ==
  /\ \E level : Hierarchy(t, level)
  /\ DOMAIN machine.tables \subseteq DOMAIN t
  /\ \A f \in DOMAIN t \ DOMAIN machine.tables : \E q \in HeapPages : \E k \in 1 .. Levels - 1 :
       Walk(t, q)[k] = f /\ Walk(machine.tables, q)[k] = NotPresent
  /\ \A q \in HeapPages : \A k \in 0 .. Levels :
       Walk(machine.tables, q)[k] \in {Walk(t, q)[k], NotPresent}

(* Frames that allocate_frame returned while next went from lo to hi.      *)
Handed(lo, hi) == {UsableFrames[j] : j \in (lo + 1 .. hi) \intersect DOMAIN UsableFrames}

(* The walk of map_to after k levels.                                      *)
DescentSound(page, n, k, result, at, t, m) ==
  /\ result \in {"Ok", "ParentEntryHugePage", "FrameAllocationFailed"}
  /\ m \in Nat /\ n <= m
  /\ IF result = "FrameAllocationFailed" THEN m = Len(UsableFrames) + 1
     ELSE m <= Len(UsableFrames)
  /\ TablesSound(t) /\ DOMAIN t = DOMAIN tables \union Handed(n, m)
  /\ \A q \in Pages : Walk(t, q)[Levels] = translate_addr(q)
  /\ result = "Ok" => at = Walk(t, page)[k] /\ at \in DOMAIN t
  /\ result = "ParentEntryHugePage" => translate_addr(page) = HugeFrame

(* The usable frames of this machine: distinct, and none is a table.       *)
LEMMA UsableFramesFacts ==
  ASSUME machine \in Machines
  PROVE  /\ UsableFrames \in Seq(Frames) /\ Len(UsableFrames) \in Nat
         /\ DOMAIN UsableFrames = 1 .. Len(UsableFrames)
         /\ \A a \in DOMAIN UsableFrames :
              UsableFrames[a] \in Frames /\ UsableFrames[a] \notin DOMAIN machine.tables
         /\ \A a, b \in DOMAIN UsableFrames : UsableFrames[a] = UsableFrames[b] => a = b
<1>1. /\ UsableFrames \in Seq(Frames)
      /\ \A a, b \in 1 .. Len(UsableFrames) : UsableFrames[a] = UsableFrames[b] => a = b
      /\ \A a \in 1 .. Len(UsableFrames) : UsableFrames[a] \notin DOMAIN machine.tables
  BY UsableFacts DEF UsableFrames
<1>2. DOMAIN UsableFrames = 1 .. Len(UsableFrames) /\ Len(UsableFrames) \in Nat
  BY <1>1
<1> QED
  BY <1>1, <1>2, ElementOfSeq

Grown(t, page, m, new, u) ==
  /\ TablesSound(u) /\ DOMAIN u = DOMAIN t \union {new} /\ Walk(u, page)[m] = new
  /\ \A q \in Pages : Walk(u, q)[Levels] = Walk(t, q)[Levels]

(* Tables stay sound if a new one is added in an unused frame.             *)
LEMMA AddTableSound ==
  ASSUME NEW t, TablesSound(t), NEW page \in HeapPages, NEW m \in 1 .. Levels - 1,
         NEW at \in DOMAIN t, at = Walk(t, page)[m - 1],
         t[at][TableIndex(page, m)] = NotPresent, NEW new \in Frames \ DOMAIN t,
         NEW u, u = AddTable(t, at, TableIndex(page, m), new)
  PROVE  Grown(t, page, m, new, u)
<1>0. /\ Levels \in Nat /\ m \in Nat /\ m \in 1 .. Levels /\ m # Levels /\ page \in Nat
      /\ HeapPages \subseteq Nat /\ Pages \subseteq Nat /\ Levels \in 0 .. Levels
      /\ 1 .. Levels - 1 \subseteq 0 .. Levels /\ NotPresent \notin Frames
  BY MemNumbers
<1>1. PICK level : Hierarchy(t, level)
  BY DEF TablesSound
<1>2. TableIndex(page, m) \in Indexes
  BY <1>0, IndexFacts
<1>3. /\ Walk(u, page)[m] = new
      /\ \A q \in Nat : \A k \in 0 .. Levels :
           \/ Walk(u, q)[k] = Walk(t, q)[k]
           \/ /\ k >= m /\ Walk(t, q)[k] = NotPresent
              /\ Walk(u, q)[k] = IF k = m THEN new ELSE NotPresent
  BY <1>0, <1>1, AddTableWalk
<1>4. DOMAIN u = DOMAIN t \union {new}
  <2>1. Added(t, at, TableIndex(page, m), new, u)
    BY <1>1, <1>2, AddTableEntries
  <2> QED
    BY <2>1 DEF Added
<1>5. \E l : Hierarchy(u, l)
  <2>1. level[at] < Levels - 1
    <3>1. m - 1 \in 0 .. Levels - 1 /\ at \in Frames
      BY <1>0, <1>1 DEF Hierarchy
    <3>2. level[at] = m - 1
      BY <1>0, <1>1, <3>1, WalkTyped, MemNumbers
    <3> QED
      BY <1>0, <3>2
  <2> QED
    BY <1>1, <1>2, <2>1, AddTableHierarchy
<1>6. /\ DOMAIN machine.tables \subseteq DOMAIN t
      /\ \A f \in DOMAIN t \ DOMAIN machine.tables :
           \E q \in HeapPages : \E k \in 1 .. Levels - 1 :
             Walk(t, q)[k] = f /\ Walk(machine.tables, q)[k] = NotPresent
      /\ \A q \in HeapPages : \A k \in 0 .. Levels :
           Walk(machine.tables, q)[k] \in {Walk(t, q)[k], NotPresent}
      /\ DOMAIN t \subseteq Frames
  BY <1>1 DEF TablesSound, Hierarchy
<1>7. \A q \in HeapPages : \A k \in 0 .. Levels :
        Walk(machine.tables, q)[k] \in {Walk(u, q)[k], NotPresent}
  BY <1>0, <1>3, <1>6
<1>8. ASSUME NEW f \in DOMAIN u \ DOMAIN machine.tables
      PROVE  \E q \in HeapPages : \E k \in 1 .. Levels - 1 :
               Walk(u, q)[k] = f /\ Walk(machine.tables, q)[k] = NotPresent
  <2>1. CASE f = new
    <3>1. Walk(t, page)[m] = NotPresent
      <4>1. m \in 1 .. Levels /\ at \in Frames
        BY <1>0, <1>6
      <4>2. Walk(t, page)[m] = t[at][TableIndex(page, m)]
        BY <4>1, WalkFacts
      <4> QED
        BY <4>2
    <3>2. Walk(machine.tables, page)[m] = NotPresent
      BY <1>0, <1>6, <3>1
    <3> QED
      BY <1>3, <2>1, <3>2
  <2>2. CASE f # new
    <3>1. f \in DOMAIN t /\ f \in Frames
      BY <1>4, <1>6, <2>2
    <3>2. PICK q \in HeapPages, k \in 1 .. Levels - 1 :
            Walk(t, q)[k] = f /\ Walk(machine.tables, q)[k] = NotPresent
      BY <1>6, <3>1
    <3>3. Walk(u, q)[k] = f
      BY <1>0, <1>3, <3>1, <3>2
    <3> QED
      BY <3>2, <3>3
  <2> QED
    BY <2>1, <2>2
<1>9. TablesSound(u)
  <2>1. DOMAIN machine.tables \subseteq DOMAIN u
    BY <1>4, <1>6
  <2> QED
    BY <1>5, <1>7, <1>8, <2>1 DEF TablesSound
<1>10. \A q \in Pages : Walk(u, q)[Levels] = Walk(t, q)[Levels]
  BY <1>0, <1>3
<1> QED
  BY <1>3, <1>4, <1>9, <1>10 DEF Grown

(* Tables stay sound if a page is mapped to an unused frame.               *)
LEMMA LeafSound ==
  ASSUME NEW t, TablesSound(t), NEW page \in HeapPages,
         NEW at \in DOMAIN t, at = Walk(t, page)[Levels - 1],
         t[at][TableIndex(page, Levels)] = NotPresent, NEW frame \in Frames,
         NEW u, u = WithEntry(t, at, TableIndex(page, Levels), frame)
  PROVE  /\ TablesSound(u) /\ DOMAIN u = DOMAIN t
         /\ Walk(t, page)[Levels] = NotPresent /\ Walk(u, page)[Levels] = frame
         /\ \A q \in Pages : q # page => Walk(u, q)[Levels] = Walk(t, q)[Levels]
<1>0. /\ Levels \in Nat /\ HeapPages \subseteq Pages /\ Levels \in 0 .. Levels
      /\ \A k \in 1 .. Levels - 1 : k \in 0 .. Levels /\ k < Levels
      /\ \A k \in 0 .. Levels : k < Levels \/ k = Levels
      /\ NotPresent \notin Frames /\ page \in Pages
  BY MemNumbers
<1>1. PICK level : Hierarchy(t, level)
  BY DEF TablesSound
<1>2. /\ DOMAIN u = DOMAIN t /\ Hierarchy(u, level)
      /\ Walk(t, page)[Levels] = NotPresent /\ Walk(u, page)[Levels] = frame
      /\ \A q \in Pages : \A k \in 0 .. Levels :
           q # page \/ k < Levels => Walk(u, q)[k] = Walk(t, q)[k]
  BY <1>0, <1>1, LeafWalk
<1>3. /\ DOMAIN machine.tables \subseteq DOMAIN t
      /\ \A f \in DOMAIN t \ DOMAIN machine.tables :
           \E q \in HeapPages : \E k \in 1 .. Levels - 1 :
             Walk(t, q)[k] = f /\ Walk(machine.tables, q)[k] = NotPresent
      /\ \A q \in HeapPages : \A k \in 0 .. Levels :
           Walk(machine.tables, q)[k] \in {Walk(t, q)[k], NotPresent}
  BY DEF TablesSound
<1>4. \A q \in HeapPages : \A k \in 0 .. Levels :
        Walk(machine.tables, q)[k] \in {Walk(u, q)[k], NotPresent}
  BY <1>0, <1>2, <1>3
<1>5. \A f \in DOMAIN u \ DOMAIN machine.tables :
           \E q \in HeapPages : \E k \in 1 .. Levels - 1 :
             Walk(u, q)[k] = f /\ Walk(machine.tables, q)[k] = NotPresent
  BY <1>0, <1>2, <1>3
<1>6. TablesSound(u)
  BY <1>2, <1>3, <1>4, <1>5 DEF TablesSound
<1> QED
  BY <1>0, <1>2, <1>6

(* The steps of map_to from the root to the last table.                    *)
LEMMA DescendFacts ==
  ASSUME NEW page, NEW n
  PROVE  /\ Descend(page, n)[0] =
              [result |-> "Ok", at |-> Root, tables |-> tables, next |-> n]
         /\ \A k \in 1 .. Levels - 1 :
              Descend(page, n)[k] = NextTable(Descend(page, n)[k - 1], TableIndex(page, k))
<1> DEFINE start == [result |-> "Ok", at |-> Root, tables |-> tables, next |-> n]
           St(g, i) == IF i = 0 THEN start ELSE NextTable(g[i - 1], TableIndex(page, i))
           G(l, g) == g = [i \in 0 .. l |-> St(g, i)]
           S == {l \in 0 .. Levels - 1 : \E g : G(l, g)}
<1>0. Levels - 1 \in Nat /\ Levels \in Nat
  BY MemNumbers
<1>1. 0 \in S
  <2> DEFINE g == [i \in 0 .. 0 |-> start]
  <2> HIDE DEF start
  <2>1. G(0, g)
    OBVIOUS
  <2> HIDE DEF g, G
  <2> QED
    BY <1>0, <2>1
<1>2. ASSUME NEW l \in 0 .. (Levels - 1) - 1, l \in S PROVE l + 1 \in S
  <2> HIDE DEF start
  <2>1. PICK g : G(l, g)
    BY <1>2
  <2> DEFINE h == [j \in 0 .. l + 1 |-> IF j = l + 1 THEN St(g, l + 1) ELSE g[j]]
  <2>2. G(l + 1, h)
    <3> SUFFICES ASSUME NEW j \in 0 .. l + 1
                 PROVE  h[j] = St(h, j)
      OBVIOUS
    <3>1. CASE j = l + 1
      <4>1. h[l + 1] = St(g, l + 1) /\ h[l] = g[l] /\ j # 0 /\ j - 1 = l
        BY <3>1, <1>0
      <4> QED
        BY <3>1, <4>1
    <3>2. CASE j = 0
      BY <3>2, <2>1, <1>0
    <3>3. CASE j \in 1 .. l
      <4>1. h[j] = g[j] /\ h[j - 1] = g[j - 1] /\ j \in 0 .. l
        BY <3>3, <1>0
      <4> HIDE DEF h
      <4> QED
        BY <3>3, <4>1, <2>1
    <3> QED
      BY <3>1, <3>2, <3>3, <1>0
  <2>3. l + 1 \in 0 .. Levels - 1
    BY <1>0
  <2> HIDE DEF h, G
  <2> QED
    BY <2>2, <2>3
<1>3. Levels - 1 \in S
  <2> HIDE DEF S
  <2>1. \A l \in 0 .. Levels - 1 : l \in S
    BY <1>0, <1>1, <1>2, UpTo
  <2> QED
    BY <1>0, <2>1
<1>4. G(Levels - 1, Descend(page, n))
  <2>1. \E g : G(Levels - 1, g)
    BY <1>3
  <2> QED
    BY <2>1 DEF Descend
<1> DEFINE D == Descend(page, n)
<1>5. \A i \in 0 .. Levels - 1 : D[i] = St(D, i)
  <2>1. G(Levels - 1, D)
    BY <1>4
  <2> HIDE DEF D, start
  <2> QED
    BY <2>1, Zenon
<1>6. D[0] = start /\ \A k \in 1 .. Levels - 1 : D[k] = NextTable(D[k - 1], TableIndex(page, k))
  <2> HIDE DEF D, start
  <2>1. 0 \in 0 .. Levels - 1 /\ \A k \in 1 .. Levels - 1 : k \in 0 .. Levels - 1 /\ k # 0
    BY <1>0
  <2> QED
    BY <1>5, <2>1
<1> QED
  BY <1>6

(* The outcomes of create_next_table.                                      *)
LEMMA NextTableFacts ==
  ASSUME NEW r, NEW at, NEW t, NEW m, NEW i
  PROVE  NextTable([result |-> r, at |-> at, tables |-> t, next |-> m], i) =
           IF r # "Ok" THEN [result |-> r, at |-> at, tables |-> t, next |-> m]
           ELSE IF t[at][i] = HugeFrame
             THEN [result |-> "ParentEntryHugePage", at |-> at, tables |-> t, next |-> m]
           ELSE IF t[at][i] # NotPresent
             THEN [result |-> r, at |-> t[at][i], tables |-> t, next |-> m]
           ELSE IF ~HasFrame(m)
             THEN [result |-> "FrameAllocationFailed", at |-> at, tables |-> t, next |-> m + 1]
           ELSE [result |-> "Ok", at |-> nth(m), next |-> m + 1,
                 tables |-> AddTable(t, at, i, nth(m))]
<1> DEFINE s == [result |-> r, at |-> at, tables |-> t, next |-> m]
<1>1. s.result = r /\ s.at = at /\ s.tables = t /\ s.next = m
  OBVIOUS
<1>2. [s EXCEPT !.result = "ParentEntryHugePage"] =
        [result |-> "ParentEntryHugePage", at |-> at, tables |-> t, next |-> m]
  OBVIOUS
<1>3. [s EXCEPT !.at = t[at][i]] = [result |-> r, at |-> t[at][i], tables |-> t, next |-> m]
  OBVIOUS
<1> HIDE DEF s
<1>4. NextTable(s, i) =
        IF s.result # "Ok" THEN s
        ELSE IF s.tables[s.at][i] = HugeFrame THEN [s EXCEPT !.result = "ParentEntryHugePage"]
        ELSE IF s.tables[s.at][i] # NotPresent THEN [s EXCEPT !.at = s.tables[s.at][i]]
        ELSE IF ~HasFrame(s.next)
          THEN [result |-> "FrameAllocationFailed", at |-> s.at, tables |-> s.tables,
                next |-> s.next + 1]
        ELSE [result |-> "Ok", at |-> nth(s.next), next |-> s.next + 1,
              tables |-> AddTable(s.tables, s.at, i, nth(s.next))]
  BY DEF NextTable
<1> QED
  BY <1>1, <1>2, <1>3, <1>4, Zenon DEF s

(* Frames handed out next.                                                 *)
LEMMA HandedFacts ==
  ASSUME machine \in Machines, NEW lo \in Nat, NEW hi \in Nat, lo <= hi
  PROVE  /\ Handed(lo, hi) \subseteq Frames
         /\ Handed(lo, lo) = {}
         /\ hi < Len(UsableFrames) => /\ nth(hi) \in Frames /\ nth(hi) \notin Handed(0, hi)
                                      /\ nth(hi) \notin DOMAIN machine.tables
                                      /\ Handed(lo, hi + 1) = Handed(lo, hi) \union {nth(hi)}
         /\ hi >= Len(UsableFrames) => Handed(lo, hi + 1) = Handed(lo, hi)
         /\ Handed(0, hi) = Handed(0, lo) \union Handed(lo, hi)
<1>1. /\ Len(UsableFrames) \in Nat /\ DOMAIN UsableFrames = 1 .. Len(UsableFrames)
      /\ \A a \in DOMAIN UsableFrames :
           UsableFrames[a] \in Frames /\ UsableFrames[a] \notin DOMAIN machine.tables
      /\ \A a, b \in DOMAIN UsableFrames : UsableFrames[a] = UsableFrames[b] => a = b
  BY UsableFramesFacts
<1>2. Handed(lo, hi) \subseteq Frames /\ Handed(lo, lo) = {}
  BY <1>1 DEF Handed
<1>3. ASSUME hi < Len(UsableFrames)
      PROVE  /\ nth(hi) \in Frames /\ nth(hi) \notin Handed(0, hi)
             /\ nth(hi) \notin DOMAIN machine.tables
             /\ Handed(lo, hi + 1) = Handed(lo, hi) \union {nth(hi)}
  <2>1. hi + 1 \in DOMAIN UsableFrames /\ nth(hi) = UsableFrames[hi + 1]
    BY <1>1, <1>3 DEF nth
  <2>2. nth(hi) \notin Handed(0, hi)
    BY <1>1, <2>1 DEF Handed
  <2>3. (lo + 1 .. hi + 1) \intersect DOMAIN UsableFrames =
          ((lo + 1 .. hi) \intersect DOMAIN UsableFrames) \union {hi + 1}
    BY <1>1, <2>1
  <2>4. Handed(lo, hi + 1) = Handed(lo, hi) \union {nth(hi)}
    BY <2>1, <2>3 DEF Handed
  <2> QED
    BY <1>1, <2>1, <2>2, <2>4
<1>4. ASSUME hi >= Len(UsableFrames) PROVE Handed(lo, hi + 1) = Handed(lo, hi)
  <2>1. (lo + 1 .. hi + 1) \intersect DOMAIN UsableFrames =
          (lo + 1 .. hi) \intersect DOMAIN UsableFrames
    BY <1>1, <1>4
  <2> QED
    BY <2>1 DEF Handed
<1>5. Handed(0, hi) = Handed(0, lo) \union Handed(lo, hi)
  <2>1. (0 + 1 .. hi) = (0 + 1 .. lo) \union (lo + 1 .. hi)
    OBVIOUS
  <2> QED
    BY <2>1 DEF Handed
<1> QED
  BY <1>2, <1>3, <1>4, <1>5

Descended(x, page, n, k) ==
  \E r, at, t, m :
    /\ x = [result |-> r, at |-> at, tables |-> t, next |-> m]
    /\ DescentSound(page, n, k, r, at, t, m)

(* map_to starts at the root, with the tables as they are.                 *)
LEMMA DescentStart ==
  ASSUME machine \in Machines, TablesSound(tables), NEW page, NEW n \in 0 .. Len(UsableFrames)
  PROVE  DescentSound(page, n, 0, "Ok", Root, tables, n)
<1>1. n \in Nat /\ n <= Len(UsableFrames) /\ Handed(n, n) = {}
  BY UsableFramesFacts, HandedFacts
<1>2. Root \in DOMAIN tables
  BY DEF TablesSound, Hierarchy
<1>3. Root = Walk(tables, page)[0]
  BY WalkFacts
<1> QED
  BY <1>1, <1>2, <1>3 DEF DescentSound, translate_addr

(* One create_next_table keeps the tables sound.                           *)
LEMMA DescentStep ==
  ASSUME machine \in Machines, NEW n \in 0 .. Len(UsableFrames),
         DOMAIN tables \subseteq DOMAIN machine.tables \union Handed(0, n),
         NEW page \in HeapPages, NEW k \in 1 .. Levels - 1,
         NEW x, Descended(x, page, n, k - 1)
  PROVE  Descended(NextTable(x, TableIndex(page, k)), page, n, k)
<1>a. PICK r, at, t, m : /\ x = [result |-> r, at |-> at, tables |-> t, next |-> m]
                         /\ DescentSound(page, n, k - 1, r, at, t, m)
  BY DEF Descended
<1> DEFINE i == TableIndex(page, k)
           e == t[at][i]
           s == [result |-> r, at |-> at, tables |-> t, next |-> m]
<1>0. /\ Levels \in Nat \ {0} /\ k \in Nat /\ k \in 1 .. Levels /\ k \in 0 .. Levels
      /\ k \in 0 .. Levels - 1 /\ k - 1 \in 0 .. Levels - 1
      /\ Levels \in k .. Levels /\ page \in Nat /\ page \in Pages
      /\ HugeFrame \notin Frames /\ NotPresent \notin Frames /\ NotPresent # HugeFrame
  <2>1. /\ Levels \in Nat \ {0} /\ page \in Nat /\ page \in Pages
        /\ HugeFrame \notin Frames /\ NotPresent \notin Frames /\ NotPresent # HugeFrame
    BY MemNumbers
  <2>2. /\ k \in Nat /\ k \in 1 .. Levels /\ k \in 0 .. Levels /\ k \in 0 .. Levels - 1
        /\ k - 1 \in 0 .. Levels - 1 /\ Levels \in k .. Levels
    BY <2>1
  <2> QED
    BY <2>1, <2>2
<1>1. /\ r \in {"Ok", "ParentEntryHugePage", "FrameAllocationFailed"}
      /\ m \in Nat /\ n <= m
      /\ IF r = "FrameAllocationFailed" THEN m = Len(UsableFrames) + 1
         ELSE m <= Len(UsableFrames)
      /\ TablesSound(t) /\ DOMAIN t = DOMAIN tables \union Handed(n, m)
      /\ \A q \in Pages : Walk(t, q)[Levels] = translate_addr(q)
      /\ r = "Ok" => at = Walk(t, page)[k - 1] /\ at \in DOMAIN t
      /\ r = "ParentEntryHugePage" => translate_addr(page) = HugeFrame
  BY <1>a DEF DescentSound
<1>2. Len(UsableFrames) \in Nat /\ n \in Nat
  BY UsableFramesFacts
<1>3. NextTable(s, i) =
           IF r # "Ok" THEN [result |-> r, at |-> at, tables |-> t, next |-> m]
           ELSE IF e = HugeFrame
             THEN [result |-> "ParentEntryHugePage", at |-> at, tables |-> t, next |-> m]
           ELSE IF e # NotPresent
             THEN [result |-> r, at |-> e, tables |-> t, next |-> m]
           ELSE IF ~HasFrame(m)
             THEN [result |-> "FrameAllocationFailed", at |-> at, tables |-> t, next |-> m + 1]
           ELSE [result |-> "Ok", at |-> nth(m), next |-> m + 1,
                 tables |-> AddTable(t, at, i, nth(m))]
  <2> HIDE DEF i
  <2> QED
    BY NextTableFacts
<1>4. PICK level : Hierarchy(t, level)
  BY <1>1 DEF TablesSound
<1>5. DOMAIN t \subseteq Frames
  BY <1>4 DEF Hierarchy
<1>6. r = "Ok" => Walk(t, page)[k] = e
  BY <1>0, <1>1, <1>5, WalkFacts
<1> DEFINE Goal(y, r2, at2, t2, m2) ==
             /\ y = [result |-> r2, at |-> at2, tables |-> t2, next |-> m2]
             /\ DescentSound(page, n, k, r2, at2, t2, m2)
<1> HIDE DEF i, e, s
<1> SUFFICES \E r2, at2, t2, m2 : Goal(NextTable(s, i), r2, at2, t2, m2)
  BY <1>a DEF i, s, Descended
<1>7. CASE r # "Ok"
  <2>1. DescentSound(page, n, k, r, at, t, m)
    BY <1>1, <1>7 DEF DescentSound
  <2>2. Goal(NextTable(s, i), r, at, t, m)
    BY <1>3, <1>7, <2>1, Zenon
  <2> HIDE DEF Goal
  <2> QED
    BY <2>2
<1>8. CASE r = "Ok" /\ e = HugeFrame
  <2>1. translate_addr(page) = HugeFrame
    <3>1. Walk(t, page)[Levels] = HugeFrame
      BY <1>0, <1>6, <1>8, WalkStops
    <3> QED
      BY <1>0, <1>1, <3>1
  <2>2. DescentSound(page, n, k, "ParentEntryHugePage", at, t, m)
    BY <1>1, <1>8, <2>1 DEF DescentSound
  <2>3. Goal(NextTable(s, i), "ParentEntryHugePage", at, t, m)
    BY <1>3, <1>8, <2>2, Zenon
  <2> HIDE DEF Goal
  <2> QED
    BY <2>3
<1>9. CASE r = "Ok" /\ e # HugeFrame /\ e # NotPresent
  <2>1. e \in DOMAIN t
    BY <1>0, <1>4, <1>6, <1>9, WalkTyped
  <2>2. DescentSound(page, n, k, r, e, t, m)
    BY <1>1, <1>6, <1>9, <2>1 DEF DescentSound
  <2>3. Goal(NextTable(s, i), r, e, t, m)
    BY <1>3, <1>9, <2>2, Zenon
  <2> HIDE DEF Goal
  <2> QED
    BY <2>3
<1>10. CASE r = "Ok" /\ e = NotPresent /\ ~HasFrame(m)
  <2>1. m >= Len(UsableFrames) /\ m <= Len(UsableFrames)
    BY <1>1, <1>2, <1>10 DEF HasFrame
  <2>2. m + 1 = Len(UsableFrames) + 1 /\ m + 1 \in Nat /\ n <= m + 1
        /\ Handed(n, m + 1) = Handed(n, m)
    BY <1>1, <1>2, <2>1, HandedFacts
  <2>3. DescentSound(page, n, k, "FrameAllocationFailed", at, t, m + 1)
    BY <1>1, <2>2 DEF DescentSound
  <2>4. NextTable(s, i) =
          [result |-> "FrameAllocationFailed", at |-> at, tables |-> t, next |-> m + 1]
    BY <1>0, <1>3, <1>10, Zenon
  <2>5. Goal(NextTable(s, i), "FrameAllocationFailed", at, t, m + 1)
    BY <2>3, <2>4
  <2> HIDE DEF Goal
  <2> QED
    BY <2>5
<1>11. CASE r = "Ok" /\ e = NotPresent /\ HasFrame(m)
  <2> DEFINE u == AddTable(t, at, i, nth(m))
  <2>1. m < Len(UsableFrames)
    BY <1>11 DEF HasFrame
  <2>2. /\ nth(m) \in Frames /\ nth(m) \notin Handed(0, m) /\ nth(m) \notin DOMAIN machine.tables
        /\ Handed(n, m + 1) = Handed(n, m) \union {nth(m)}
        /\ Handed(0, m) = Handed(0, n) \union Handed(n, m)
    BY <1>1, <1>2, <2>1, HandedFacts
  <2>3. nth(m) \in Frames \ DOMAIN t
    BY <1>1, <2>2
  <2>4. /\ TablesSound(u) /\ DOMAIN u = DOMAIN t \union {nth(m)} /\ Walk(u, page)[k] = nth(m)
        /\ \A q \in Pages : Walk(u, q)[Levels] = Walk(t, q)[Levels]
    <3>1. /\ at \in DOMAIN t /\ at = Walk(t, page)[k - 1] /\ TablesSound(t)
          /\ t[at][TableIndex(page, k)] = NotPresent /\ u = AddTable(t, at, TableIndex(page, k), nth(m))
      BY <1>1, <1>11 DEF e, i
    <3> HIDE DEF u
    <3>2. Grown(t, page, k, nth(m), u)
      BY <2>3, <3>1, AddTableSound
    <3> QED
      BY <3>2 DEF Grown
  <2> HIDE DEF u
  <2>5. DOMAIN u = DOMAIN tables \union Handed(n, m + 1)
    BY <1>1, <2>2, <2>4
  <2>6. m + 1 \in Nat /\ n <= m + 1 /\ m + 1 <= Len(UsableFrames)
    BY <1>1, <1>2, <2>1
  <2>7. DescentSound(page, n, k, "Ok", nth(m), u, m + 1)
    BY <1>1, <2>4, <2>5, <2>6 DEF DescentSound
  <2>8. NextTable(s, i) = [result |-> "Ok", at |-> nth(m), tables |-> u, next |-> m + 1]
    <3>1. NextTable(s, i) = [result |-> "Ok", at |-> nth(m), next |-> m + 1, tables |-> u]
      BY <1>0, <1>3, <1>11, Zenon DEF u
    <3> QED
      BY <3>1
  <2>9. Goal(NextTable(s, i), "Ok", nth(m), u, m + 1)
    BY <2>7, <2>8
  <2> HIDE DEF Goal
  <2> QED
    BY <2>9
<1> QED
  BY <1>7, <1>8, <1>9, <1>10, <1>11

(* map_to reaches the last table of the page, or fails.                    *)
LEMMA DescentEnd ==
  ASSUME machine \in Machines, TablesSound(tables), NEW n \in 0 .. Len(UsableFrames),
         DOMAIN tables \subseteq DOMAIN machine.tables \union Handed(0, n),
         NEW page \in HeapPages
  PROVE  Descended(Descend(page, n)[Levels - 1], page, n, Levels - 1)
<1> DEFINE S == {k \in 0 .. Levels - 1 : Descended(Descend(page, n)[k], page, n, k)}
<1>0. Levels - 1 \in Nat /\ Levels \in Nat /\ Levels - 1 \in 0 .. Levels - 1
  BY MemNumbers
<1>1. 0 \in S
  <2>1. DescentSound(page, n, 0, "Ok", Root, tables, n)
    BY DescentStart
  <2>2. Descended(Descend(page, n)[0], page, n, 0)
    BY <2>1, DescendFacts DEF Descended
  <2> QED
    BY <1>0, <2>2
<1>2. ASSUME NEW k \in 0 .. (Levels - 1) - 1, k \in S PROVE k + 1 \in S
  <2>1. k + 1 \in 1 .. Levels - 1 /\ (k + 1) - 1 = k /\ k + 1 \in 0 .. Levels - 1
    BY <1>0
  <2>2. Descend(page, n)[k + 1] =
          NextTable(Descend(page, n)[(k + 1) - 1], TableIndex(page, k + 1))
    BY <2>1, DescendFacts, Zenon
  <2>3. Descended(Descend(page, n)[(k + 1) - 1], page, n, (k + 1) - 1)
    BY <1>2, <2>1, Zenon
  <2>4. Descended(Descend(page, n)[k + 1], page, n, k + 1)
    BY <2>1, <2>2, <2>3, DescentStep
  <2> QED
    BY <2>1, <2>4
<1>3. Levels - 1 \in S
  <2> HIDE DEF S
  <2>1. \A k \in 0 .. Levels - 1 : k \in S
    BY <1>0, <1>1, <1>2, UpTo
  <2> QED
    BY <1>0, <2>1
<1> QED
  BY <1>3

(* map_to of a heap page: it maps the page or no page, and the frames that *)
(* it took are tables now.                                                 *)
LEMMA MapToSound ==
  ASSUME machine \in Machines, TablesSound(tables), NEW n \in 0 .. Len(UsableFrames),
         DOMAIN tables \subseteq DOMAIN machine.tables \union Handed(0, n),
         NEW page \in HeapPages, NEW frame \in Frames, NEW x, x = MapTo(page, frame, n)
  PROVE  /\ TablesSound(x.tables) /\ x.next \in Nat /\ n <= x.next
         /\ DOMAIN x.tables = DOMAIN tables \union Handed(n, x.next)
         /\ x.result = "Ok" =>
              /\ x.next <= Len(UsableFrames) /\ Walk(x.tables, page)[Levels] = frame
              /\ \A q \in Pages : q # page => Walk(x.tables, q)[Levels] = translate_addr(q)
         /\ x.result # "Ok" =>
              /\ translate_addr(page) # NotPresent \/ x.next = Len(UsableFrames) + 1
              /\ \A q \in Pages : Walk(x.tables, q)[Levels] = translate_addr(q)
<1>1. PICK r, at, t, m :
           /\ Descend(page, n)[Levels - 1] = [result |-> r, at |-> at, tables |-> t, next |-> m]
           /\ DescentSound(page, n, Levels - 1, r, at, t, m)
  BY DescentEnd DEF Descended
<1> DEFINE leaf == [result |-> r, at |-> at, tables |-> t, next |-> m]
           i == TableIndex(page, Levels)
           u == WithEntry(t, at, i, frame)
<1>2. x = IF r # "Ok" THEN leaf
          ELSE IF t[at][i] # NotPresent
            THEN [result |-> "PageAlreadyMapped", at |-> at, tables |-> t, next |-> m]
            ELSE [result |-> r, at |-> at, tables |-> u, next |-> m]
  <2>1. Descend(page, n)[Levels - 1] = leaf
    BY <1>1
  <2>2. leaf.result = r /\ leaf.at = at /\ leaf.tables = t /\ leaf.next = m
    OBVIOUS
  <2>3. [leaf EXCEPT !.result = "PageAlreadyMapped"] =
          [result |-> "PageAlreadyMapped", at |-> at, tables |-> t, next |-> m]
    OBVIOUS
  <2>4. [leaf EXCEPT !.tables[at][i] = frame] =
          [result |-> r, at |-> at, tables |-> u, next |-> m]
    BY DEF WithEntry
  <2> HIDE DEF leaf
  <2>5. x = IF leaf.result # "Ok" THEN leaf
            ELSE IF leaf.tables[leaf.at][i] # NotPresent
              THEN [leaf EXCEPT !.result = "PageAlreadyMapped"]
              ELSE [leaf EXCEPT !.tables[leaf.at][i] = frame]
    BY <2>1, Zenon DEF MapTo
  <2> QED
    BY <2>2, <2>3, <2>4, <2>5, Zenon
<1>3. /\ r \in {"Ok", "ParentEntryHugePage", "FrameAllocationFailed"}
      /\ m \in Nat /\ n <= m
      /\ IF r = "FrameAllocationFailed" THEN m = Len(UsableFrames) + 1
         ELSE m <= Len(UsableFrames)
      /\ TablesSound(t) /\ DOMAIN t = DOMAIN tables \union Handed(n, m)
      /\ \A q \in Pages : Walk(t, q)[Levels] = translate_addr(q)
      /\ r = "Ok" => at = Walk(t, page)[Levels - 1] /\ at \in DOMAIN t
      /\ r = "ParentEntryHugePage" => translate_addr(page) = HugeFrame
  BY <1>1 DEF DescentSound
<1>4. /\ page \in Pages /\ NotPresent # HugeFrame /\ Levels \in 1 .. Levels
  BY MemNumbers
<1> HIDE DEF i
<1>5. CASE r # "Ok"
  <2>1. x.result = r /\ x.tables = t /\ x.next = m
    BY <1>2, <1>5
  <2> QED
    BY <1>3, <1>4, <1>5, <2>1
<1>6. CASE r = "Ok" /\ t[at][i] # NotPresent
  <2>1. x.result = "PageAlreadyMapped" /\ x.tables = t /\ x.next = m
    BY <1>2, <1>6
  <2>2. Walk(t, page)[Levels] = t[at][i]
    <3>1. at \in Frames
      BY <1>3, <1>6 DEF TablesSound, Hierarchy
    <3> QED
      BY <1>3, <1>4, <1>6, <3>1, WalkFacts DEF i
  <2> QED
    BY <1>3, <1>4, <1>6, <2>1, <2>2
<1>7. CASE r = "Ok" /\ t[at][i] = NotPresent
  <2>1. x.result = "Ok" /\ x.tables = u /\ x.next = m
    BY <1>2, <1>7
  <2>2. /\ TablesSound(u) /\ DOMAIN u = DOMAIN t
        /\ Walk(u, page)[Levels] = frame
        /\ \A q \in Pages : q # page => Walk(u, q)[Levels] = Walk(t, q)[Levels]
    BY <1>3, <1>7, LeafSound DEF i
  <2> HIDE DEF u
  <2> QED
    BY <1>3, <1>7, <2>1, <2>2
<1> QED
  BY <1>5, <1>6, <1>7

(* What kernel_main does once the heap is there.                           *)
AfterHeap == {"scan", "create_device", "self_test", "mount", "recreate_device", "format",
              "files", "run"}

(* The inductive invariant of Memory.                                      *)
MemControl ==
  /\ machine \in Machines /\ next \in Nat /\ done \in Nat /\ inits \in 0 .. HEAP_PAGES
  /\ pc \in {"init_heap", "panicked"} \union AfterHeap
  /\ IsFiniteSet(dma) /\ IsFiniteSet(leaked)
  /\ pc \in AfterHeap => inits = HEAP_PAGES
  /\ pc = "init_heap" => inits = done /\ done < HEAP_PAGES
  /\ pc \in {"init_heap", "scan"} => dma = {} /\ leaked = {}
  /\ pc \in {"scan", "self_test", "mount"} => done = 0
  /\ pc \in {"create_device", "recreate_device"} =>
       done < Len(machine.dma) /\ Cardinality(dma) = done
  /\ pc = "create_device" => leaked = {}
  /\ pc = "recreate_device" => Cardinality(leaked) = Len(machine.dma)
  /\ pc \in {"self_test", "mount"} => Cardinality(dma) = Len(machine.dma) /\ leaked = {}

FramesSound ==
  /\ UsedFrames \subseteq Handed(0, next)
  /\ HeapFrames \intersect NewTables = {} /\ HeapFrames \intersect (dma \union leaked) = {}
  /\ NewTables \intersect (dma \union leaked) = {} /\ dma \intersect leaked = {}
  /\ \A p, q \in Mapped : translate_addr(p) = translate_addr(q) => p = q
  /\ pc # "panicked" => next <= Len(UsableFrames) /\ Handed(0, next) \subseteq UsedFrames

MemInv == MemControl /\ TablesSound(tables) /\ FramesSound /\ MappingsKept

-----------------------------------------------------------------------------
(* Frames handed out earlier and later differ; none is a boot table.       *)
LEMMA HandedApart ==
  ASSUME machine \in Machines, NEW lo \in Nat, NEW hi \in Nat
  PROVE  /\ Handed(0, lo) \intersect Handed(lo, hi) = {}
         /\ Handed(0, hi) \intersect DOMAIN machine.tables = {}
         /\ Handed(0, hi) \subseteq ToSet(UsableFrames)
<1>1. /\ Len(UsableFrames) \in Nat /\ DOMAIN UsableFrames = 1 .. Len(UsableFrames)
      /\ \A a \in DOMAIN UsableFrames :
           UsableFrames[a] \in Frames /\ UsableFrames[a] \notin DOMAIN machine.tables
      /\ \A a, b \in DOMAIN UsableFrames : UsableFrames[a] = UsableFrames[b] => a = b
  BY UsableFramesFacts
<1>2. Handed(0, lo) \intersect Handed(lo, hi) = {}
  BY <1>1 DEF Handed
<1> QED
  BY <1>1, <1>2 DEF Handed, ToSet

(* The heap pages that are mapped, by the turns of init_heap.              *)
LEMMA MappedFacts ==
  ASSUME inits \in 0 .. HEAP_PAGES
  PROVE  /\ Mapped = HEAP_PAGE .. HEAP_PAGE + inits - 1 /\ Mapped \subseteq HeapPages
         /\ inits = HEAP_PAGES => Mapped = HeapPages
         /\ IsFiniteSet(Mapped) /\ Cardinality(Mapped) = inits
<1>1. HEAP_PAGE \in Nat /\ HEAP_PAGES \in Nat \ {0} /\ inits \in Nat
  BY MemNumbers
<1>2. /\ Mapped = HEAP_PAGE .. HEAP_PAGE + inits - 1 /\ Mapped \subseteq HeapPages
      /\ inits = HEAP_PAGES => Mapped = HeapPages
  BY <1>1 DEF Mapped, HeapPages
<1>3. IsFiniteSet(Mapped) /\ Cardinality(Mapped) = inits
  <2>1. HEAP_PAGE \in Int /\ HEAP_PAGE + inits - 1 \in Int
    BY <1>1
  <2>2. /\ IsFiniteSet(HEAP_PAGE .. HEAP_PAGE + inits - 1)
        /\ Cardinality(HEAP_PAGE .. HEAP_PAGE + inits - 1) =
             IF HEAP_PAGE > HEAP_PAGE + inits - 1 THEN 0
             ELSE (HEAP_PAGE + inits - 1) - HEAP_PAGE + 1
    BY <2>1, FS_Interval
  <2> QED
    BY <1>1, <1>2, <2>2
<1> QED
  BY <1>2, <1>3

(* Tables are created only where the boot loader's walk ends.              *)
LEMMA MissingBound ==
  ASSUME machine \in Machines, NEW t, TablesSound(t),
         NEW new, new = DOMAIN t \ DOMAIN machine.tables
  PROVE  /\ IsFiniteSet(MissingTables) /\ IsFiniteSet(new)
         /\ Cardinality(new) \in Nat /\ Cardinality(MissingTables) \in Nat
         /\ Cardinality(new) <= Cardinality(MissingTables)
<1> DEFINE key(k, q) == <<k, q \div PagesUnder[Levels - k]>>
           Stops(k, q) == Walk(machine.tables, q)[k] = NotPresent
<1>0. /\ Levels \in Nat /\ HeapPages \subseteq Nat /\ HEAP_PAGE \in Nat /\ HEAP_PAGES \in Nat
      /\ 1 .. Levels - 1 \subseteq 1 .. Levels /\ 1 .. Levels - 1 \subseteq 0 .. Levels
  BY MemNumbers
<1>1. \A x : x \in MissingTables <=>
        \E k \in 1 .. Levels - 1 : \E q \in HeapPages : Stops(k, q) /\ x = key(k, q)
  BY DEF MissingTables
<1>2. IsFiniteSet(MissingTables)
  <2> DEFINE top == HEAP_PAGE + HEAP_PAGES
             B == (1 .. Levels) \X (0 .. top)
  <2>1. IsFiniteSet(B)
    <3>1. IsFiniteSet(1 .. Levels) /\ IsFiniteSet(0 .. top)
      BY <1>0, FS_Interval
    <3> HIDE DEF top
    <3> QED
      BY <3>1, FS_Product
  <2>2. ASSUME NEW k \in 1 .. Levels - 1, NEW q \in HeapPages PROVE key(k, q) \in B
    <3>1. PagesUnder[Levels - k] \in Nat \ {0}
      <4>1. Levels - k \in 0 .. Levels
        BY <1>0
      <4> QED
        BY <4>1, PagesUnderFacts
    <3>2. q \in Nat /\ q <= top
      BY <1>0 DEF HeapPages
    <3>3. q \div PagesUnder[Levels - k] \in Nat /\ q \div PagesUnder[Levels - k] <= q
      BY <3>1, <3>2, DivModFacts
    <3>4. q \div PagesUnder[Levels - k] \in 0 .. top
      BY <1>0, <3>2, <3>3
    <3> QED
      BY <1>0, <3>4
  <2> HIDE DEF B, key
  <2>3. MissingTables \in SUBSET B
    BY <1>1, <2>2
  <2> QED
    BY <2>1, <2>3, FS_Subset
<1> DEFINE Names(f, x) ==
             \E k \in 1 .. Levels - 1 : \E q \in HeapPages :
               x = key(k, q) /\ Stops(k, q) /\ Walk(t, q)[k] = f
           g == [f \in new |-> CHOOSE x : Names(f, x)]
<1>3. ASSUME NEW f \in new PROVE Names(f, g[f])
  <2>1. PICK q \in HeapPages, k \in 1 .. Levels - 1 :
          Walk(t, q)[k] = f /\ Walk(machine.tables, q)[k] = NotPresent
    BY DEF TablesSound
  <2>2. Names(f, key(k, q))
    BY <2>1
  <2>3. \E x : Names(f, x)
    <3> HIDE DEF Names, key
    <3> QED
      BY <2>2
  <2> HIDE DEF Names
  <2> QED
    BY <2>3
<1>4. \A f \in new : g[f] \in MissingTables
  <2> HIDE DEF g, key, Stops
  <2> QED
    BY <1>1, <1>3
<1>5. ASSUME NEW f1 \in new, NEW f2 \in new, g[f1] = g[f2]
      PROVE  f1 = f2
  <2>1. PICK k1 \in 1 .. Levels - 1, q1 \in HeapPages :
          g[f1] = key(k1, q1) /\ Walk(t, q1)[k1] = f1
    BY <1>3
  <2>2. PICK k2 \in 1 .. Levels - 1, q2 \in HeapPages :
          g[f2] = key(k2, q2) /\ Walk(t, q2)[k2] = f2
    BY <1>3
  <2> HIDE DEF g
  <2>3. k1 = k2 /\ q1 \div PagesUnder[Levels - k1] = q2 \div PagesUnder[Levels - k1]
    <3> DEFINE a1 == q1 \div PagesUnder[Levels - k1]
               a2 == q2 \div PagesUnder[Levels - k2]
    <3>1. <<k1, a1>> = <<k2, a2>>
      BY <1>5, <2>1, <2>2, Zenon
    <3> HIDE DEF a1, a2
    <3>2. k1 = k2 /\ a1 = a2
      BY <3>1
    <3> QED
      BY <3>2, Zenon DEF a1, a2
  <2>4. k1 \in 0 .. Levels /\ q1 \in Nat /\ q2 \in Nat
    BY <1>0
  <2>5. \A i \in 1 .. k1 : TableIndex(q1, i) = TableIndex(q2, i)
    BY <2>3, <2>4, SamePrefix
  <2>6. \A i \in 0 .. k1 : Walk(t, q1)[i] = Walk(t, q2)[i]
    BY <2>4, <2>5, SameWalk
  <2>7. k1 \in 0 .. k1
    BY <1>0
  <2> QED
    BY <2>1, <2>2, <2>3, <2>6, <2>7
<1>6. g \in Injection(new, MissingTables)
  <2> HIDE DEF Names
  <2>1. g \in [new -> MissingTables]
    BY <1>4
  <2> QED
    BY <1>5, <2>1 DEF Injection, IsInjective
<1>7. IsFiniteSet(new) /\ Cardinality(new) <= Cardinality(MissingTables)
  BY <1>2, <1>6, FS_Injection
<1> QED
  BY <1>2, <1>7, FS_CardinalityType

(* As many frames are handed out as allocate_frame counted.                *)
LEMMA HandedCardinality ==
  ASSUME machine \in Machines, NEW n \in 0 .. Len(UsableFrames)
  PROVE  Cardinality(Handed(0, n)) = n
<1>1. /\ Len(UsableFrames) \in Nat /\ DOMAIN UsableFrames = 1 .. Len(UsableFrames)
      /\ \A a, b \in DOMAIN UsableFrames : UsableFrames[a] = UsableFrames[b] => a = b
  BY UsableFramesFacts
<1> DEFINE g == [j \in 1 .. n |-> UsableFrames[j]]
<1>2. /\ n \in Nat /\ 1 .. n \subseteq DOMAIN UsableFrames
      /\ (0 + 1 .. n) \intersect DOMAIN UsableFrames = 1 .. n
  BY <1>1
<1>3. Handed(0, n) = {UsableFrames[j] : j \in 1 .. n}
  BY <1>2 DEF Handed
<1>4. g \in Bijection(1 .. n, Handed(0, n))
  <2>1. g \in [1 .. n -> Handed(0, n)]
    BY <1>3
  <2>2. \A a, b \in 1 .. n : g[a] = g[b] => a = b
    BY <1>1, <1>2
  <2>3. \A f \in Handed(0, n) : \E a \in 1 .. n : g[a] = f
    BY <1>3
  <2> QED
    BY <2>1, <2>2, <2>3 DEF Bijection, Injection, Surjection, IsInjective
<1> QED
  BY <1>2, <1>4, FS_CountingElements DEF ExistsBijection

(* The invariant counts the frames.                                        *)
LEMMA MemInvCounts ==
  ASSUME MemInv
  PROVE  /\ FramesExclusive
         /\ Cardinality(dma) \in Nat /\ Cardinality(leaked) \in Nat
         /\ pc # "panicked" => next = inits + Cardinality(NewTables) + Cardinality(dma)
                                        + Cardinality(leaked)
<1>1. /\ machine \in Machines /\ next \in Nat /\ inits \in 0 .. HEAP_PAGES
      /\ IsFiniteSet(dma) /\ IsFiniteSet(leaked) /\ TablesSound(tables)
  BY DEF MemInv, MemControl
<1>2. /\ UsedFrames \subseteq Handed(0, next)
      /\ HeapFrames \intersect NewTables = {} /\ HeapFrames \intersect (dma \union leaked) = {}
      /\ NewTables \intersect (dma \union leaked) = {} /\ dma \intersect leaked = {}
      /\ \A p, q \in Mapped : translate_addr(p) = translate_addr(q) => p = q
      /\ pc # "panicked" => next <= Len(UsableFrames) /\ Handed(0, next) \subseteq UsedFrames
  BY DEF MemInv, FramesSound
<1>3. IsFiniteSet(NewTables) /\ IsFiniteSet(Mapped) /\ Cardinality(Mapped) = inits
  BY <1>1, MissingBound, MappedFacts DEF NewTables
<1>4. IsFiniteSet(HeapFrames) /\ Cardinality(HeapFrames) = Cardinality(Mapped)
  <2> DEFINE g == [p \in Mapped |-> translate_addr(p)]
  <2>1. g \in [Mapped -> HeapFrames]
    BY DEF HeapFrames
  <2>2. g \in Bijection(Mapped, HeapFrames)
    <3>1. \A p, q \in Mapped : g[p] = g[q] => p = q
      BY <1>2
    <3>2. \A f \in HeapFrames : \E p \in Mapped : g[p] = f
      BY DEF HeapFrames
    <3> HIDE DEF g
    <3> QED
      BY <2>1, <3>1, <3>2 DEF Bijection, Injection, Surjection, IsInjective
  <2>3. ExistsBijection(Mapped, HeapFrames)
    BY <2>2 DEF ExistsBijection
  <2> QED
    BY <1>3, <2>3, FS_Bijection
<1>5. /\ IsFiniteSet(UsedFrames)
      /\ Cardinality(UsedFrames) = Cardinality(Mapped) + Cardinality(NewTables)
                                     + Cardinality(dma) + Cardinality(leaked)
  <2>1. \A S, T : IsFiniteSet(S) /\ IsFiniteSet(T) /\ S \intersect T = {} =>
          IsFiniteSet(S \union T) /\ Cardinality(S \union T) = Cardinality(S) + Cardinality(T)
    <3> TAKE S, T
    <3> HAVE IsFiniteSet(S) /\ IsFiniteSet(T) /\ S \intersect T = {}
    <3>1. /\ IsFiniteSet(S \union T) /\ Cardinality(S) \in Nat /\ Cardinality(T) \in Nat
          /\ Cardinality(S \union T) =
               Cardinality(S) + Cardinality(T) - Cardinality(S \intersect T)
      BY FS_Union, FS_CardinalityType
    <3>2. Cardinality(S \intersect T) = 0
      BY FS_EmptySet
    <3> QED
      BY <3>1, <3>2
  <2>2. /\ IsFiniteSet(dma \union leaked)
        /\ Cardinality(dma \union leaked) = Cardinality(dma) + Cardinality(leaked)
    BY <1>1, <1>2, <2>1
  <2>3. /\ IsFiniteSet(NewTables \union (dma \union leaked))
        /\ Cardinality(NewTables \union (dma \union leaked)) =
             Cardinality(NewTables) + Cardinality(dma \union leaked)
    BY <1>2, <1>3, <2>1, <2>2
  <2>4. HeapFrames \intersect (NewTables \union (dma \union leaked)) = {}
    BY <1>2
  <2>5. /\ IsFiniteSet(HeapFrames \union (NewTables \union (dma \union leaked)))
        /\ Cardinality(HeapFrames \union (NewTables \union (dma \union leaked))) =
             Cardinality(HeapFrames) + Cardinality(NewTables \union (dma \union leaked))
    BY <1>4, <2>1, <2>3, <2>4
  <2>6. UsedFrames = HeapFrames \union (NewTables \union (dma \union leaked))
    BY DEF UsedFrames
  <2>7. /\ Cardinality(HeapFrames) \in Nat /\ Cardinality(NewTables) \in Nat
        /\ Cardinality(dma) \in Nat /\ Cardinality(leaked) \in Nat
    BY <1>1, <1>3, <1>4, FS_CardinalityType
  <2> QED
    BY <1>4, <2>2, <2>3, <2>5, <2>6, <2>7
<1>6. UsedFrames \subseteq ToSet(UsableFrames)
  BY <1>1, <1>2, HandedApart
<1>7. pc # "panicked" => next = Cardinality(UsedFrames)
  <2> SUFFICES ASSUME pc # "panicked" PROVE next = Cardinality(UsedFrames)
    OBVIOUS
  <2>1. UsedFrames = Handed(0, next)
    BY <1>2
  <2>2. next \in 0 .. Len(UsableFrames)
    BY <1>1, <1>2, UsableFramesFacts
  <2> QED
    BY <1>1, <2>1, <2>2, HandedCardinality
<1>8. Cardinality(dma) \in Nat /\ Cardinality(leaked) \in Nat
  BY <1>1, FS_CardinalityType
<1> QED
  BY <1>3, <1>5, <1>6, <1>7, <1>8 DEF FramesExclusive

(* The boot loader's tables satisfy the invariant.                         *)
LEMMA MemInvInit == MemInit => MemInv
<1> SUFFICES ASSUME MemInit PROVE MemInv
  OBVIOUS
<1>1. /\ machine \in Machines /\ next = 0 /\ tables = machine.tables /\ pc = "init_heap"
      /\ done = 0 /\ inits = 0 /\ dma = {} /\ leaked = {}
      /\ HEAP_PAGES \in Nat \ {0}
  BY MemNumbers DEF MemInit
<1>2. MemControl
  BY <1>1, FS_EmptySet DEF MemControl, AfterHeap
<1>3. TablesSound(tables)
  <2>1. \E level : Hierarchy(tables, level)
    BY <1>1, MachineAssumption
  <2> QED
    BY <1>1, <2>1 DEF TablesSound
<1>4. Mapped = {}
  <2>1. inits \in 0 .. HEAP_PAGES
    BY <1>1
  <2>2. Mapped = HEAP_PAGE .. HEAP_PAGE + inits - 1
    BY <2>1, MappedFacts
  <2> QED
    BY <1>1, <2>2, MemNumbers
<1>5. FramesSound
  <2>1. HeapFrames = {} /\ NewTables = {}
    BY <1>1, <1>4 DEF HeapFrames, NewTables
  <2>2. Handed(0, next) = {} /\ next <= Len(UsableFrames)
    BY <1>1, UsableFramesFacts, HandedFacts
  <2> QED
    BY <1>1, <1>4, <2>1, <2>2 DEF FramesSound, UsedFrames
<1>6. MappingsKept
  BY <1>1, <1>4 DEF MappingsKept, translate_addr, BootWalk
<1> QED
  BY <1>2, <1>3, <1>5, <1>6 DEF MemInv

(* Definitions over a machine that does not change.                        *)
LEMMA SameMachine ==
  ASSUME machine' = machine
  PROVE  /\ UsableFrames' = UsableFrames /\ FramesNeeded' = FramesNeeded
         /\ \A lo, hi : Handed(lo, hi)' = Handed(lo, hi)
         /\ \A t : TablesSound(t)' <=> TablesSound(t)
         /\ \A p : BootWalk(p)' = BootWalk(p)
<1>1. UsableFrames' = UsableFrames
  BY DEF UsableFrames
<1>2. \A lo, hi : Handed(lo, hi)' = Handed(lo, hi)
  BY <1>1 DEF Handed
<1>3. \A t : TablesSound(t)' <=> TablesSound(t)
  BY DEF TablesSound
<1>4. FramesNeeded' = FramesNeeded /\ \A p : BootWalk(p)' = BootWalk(p)
  BY DEF FramesNeeded, MissingTables, BootWalk
<1> QED
  BY <1>1, <1>2, <1>3, <1>4

(* Steps that leave the tables and the heap alone.                         *)
LEMMA SameTables ==
  ASSUME machine' = machine, tables' = tables, inits' = inits
  PROVE  /\ TablesSound(tables)' <=> TablesSound(tables)
         /\ MappingsKept' <=> MappingsKept
         /\ Mapped' = Mapped /\ HeapFrames' = HeapFrames /\ NewTables' = NewTables
         /\ \A p : translate_addr(p)' = translate_addr(p)
<1>1. /\ Mapped' = Mapped /\ HeapFrames' = HeapFrames /\ NewTables' = NewTables
      /\ \A p : translate_addr(p)' = translate_addr(p)
  BY DEF Mapped, HeapFrames, NewTables, translate_addr
<1>2. MappingsKept' <=> MappingsKept
  BY <1>1, SameMachine DEF MappingsKept
<1>3. TablesSound(tables)' <=> TablesSound(tables)
  BY DEF TablesSound
<1> QED
  BY <1>1, <1>2, <1>3

(* A panic keeps what was handed out.                                      *)
LEMMA PanicKeeps ==
  ASSUME MemInv, Panic, tables' = tables, next' \in {next, next + 1}
  PROVE  MemInv'
<1>1. /\ machine' = machine /\ inits' = inits /\ done' = done /\ dma' = dma /\ leaked' = leaked
      /\ pc' = "panicked"
  BY DEF Panic
<1>2. MemControl /\ TablesSound(tables) /\ FramesSound /\ MappingsKept
  BY DEF MemInv
<1>3. MemControl'
  BY <1>1, <1>2 DEF MemControl, AfterHeap
<1>4. FramesSound'
  <2>1. next \in Nat /\ machine \in Machines
    BY <1>2 DEF MemControl
  <2>2. Handed(0, next) \subseteq Handed(0, next')
    <3>1. next + 1 \in Nat /\ next <= next + 1
      BY <2>1
    <3>2. Handed(0, next + 1) = Handed(0, next) \union Handed(next, next + 1)
      BY <2>1, <3>1, HandedFacts
    <3> QED
      BY <3>2
  <2>3. Handed(0, next)' = Handed(0, next')
    BY <1>1 DEF Handed, UsableFrames
  <2>4. UsedFrames' = UsedFrames
    BY <1>1, SameTables DEF UsedFrames
  <2> QED
    BY <1>1, <1>2, <2>2, <2>3, <2>4, SameTables DEF FramesSound
<1> QED
  BY <1>1, <1>2, <1>3, <1>4, SameTables DEF MemInv

(* A turn of init_heap keeps the invariant.                                *)
LEMMA InitHeapKeeps ==
  ASSUME MemInv, InitHeapPage
  PROVE  /\ MemInv'
         /\ pc' = "panicked" => \/ Len(UsableFrames) < FramesNeeded
                                \/ \E page \in HeapPages : BootWalk(page) # NotPresent
<1>0. PICK page : page = HEAP_PAGE + done
  OBVIOUS
<1> DEFINE x == MapTo(page, nth(next), next + 1)
<1>1. MemControl /\ TablesSound(tables) /\ FramesSound /\ MappingsKept
  BY DEF MemInv
<1>2. /\ machine \in Machines /\ next \in Nat /\ done \in Nat /\ inits = done
      /\ done < HEAP_PAGES /\ inits \in 0 .. HEAP_PAGES /\ dma = {} /\ leaked = {}
      /\ pc = "init_heap"
  BY <1>1 DEF MemControl, InitHeapPage
<1>3. /\ page \in HeapPages /\ page \notin Mapped /\ HEAP_PAGE \in Nat /\ HEAP_PAGES \in Nat
      /\ Mapped \union {page} = HEAP_PAGE .. HEAP_PAGE + done
      /\ Mapped \subseteq HeapPages /\ HeapPages \subseteq Pages
  BY <1>0, <1>2, MappedFacts, MemNumbers DEF HeapPages
<1>4. BootWalk(page) = translate_addr(page)
  BY <1>1, <1>3 DEF MappingsKept
<1>5. /\ next = done + Cardinality(NewTables) /\ next <= Len(UsableFrames)
      /\ Len(UsableFrames) \in Nat
      /\ Cardinality(NewTables) \in Nat /\ Cardinality(MissingTables) \in Nat
      /\ Cardinality(NewTables) <= Cardinality(MissingTables)
      /\ FramesNeeded = HEAP_PAGES + Cardinality(MissingTables) + 2 * Len(machine.dma)
      /\ Len(machine.dma) \in Nat \ {0}
  <2>1. Cardinality(dma) = 0 /\ Cardinality(leaked) = 0
    BY <1>2, FS_EmptySet
  <2>2. next = inits + Cardinality(NewTables) + Cardinality(dma) + Cardinality(leaked)
    BY <1>2, MemInvCounts
  <2>3. Len(machine.dma) \in Nat \ {0}
    BY <1>2, MachineAssumption
  <2>4. next <= Len(UsableFrames)
    BY <1>1, <1>2 DEF FramesSound
  <2>5. /\ Cardinality(NewTables) \in Nat /\ Cardinality(MissingTables) \in Nat
        /\ Cardinality(NewTables) <= Cardinality(MissingTables)
    BY <1>1, <1>2, MissingBound DEF NewTables
  <2>6. Len(UsableFrames) \in Nat
    BY <1>2, UsableFramesFacts
  <2> QED
    BY <1>2, <2>1, <2>2, <2>3, <2>4, <2>5, <2>6 DEF FramesNeeded
<1>6. CASE ~HasFrame(next)
  <2>1. Panic /\ tables' = tables /\ next' = next + 1
    BY <1>6 DEF InitHeapPage
  <2>2. Len(UsableFrames) < FramesNeeded
    <3>1. Len(UsableFrames) <= next
      BY <1>2, <1>5, <1>6 DEF HasFrame
    <3> QED
      BY <1>2, <1>3, <1>5, <3>1
  <2> QED
    BY <2>1, <2>2, PanicKeeps
<1>7. CASE HasFrame(next)
  <2>1. /\ tables' = x.tables /\ next' = x.next
        /\ IF x.result # "Ok" THEN Panic
           ELSE /\ inits' = inits + 1
                /\ IF done + 1 = HEAP_PAGES THEN pc' = "scan" /\ done' = 0
                   ELSE pc' = pc /\ done' = done + 1
                /\ UNCHANGED <<machine, dma, leaked>>
    BY <1>0, <1>7 DEF InitHeapPage
  <2> DEFINE n == next + 1
             frame == nth(next)
  <2>2. /\ n \in Nat /\ n \in 0 .. Len(UsableFrames) /\ next < Len(UsableFrames) /\ next <= n
    BY <1>2, <1>5, <1>7 DEF HasFrame
  <2>3. /\ frame \in Frames /\ frame \notin Handed(0, next) /\ frame \notin DOMAIN machine.tables
        /\ Handed(0, n) = Handed(0, next) \union {frame}
    BY <1>2, <2>2, HandedFacts
  <2>4. DOMAIN tables \subseteq DOMAIN machine.tables \union Handed(0, n)
    BY <1>1, <2>3 DEF FramesSound, UsedFrames, NewTables
  <2>5. /\ TablesSound(x.tables) /\ x.next \in Nat /\ n <= x.next
        /\ DOMAIN x.tables = DOMAIN tables \union Handed(n, x.next)
        /\ x.result = "Ok" =>
              /\ x.next <= Len(UsableFrames) /\ Walk(x.tables, page)[Levels] = frame
              /\ \A q \in Pages : q # page => Walk(x.tables, q)[Levels] = translate_addr(q)
        /\ x.result # "Ok" =>
              /\ translate_addr(page) # NotPresent \/ x.next = Len(UsableFrames) + 1
              /\ \A q \in Pages : Walk(x.tables, q)[Levels] = translate_addr(q)
    <3> HIDE DEF n, frame
    <3>1. x = MapTo(page, frame, n)
      BY DEF frame, n
    <3> HIDE DEF x
    <3> QED
      BY <1>1, <1>2, <1>3, <2>2, <2>3, <2>4, <3>1, MapToSound
  <2> HIDE DEF x
  <2>6. machine' = machine /\ dma' = dma /\ leaked' = leaked
    BY <2>1 DEF Panic
  <2>7. /\ TablesSound(tables)'
        /\ \A p : translate_addr(p)' = Walk(x.tables, p)[Levels]
        /\ NewTables' = NewTables \union (Handed(n, x.next) \ DOMAIN machine.tables)
        /\ Handed(0, next)' = Handed(0, x.next)
        /\ UsableFrames' = UsableFrames
        /\ \A p : BootWalk(p)' = BootWalk(p)
    <3>1. TablesSound(tables)'
      BY <2>1, <2>5, <2>6 DEF TablesSound
    <3>2. NewTables' = NewTables \union (Handed(n, x.next) \ DOMAIN machine.tables)
      BY <2>1, <2>5, <2>6 DEF NewTables
    <3> QED
      BY <2>1, <2>6, <3>1, <3>2, SameMachine DEF translate_addr, Handed
  <2> DEFINE H == Handed(n, x.next)
  <2>8. /\ Handed(0, x.next) = Handed(0, next) \union {frame} \union H
        /\ H \intersect Handed(0, next) = {} /\ frame \notin H
        /\ H \intersect DOMAIN machine.tables = {}
    <3>1. Handed(0, x.next) = Handed(0, n) \union H
      BY <1>2, <2>2, <2>5, HandedFacts
    <3>2. Handed(0, n) \intersect H = {}
      BY <1>2, <2>2, <2>5, HandedApart
    <3>3. Handed(0, x.next) \intersect DOMAIN machine.tables = {}
      BY <1>2, <2>2, <2>5, HandedApart
    <3> QED
      BY <2>3, <3>1, <3>2, <3>3
  <2> HIDE DEF H
  <2>9. NewTables' = NewTables \union H
    BY <2>7, <2>8 DEF H
  <2>10. /\ UsedFrames = HeapFrames \union NewTables /\ UsedFrames = Handed(0, next)
         /\ HeapFrames \intersect NewTables = {}
         /\ \A p, q \in Mapped : translate_addr(p) = translate_addr(q) => p = q
    BY <1>1, <1>2 DEF FramesSound, UsedFrames
  <2>11. UsedFrames' = HeapFrames' \union NewTables'
    BY <1>2, <2>6 DEF UsedFrames
  <2> HIDE DEF n, frame
  <2>12. CASE x.result # "Ok"
    <3>1. Panic
      BY <2>1, <2>12
    <3>2. inits' = inits /\ done' = done /\ pc' = "panicked"
      BY <3>1 DEF Panic
    <3>3. \A p \in Pages : translate_addr(p)' = translate_addr(p)
      BY <2>5, <2>7, <2>12
    <3>4. Mapped' = Mapped
      BY <3>2 DEF Mapped
    <3>5. HeapFrames' = HeapFrames
      BY <1>3, <3>3, <3>4 DEF HeapFrames
    <3>6. MappingsKept'
      BY <1>1, <2>7, <3>3, <3>4 DEF MappingsKept
    <3>7. FramesSound'
      BY <1>2, <1>3, <2>6, <2>7, <2>8, <2>9, <2>10, <2>11, <3>2, <3>3, <3>4, <3>5 DEF FramesSound
    <3>8. MemControl'
      BY <1>1, <1>2, <2>1, <2>5, <2>6, <3>2 DEF MemControl, AfterHeap
    <3>9. MemInv'
      BY <2>7, <3>6, <3>7, <3>8 DEF MemInv
    <3>10. ASSUME x.next = Len(UsableFrames) + 1 PROVE Len(UsableFrames) < FramesNeeded
      <4> DEFINE L == Len(UsableFrames)
      <4>1. L \in 0 .. L /\ n \in Nat /\ n = next + 1 /\ n <= L /\ L \in Nat
        BY <1>2, <1>5, <2>2 DEF n
      <4>2. Handed(0, L + 1) = Handed(0, L)
        BY <1>2, <4>1, HandedFacts
      <4>3. Handed(0, L) = Handed(0, n) \union H
        BY <1>2, <4>1, <4>2, <3>10, HandedFacts DEF H
      <4>4. Handed(0, n) \intersect H = {}
        BY <1>2, <2>5, <4>1, HandedApart DEF H
      <4>5. Cardinality(Handed(0, L)) = L /\ Cardinality(Handed(0, n)) = n
        BY <1>2, <2>2, <4>1, HandedCardinality
      <4>6. IsFiniteSet(H) /\ IsFiniteSet(Handed(0, n)) /\ IsFiniteSet(NewTables)
        <5>1. IsFiniteSet(Frames)
          BY MemNumbers, FS_Interval DEF Frames
        <5>2. H \in SUBSET Frames /\ Handed(0, n) \in SUBSET Frames
          BY <1>2, <2>5, <4>1, HandedFacts DEF H
        <5> QED
          BY <1>1, <1>2, <5>1, <5>2, FS_Subset, MissingBound DEF NewTables
      <4>7. /\ Cardinality(H) \in Nat /\ Cardinality(Handed(0, n) \union H) =
                 Cardinality(Handed(0, n)) + Cardinality(H)
        <5>1. Cardinality(Handed(0, n) \union H) =
                Cardinality(Handed(0, n)) + Cardinality(H) - Cardinality(Handed(0, n) \intersect H)
          BY <4>6, FS_Union
        <5>2. Cardinality(Handed(0, n) \intersect H) = 0 /\ Cardinality(H) \in Nat
          BY <4>4, <4>6, FS_EmptySet, FS_CardinalityType
        <5> QED
          BY <4>1, <4>5, <5>1, <5>2
      <4>8. Cardinality(NewTables \union H) = Cardinality(NewTables) + Cardinality(H)
        <5>1. Cardinality(NewTables \union H) =
                Cardinality(NewTables) + Cardinality(H) - Cardinality(NewTables \intersect H)
          BY <4>6, FS_Union
        <5>2. NewTables \intersect H = {}
          BY <2>8, <2>10
        <5>3. Cardinality(NewTables \intersect H) = 0
          BY <5>2, FS_EmptySet
        <5> QED
          BY <1>5, <4>7, <5>1, <5>3
      <4>9. Cardinality(NewTables \union H) <= Cardinality(MissingTables)
        <5>1. NewTables \union H = DOMAIN x.tables \ DOMAIN machine.tables
          BY <2>5, <2>8 DEF NewTables, H
        <5> QED
          BY <1>2, <2>5, <5>1, MissingBound
      <4>10. L = next + 1 + Cardinality(H)
        BY <4>1, <4>3, <4>5, <4>7
      <4>11. Cardinality(NewTables) + Cardinality(H) <= Cardinality(MissingTables)
        BY <4>8, <4>9
      <4> DEFINE N == Cardinality(NewTables)
                 h == Cardinality(H)
                 M == Cardinality(MissingTables)
                 D == Len(machine.dma)
      <4>12. /\ N \in Nat /\ h \in Nat /\ M \in Nat /\ D \in Nat \ {0} /\ L \in Nat
             /\ L = next + 1 + h /\ N + h <= M /\ next = done + N
             /\ FramesNeeded = HEAP_PAGES + M + 2 * D
        BY <1>5, <4>7, <4>10, <4>11
      <4> HIDE DEF N, h, M, D, L
      <4>13. L < FramesNeeded
        BY <1>2, <1>3, <4>12
      <4> QED
        BY <4>13 DEF L
    <3>11. translate_addr(page) # NotPresent => \E p \in HeapPages : BootWalk(p) # NotPresent
      BY <1>3, <1>4
    <3> QED
      BY <2>5, <2>12, <3>9, <3>10, <3>11
  <2>13. CASE x.result = "Ok"
    <3>1. /\ inits' = done + 1
          /\ IF done + 1 = HEAP_PAGES THEN pc' = "scan" /\ done' = 0
             ELSE pc' = "init_heap" /\ done' = done + 1
      BY <1>2, <2>1, <2>13
    <3>2. Mapped' = Mapped \union {page}
      <4>1. Mapped' = HEAP_PAGE .. HEAP_PAGE + done
        BY <1>2, <1>3, <3>1 DEF Mapped, HeapPages
      <4> QED
        BY <1>3, <4>1
    <3>3. /\ translate_addr(page)' = frame
          /\ \A p \in Pages : p # page => translate_addr(p)' = translate_addr(p)
      BY <2>5, <2>7, <2>13
    <3>4. \A p \in Mapped : translate_addr(p)' = translate_addr(p) /\ translate_addr(p) \in HeapFrames
      BY <1>3, <3>3 DEF HeapFrames
    <3>5. HeapFrames' = HeapFrames \union {frame}
      BY <3>2, <3>3, <3>4 DEF HeapFrames
    <3>6. frame \notin HeapFrames \union NewTables /\ frame \in ToSet(UsableFrames)
      <4>1. Handed(0, n) \subseteq ToSet(UsableFrames)
        BY <1>2, <2>2, HandedApart
      <4> QED
        BY <2>3, <2>10, <4>1
    <3>7. MappingsKept'
      BY <1>1, <1>3, <2>7, <3>2, <3>3, <3>6 DEF MappingsKept
    <3>8. FramesSound'
      <4>1. \A p, q \in Mapped \union {page} : translate_addr(p)' = translate_addr(q)' => p = q
        BY <2>10, <3>3, <3>4, <3>6
      <4>2. /\ UsedFrames' = Handed(0, x.next)
            /\ HeapFrames' \intersect NewTables' = {}
        BY <2>8, <2>9, <2>10, <2>11, <3>5, <3>6
      <4>3. next' <= Len(UsableFrames)
        BY <2>1, <2>5, <2>13
      <4> QED
        BY <1>2, <2>6, <2>7, <3>2, <4>1, <4>2, <4>3 DEF FramesSound
    <3>9. MemControl'
      <4>1. inits' \in 0 .. HEAP_PAGES /\ done' \in Nat /\ next' \in Nat
        BY <1>2, <1>3, <2>1, <2>5, <3>1
      <4>2. CASE done + 1 = HEAP_PAGES
        BY <1>1, <1>2, <2>6, <3>1, <4>1, <4>2 DEF MemControl, AfterHeap
      <4>3. CASE done + 1 # HEAP_PAGES
        <5>1. done' < HEAP_PAGES
          BY <1>2, <1>3, <3>1, <4>3
        <5> QED
          BY <1>1, <1>2, <2>6, <3>1, <4>1, <4>3, <5>1 DEF MemControl, AfterHeap
      <4> QED
        BY <4>2, <4>3
    <3>10. pc' # "panicked"
      BY <3>1
    <3> QED
      BY <2>7, <3>7, <3>8, <3>9, <3>10 DEF MemInv
  <2> QED
    BY <2>12, <2>13
<1> QED
  BY <1>6, <1>7

(* Steps that hand out no frame.                                           *)
LEMMA FramesKept ==
  ASSUME FramesSound, pc # "panicked", UNCHANGED <<machine, next, tables, inits>>,
         dma' \union leaked' = dma \union leaked, dma' \intersect leaked' = {}
  PROVE  FramesSound'
<1>1. Handed(0, next)' = Handed(0, next) /\ UsableFrames' = UsableFrames
  BY DEF Handed, UsableFrames
<1>2. /\ Mapped' = Mapped /\ HeapFrames' = HeapFrames /\ NewTables' = NewTables
      /\ \A p : translate_addr(p)' = translate_addr(p)
  BY SameTables
<1>3. UsedFrames' = UsedFrames
  BY <1>2 DEF UsedFrames
<1> QED
  BY <1>1, <1>2, <1>3 DEF FramesSound

(* The driver makes at least one request.                                  *)
LEMMA MachineDma ==
  ASSUME machine \in Machines
  PROVE  Len(machine.dma) \in Nat \ {0} /\ DOMAIN machine.dma = 1 .. Len(machine.dma)
  BY MachineAssumption

(* The search for a device touches no memory.                              *)
LEMMA ScanMemKeeps ==
  ASSUME MemInv, Scan
  PROVE  MemInv'
<1>1. MemControl /\ TablesSound(tables) /\ FramesSound /\ MappingsKept
  BY DEF MemInv
<1>2. /\ pc = "scan" /\ pc' \in {"create_device", "run", "panicked"}
      /\ UNCHANGED <<machine, next, tables, done, inits, dma, leaked>>
  BY DEF Scan
<1>3. inits = HEAP_PAGES /\ dma = {} /\ leaked = {} /\ done = 0 /\ machine \in Machines
  BY <1>1, <1>2 DEF MemControl, AfterHeap
<1>4. MemControl'
  <2>1. done < Len(machine.dma) /\ Cardinality(dma) = 0
    BY <1>3, MachineDma, FS_EmptySet
  <2> QED
    BY <1>1, <1>2, <1>3, <2>1 DEF MemControl, AfterHeap
<1>5. FramesSound'
  BY <1>1, <1>2, <1>3, FramesKept
<1> QED
  BY <1>1, <1>2, <1>4, <1>5, SameTables DEF MemInv

(* Dropping a device moves its frames to the leaked ones.                  *)
LEMMA MountKeeps ==
  ASSUME MemInv, MountDevice
  PROVE  MemInv' /\ pc' # "panicked"
<1>1. MemControl /\ TablesSound(tables) /\ FramesSound /\ MappingsKept
  BY DEF MemInv
<1>2. /\ pc = "mount" /\ UNCHANGED <<machine, next, tables, done, inits>>
      /\ \/ pc' = "files" /\ dma' = dma /\ leaked' = leaked
         \/ pc' = "recreate_device" /\ leaked' = leaked \union dma /\ dma' = {}
  BY DEF MountDevice, KeepDevice, DropDevice
<1>3. /\ inits = HEAP_PAGES /\ leaked = {} /\ done = 0 /\ machine \in Machines
      /\ Cardinality(dma) = Len(machine.dma) /\ IsFiniteSet(dma)
  BY <1>1, <1>2 DEF MemControl, AfterHeap
<1>4. MemControl'
  <2>1. CASE pc' = "files" /\ dma' = dma /\ leaked' = leaked
    BY <1>1, <1>2, <2>1 DEF MemControl, AfterHeap
  <2>2. CASE pc' = "recreate_device" /\ leaked' = leaked \union dma /\ dma' = {}
    <3>1. done < Len(machine.dma) /\ Cardinality({}) = 0 /\ IsFiniteSet({})
      BY <1>3, MachineDma, FS_EmptySet
    <3>2. leaked' = dma
      BY <1>3, <2>2
    <3> QED
      BY <1>1, <1>2, <1>3, <2>2, <3>1, <3>2 DEF MemControl, AfterHeap
  <2> QED
    BY <1>2, <2>1, <2>2
<1>5. FramesSound'
  <2>1. dma' \union leaked' = dma \union leaked /\ dma' \intersect leaked' = {}
    BY <1>1, <1>2 DEF FramesSound
  <2> QED
    BY <1>1, <1>2, <2>1, FramesKept
<1> QED
  BY <1>1, <1>2, <1>4, <1>5, SameTables DEF MemInv

(* Steps that use a device, drop it or give up on it hand out no frame.    *)
LEMMA DeviceKeeps ==
  ASSUME MemInv, DeviceWorks \/ DeviceFails \/ FilesDone
  PROVE  MemInv'
<1>1. MemControl /\ TablesSound(tables) /\ FramesSound /\ MappingsKept
  BY DEF MemInv
<1>2. /\ UNCHANGED <<machine, next, tables, done, inits>>
      /\ \/ pc = "self_test" /\ pc' = "mount" /\ UNCHANGED <<dma, leaked>>
         \/ pc \in AfterHeap /\ pc' \in {"files", "run", "panicked"}
      /\ pc \in AfterHeap /\ pc # "panicked"
      /\ \/ UNCHANGED <<dma, leaked>>
         \/ leaked' = leaked \union dma /\ dma' = {}
  BY DEF DeviceWorks, DeviceFails, FilesDone, KeepDevice, DropDevice, AfterHeap
<1>3. IsFiniteSet(dma') /\ IsFiniteSet(leaked')
  <2>1. IsFiniteSet(dma) /\ IsFiniteSet(leaked) /\ IsFiniteSet({})
    BY <1>1, FS_EmptySet DEF MemControl
  <2>2. IsFiniteSet(leaked \union dma)
    BY <2>1, FS_Union
  <2> QED
    BY <1>2, <2>1, <2>2
<1>4. MemControl'
  BY <1>1, <1>2, <1>3 DEF MemControl, AfterHeap
<1>5. dma' \union leaked' = dma \union leaked /\ dma' \intersect leaked' = {}
  BY <1>1, <1>2 DEF FramesSound
<1>6. FramesSound'
  BY <1>1, <1>2, <1>5, FramesKept
<1> QED
  BY <1>1, <1>2, <1>4, <1>6, SameTables DEF MemInv

(* dma_alloc hands an unused frame to the device.                          *)
LEMMA DmaKeeps ==
  ASSUME MemInv, DmaAlloc
  PROVE  /\ MemInv'
         /\ pc' = "panicked" => \/ Len(UsableFrames) < FramesNeeded
                                \/ \E i \in DOMAIN machine.dma : machine.dma[i] > 1
<1> DEFINE D == Len(machine.dma)
           f == nth(next)
<1>1. MemControl /\ TablesSound(tables) /\ FramesSound /\ MappingsKept
  BY DEF MemInv
<1>2. /\ pc \in {"create_device", "recreate_device"} /\ tables' = tables
  BY DEF DmaAlloc
<1>3. /\ inits = HEAP_PAGES /\ done \in Nat /\ machine \in Machines /\ next \in Nat
      /\ done < D /\ Cardinality(dma) = done /\ IsFiniteSet(dma)
      /\ pc = "create_device" => leaked = {}
      /\ pc = "recreate_device" => Cardinality(leaked) = D
  BY <1>1, <1>2 DEF MemControl, AfterHeap
<1>4. D \in Nat \ {0} /\ done + 1 \in DOMAIN machine.dma
  BY <1>3, MachineDma
<1>5. CASE machine.dma[done + 1] > 1
  <2>1. Panic /\ next' = next
    BY <1>5 DEF DmaAlloc
  <2> QED
    BY <1>2, <1>4, <1>5, <2>1, PanicKeeps
<1>6. CASE ~(machine.dma[done + 1] > 1) /\ ~HasFrame(next)
  <2>1. Panic /\ next' = next + 1
    BY <1>6 DEF DmaAlloc
  <2>2. Len(UsableFrames) < FramesNeeded
    <3> DEFINE N == Cardinality(NewTables)
               M == Cardinality(MissingTables)
               K == Cardinality(leaked)
               L == Len(UsableFrames)
    <3>1. N \in Nat /\ M \in Nat /\ N <= M
      BY <1>1, <1>3, MissingBound DEF NewTables
    <3>2. next = inits + N + Cardinality(dma) + K /\ K \in Nat
      BY <1>2, MemInvCounts
    <3>3. K <= D
      <4>1. CASE leaked = {}
        <5>1. K = 0
          BY <4>1, FS_EmptySet
        <5> QED
          BY <1>4, <5>1
      <4>2. CASE K = D
        BY <1>4, <4>2
      <4> QED
        BY <1>2, <1>3, <4>1, <4>2
    <3>4. L \in Nat /\ L <= next
      BY <1>3, <1>6, UsableFramesFacts DEF HasFrame
    <3>5. FramesNeeded = HEAP_PAGES + M + 2 * D /\ HEAP_PAGES \in Nat
      BY MemNumbers DEF FramesNeeded
    <3>6. next = HEAP_PAGES + N + done + K
      BY <1>3, <3>2
    <3> HIDE DEF N, M, K, L, D
    <3>7. L < FramesNeeded
      BY <1>3, <1>4, <3>1, <3>2, <3>3, <3>4, <3>5, <3>6
    <3> QED
      BY <3>7 DEF L
  <2> QED
    BY <1>2, <2>1, <2>2, PanicKeeps
<1>7. CASE ~(machine.dma[done + 1] > 1) /\ HasFrame(next)
  <2>1. /\ next' = next + 1 /\ dma' = dma \union {f}
        /\ IF done + 1 < D THEN pc' = pc /\ done' = done + 1
           ELSE /\ pc' = IF pc = "create_device" THEN "self_test" ELSE "format"
                /\ done' = 0
        /\ UNCHANGED <<machine, inits, leaked>>
    BY <1>7 DEF DmaAlloc
  <2>2. next < Len(UsableFrames) /\ next + 1 \in Nat /\ Len(UsableFrames) \in Nat
    BY <1>3, <1>7, UsableFramesFacts DEF HasFrame
  <2>3. /\ f \notin Handed(0, next) /\ Handed(0, next + 1) = Handed(0, next) \union {f}
    BY <1>3, <2>2, HandedFacts
  <2> HIDE DEF f
  <2>4. /\ UsedFrames \subseteq Handed(0, next)
        /\ HeapFrames \intersect NewTables = {} /\ HeapFrames \intersect (dma \union leaked) = {}
        /\ NewTables \intersect (dma \union leaked) = {} /\ dma \intersect leaked = {}
        /\ \A p, q \in Mapped : translate_addr(p) = translate_addr(q) => p = q
        /\ Handed(0, next) \subseteq UsedFrames
    BY <1>1, <1>2 DEF FramesSound
  <2>5. f \notin HeapFrames \union NewTables \union dma \union leaked
    BY <2>3, <2>4 DEF UsedFrames
  <2>6. FramesSound'
    <3>1. Handed(0, next)' = Handed(0, next + 1) /\ UsableFrames' = UsableFrames
      BY <2>1 DEF Handed, UsableFrames
    <3>2. /\ Mapped' = Mapped /\ HeapFrames' = HeapFrames /\ NewTables' = NewTables
          /\ \A p : translate_addr(p)' = translate_addr(p)
      BY <1>2, <2>1, SameTables
    <3>3. UsedFrames' = UsedFrames \union {f}
      BY <2>1, <3>2 DEF UsedFrames
    <3>4. next' <= Len(UsableFrames)
      BY <1>3, <2>1, <2>2
    <3> QED
      BY <2>1, <2>3, <2>4, <2>5, <3>1, <3>2, <3>3, <3>4 DEF FramesSound
  <2>7. IsFiniteSet(dma') /\ Cardinality(dma') = done + 1
    BY <1>3, <2>1, <2>5, FS_AddElement
  <2>8. MemControl'
    <3>1. CASE done + 1 < D
      <4>1. pc' = pc /\ done' = done + 1 /\ next' \in Nat
        BY <2>1, <2>2, <3>1
      <4> QED
        BY <1>1, <1>2, <1>3, <2>1, <2>7, <3>1, <4>1 DEF MemControl, AfterHeap
    <3>2. CASE ~(done + 1 < D)
      <4>1. /\ pc' = IF pc = "create_device" THEN "self_test" ELSE "format"
            /\ done' = 0 /\ next' \in Nat /\ done + 1 = D
        BY <1>3, <1>4, <2>1, <2>2, <3>2
      <4> QED
        BY <1>1, <1>2, <1>3, <2>1, <2>7, <4>1 DEF MemControl, AfterHeap
    <3> QED
      BY <3>1, <3>2
  <2>9. pc' # "panicked"
    BY <1>2, <2>1
  <2> QED
    BY <1>1, <1>2, <2>1, <2>6, <2>8, <2>9, SameTables DEF MemInv
<1> QED
  BY <1>5, <1>6, <1>7

(* Sharing a buffer always succeeds.                                       *)
LEMMA ShareKeeps ==
  ASSUME MemInv, NEW page \in HeapPages \union KernelPages, Share(page)
  PROVE  UNCHANGED memVars
<1>1. MemControl /\ MappingsKept /\ pc \in {"self_test", "mount", "format", "files"}
  BY DEF MemInv, Share
<1>2. inits = HEAP_PAGES /\ machine \in Machines /\ page \in Pages
  BY <1>1, MemNumbers DEF MemControl, AfterHeap
<1>3. Mapped = HeapPages
  BY <1>2 DEF Mapped
<1>4. translate_addr(page) \in Frames
  <2>1. CASE page \in HeapPages
    <3>1. translate_addr(page) \in ToSet(UsableFrames)
      BY <1>1, <1>2, <1>3, <2>1 DEF MappingsKept
    <3> QED
      BY <1>2, <3>1, UsableFramesFacts DEF ToSet
  <2>2. CASE page \notin HeapPages
    <3>1. translate_addr(page) = BootWalk(page) /\ page \in KernelPages
      BY <1>1, <1>2, <1>3, <2>2 DEF MappingsKept
    <3>2. Walk(machine.tables, page)[Levels] \in Frames
      BY <1>2, <3>1, MachineAssumption
    <3> QED
      BY <3>1, <3>2 DEF BootWalk
  <2> QED
    BY <2>1, <2>2
<1> QED
  BY <1>4 DEF Share

(* A step that leaves the memory alone keeps the invariant.                *)
LEMMA MemStutter ==
  ASSUME MemInv, UNCHANGED memVars
  PROVE  MemInv'
<1>1. UNCHANGED <<machine, next, tables, pc, done, inits, dma, leaked>>
  BY DEF memVars
<1>2. /\ Handed(0, next)' = Handed(0, next) /\ UsableFrames' = UsableFrames
      /\ UsedFrames' = UsedFrames
  BY <1>1, SameTables DEF Handed, UsableFrames, UsedFrames
<1>3. MemControl' /\ FramesSound'
  BY <1>1, <1>2, SameTables DEF MemInv, MemControl, FramesSound
<1> QED
  BY <1>1, <1>3, SameTables DEF MemInv

(* Every step keeps the invariant.                                         *)
LEMMA MemInvNext == MemInv /\ [MemNext]_memVars => MemInv'
<1> SUFFICES ASSUME MemInv, [MemNext]_memVars PROVE MemInv'
  OBVIOUS
<1>1. CASE InitHeapPage
  BY <1>1, InitHeapKeeps
<1>2. CASE Scan
  BY <1>2, ScanMemKeeps
<1>3. CASE DmaAlloc
  BY <1>3, DmaKeeps
<1>4. CASE MountDevice
  BY <1>4, MountKeeps
<1>5. CASE \E page \in HeapPages \union KernelPages : Share(page)
  BY <1>5, ShareKeeps, MemStutter
<1>6. CASE Halted \/ UNCHANGED memVars
  BY <1>6, MemStutter DEF Halted
<1> QED
  BY <1>1, <1>2, <1>3, <1>4, <1>5, <1>6, DeviceKeeps DEF MemNext

(* Memory on its own, whatever the scan finds.                             *)
LEMMA MemInvAlways == MemSpec => []MemInv
  BY MemInvInit, MemInvNext, PTL DEF MemSpec

-----------------------------------------------------------------------------
(* The kernel's start is what Memory allows, with the outcome of the scan. *)
LEMMA StartIsMem == StartSpec => MemSpec
<1>1. StartInit => MemInit
  BY DEF StartInit
<1>2. [StartNext]_startVars => [MemNext]_memVars
  BY DEF StartNext, DeviceStep, MemNext, startVars
<1> QED
  BY <1>1, <1>2, PTL DEF StartSpec, MemSpec

(***************************************************************************)
(* A frame has one use, whatever memory map and page tables the kernel is  *)
(* started with: allocate_frame, map_to, dma_alloc and dma_dealloc never   *)
(* let two of the heap's pages, the page tables and the device's buffers   *)
(* share a frame, and none is lost.                                        *)
(***************************************************************************)
THEOREM FramesAreExclusive == StartSpec => []FramesExclusive
<1>1. MemInv => FramesExclusive
  BY MemInvCounts
<1> QED
  BY <1>1, MemInvAlways, StartIsMem, PTL

(***************************************************************************)
(* init_heap maps the pages of the heap and changes no other translation:  *)
(* the tables it adds never get in the way of a page of the boot loader.   *)
(***************************************************************************)
THEOREM MappingsAreKept == StartSpec => []MappingsKept
<1>1. MemInv => MappingsKept
  BY DEF MemInv
<1> QED
  BY <1>1, MemInvAlways, StartIsMem, PTL

(* Every step into a panic has one of the reasons.                         *)
LEMMA NoPanicNext ==
  MemInv /\ PciInv /\ EnoughMemoryNoPanic /\ [StartNext]_startVars => EnoughMemoryNoPanic'
<1> SUFFICES ASSUME MemInv, PciInv, EnoughMemoryNoPanic, [StartNext]_startVars,
                    pc' = "panicked"
             PROVE  EnoughMemoryNoPanic'
  BY DEF EnoughMemoryNoPanic
<1>1. ASSUME UNCHANGED <<machine, pciVars>>,
             \/ Len(UsableFrames) < FramesNeeded
             \/ \E page \in HeapPages : BootWalk(page) # NotPresent
             \/ \E i \in DOMAIN machine.dma : machine.dma[i] > 1
             \/ \E f \in found : f \notin Virtio
             \/ failed'
      PROVE  EnoughMemoryNoPanic'
  <2>1. /\ UsableFrames' = UsableFrames /\ FramesNeeded' = FramesNeeded
        /\ \A p : BootWalk(p)' = BootWalk(p)
    BY <1>1, SameMachine
  <2>2. found' = found /\ Virtio' = Virtio
    BY <1>1 DEF pciVars, Virtio
  <2> QED
    BY <1>1, <2>1, <2>2 DEF EnoughMemoryNoPanic
<1>2. CASE InitHeapPage /\ UNCHANGED pciVars
  <2>1. machine' = machine
    BY <1>2 DEF InitHeapPage, Panic
  <2> QED
    BY <1>1, <1>2, <2>1, InitHeapKeeps
<1>3. CASE UNCHANGED memVars /\ (ScanStep \/ WriteStep) /\ pc # "panicked"
  BY <1>3 DEF memVars
<1>4. CASE Scan /\ pc' = ScanOutcome /\ UNCHANGED pciVars
  <2>1. PICK f \in found : read_word(f, 0) \notin VirtioVendors
    BY <1>4 DEF ScanOutcome
  <2>2. f \in Functions
    BY <2>1 DEF PciInv, PciTypeOK
  <2>3. f \notin Virtio
    BY <2>1, <2>2, ReadIdentity DEF Virtio
  <2> QED
    BY <1>1, <1>4, <2>3 DEF Scan
<1>5. CASE DmaAlloc /\ UNCHANGED pciVars
  <2>1. machine' = machine
    BY <1>5 DEF DmaAlloc, Panic
  <2> QED
    BY <1>1, <1>5, <2>1, DmaKeeps
<1>6. CASE MountDevice
  BY <1>6, MountKeeps
<1>7. CASE UNCHANGED startVars
  <2>1. pc = "panicked" /\ machine' = machine
    BY <1>7 DEF startVars, memVars
  <2> QED
    BY <1>1, <1>7, <2>1 DEF EnoughMemoryNoPanic, startVars
<1>8. CASE /\ \E page \in HeapPages \union KernelPages : Share(page)
           /\ UNCHANGED <<pciVars, failed>>
  BY <1>7, <1>8, ShareKeeps DEF startVars
<1>9. CASE Halted /\ UNCHANGED <<pciVars, failed>>
  BY <1>7, <1>9 DEF Halted, startVars
<1>10. CASE DeviceFails /\ failed' = TRUE /\ UNCHANGED pciVars
  BY <1>1, <1>10 DEF DeviceFails
<1>11. CASE DeviceWorks \/ FilesDone
  BY <1>11 DEF DeviceWorks, FilesDone
<1>12. CASE DeviceStep /\ UNCHANGED <<pciVars, failed>>
  BY <1>5, <1>6, <1>8, <1>11, <1>12 DEF DeviceStep
<1> QED
  BY <1>2, <1>3, <1>4, <1>7, <1>9, <1>10, <1>12 DEF StartNext

(***************************************************************************)
(* A kernel with enough frames for its heap, the page tables missing for   *)
(* it and two devices gets through its start, unless its heap is mapped    *)
(* already or in a huge page, the driver wants two pages at once, function *)
(* 0 of the device that scan returns is not the VirtIO one, or a call on   *)
(* the device fails that kernel_main expects to succeed.                   *)
(***************************************************************************)
THEOREM EnoughMemoryIsEnough == StartSpec => []EnoughMemoryNoPanic
<1>1. StartInit => EnoughMemoryNoPanic
  BY DEF StartInit, MemInit, EnoughMemoryNoPanic
<1> QED
  BY <1>1, NoPanicNext, MemInvAlways, StartIsMem, PciInvAlways, StartIsPci, PTL DEF StartSpec
=============================================================================
