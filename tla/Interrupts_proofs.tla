------------------------- MODULE Interrupts_proofs -------------------------
(***************************************************************************)
(* Proofs about module Interrupts, for any number of interrupt requests,   *)
(* exceptions and panics, so for any depth of the stack.                   *)
(***************************************************************************)
EXTENDS Interrupts, SequenceTheorems, FiniteSetTheorems, FunctionTheorems, TLAPS

(* What a context is, by its level: the main program has level 1.          *)
Contexts ==
  [kind : {"main"} \union Irqs \union Exceptions,
   pc : {"run", "lock", "printing", "printed", "eoi", "eoi_locked", "iret", "halt"},
   entry : BOOLEAN, saved : BOOLEAN, panicking : BOOLEAN]

Level(s, k) == s[Len(s) + 1 - k]

-----------------------------------------------------------------------------
(* A context that is entered is on top of those it interrupts.             *)
LEMMA StackPush ==
  ASSUME NEW s \in Seq(Contexts), NEW c \in Contexts
  PROVE  /\ <<c>> \o s \in Seq(Contexts) /\ Len(<<c>> \o s) = Len(s) + 1 /\ Len(s) \in Nat
         /\ Head(<<c>> \o s) = c /\ Level(<<c>> \o s, Len(s) + 1) = c
         /\ \A k \in 1 .. Len(s) : Level(<<c>> \o s, k) = Level(s, k)
         /\ (<<c>> \o s)[1] = c
         /\ \A i \in 1 .. Len(s) : (<<c>> \o s)[i + 1] = s[i]
<1> DEFINE t == <<c>> \o s
<1>1. <<c>> \in Seq(Contexts) /\ Len(<<c>>) = 1 /\ <<c>>[1] = c
  OBVIOUS
<1>2. /\ t \in Seq(Contexts) /\ Len(t) = Len(s) + 1 /\ Len(s) \in Nat
      /\ \A i \in 1 .. Len(s) + 1 : t[i] = IF i <= 1 THEN <<c>>[i] ELSE s[i - 1]
  BY <1>1, ConcatProperties, LenProperties
<1> HIDE DEF t
<1>3. t[1] = c /\ \A i \in 1 .. Len(s) : t[i + 1] = s[i]
  BY <1>1, <1>2
<1>4. Head(t) = c
  BY <1>2, <1>3
<1>5. Level(t, Len(s) + 1) = c
  BY <1>2, <1>3 DEF Level
<1>6. ASSUME NEW k \in 1 .. Len(s) PROVE Level(t, k) = Level(s, k)
  <2>1. Len(s) + 1 - k \in 1 .. Len(s)
    BY <1>2
  <2>2. (Len(s) + 1) + 1 - k = (Len(s) + 1 - k) + 1
    BY <1>2
  <2> QED
    BY <1>2, <1>3, <2>1, <2>2 DEF Level
<1> QED
  BY <1>2, <1>3, <1>4, <1>5, <1>6 DEF t

(* A context that returns leaves those below it as they were.              *)
LEMMA StackPop ==
  ASSUME NEW s \in Seq(Contexts), Len(s) > 1
  PROVE  /\ Tail(s) \in Seq(Contexts) /\ Len(Tail(s)) = Len(s) - 1 /\ Len(s) \in Nat
         /\ Head(Tail(s)) = Level(s, Len(s) - 1)
         /\ \A k \in 1 .. Len(s) - 1 : Level(Tail(s), k) = Level(s, k)
         /\ \A i \in 1 .. Len(s) - 1 : Tail(s)[i] = s[i + 1]
<1>1. s # << >> /\ Len(s) \in Nat
  BY EmptySeq, LenProperties
<1>2. /\ Tail(s) \in Seq(Contexts) /\ Len(Tail(s)) = Len(s) - 1
      /\ \A i \in 1 .. Len(s) - 1 : Tail(s)[i] = s[i + 1]
  BY <1>1, HeadTailProperties
<1>3. Head(Tail(s)) = Level(s, Len(s) - 1)
  BY <1>1, <1>2 DEF Level
<1>4. ASSUME NEW k \in 1 .. Len(s) - 1 PROVE Level(Tail(s), k) = Level(s, k)
  <2>1. Len(s) - 1 + 1 - k \in 1 .. Len(s) - 1 /\ (Len(s) - 1 + 1 - k) + 1 = Len(s) + 1 - k
    BY <1>1
  <2> QED
    BY <1>2, <2>1 DEF Level
<1> QED
  BY <1>1, <1>2, <1>3, <1>4

(* A step of the running context changes it alone.                         *)
Updated(t, s, c) ==
  /\ t \in Seq(Contexts) /\ Len(t) = Len(s)
  /\ \A j \in 1 .. Len(s) : t[j] = IF j = 1 THEN c ELSE s[j]

(* So does an assignment to the first element of the sequence.             *)
LEMMA StackUpdate ==
  ASSUME NEW s \in Seq(Contexts), Len(s) >= 1, NEW c \in Contexts
  PROVE  Updated([s EXCEPT ![1] = c], s, c)
<1>1. 1 \in 1 .. Len(s)
  BY LenProperties
<1> QED
  BY <1>1, ExceptSeq DEF Updated

(* The contexts below the running one keep their levels.                   *)
LEMMA StackTop ==
  ASSUME NEW s \in Seq(Contexts), Len(s) >= 1, NEW c \in Contexts, NEW t, Updated(t, s, c)
  PROVE  /\ t \in Seq(Contexts) /\ Len(t) = Len(s) /\ Len(s) \in Nat
         /\ Head(t) = c /\ Level(t, Len(s)) = c
         /\ \A k \in 1 .. Len(s) - 1 : Level(t, k) = Level(s, k)
         /\ t[1] = c
         /\ \A i \in 2 .. Len(s) : t[i] = s[i]
<1>1. Len(s) \in Nat /\ 1 \in 1 .. Len(s)
  BY LenProperties
<1>0. /\ t \in Seq(Contexts) /\ Len(t) = Len(s)
      /\ \A j \in 1 .. Len(s) : t[j] = IF j = 1 THEN c ELSE s[j]
  BY DEF Updated
<1>2. t[1] = c /\ \A i \in 2 .. Len(s) : t[i] = s[i]
  BY <1>0, <1>1
<1>3. Head(t) = c /\ t[1] = c
  BY <1>0, <1>1, <1>2
<1>4. Level(t, Len(s)) = c
  BY <1>0, <1>1, <1>2, <1>3 DEF Level
<1>5. ASSUME NEW k \in 1 .. Len(s) - 1 PROVE Level(t, k) = Level(s, k)
  <2>1. Len(s) + 1 - k \in 1 .. Len(s) /\ Len(s) + 1 - k # 1
    BY <1>1
  <2> QED
    BY <1>0, <2>1 DEF Level
<1> QED
  BY <1>0, <1>1, <1>2, <1>3, <1>4, <1>5

(* The steps of init that are done.                                        *)
LEMMA DoneFacts ==
  ASSUME booted \in 0 .. 5
  PROVE  /\ Len(INIT_ORDER) = 5
         /\ Done("gdt") <=> booted >= 1
         /\ Done("idt") <=> booted >= 2
         /\ Done("pics_unlock") <=> booted >= 4
         /\ Done("sti") <=> booted = 5
<1>1. /\ Len(INIT_ORDER) = 5
      /\ INIT_ORDER[1] = "gdt" /\ INIT_ORDER[2] = "idt" /\ INIT_ORDER[3] = "pics_lock"
      /\ INIT_ORDER[4] = "pics_unlock" /\ INIT_ORDER[5] = "sti"
  BY DEF INIT_ORDER
<1>2. \A i \in 1 .. booted : i \in {1, 2, 3, 4, 5}
  OBVIOUS
<1> QED
  BY <1>1, <1>2 DEF Done

-----------------------------------------------------------------------------
(***************************************************************************)
(* The inductive invariant.  FlagDiscipline speaks of the running context; *)
(* the flags that contexts further down will restore depend on what holds  *)
(* when they run again.  So: only the running context waits for a lock or  *)
(* ends an interrupt, SERIAL1 is held by a context that prints or that     *)
(* panicked when it did, a handler of a device runs directly on top of the *)
(* main program and after init, and each context will restore the flag of  *)
(* the context below it.                                                   *)
(***************************************************************************)
IntTypeOK ==
  /\ booted \in 0 .. 5 /\ flag \in BOOLEAN /\ reset \in BOOLEAN
  /\ stack \in Seq(Contexts) /\ Depth >= 1
  /\ serial \in 0 .. Depth /\ pics \in Nat
  /\ faults \in Nat

ContextSound(k, c, depth, holder, done) ==
  /\ c.kind = "main" <=> k = 1
  /\ k < depth => c.pc \in {"run", "printing", "printed", "halt"}
  /\ c.pc = "printing" => holder = k /\ c.saved = (done = 5 /\ k = 1)
  /\ c.pc = "lock" => c.saved = (done = 5 /\ k = 1 /\ holder = 0)
  /\ c.pc \in {"eoi", "eoi_locked", "iret"} => c.kind \in Irqs /\ ~c.panicking
  /\ c.kind \in Irqs => done = 5 /\ k = 2
  /\ holder = k => c.pc = "printing" \/ c.panicking
  /\ k > 1 => c.entry = (done = 5 /\ k = 2 /\ holder # 1)

FlagSound ==
  ~reset => flag = (booted = 5 /\ Depth = 1 /\ serial = 0 /\ Top.pc # "lock")

PicsSound ==
  pics # 0 => \/ booted = 3 /\ pics = 1
              \/ Depth = 2 /\ pics = 2 /\ Top.pc = "eoi_locked"

HolderSound ==
  serial # 0 /\ serial < Depth => Level(stack, serial + 1).kind \in Exceptions

ExceptionLevels(s) == {i \in 1 .. Len(s) : s[i].kind \in Exceptions}

VectorsSound ==
  /\ reset => booted < 2
  /\ Cardinality(ExceptionLevels(stack)) <= faults

IntInv ==
  /\ IntTypeOK
  /\ \A k \in 1 .. Depth : ContextSound(k, Level(stack, k), Depth, serial, booted)
  /\ FlagSound /\ PicsSound /\ HolderSound /\ VectorsSound

(* The running context is the one with the highest level.                  *)
LEMMA TopFacts ==
  ASSUME IntInv
  PROVE  /\ Depth \in Nat /\ Depth >= 1 /\ Top = stack[1] /\ Top \in Contexts
         /\ Top = Level(stack, Depth) /\ ContextSound(Depth, Top, Depth, serial, booted)
<1>1. stack \in Seq(Contexts) /\ Len(stack) >= 1
  BY DEF IntInv, IntTypeOK, Depth
<1>2. Len(stack) \in Nat /\ 1 \in 1 .. Len(stack) /\ stack # << >> /\ stack[1] \in Contexts
  BY <1>1, LenProperties, ElementOfSeq, EmptySeq
<1>3. Head(stack) = stack[1] /\ Level(stack, Len(stack)) = stack[1]
  BY <1>1, <1>2 DEF Level
<1>4. Len(stack) \in 1 .. Len(stack)
  BY <1>2
<1> QED
  BY <1>1, <1>2, <1>3, <1>4 DEF IntInv, Depth, Top

(* The running context becomes c, which is of the same kind.               *)
LEMMA TopUpdate ==
  ASSUME IntInv, NEW c \in Contexts, c.kind = Top.kind, Updated(stack', stack, c)
  PROVE  /\ stack' \in Seq(Contexts) /\ Depth' = Depth /\ Top' = c
         /\ Level(stack', Depth) = c
         /\ \A k \in 1 .. Depth - 1 : Level(stack', k) = Level(stack, k)
         /\ \A k \in 1 .. Depth : Level(stack', k).kind = Level(stack, k).kind
         /\ ExceptionLevels(stack') = ExceptionLevels(stack)
<1>1. stack \in Seq(Contexts) /\ Len(stack) >= 1
  BY DEF IntInv, IntTypeOK, Depth
<1>2. /\ stack' \in Seq(Contexts) /\ Len(stack') = Len(stack) /\ Len(stack) \in Nat
      /\ Head(stack') = c /\ Level(stack', Len(stack)) = c
      /\ \A k \in 1 .. Len(stack) - 1 : Level(stack', k) = Level(stack, k)
      /\ stack'[1] = c /\ \A i \in 2 .. Len(stack) : stack'[i] = stack[i]
  BY <1>1, StackTop
<1>3. Top = stack[1] /\ Top = Level(stack, Depth)
  BY TopFacts
<1>4. \A i \in 1 .. Len(stack) : stack'[i].kind = stack[i].kind
  <2>1. \A i \in 1 .. Len(stack) : i = 1 \/ i \in 2 .. Len(stack)
    BY <1>2
  <2> QED
    BY <1>2, <1>3, <2>1
<1>5. ExceptionLevels(stack') = ExceptionLevels(stack)
  BY <1>2, <1>4 DEF ExceptionLevels
<1>6. \A k \in 1 .. Depth : Level(stack', k).kind = Level(stack, k).kind
  <2>0. Len(stack) \in Nat
    BY <1>2
  <2>1. \A k \in 1 .. Len(stack) : k = Len(stack) \/ k \in 1 .. Len(stack) - 1
    BY <2>0
  <2> QED
    BY <1>2, <1>3, <2>1 DEF Depth
<1> QED
  BY <1>2, <1>5, <1>6 DEF Depth, Top

(* Contexts below the running one do not see what it does, if it keeps the *)
(* lock of those below it and init stays where it is.                      *)
LEMMA LowerContexts ==
  ASSUME NEW k \in Nat, NEW c, NEW d \in Nat, NEW e \in Nat, NEW h, NEW g, NEW b,
         ContextSound(k, c, d, h, b), k < d,
         h = g \/ (h # k /\ g # k /\ (h = 1 <=> g = 1))
  PROVE  ContextSound(k, c, e, g, b)
  BY DEF ContextSound

-----------------------------------------------------------------------------
(* The exceptions on a stack are finitely many.                            *)
LEMMA ExceptionsFinite ==
  ASSUME NEW s \in Seq(Contexts)
  PROVE  IsFiniteSet(ExceptionLevels(s)) /\ Cardinality(ExceptionLevels(s)) \in Nat
<1>1. Len(s) \in Nat
  BY LenProperties
<1>2. ExceptionLevels(s) \in SUBSET (1 .. Len(s))
  BY DEF ExceptionLevels
<1>3. IsFiniteSet(1 .. Len(s))
  <2>1. 1 \in Int /\ Len(s) \in Int
    BY <1>1
  <2> QED
    BY <2>1, FS_Interval
<1>4. IsFiniteSet(ExceptionLevels(s))
  BY <1>2, <1>3, FS_Subset
<1> QED
  BY <1>4, FS_CardinalityType

(* The exceptions on a stack with one context more: those of the stack     *)
(* below it, one place further down, and the new context.                  *)
LEMMA ExceptionCount ==
  ASSUME NEW s \in Seq(Contexts), NEW t \in Seq(Contexts), Len(t) = Len(s) + 1,
         \A i \in 1 .. Len(s) : t[i + 1] = s[i]
  PROVE  /\ Cardinality(ExceptionLevels(s)) \in Nat
         /\ Cardinality(ExceptionLevels(t)) =
              IF t[1].kind \in Exceptions THEN Cardinality(ExceptionLevels(s)) + 1
                                          ELSE Cardinality(ExceptionLevels(s))
<1> DEFINE S == ExceptionLevels(s)
           T == ExceptionLevels(t)
           f == [i \in S |-> i + 1]
<1>1. Len(s) \in Nat /\ Len(t) \in Nat
  BY LenProperties
<1>3. IsFiniteSet(S) /\ IsFiniteSet(T)
  BY ExceptionsFinite
<1>4. \A i \in S : i \in 1 .. Len(s) /\ i + 1 \in T \ {1}
  BY <1>1 DEF ExceptionLevels
<1>5. \A j \in T \ {1} : j - 1 \in S /\ (j - 1) + 1 = j
  <2> SUFFICES ASSUME NEW j \in T \ {1} PROVE j - 1 \in S /\ (j - 1) + 1 = j
    OBVIOUS
  <2>1. j \in 1 .. Len(t) /\ j # 1 /\ t[j].kind \in Exceptions
    BY DEF ExceptionLevels
  <2>2. j - 1 \in 1 .. Len(s) /\ (j - 1) + 1 = j
    BY <1>1, <2>1
  <2>3. t[(j - 1) + 1] = s[j - 1]
    BY <2>2
  <2> QED
    BY <2>1, <2>2, <2>3 DEF ExceptionLevels
<1>6. f \in Bijection(S, T \ {1})
  <2>1. f \in [S -> T \ {1}] /\ \A i, j \in S : f[i] = f[j] => i = j
    BY <1>4
  <2>2. \A j \in T \ {1} : \E i \in S : f[i] = j
    BY <1>5
  <2> HIDE DEF f, S, T
  <2> QED
    BY <2>1, <2>2, Fun_IsBij
<1>7. Cardinality(T \ {1}) = Cardinality(S)
  BY <1>3, <1>6, FS_Bijection DEF ExistsBijection
<1>8. Cardinality(S) \in Nat /\ Cardinality(T) \in Nat
  BY <1>3, FS_CardinalityType
<1>9. 1 \in T <=> t[1].kind \in Exceptions
  BY <1>1 DEF ExceptionLevels
<1> HIDE DEF S, T
<1>10. Cardinality(T \ {1}) = IF 1 \in T THEN Cardinality(T) - 1 ELSE Cardinality(T)
  BY <1>3, FS_RemoveElement
<1>11. Cardinality(T) = IF 1 \in T THEN Cardinality(S) + 1 ELSE Cardinality(S)
  BY <1>7, <1>8, <1>10
<1> QED
  BY <1>8, <1>9, <1>11 DEF S, T

(* A step of the running context that keeps the invariant: what it must    *)
(* leave true of that context, of the flag and of the locks.               *)
LEMMA TopStep ==
  ASSUME IntInv, ~reset, reset' = reset, booted' = booted,
         NEW c \in Contexts, c.kind = Top.kind, Updated(stack', stack, c),
         serial' = serial \/ (serial \in {0, Depth} /\ serial' \in {0, Depth}),
         pics' \in Nat, faults' \in Nat, faults' >= faults,
         ContextSound(Depth, c, Depth, serial', booted),
         flag' = (booted = 5 /\ Depth = 1 /\ serial' = 0 /\ c.pc # "lock"),
         pics' # 0 => \/ booted = 3 /\ pics' = 1
                      \/ Depth = 2 /\ pics' = 2 /\ c.pc = "eoi_locked"
  PROVE  IntInv'
<1>1. /\ stack' \in Seq(Contexts) /\ Depth' = Depth /\ Top' = c
      /\ Level(stack', Depth) = c
      /\ \A k \in 1 .. Depth - 1 : Level(stack', k) = Level(stack, k)
      /\ \A k \in 1 .. Depth : Level(stack', k).kind = Level(stack, k).kind
      /\ ExceptionLevels(stack') = ExceptionLevels(stack)
  BY TopUpdate
<1>2. Depth \in Nat /\ Depth >= 1 /\ serial \in 0 .. Depth
  BY TopFacts DEF IntInv, IntTypeOK
<1>3. IntTypeOK'
  <2>1. serial' \in 0 .. Depth
    BY <1>2
  <2> QED
    BY <1>1, <1>2, <2>1 DEF IntInv, IntTypeOK
<1>4. (\A k \in 1 .. Depth : ContextSound(k, Level(stack, k), Depth, serial, booted))'
  <2> SUFFICES ASSUME NEW k \in 1 .. Depth
               PROVE  ContextSound(k, Level(stack', k), Depth, serial', booted)
    BY <1>1
  <2>1. CASE k = Depth
    BY <1>1, <2>1
  <2>2. CASE k # Depth
    <3>1. k \in 1 .. Depth - 1 /\ k < Depth /\ k \in Nat
      BY <1>2, <2>2
    <3>2. ContextSound(k, Level(stack, k), Depth, serial, booted)
      BY DEF IntInv
    <3>3. serial = serial' \/ (serial # k /\ serial' # k /\ (serial = 1 <=> serial' = 1))
      BY <1>2, <3>1
    <3>4. ContextSound(k, Level(stack, k), Depth, serial', booted)
      BY <1>2, <3>1, <3>2, <3>3, LowerContexts
    <3> QED
      BY <1>1, <3>1, <3>4
  <2> QED
    BY <2>1, <2>2
<1>5. FlagSound' /\ PicsSound'
  BY <1>1 DEF FlagSound, PicsSound
<1>6. HolderSound'
  <2> SUFFICES ASSUME serial' # 0, serial' < Depth
               PROVE  Level(stack', serial' + 1).kind \in Exceptions
    BY <1>1 DEF HolderSound
  <2>1. serial' = serial /\ serial + 1 \in 1 .. Depth
    BY <1>2
  <2> QED
    BY <1>1, <2>1 DEF IntInv, HolderSound
<1>7. VectorsSound'
  <2>1. Cardinality(ExceptionLevels(stack)) \in Nat
    BY ExceptionsFinite DEF IntInv, IntTypeOK
  <2> QED
    BY <1>1, <2>1 DEF VectorsSound, IntInv, IntTypeOK
<1> QED
  BY <1>3, <1>4, <1>5, <1>6, <1>7 DEF IntInv

(* Entering a handler keeps the invariant: a device interrupts only where  *)
(* the flag is set, an exception only a context that runs code.            *)
LEMMA PushStep ==
  ASSUME IntInv, ~reset, reset' = FALSE, booted' = booted, serial' = serial, pics' = pics,
         Top.pc \in {"run", "printing", "printed", "halt"},
         NEW kind \in Irqs \union Exceptions, Enter(kind),
         \/ kind \in Irqs /\ flag /\ faults' = faults
         \/ kind \in Exceptions /\ faults' = faults + 1
  PROVE  IntInv'
<1> DEFINE c == Context(kind, "run", flag)
<1>0. /\ IntTypeOK /\ Depth = Len(stack) /\ FlagSound /\ PicsSound /\ HolderSound /\ VectorsSound
      /\ \A k \in 1 .. Depth : ContextSound(k, Level(stack, k), Depth, serial, booted)
  BY DEF IntInv, Depth
<1>1. /\ Depth \in Nat /\ Depth >= 1 /\ serial \in 0 .. Depth /\ booted \in 0 .. 5
      /\ faults \in Nat /\ flag \in BOOLEAN
      /\ Top = Level(stack, Depth) /\ ContextSound(Depth, Top, Depth, serial, booted)
  BY TopFacts DEF IntInv, IntTypeOK
<1>2. /\ c \in Contexts /\ c.kind = kind /\ c.pc = "run" /\ c.entry = flag
      /\ c.saved = FALSE /\ c.panicking = FALSE
  BY <1>1 DEF Context, Contexts
<1> HIDE DEF c
<1>3. flag' = FALSE /\ stack' = <<c>> \o stack
  BY DEF Enter, c
<1>4. /\ stack' \in Seq(Contexts) /\ Len(stack') = Depth + 1
      /\ Head(stack') = c /\ Level(stack', Depth + 1) = c
      /\ \A k \in 1 .. Depth : Level(stack', k) = Level(stack, k)
      /\ stack'[1] = c /\ \A i \in 1 .. Depth : stack'[i + 1] = stack[i]
  <2>1. stack \in Seq(Contexts)
    BY <1>0 DEF IntTypeOK
  <2> QED
    BY <1>0, <1>2, <1>3, <2>1, StackPush
<1>5. Depth' = Depth + 1 /\ Top' = c
  BY <1>4 DEF Depth, Top
<1>6. flag = (booted = 5 /\ Depth = 1 /\ serial = 0 /\ Top.pc # "lock")
  BY <1>0 DEF FlagSound
<1>7. IntTypeOK'
  <2>1. serial \in 0 .. Depth + 1 /\ Depth + 1 >= 1 /\ faults' \in Nat
    BY <1>1
  <2>2. flag' \in BOOLEAN /\ reset' \in BOOLEAN
    BY <1>3
  <2> HIDE <1>3
  <2> QED
    BY <1>0, <1>4, <1>5, <2>1, <2>2 DEF IntTypeOK
<1>8. (\A k \in 1 .. Depth : ContextSound(k, Level(stack, k), Depth, serial, booted))'
  <2> SUFFICES ASSUME NEW k \in 1 .. Depth + 1
               PROVE  ContextSound(k, Level(stack', k), Depth + 1, serial, booted)
    BY <1>5
  <2>1. CASE k = Depth + 1
    <3>1. "main" \notin Irqs \union Exceptions
      BY DEF Irqs, Exceptions
    <3>2. kind \in Irqs => booted = 5 /\ k = 2
      <4>1. kind \in Irqs => kind \notin Exceptions
        BY DEF Irqs, Exceptions
      <4>2. kind \in Irqs => flag = TRUE
        BY <1>1, <4>1, Zenon
      <4>3. flag = TRUE => booted = 5 /\ Depth = 1
        BY <1>6
      <4> QED
        BY <2>1, <4>2, <4>3
    <3>3. flag = (booted = 5 /\ k = 2 /\ serial # 1)
      BY <1>1, <1>6, <2>1
    <3>4. ContextSound(k, c, Depth + 1, serial, booted)
      BY <1>1, <1>2, <2>1, <3>1, <3>2, <3>3 DEF ContextSound
    <3> QED
      BY <1>4, <2>1, <3>4
  <2>2. CASE k = Depth
    <3>1. ContextSound(Depth, Top, Depth + 1, serial, booted)
      BY <1>1 DEF ContextSound
    <3> QED
      BY <1>1, <1>4, <2>2, <3>1
  <2>3. CASE k # Depth /\ k # Depth + 1
    <3>1. k \in 1 .. Depth /\ k \in Nat /\ k < Depth /\ Depth + 1 \in Nat
      BY <1>1, <2>3
    <3>2. ContextSound(k, Level(stack, k), Depth, serial, booted)
      BY <1>0, <3>1
    <3>3. ContextSound(k, Level(stack, k), Depth + 1, serial, booted)
      BY <1>1, <3>1, <3>2, LowerContexts
    <3> QED
      BY <1>4, <3>1, <3>3
  <2> QED
    BY <2>1, <2>2, <2>3
<1>9. FlagSound' /\ PicsSound'
  <2>1. FlagSound'
    <3>1. Depth' # 1
      BY <1>1, <1>5
    <3> QED
      BY <1>3, <3>1, Zenon DEF FlagSound
  <2>2. PicsSound'
    BY <1>0 DEF PicsSound
  <2> QED
    BY <2>1, <2>2
<1>10. HolderSound'
  <2> SUFFICES ASSUME serial # 0, serial < Depth + 1
               PROVE  Level(stack', serial + 1).kind \in Exceptions
    BY <1>5 DEF HolderSound
  <2>1. CASE serial < Depth
    <3>1. serial + 1 \in 1 .. Depth
      BY <1>1, <2>1
    <3> QED
      BY <1>0, <1>4, <2>1, <3>1 DEF HolderSound
  <2>2. CASE serial = Depth
    BY <1>2, <1>4, <1>6, <2>2
  <2> QED
    BY <1>1, <2>1, <2>2
<1>11. VectorsSound'
  <2>1. stack \in Seq(Contexts)
    BY <1>0 DEF IntTypeOK
  <2>2. /\ Cardinality(ExceptionLevels(stack)) \in Nat
        /\ Cardinality(ExceptionLevels(stack')) =
             IF kind \in Exceptions THEN Cardinality(ExceptionLevels(stack)) + 1
                                    ELSE Cardinality(ExceptionLevels(stack))
    BY <1>0, <1>2, <1>4, <2>1, ExceptionCount
  <2>3. kind \in Irqs => kind \notin Exceptions
    BY DEF Irqs, Exceptions
  <2>4. Cardinality(ExceptionLevels(stack)) <= faults
    BY <1>0 DEF VectorsSound
  <2>5. Cardinality(ExceptionLevels(stack')) <= faults'
    BY <1>1, <2>2, <2>3, <2>4
  <2> QED
    BY <2>5 DEF VectorsSound
<1> QED
  BY <1>7, <1>8, <1>9, <1>10, <1>11 DEF IntInv

(* Returning from a handler restores the flag of the context below it.     *)
LEMMA PopStep ==
  ASSUME IntInv, Iret
  PROVE  IntInv'
<1>0. /\ IntTypeOK /\ Depth = Len(stack) /\ FlagSound /\ PicsSound /\ HolderSound /\ VectorsSound
      /\ \A k \in 1 .. Depth : ContextSound(k, Level(stack, k), Depth, serial, booted)
  BY DEF IntInv, Depth
<1>1. /\ Depth \in Nat /\ Depth >= 1 /\ serial \in 0 .. Depth /\ booted \in 0 .. 5
      /\ Top = stack[1] /\ Top \in Contexts
      /\ Top = Level(stack, Depth) /\ ContextSound(Depth, Top, Depth, serial, booted)
  BY TopFacts DEF IntInv, IntTypeOK
<1>2. /\ stack' = Tail(stack) /\ flag' = Top.entry /\ ~reset
      /\ UNCHANGED <<booted, serial, pics, faults, reset>>
      /\ Top.pc = "iret" \/ (Top.pc = "printed" /\ Top.kind = "breakpoint" /\ ~Top.panicking)
  BY DEF Iret
<1>3. Depth > 1 /\ ~Top.panicking /\ serial # Depth /\ Top.pc # "eoi_locked"
  <2>1. Top.kind # "main" /\ ~Top.panicking /\ Top.pc \notin {"printing", "eoi_locked"}
    BY <1>1, <1>2 DEF ContextSound, Irqs
  <2> QED
    BY <1>1, <2>1 DEF ContextSound
<1>4. /\ stack' \in Seq(Contexts) /\ Len(stack') = Depth - 1
      /\ Head(stack') = Level(stack, Depth - 1)
      /\ \A k \in 1 .. Depth - 1 : Level(stack', k) = Level(stack, k)
      /\ \A i \in 1 .. Depth - 1 : stack'[i] = stack[i + 1]
  <2>1. stack \in Seq(Contexts) /\ Len(stack) > 1
    BY <1>0, <1>3 DEF IntTypeOK
  <2> QED
    BY <1>0, <1>2, <2>1, StackPop
<1>5. Depth' = Depth - 1 /\ Top' = Level(stack, Depth - 1)
  BY <1>4 DEF Depth, Top
<1>6. Level(stack, Depth - 1).pc \in {"run", "printing", "printed", "halt"}
  <2>1. Depth - 1 \in 1 .. Depth /\ Depth - 1 < Depth
    BY <1>1, <1>3
  <2> QED
    BY <1>0, <2>1 DEF ContextSound
<1>7. flag' = (booted = 5 /\ Depth = 2 /\ serial # 1)
  BY <1>1, <1>2, <1>3 DEF ContextSound
<1>8. IntTypeOK'
  <2>1. Depth - 1 >= 1 /\ serial \in 0 .. Depth - 1 /\ flag' \in BOOLEAN
    BY <1>1, <1>3, <1>7
  <2> QED
    BY <1>0, <1>2, <1>4, <1>5, <2>1 DEF IntTypeOK
<1>9. (\A k \in 1 .. Depth : ContextSound(k, Level(stack, k), Depth, serial, booted))'
  <2> SUFFICES ASSUME NEW k \in 1 .. Depth - 1
               PROVE  ContextSound(k, Level(stack', k), Depth - 1, serial, booted)
    BY <1>2, <1>5
  <2>1. k \in 1 .. Depth /\ k \in Nat /\ k < Depth /\ Depth - 1 \in Nat
    BY <1>1, <1>3
  <2>2. ContextSound(k, Level(stack, k), Depth, serial, booted)
    BY <1>0, <2>1
  <2>3. ContextSound(k, Level(stack, k), Depth - 1, serial, booted)
    BY <1>1, <2>1, <2>2, LowerContexts
  <2> QED
    BY <1>4, <2>3
<1>10. FlagSound'
  <2>1. flag' = (booted = 5 /\ Depth - 1 = 1 /\ serial = 0
                   /\ Level(stack, Depth - 1).pc # "lock")
    BY <1>1, <1>3, <1>6, <1>7
  <2> QED
    BY <1>2, <1>5, <2>1 DEF FlagSound
<1>11. PicsSound'
  BY <1>0, <1>2, <1>3 DEF PicsSound
<1>12. HolderSound'
  <2> SUFFICES ASSUME serial # 0, serial < Depth - 1
               PROVE  Level(stack', serial + 1).kind \in Exceptions
    BY <1>2, <1>5 DEF HolderSound
  <2>1. serial + 1 \in 1 .. Depth - 1 /\ serial < Depth
    BY <1>1
  <2> QED
    BY <1>0, <1>4, <2>1 DEF HolderSound
<1>13. VectorsSound'
  <2>1. stack \in Seq(Contexts) /\ faults \in Nat
    BY <1>0 DEF IntTypeOK
  <2>2. Len(stack) = Len(stack') + 1 /\ \A i \in 1 .. Len(stack') : stack[i + 1] = stack'[i]
    BY <1>0, <1>1, <1>4
  <2>3. /\ Cardinality(ExceptionLevels(stack')) \in Nat
        /\ Cardinality(ExceptionLevels(stack)) =
             IF stack[1].kind \in Exceptions THEN Cardinality(ExceptionLevels(stack')) + 1
                                             ELSE Cardinality(ExceptionLevels(stack'))
    BY <1>4, <2>1, <2>2, ExceptionCount
  <2>4. Cardinality(ExceptionLevels(stack)) <= faults
    BY <1>0 DEF VectorsSound
  <2>5. Cardinality(ExceptionLevels(stack')) <= faults
    BY <2>1, <2>3, <2>4
  <2> QED
    BY <1>0, <1>2, <2>5 DEF VectorsSound
<1> QED
  BY <1>8, <1>9, <1>10, <1>11, <1>12, <1>13 DEF IntInv

-----------------------------------------------------------------------------
(* The running context at another place of its code, with another flag to  *)
(* restore after printing, panicking or not.                               *)
Now(pc, saved, panicking) == [Top EXCEPT !.pc = pc, !.saved = saved, !.panicking = panicking]

Pcs == {"run", "lock", "printing", "printed", "eoi", "eoi_locked", "iret", "halt"}

IsNow(c, pc, saved, panicking) ==
  /\ c \in Contexts /\ c.kind = Top.kind /\ c.pc = pc /\ c.entry = Top.entry
  /\ c.saved = saved /\ c.panicking = panicking

(* It is a context again, and the one that an assignment to it leaves.     *)
LEMMA NowFacts ==
  ASSUME IntInv, NEW pc \in Pcs, NEW saved \in BOOLEAN, NEW panicking \in BOOLEAN
  PROVE  /\ IsNow(Now(pc, saved, panicking), pc, saved, panicking)
         /\ Updated([stack EXCEPT ![1] = Now(pc, saved, panicking)], stack, Now(pc, saved, panicking))
<1>1. Top \in Contexts /\ stack \in Seq(Contexts) /\ Len(stack) >= 1
  BY TopFacts DEF IntInv, IntTypeOK, Depth
<1>2. IsNow(Now(pc, saved, panicking), pc, saved, panicking)
  BY <1>1 DEF Now, IsNow, Contexts, Pcs
<1>3. Now(pc, saved, panicking) \in Contexts
  BY <1>2 DEF IsNow
<1> QED
  BY <1>1, <1>2, <1>3, StackUpdate

(* goto changes nothing but the place.                                     *)
LEMMA GotoFacts ==
  ASSUME IntInv, NEW pc \in Pcs, Goto(pc)
  PROVE  /\ Updated(stack', stack, Now(pc, Top.saved, Top.panicking))
         /\ Top.saved \in BOOLEAN /\ Top.panicking \in BOOLEAN
<1>1. Top = stack[1] /\ Top \in Contexts
  BY TopFacts
<1>2. Top.saved \in BOOLEAN /\ Top.panicking \in BOOLEAN
  BY <1>1 DEF Contexts
<1>3. [Top EXCEPT !.pc = pc] = Now(pc, Top.saved, Top.panicking)
  BY <1>1 DEF Now, Contexts
<1>4. stack' = [stack EXCEPT ![1] = Now(pc, Top.saved, Top.panicking)]
  BY <1>1, <1>3 DEF Goto
<1> QED
  BY <1>2, <1>4, NowFacts

(* The machine starts with the main program alone.                         *)
LEMMA IntInvInit == IntInit => IntInv
<1> SUFFICES ASSUME IntInit PROVE IntInv
  OBVIOUS
<1> DEFINE c == Context("main", "run", FALSE)
<1>1. /\ c \in Contexts /\ c.kind = "main" /\ c.pc = "run"
  BY DEF Context, Contexts
<1> HIDE DEF c
<1>2. stack = <<c>>
  BY DEF IntInit, c
<1>0. /\ booted = 0 /\ serial = 0 /\ pics = 0 /\ faults = 0
      /\ flag = FALSE /\ reset = FALSE
  BY DEF IntInit
<1>3. stack \in Seq(Contexts) /\ Len(stack) = 1 /\ stack[1] = c /\ Head(stack) = c
  BY <1>1, <1>2
<1>4. Depth = 1 /\ Top = c /\ Level(stack, 1) = c
  BY <1>3 DEF Depth, Top, Level
<1>5. IntTypeOK
  <2>1. 0 \in 0 .. 5 /\ 0 \in 0 .. 1 /\ 1 >= 1 /\ 0 \in Nat
    OBVIOUS
  <2>2. flag \in BOOLEAN /\ reset \in BOOLEAN
    BY <1>0
  <2> QED
    BY <1>0, <1>3, <1>4, <2>1, <2>2, Zenon DEF IntTypeOK
<1>6. ContextSound(1, c, 1, serial, booted)
  BY <1>0, <1>1 DEF ContextSound, Irqs
<1>7. FlagSound /\ PicsSound /\ HolderSound
  <2>1. FlagSound
    <3>1. ~(booted = 5)
      BY <1>0
    <3> QED
      BY <1>0, <3>1, Zenon DEF FlagSound
  <2> QED
    BY <1>0, <2>1 DEF PicsSound, HolderSound
<1>8. VectorsSound
  <2>1. ExceptionLevels(stack) = {}
    BY <1>1, <1>3 DEF ExceptionLevels, Exceptions
  <2> QED
    BY <1>0, <2>1, FS_EmptySet DEF VectorsSound
<1> QED
  BY <1>4, <1>5, <1>6, <1>7, <1>8 DEF IntInv

(* init runs in the main program, which holds no lock but that of PICS.    *)
LEMMA InitStepInv ==
  ASSUME IntInv, InitStep
  PROVE  IntInv'
<1>0. /\ IntTypeOK /\ FlagSound /\ PicsSound /\ HolderSound /\ VectorsSound
      /\ \A k \in 1 .. Depth : ContextSound(k, Level(stack, k), Depth, serial, booted)
  BY DEF IntInv
<1>1. /\ Depth \in Nat /\ Depth >= 1 /\ serial \in 0 .. Depth /\ booted \in 0 .. 5 /\ pics \in Nat
      /\ Top = Level(stack, Depth) /\ ContextSound(Depth, Top, Depth, serial, booted)
  BY TopFacts DEF IntInv, IntTypeOK
<1>2. /\ ~reset /\ booted < 5 /\ Top.kind = "main" /\ Top.pc = "run" /\ ~Top.panicking
      /\ booted' = booted + 1 /\ UNCHANGED <<stack, serial, faults, reset>>
  BY <1>1, DoneFacts DEF InitStep
<1>3. /\ pics' = CASE booted = 2 -> Depth [] booted = 3 -> 0 [] OTHER -> pics
      /\ flag' = (flag \/ booted = 4)
  <2>1. /\ INIT_ORDER[booted + 1] = "pics_lock" <=> booted = 2
        /\ INIT_ORDER[booted + 1] = "pics_unlock" <=> booted = 3
        /\ INIT_ORDER[booted + 1] = "sti" <=> booted = 4
    <3>1. booted \in {0, 1, 2, 3, 4}
      BY <1>1, <1>2
    <3> QED
      BY <3>1 DEF INIT_ORDER
  <2> QED
    BY <2>1 DEF InitStep
<1>4. Depth = 1 /\ serial = 0
  BY <1>1, <1>2 DEF ContextSound
<1>5. ~flag
  <2>1. ~reset /\ ~(booted = 5)
    BY <1>2
  <2> QED
    BY <1>0, <2>1, Zenon DEF FlagSound
<1>6. pics # 0 => booted = 3
  BY <1>0, <1>2 DEF PicsSound
<1>7. Depth' = Depth /\ Top' = Top /\ ExceptionLevels(stack)' = ExceptionLevels(stack)
  BY <1>2 DEF Depth, Top, ExceptionLevels
<1>8. IntTypeOK'
  <2>1. booted' \in 0 .. 5 /\ pics' \in Nat
    BY <1>1, <1>2, <1>3, <1>4
  <2>2. flag' \in BOOLEAN
    BY <1>3
  <2> QED
    BY <1>0, <1>2, <1>7, <2>1, <2>2 DEF IntTypeOK
<1>9. ContextSound(1, Top, 1, 0, booted + 1)
  BY <1>1, <1>2, <1>4 DEF ContextSound, Irqs
<1>10. (\A k \in 1 .. Depth : ContextSound(k, Level(stack, k), Depth, serial, booted))'
  BY <1>1, <1>2, <1>4, <1>7, <1>9
<1>11. FlagSound'
  <2>1. (flag \/ booted = 4) = (booted + 1 = 5)
    BY <1>1, <1>5
  <2> QED
    BY <1>2, <1>3, <1>4, <1>7, <2>1 DEF FlagSound
<1>12. PicsSound'
  <2>1. pics' # 0 => booted + 1 = 3 /\ pics' = 1
    BY <1>1, <1>3, <1>4, <1>6
  <2> QED
    BY <1>2, <2>1 DEF PicsSound
<1>13. HolderSound' /\ VectorsSound'
  BY <1>0, <1>2, <1>4, <1>7 DEF HolderSound, VectorsSound
<1> QED
  BY <1>8, <1>10, <1>11, <1>12, <1>13 DEF IntInv

(* What the invariant says of the running context.                         *)
LEMMA StepFacts ==
  ASSUME IntInv, ~reset
  PROVE  /\ Depth \in Nat /\ Depth >= 1 /\ serial \in 0 .. Depth /\ booted \in 0 .. 5
         /\ pics \in Nat /\ faults \in Nat
         /\ Top.pc \in Pcs /\ Top.saved \in BOOLEAN /\ Top.panicking \in BOOLEAN
         /\ ContextSound(Depth, Top, Depth, serial, booted)
         /\ flag = (booted = 5 /\ Depth = 1 /\ serial = 0 /\ Top.pc # "lock")
         /\ flag \in BOOLEAN
         /\ pics # 0 => \/ booted = 3 /\ pics = 1
                        \/ Depth = 2 /\ pics = 2 /\ Top.pc = "eoi_locked"
<1>1. Top.pc \in Pcs /\ Top.saved \in BOOLEAN /\ Top.panicking \in BOOLEAN
  BY TopFacts DEF Contexts, Pcs
<1>2. flag = (booted = 5 /\ Depth = 1 /\ serial = 0 /\ Top.pc # "lock")
  BY DEF IntInv, FlagSound
<1>3. pics # 0 => \/ booted = 3 /\ pics = 1
                  \/ Depth = 2 /\ pics = 2 /\ Top.pc = "eoi_locked"
  BY DEF IntInv, PicsSound
<1> QED
  BY <1>1, <1>2, <1>3, TopFacts DEF IntInv, IntTypeOK

(* without_interrupts saves the flag of the context that prints.           *)
LEMMA PrintBeginInv ==
  ASSUME IntInv, PrintBegin
  PROVE  IntInv'
<1> DEFINE c == Now("lock", flag, Top.panicking)
<1>1. /\ ~reset /\ Top.pc \in {"run", "printed"} /\ flag' = FALSE
      /\ stack' = [stack EXCEPT ![1].pc = "lock", ![1].saved = flag]
      /\ UNCHANGED <<booted, serial, pics, faults, reset>>
  BY DEF PrintBegin, Prints, Disabled
<1>2. /\ c \in Contexts /\ c.kind = Top.kind /\ c.pc = "lock" /\ c.entry = Top.entry
      /\ c.saved = flag /\ c.panicking = Top.panicking
      /\ Updated([stack EXCEPT ![1] = c], stack, c)
  <2>1. "lock" \in Pcs /\ flag \in BOOLEAN /\ Top.saved \in BOOLEAN /\ Top.panicking \in BOOLEAN
    BY <1>1, StepFacts DEF Pcs
  <2>2. IsNow(c, "lock", flag, Top.panicking) /\ Updated([stack EXCEPT ![1] = c], stack, c)
    BY <2>1, NowFacts
  <2> HIDE DEF c
  <2> QED
    BY <2>2 DEF IsNow
<1>3. stack' = [stack EXCEPT ![1] = c]
  <2>1. Top = stack[1] /\ Top \in Contexts
    BY TopFacts
  <2>2. c = [Top EXCEPT !.pc = "lock", !.saved = flag]
    BY <2>1 DEF Now, Contexts
  <2> QED
    BY <1>1, <2>1, <2>2
<1>4. Updated(stack', stack, c)
  BY <1>2, <1>3
<1> HIDE DEF c
<1>5. ContextSound(Depth, c, Depth, serial, booted)
  BY <1>1, <1>2, StepFacts DEF ContextSound
<1>6. pics # 0 => booted = 3 /\ pics = 1
  BY <1>1, StepFacts
<1>7. faults \in Nat /\ pics \in Nat /\ faults >= faults
  BY <1>1, StepFacts
<1>8. flag' = (booted = 5 /\ Depth = 1 /\ serial = 0 /\ c.pc # "lock")
  BY <1>1, <1>2
<1> HIDE <1>3
<1> QED
  BY <1>1, <1>2, <1>4, <1>5, <1>6, <1>7, <1>8, TopStep

(* SERIAL1.lock() succeeds.                                                *)
LEMMA SerialLockInv ==
  ASSUME IntInv, SerialLock
  PROVE  IntInv'
<1> DEFINE c == Now("printing", Top.saved, Top.panicking)
<1>1. /\ ~reset /\ Top.pc = "lock" /\ serial = 0 /\ serial' = Depth /\ Goto("printing")
      /\ UNCHANGED <<booted, flag, pics, faults, reset>>
  BY DEF SerialLock
<1>2. /\ c \in Contexts /\ c.kind = Top.kind /\ c.pc = "printing" /\ c.entry = Top.entry
      /\ c.saved = Top.saved /\ c.panicking = Top.panicking
  <2>1. "printing" \in Pcs /\ flag \in BOOLEAN /\ Top.saved \in BOOLEAN /\ Top.panicking \in BOOLEAN
    BY <1>1, StepFacts DEF Pcs
  <2>2. IsNow(c, "printing", Top.saved, Top.panicking)
    BY <2>1, NowFacts
  <2> HIDE DEF c
  <2> QED
    BY <2>2 DEF IsNow
<1>3. Updated(stack', stack, c)
  BY <1>1, GotoFacts DEF Pcs
<1> HIDE DEF c
<1>4. ContextSound(Depth, c, Depth, Depth, booted)
  BY <1>1, <1>2, StepFacts DEF ContextSound
<1>5. pics # 0 => booted = 3 /\ pics = 1
  BY <1>1, StepFacts
<1>6. faults \in Nat /\ pics \in Nat /\ faults >= faults /\ Depth # 0
  BY <1>1, StepFacts
<1>7. flag' = (booted = 5 /\ Depth = 1 /\ serial' = 0 /\ c.pc # "lock")
  BY <1>1, <1>6, StepFacts
<1> QED
  BY <1>1, <1>2, <1>3, <1>4, <1>5, <1>6, <1>7, TopStep

(* The end of println!: the lock is free and the flag as it was.           *)
LEMMA SerialUnlockInv ==
  ASSUME IntInv, SerialUnlock
  PROVE  IntInv'
<1> DEFINE pc == IF Top.kind = "main" /\ ~Top.panicking THEN "run" ELSE "printed"
           c  == Now(pc, Top.saved, Top.panicking)
<1>1. /\ ~reset /\ Top.pc = "printing" /\ serial' = 0 /\ flag' = Top.saved /\ Goto(pc)
      /\ UNCHANGED <<booted, pics, faults, reset>>
  BY DEF SerialUnlock, Restored
<1>0. pc \in {"run", "printed"} /\ pc \in Pcs
  BY DEF Pcs
<1> HIDE DEF pc
<1>2. /\ c \in Contexts /\ c.kind = Top.kind /\ c.pc = pc /\ c.entry = Top.entry
      /\ c.saved = Top.saved /\ c.panicking = Top.panicking
  <2>1. Top.saved \in BOOLEAN /\ Top.panicking \in BOOLEAN
    BY <1>1, StepFacts
  <2>2. IsNow(c, pc, Top.saved, Top.panicking)
    BY <1>0, <2>1, NowFacts
  <2> HIDE DEF c
  <2> QED
    BY <2>2 DEF IsNow
<1>3. Updated(stack', stack, c)
  BY <1>0, <1>1, GotoFacts
<1> HIDE DEF c
<1>4. ContextSound(Depth, c, Depth, 0, booted) /\ serial = Depth
  BY <1>0, <1>1, <1>2, StepFacts DEF ContextSound
<1>5. pics # 0 => booted = 3 /\ pics = 1
  BY <1>1, StepFacts
<1>6. faults \in Nat /\ pics \in Nat /\ faults >= faults
  BY <1>1, StepFacts
<1>7. flag' = (booted = 5 /\ Depth = 1 /\ serial' = 0 /\ c.pc # "lock")
  <2>1. Top.saved = (booted = 5 /\ Depth = 1)
    BY <1>1, StepFacts DEF ContextSound
  <2>2. serial' = 0 /\ c.pc # "lock"
    BY <1>0, <1>1, <1>2
  <2> QED
    BY <1>1, <2>1, <2>2
<1> QED
  BY <1>1, <1>2, <1>3, <1>4, <1>5, <1>6, <1>7, TopStep

(* The body of an interrupt handler.                                       *)
LEMMA HandlerBodyInv ==
  ASSUME IntInv, HandlerBody
  PROVE  IntInv'
<1> DEFINE c == Now("eoi", Top.saved, Top.panicking)
<1>1. /\ ~reset /\ Top.kind \in Irqs /\ Top.pc \in {"run", "printed"} /\ ~Top.panicking
      /\ Goto("eoi")
      /\ UNCHANGED <<booted, flag, serial, pics, faults, reset>>
  BY DEF HandlerBody
<1>2. /\ c \in Contexts /\ c.kind = Top.kind /\ c.pc = "eoi" /\ c.entry = Top.entry
      /\ c.saved = Top.saved /\ c.panicking = Top.panicking
  <2>1. "eoi" \in Pcs /\ Top.saved \in BOOLEAN /\ Top.panicking \in BOOLEAN
    BY <1>1, StepFacts DEF Pcs
  <2>2. IsNow(c, "eoi", Top.saved, Top.panicking)
    BY <2>1, NowFacts
  <2> HIDE DEF c
  <2> QED
    BY <2>2 DEF IsNow
<1>3. Updated(stack', stack, c)
  BY <1>1, GotoFacts DEF Pcs
<1> HIDE DEF c
<1>4. ContextSound(Depth, c, Depth, serial, booted)
  BY <1>1, <1>2, StepFacts DEF ContextSound
<1>5. pics' # 0 => booted = 3 /\ pics' = 1
  BY <1>1, StepFacts
<1>6. faults \in Nat /\ faults >= faults /\ pics' \in Nat
  BY <1>1, StepFacts
<1>7. flag' = (booted = 5 /\ Depth = 1 /\ serial' = 0 /\ c.pc # "lock")
  BY <1>1, <1>2, StepFacts
<1> QED
  BY <1>1, <1>2, <1>3, <1>4, <1>5, <1>6, <1>7, TopStep

(* PICS.lock() succeeds.                                                   *)
LEMMA PicsLockInv ==
  ASSUME IntInv, PicsLock
  PROVE  IntInv'
<1> DEFINE c == Now("eoi_locked", Top.saved, Top.panicking)
<1>1. /\ ~reset /\ Top.pc = "eoi" /\ pics = 0 /\ pics' = Depth /\ Goto("eoi_locked")
      /\ UNCHANGED <<booted, flag, serial, faults, reset>>
  BY DEF PicsLock
<1>2. /\ c \in Contexts /\ c.kind = Top.kind /\ c.pc = "eoi_locked" /\ c.entry = Top.entry
      /\ c.saved = Top.saved /\ c.panicking = Top.panicking
  <2>1. "eoi_locked" \in Pcs /\ Top.saved \in BOOLEAN /\ Top.panicking \in BOOLEAN
    BY <1>1, StepFacts DEF Pcs
  <2>2. IsNow(c, "eoi_locked", Top.saved, Top.panicking)
    BY <2>1, NowFacts
  <2> HIDE DEF c
  <2> QED
    BY <2>2 DEF IsNow
<1>3. Updated(stack', stack, c)
  BY <1>1, GotoFacts DEF Pcs
<1> HIDE DEF c
<1>4. ContextSound(Depth, c, Depth, serial, booted)
  BY <1>1, <1>2, StepFacts DEF ContextSound
<1>5. pics' # 0 => Depth = 2 /\ pics' = 2 /\ c.pc = "eoi_locked"
  BY <1>1, <1>2, StepFacts DEF ContextSound
<1>6. faults \in Nat /\ faults >= faults /\ pics' \in Nat
  BY <1>1, StepFacts
<1>7. flag' = (booted = 5 /\ Depth = 1 /\ serial' = 0 /\ c.pc # "lock")
  BY <1>1, <1>2, StepFacts
<1> QED
  BY <1>1, <1>2, <1>3, <1>4, <1>5, <1>6, <1>7, TopStep

(* The end of interrupt is sent and PICS unlocked.                         *)
LEMMA EndOfInterruptInv ==
  ASSUME IntInv, EndOfInterrupt
  PROVE  IntInv'
<1> DEFINE c == Now("iret", Top.saved, Top.panicking)
<1>1. /\ ~reset /\ Top.pc = "eoi_locked" /\ pics' = 0 /\ Goto("iret")
      /\ UNCHANGED <<booted, flag, serial, faults, reset>>
  BY DEF EndOfInterrupt
<1>2. /\ c \in Contexts /\ c.kind = Top.kind /\ c.pc = "iret" /\ c.entry = Top.entry
      /\ c.saved = Top.saved /\ c.panicking = Top.panicking
  <2>1. "iret" \in Pcs /\ Top.saved \in BOOLEAN /\ Top.panicking \in BOOLEAN
    BY <1>1, StepFacts DEF Pcs
  <2>2. IsNow(c, "iret", Top.saved, Top.panicking)
    BY <2>1, NowFacts
  <2> HIDE DEF c
  <2> QED
    BY <2>2 DEF IsNow
<1>3. Updated(stack', stack, c)
  BY <1>1, GotoFacts DEF Pcs
<1> HIDE DEF c
<1>4. ContextSound(Depth, c, Depth, serial, booted)
  BY <1>1, <1>2, StepFacts DEF ContextSound
<1>5. pics' = 0
  BY <1>1
<1>6. faults \in Nat /\ faults >= faults /\ pics' \in Nat
  BY <1>1, StepFacts
<1>7. flag' = (booted = 5 /\ Depth = 1 /\ serial' = 0 /\ c.pc # "lock")
  BY <1>1, <1>2, StepFacts
<1> QED
  BY <1>1, <1>2, <1>3, <1>4, <1>5, <1>6, <1>7, TopStep

(* A context that halts keeps the lock it panicked with.                   *)
LEMMA HaltInv ==
  ASSUME IntInv, Halt
  PROVE  IntInv'
<1> DEFINE c == Now("halt", Top.saved, Top.panicking)
<1>1. /\ ~reset /\ Top.pc = "printed" /\ Goto("halt")
      /\ UNCHANGED <<booted, flag, serial, pics, faults, reset>>
  BY DEF Halt
<1>2. /\ c \in Contexts /\ c.kind = Top.kind /\ c.pc = "halt" /\ c.entry = Top.entry
      /\ c.saved = Top.saved /\ c.panicking = Top.panicking
  <2>1. "halt" \in Pcs /\ Top.saved \in BOOLEAN /\ Top.panicking \in BOOLEAN
    BY <1>1, StepFacts DEF Pcs
  <2>2. IsNow(c, "halt", Top.saved, Top.panicking)
    BY <2>1, NowFacts
  <2> HIDE DEF c
  <2> QED
    BY <2>2 DEF IsNow
<1>3. Updated(stack', stack, c)
  BY <1>1, GotoFacts DEF Pcs
<1> HIDE DEF c
<1>4. ContextSound(Depth, c, Depth, serial, booted)
  BY <1>1, <1>2, StepFacts DEF ContextSound
<1>5. pics' # 0 => booted = 3 /\ pics' = 1
  BY <1>1, StepFacts
<1>6. faults \in Nat /\ faults >= faults /\ pics' \in Nat
  BY <1>1, StepFacts
<1>7. flag' = (booted = 5 /\ Depth = 1 /\ serial' = 0 /\ c.pc # "lock")
  BY <1>1, <1>2, StepFacts
<1> QED
  BY <1>1, <1>2, <1>3, <1>4, <1>5, <1>6, <1>7, TopStep

(* A panic starts the panic handler with the locks that are held.          *)
LEMMA PanicInv ==
  ASSUME IntInv, Panic
  PROVE  IntInv'
<1> DEFINE c == Now("run", Top.saved, TRUE)
<1>1. /\ ~reset /\ Top.pc \in {"run", "printing", "printed"} /\ faults' = faults + 1
      /\ stack' = [stack EXCEPT ![1].pc = "run", ![1].panicking = TRUE]
      /\ UNCHANGED <<booted, flag, serial, pics, reset>>
  BY DEF Panic, Running
<1>2. /\ c \in Contexts /\ c.kind = Top.kind /\ c.pc = "run" /\ c.entry = Top.entry
      /\ c.saved = Top.saved /\ c.panicking = TRUE
      /\ Updated([stack EXCEPT ![1] = c], stack, c)
  <2>1. "run" \in Pcs /\ Top.saved \in BOOLEAN /\ TRUE \in BOOLEAN
    BY <1>1, StepFacts DEF Pcs
  <2>2. IsNow(c, "run", Top.saved, TRUE) /\ Updated([stack EXCEPT ![1] = c], stack, c)
    BY <2>1, NowFacts
  <2> HIDE DEF c
  <2> QED
    BY <2>2 DEF IsNow
<1>3. stack' = [stack EXCEPT ![1] = c]
  <2>1. Top = stack[1] /\ Top \in Contexts
    BY TopFacts
  <2>2. c = [Top EXCEPT !.pc = "run", !.panicking = TRUE]
    BY <2>1 DEF Now, Contexts
  <2> QED
    BY <1>1, <2>1, <2>2
<1>4. Updated(stack', stack, c)
  BY <1>2, <1>3
<1> HIDE DEF c
<1>5. ContextSound(Depth, c, Depth, serial, booted)
  BY <1>1, <1>2, StepFacts DEF ContextSound
<1>6. pics # 0 => booted = 3 /\ pics = 1
  BY <1>1, StepFacts
<1>7. faults + 1 \in Nat /\ pics \in Nat /\ faults + 1 >= faults
  BY <1>1, StepFacts
<1>8. flag = (booted = 5 /\ Depth = 1 /\ serial = 0 /\ c.pc # "lock")
  BY <1>1, <1>2, StepFacts
<1> HIDE <1>3
<1> QED
  BY <1>1, <1>2, <1>4, <1>5, <1>6, <1>7, <1>8, TopStep

(* A device interrupts the main program, after init.                       *)
LEMMA DeliverInv ==
  ASSUME IntInv, NEW irq \in Irqs, Deliver(irq)
  PROVE  IntInv'
<1>1. ~reset /\ flag /\ UNCHANGED <<booted, serial, pics, faults>>
  BY DEF Deliver
<1>2. booted = 5 /\ Depth = 1 /\ serial = 0 /\ Top.pc # "lock"
  BY <1>1, StepFacts
<1>3. Enter(irq) /\ reset' = FALSE
  <2>1. Done("pics_unlock") /\ Done("idt")
    BY <1>2, DoneFacts
  <2> QED
    BY <2>1 DEF Deliver, IdtLoaded
<1>4. Top.pc \in {"run", "printing", "printed", "halt"}
  <2>1. Top.pc \in Pcs /\ ContextSound(1, Top, 1, 0, 5)
    BY <1>1, <1>2, StepFacts
  <2> QED
    BY <1>2, <2>1 DEF ContextSound, Pcs
<1> QED
  BY <1>1, <1>3, <1>4, PushStep

(* An exception runs its handler or, before the IDT, restarts the machine. *)
LEMMA ExceptionInv ==
  ASSUME IntInv, NEW kind \in Exceptions, Exception(kind)
  PROVE  IntInv'
<1>1. /\ ~reset /\ Top.pc \in {"run", "printing", "printed"} /\ faults' = faults + 1
      /\ UNCHANGED <<booted, serial, pics>>
  BY DEF Exception, Running
<1>2. CASE IdtLoaded /\ (kind = "double_fault" => DoubleFaultStack)
  <2>1. Enter(kind) /\ reset' = FALSE
    BY <1>1, <1>2 DEF Exception
  <2> QED
    BY <1>1, <2>1, PushStep
<1>3. CASE ~(IdtLoaded /\ (kind = "double_fault" => DoubleFaultStack))
  <2>1. reset' = TRUE /\ UNCHANGED <<stack, flag>>
    BY <1>3 DEF Exception
  <2>2. booted < 2
    BY <1>1, <1>3, StepFacts, DoneFacts DEF IdtLoaded, DoubleFaultStack
  <2>3. Depth' = Depth /\ Top' = Top /\ ExceptionLevels(stack)' = ExceptionLevels(stack)
    BY <2>1 DEF Depth, Top, ExceptionLevels
  <2>4. IntTypeOK'
    BY <1>1, <2>1, <2>3 DEF IntInv, IntTypeOK
  <2>5. (\A k \in 1 .. Depth : ContextSound(k, Level(stack, k), Depth, serial, booted))'
    BY <1>1, <2>1, <2>3 DEF IntInv
  <2>6. FlagSound' /\ PicsSound' /\ HolderSound'
    BY <1>1, <2>1, <2>3 DEF IntInv, FlagSound, PicsSound, HolderSound
  <2>7. VectorsSound'
    <3>1. Cardinality(ExceptionLevels(stack)) \in Nat /\ faults \in Nat
      BY ExceptionsFinite DEF IntInv, IntTypeOK
    <3>2. Cardinality(ExceptionLevels(stack)) <= faults + 1
      BY <3>1 DEF IntInv, VectorsSound
    <3> QED
      BY <1>1, <2>2, <2>3, <3>2 DEF VectorsSound
  <2> QED
    BY <2>4, <2>5, <2>6, <2>7 DEF IntInv
<1> QED
  BY <1>2, <1>3

(* Every step keeps the invariant.                                         *)
LEMMA IntInvNext == IntInv /\ [IntNext]_intVars => IntInv'
<1> SUFFICES ASSUME IntInv, [IntNext]_intVars PROVE IntInv'
  OBVIOUS
<1>1. CASE UNCHANGED <<booted, flag, stack, serial, pics, faults, reset>>
  <2>1. Depth' = Depth /\ Top' = Top /\ ExceptionLevels(stack)' = ExceptionLevels(stack)
    BY <1>1 DEF Depth, Top, ExceptionLevels
  <2>2. IntTypeOK' /\ FlagSound' /\ PicsSound' /\ HolderSound' /\ VectorsSound'
    BY <1>1, <2>1 DEF IntInv, IntTypeOK, FlagSound, PicsSound, HolderSound, VectorsSound
  <2>3. (\A k \in 1 .. Depth : ContextSound(k, Level(stack, k), Depth, serial, booted))'
    BY <1>1, <2>1 DEF IntInv
  <2> QED
    BY <2>2, <2>3 DEF IntInv
<1>2. ASSUME NEW irq \in Irqs, Raise(irq) PROVE IntInv'
  BY <1>1, <1>2 DEF Raise
<1>3. ASSUME NEW irq \in Irqs, Deliver(irq) PROVE IntInv'
  BY <1>3, DeliverInv
<1>4. ASSUME NEW kind \in Exceptions, Exception(kind) PROVE IntInv'
  BY <1>4, ExceptionInv
<1>5. CASE CpuStep
  BY <1>5, SerialLockInv, SerialUnlockInv, HandlerBodyInv, PicsLockInv, EndOfInterruptInv,
     PopStep, HaltInv, PrintBeginInv DEF CpuStep
<1>6. CASE UNCHANGED intVars
  BY <1>1, <1>6 DEF intVars
<1> QED
  BY <1>2, <1>3, <1>4, <1>5, <1>6, InitStepInv, PrintBeginInv, PanicInv DEF IntNext, Stopped

(* The invariant holds in every behaviour.                                 *)
LEMMA IntInvAlways == IntSpec => []IntInv
  BY IntInvInit, IntInvNext, PTL DEF IntSpec

-----------------------------------------------------------------------------
(***************************************************************************)
(* The interrupt flag is set exactly when the main program runs after init *)
(* and does not print: no handler is interrupted by a device, and println! *)
(* restores the flag of whichever context it runs in, the keyboard's       *)
(* handler with the warning of add_scancode among them.                    *)
(***************************************************************************)
THEOREM HandlersUninterrupted == IntSpec => []FlagDiscipline
<1>1. IntInv => FlagDiscipline
  BY DoneFacts DEF IntInv, IntTypeOK, FlagSound, FlagDiscipline
<1> QED
  BY <1>1, IntInvAlways, PTL

(***************************************************************************)
(* notify_end_of_interrupt never waits for PICS, nor add_scancode in the   *)
(* keyboard's handler for SERIAL1, and println! waits for ever only where  *)
(* an exception or a panic cut the printing of a context short: no         *)
(* deadlock comes from interrupts alone.                                   *)
(***************************************************************************)
THEOREM NoLockDeadlock == IntSpec => []LocksAvailable
<1>1. ASSUME IntInv PROVE ~SpinsOnPics
  <2> SUFFICES ASSUME Top.pc = "eoi", pics # 0 PROVE FALSE
    BY DEF SpinsOnPics
  <2>1. ContextSound(Depth, Top, Depth, serial, booted)
    BY <1>1, TopFacts
  <2>2. booted = 5
    BY <2>1 DEF ContextSound
  <2> QED
    BY <1>1, <2>2 DEF IntInv, PicsSound
<1>2. ASSUME IntInv, SpinsOnSerial, serial < Depth
      PROVE  stack[Depth - serial].kind \in Exceptions
  <2>1. serial # 0 /\ Depth \in Nat /\ serial \in 0 .. Depth
    BY <1>2, TopFacts DEF IntInv, IntTypeOK, SpinsOnSerial
  <2>2. Level(stack, serial + 1).kind \in Exceptions
    BY <1>2, <2>1 DEF IntInv, HolderSound
  <2>3. Level(stack, serial + 1) = stack[Depth - serial]
    <3>1. Depth + 1 - (serial + 1) = Depth - serial
      BY <2>1
    <3> QED
      BY <3>1 DEF Level, Depth
  <2> QED
    BY <2>2, <2>3
<1>3. ASSUME IntInv, SpinsOnSerial, serial = Depth PROVE Top.panicking
  BY <1>3, TopFacts DEF ContextSound, SpinsOnSerial
<1>4. ASSUME IntInv, SpinsOnSerial, Top.kind \in Irqs, ~Top.panicking PROVE FALSE
  <2>1. Depth = 2 /\ serial # Depth
    BY <1>4, TopFacts DEF ContextSound, SpinsOnSerial
  <2>2. serial = 1
    BY <1>4, <2>1 DEF IntInv, IntTypeOK, SpinsOnSerial
  <2>3. Level(stack, 2).kind \in Exceptions /\ Level(stack, 2) = Top
    BY <1>4, <2>1, <2>2, TopFacts DEF IntInv, HolderSound
  <2> QED
    BY <1>4, <2>3 DEF Irqs, Exceptions
<1>5. ASSUME IntInv, SpinsOnSerial, serial # Depth PROVE serial < Depth
  BY <1>5, TopFacts DEF IntInv, IntTypeOK
<1>6. IntInv => LocksAvailable
  BY <1>1, <1>2, <1>3, <1>4, <1>5 DEF LocksAvailable
<1> QED
  BY <1>6, IntInvAlways, PTL

(***************************************************************************)
(* The order of init: the machine restarts only by an exception before the *)
(* IDT is loaded, and no request of a device arrives as an exception.      *)
(***************************************************************************)
THEOREM VectorsExpected == IntSpec => []NoUnexpectedVector
<1>1. ASSUME IntInv PROVE NoUnexpectedVector
  <2>1. ExceptionLevels(stack) = {i \in 1 .. Depth : stack[i].kind \in Exceptions}
    BY DEF ExceptionLevels, Depth
  <2>2. booted \in 0 .. 5 /\ VectorsSound
    BY <1>1 DEF IntInv, IntTypeOK
  <2>3. booted < 2 => ~IdtLoaded
    BY <2>2, DoneFacts DEF IdtLoaded
  <2> QED
    BY <2>1, <2>2, <2>3 DEF NoUnexpectedVector, VectorsSound
<1> QED
  BY <1>1, IntInvAlways, PTL
=============================================================================
