----------------------------- MODULE VecProofs -----------------------------
(* The vector stays inside its block, and implements the sequence it promises, *)
(* for every width of a size_t, size of an element and amount of memory.       *)
EXTENDS Vec, SequenceTheorems, WellFoundedInduction, TLAPS

\* The powers of two are numbers, and a size_t has twice the values of half of it
LEMMA PowFacts ==
  /\ \A k \in 0..Width : Pow[k] \in Nat
  /\ Pow[Width - 1] \in Nat
  /\ Word = 2 * Pow[Width - 1]
  /\ Word \in Nat
BY VecAssumption DEF Word

\* A set of naturals that is not empty has a least element
LEMMA LeastElement ==
  ASSUME NEW T \in SUBSET Nat, T # {}
  PROVE  Min(T) \in T /\ \A y \in T : Min(T) <= y
<1>1. PICK x \in T : \A y \in T : ~ (<<y, x>> \in OpToRel(<, Nat))
  BY WFMin, NatLessThanWellFounded, Zenon
<1>2. ASSUME NEW y \in T, y < x PROVE FALSE
  BY <1>1, <1>2 DEF OpToRel
<1>3. \A y \in T : x <= y
  BY <1>2
<1> QED
  BY <1>3 DEF Min

(* Rounding goes up, and to less than twice the request.                       *)
LEMMA RoundUpFacts ==
  ASSUME NEW n \in Nat \ {0}, n <= Pow[Width - 1]
  PROVE  /\ RoundUp(n) \in Nat
         /\ n <= RoundUp(n)
         /\ RoundUp(n) <= 2 * (n - 1) \/ RoundUp(n) = 1
<1> DEFINE powers == {Pow[k] : k \in 0..(Width - 1)}
           above  == {p \in powers : n <= p}
<1>1. above \in SUBSET Nat
  BY PowFacts, VecAssumption
<1>2. Pow[Width - 1] \in above
  BY PowFacts, VecAssumption
<1>3. RoundUp(n) = Min(above)
  BY <1>2 DEF RoundUp
<1>4. RoundUp(n) \in above /\ \A y \in above : RoundUp(n) <= y
  BY <1>1, <1>2, <1>3, LeastElement
<1>5. PICK j \in 0..(Width - 1) : RoundUp(n) = Pow[j] /\ n <= Pow[j]
  BY <1>4
<1>6. CASE j = 0
  BY <1>5, <1>6, PowFacts, VecAssumption
<1>7. CASE j # 0
  <2>1. /\ j - 1 \in 0..(Width - 1) /\ j \in 1..Width
        /\ Pow[j] = 2 * Pow[j - 1] /\ Pow[j - 1] \in Nat
    BY <1>5, <1>7, PowFacts, VecAssumption
  <2>2. Pow[j - 1] < n
    <3>1. SUFFICES ASSUME n <= Pow[j - 1] PROVE FALSE
      BY <2>1
    <3>2. Pow[j - 1] \in above
      BY <2>1, <3>1
    <3> QED
      BY <1>4, <1>5, <2>1, <3>1, <3>2
  <2> QED
    BY <1>5, <2>1, <2>2
<1> QED
  BY <1>6, <1>7

\* Fewer elements take fewer bytes
LEMMA Times ==
  ASSUME NEW m \in Nat, NEW n \in Nat, m <= n
  PROVE  ElemSize * m <= ElemSize * n /\ ElemSize * m \in Nat /\ ElemSize * n \in Nat
BY VecAssumption

\* The whole elements in the bytes of n elements are n
LEMMA WholeElements ==
  ASSUME NEW n \in Nat
  PROVE  (ElemSize * n) \div ElemSize = n
<1> DEFINE q == (ElemSize * n) \div ElemSize
           r == (ElemSize * n) % ElemSize
<1>1. ElemSize \in Nat \ {0} /\ ElemSize * n \in Nat
  BY VecAssumption
<1>2. ElemSize * n = ElemSize * q + r /\ r \in 0..(ElemSize - 1) /\ q \in Nat
  BY <1>1
<1> HIDE DEF q, r
<1>3. CASE q >= n + 1
  <2>1. ElemSize * q >= ElemSize * (n + 1)
    BY <1>1, <1>2, <1>3
  <2> QED
    BY <1>1, <1>2, <2>1
<1>4. CASE n >= q + 1
  <2>1. ElemSize * n >= ElemSize * (q + 1)
    BY <1>1, <1>2, <1>4
  <2> QED
    BY <1>1, <1>2, <2>1
<1> QED
  BY <1>2, <1>3, <1>4 DEF q

\* What is at most twice what fits in memory does not wrap, nor do its bytes
LEMMA NoWrap ==
  ASSUME NEW m \in Nat, ElemSize * m <= Memory,
         NEW n \in Nat \ {0}, n <= 2 * m \/ n = 1
  PROVE  n < Word /\ ElemSize * n < Word /\ ElemSize * n \in Nat \ {0}
<1>1. ElemSize \in Nat \ {0} /\ Memory \in Nat /\ ElemSize <= Memory /\ 2 * Memory < Word
  BY VecAssumption, PowFacts
<1>2. ElemSize * n <= 2 * Memory
  <2>1. CASE n = 1
    BY <1>1, <2>1
  <2>2. CASE n <= 2 * m
    <3>1. ElemSize * n <= ElemSize * (2 * m)
      BY <1>1, <2>2
    <3>2. ElemSize * (2 * m) = 2 * (ElemSize * m)
      BY <1>1
    <3> QED
      BY <1>1, <3>1, <3>2
  <2> QED
    BY <2>1, <2>2
<1>3. n <= ElemSize * n
  BY <1>1
<1> QED
  BY <1>1, <1>2, <1>3, PowFacts

-----------------------------------------------------------------------------
(* The inductive invariant.  While the process runs, capacity is the room of   *)
(* the block, unless memory was refused: then the null pointer has a capacity  *)
(* above len, which is why the next element is written through it.  The bytes  *)
(* of the block are in memory, so no size that is computed from len and        *)
(* capacity wraps.                                                             *)
Sound ==
  /\ block # <<>> => Len(block) = capacity
  /\ block = <<>> /\ capacity # 0 => lost /\ allocator = "system" /\ len < capacity
  /\ ElemSize * Len(block) <= Memory
  /\ ElemSize * len <= Memory
  /\ allocator = "none" => capacity = 0 /\ given # <<>>

IInv == TypeOK /\ NoWildWrite /\ (Live => Sound)

\* VUT_VEC_INIT satisfies the inductive invariant
LEMMA InitInv == Init => IInv
<1> SUFFICES ASSUME Init PROVE IInv
  OBVIOUS
<1>1. 0 \in 0..(Word - 1) /\ 0 \in 0..0
  BY PowFacts, VecAssumption
<1>2. TypeOK
  <2>1. block = <<>> /\ given = <<>> /\ len = 0 /\ capacity = 0 /\ lost = FALSE /\ fault = "none"
    BY DEF Init
  <2>2. allocator \in {"arena", "system"}
    BY DEF Init
  <2>3. len \in 0..capacity /\ capacity \in 0..(Word - 1)
    BY <1>1, <2>1
  <2>4. block \in Seq(Values \union {Junk}) /\ given \in Seq(Values \union {Junk})
    BY <2>1
  <2> QED
    BY <2>1, <2>2, <2>3, <2>4 DEF TypeOK
<1>3. NoWildWrite
  BY DEF Init, NoWildWrite
<1>4. Sound
  BY VecAssumption DEF Init, Sound
<1> QED
  BY <1>2, <1>3, <1>4 DEF IInv

\* A resized block
LEMMA ResizedFacts ==
  ASSUME TypeOK, NEW n \in Nat
  PROVE  /\ Resized(n) \in Seq(Values \union {Junk})
         /\ Len(Resized(n)) = n
         /\ \A i \in 1..n : i <= Len(block) => Resized(n)[i] = block[i]
BY DEF Resized, TypeOK

\* What realloc answers to a request whose bytes do not wrap
LEMMA AnswerFacts ==
  ASSUME TypeOK, NEW n \in Nat \ {0}, ElemSize * n < Word, NEW b \in Answers(n)
  PROVE  \/ b = Resized(n) /\ ElemSize * n <= Memory /\ b # <<>>
         \/ b = <<>> /\ allocator = "system"
<1>1. ElemSize * n \in Nat \ {0} /\ Word \in Nat \ {0}
  BY VecAssumption, PowFacts
<1>2. (ElemSize * n) % Word = ElemSize * n
  BY <1>1
<1>3. (ElemSize * n) \div ElemSize = n
  BY WholeElements
<1>4. Resized(n) # <<>>
  BY ResizedFacts
<1> QED
  BY <1>1, <1>2, <1>3, <1>4 DEF Answers

\* Stopping the process keeps the invariant
LEMMA StopInv ==
  ASSUME IInv, NEW why \in {"aborted", "null_write", "no_funcs"}, Stop(why),
         why = "null_write" => allocator = "system",
         why = "no_funcs" => allocator = "none" /\ given # <<>>
  PROVE  IInv'
BY DEF IInv, Stop, TypeOK, NoWildWrite, Live, Word

(* A block b of cap elements that realloc, or nothing, has put in the place of *)
(* the vector's, with room for n more elements                                 *)
Fits(b, cap, n) ==
  /\ b \in Seq(Values \union {Junk}) /\ cap \in 0..(Word - 1)
  /\ len + n <= cap
  /\ b # <<>> => Len(b) = cap
  /\ b = <<>> => cap = 0 \/ (allocator = "system" /\ len < cap /\ (lost \/ cap # capacity))
  /\ ElemSize * Len(b) <= Memory
  /\ \A i \in 1..len : ~ lost /\ b # <<>> => b[i] = block[i]
  /\ allocator = "none" => cap = 0

(* What growing and storing items come to: the process is stopped, or memory   *)
(* is refused, or the elements are what they were and then items.              *)
Stored(items) ==
  \/ ~ Live' /\ given' = given
  \/ /\ Live' /\ given' = given
     /\ IF lost' THEN TRUE ELSE ~ lost /\ Kept' = Kept \o items

\* Items that fit are stored inside the block, after the elements it holds
LEMMA StoreInv ==
  ASSUME IInv, Live, NEW items \in Seq(Values), NEW b, NEW cap, Fits(b, cap, Len(items)),
         Store(b, cap, items)
  PROVE  IInv' /\ Stored(items)
<1>1. /\ len \in Nat /\ Len(items) \in Nat /\ Word \in Nat /\ cap \in Nat
      /\ b \in Seq(Values \union {Junk}) /\ Len(b) \in Nat /\ len <= capacity
      /\ block \in Seq(Values \union {Junk})
  BY PowFacts DEF IInv, TypeOK, Fits
<1>2. CASE items # <<>> /\ b = <<>>
  <2>1. Len(items) > 0
    BY <1>2
  <2>2. allocator = "system"
    BY <1>1, <1>2, <2>1 DEF Fits
  <2>3. Stop("null_write")
    BY <1>2 DEF Store
  <2>4. IInv'
    BY <2>2, <2>3, StopInv
  <2> QED
    BY <2>3, <2>4 DEF Stop, Stored, Live
<1>3. CASE ~ (items # <<>> /\ b = <<>>)
  <2>1. items # <<>> => len + Len(items) <= Len(b)
    BY <1>1, <1>3 DEF Fits
  <2>2. /\ block' = [i \in 1..Len(b) |-> IF i \in (len + 1)..(len + Len(items))
                                         THEN items[i - len] ELSE b[i]]
        /\ len' = len + Len(items)
        /\ capacity' = cap
        /\ lost' = (lost \/ (b = <<>> /\ cap # capacity))
        /\ UNCHANGED <<allocator, given, fault>>
    BY <1>1, <1>3, <2>1 DEF Store
  <2>3. block' \in Seq(Values \union {Junk}) /\ Len(block') = Len(b)
    <3>1. ASSUME NEW i \in 1..Len(b) PROVE block'[i] \in Values \union {Junk}
      <4>1. CASE i \in (len + 1)..(len + Len(items))
        <5>1. i - len \in 1..Len(items)
          BY <1>1, <4>1
        <5> QED
          BY <2>2, <4>1, <5>1
      <4>2. CASE ~ (i \in (len + 1)..(len + Len(items)))
        BY <1>1, <2>2, <4>2
      <4> QED
        BY <4>1, <4>2
    <3> QED
      BY <1>1, <2>2, <3>1
  <2>4. len' <= capacity' /\ len' \in Nat
    BY <1>1, <2>2 DEF Fits
  <2>5. TypeOK'
    BY <2>2, <2>3, <2>4 DEF IInv, TypeOK, Fits, Word
  <2>6. NoWildWrite'
    BY <2>2 DEF IInv, NoWildWrite
  <2>7. block' = <<>> <=> b = <<>>
    BY <1>1, <2>3
  <2>8. b = <<>> => Len(items) = 0
    BY <1>1, <1>3
  <2>9. ElemSize * len' <= Memory
    <3>1. CASE items = <<>>
      BY <1>1, <2>2, <3>1 DEF IInv, Sound
    <3>2. CASE items # <<>>
      <4>1. len' <= Len(b)
        BY <2>1, <2>2, <3>2
      <4>2. ElemSize * len' <= ElemSize * Len(b)
        BY <1>1, <2>4, <4>1, Times
      <4>3. ElemSize * Len(b) <= Memory
        BY DEF Fits
      <4>4. Memory \in Nat
        BY VecAssumption
      <4>5. ElemSize * len' \in Nat /\ ElemSize * Len(b) \in Nat
        BY <1>1, <2>4, <4>1, Times
      <4> QED
        BY <4>2, <4>3, <4>4, <4>5
    <3> QED
      BY <3>1, <3>2
  <2>10. Sound'
    <3>1. block' # <<>> => Len(block') = capacity'
      BY <2>2, <2>3, <2>7 DEF Fits
    <3>2. block' = <<>> /\ capacity' # 0 => lost' /\ allocator' = "system" /\ len' < capacity'
      <4>1. SUFFICES ASSUME block' = <<>>, capacity' # 0
                     PROVE  lost' /\ allocator' = "system" /\ len' < capacity'
        OBVIOUS
      <4>2. b = <<>> /\ cap # 0 /\ len' = len
        BY <1>1, <2>2, <2>7, <2>8, <4>1
      <4>3. allocator = "system" /\ len < cap /\ (lost \/ cap # capacity)
        BY <4>2 DEF Fits
      <4> QED
        BY <2>2, <4>2, <4>3
    <3>3. ElemSize * Len(block') <= Memory
      BY <2>3 DEF Fits
    <3>4. allocator' = "none" => capacity' = 0 /\ given' # <<>>
      BY <2>2 DEF IInv, Sound, Fits
    <3> QED
      BY <2>9, <3>1, <3>2, <3>3, <3>4 DEF Sound
  <2>11. Live' /\ given' = given
    BY <2>2 DEF Live
  <2>12. ASSUME ~ lost' PROVE ~ lost /\ Kept' = Kept \o items
    <3>1. ~ lost
      BY <2>2, <2>12
    <3>2. Kept = SubSeq(block, 1, len) /\ Kept' = SubSeq(block', 1, len')
      BY <2>11, <2>12, <3>1 DEF Kept
    <3>3. b = <<>> => cap = capacity /\ cap = 0
      BY <2>2, <2>12, <3>1 DEF Fits
    <3>4. len <= Len(b) /\ len + Len(items) <= Len(b)
      BY <1>1, <3>3 DEF Fits
    <3>5. len <= Len(block)
      BY <1>1, <3>1 DEF IInv, Sound
    <3>6. Len(Kept') = len + Len(items) /\ Len(Kept) = len
      BY <1>1, <2>2, <2>3, <3>2, <3>4, <3>5
    <3>7. Kept \in Seq(Values \union {Junk}) /\ Kept' \in Seq(Values \union {Junk})
      BY <1>1, <2>2, <2>3, <2>4, <3>2, <3>4, <3>5
    <3>8. items \in Seq(Values \union {Junk})
      OBVIOUS
    <3>9. /\ Kept \o items \in Seq(Values \union {Junk})
          /\ Len(Kept \o items) = len + Len(items)
          /\ \A i \in 1..(len + Len(items)) :
               (Kept \o items)[i] = IF i <= len THEN Kept[i] ELSE items[i - len]
      BY <3>6, <3>7, <3>8, ConcatProperties
    <3>10. ASSUME NEW i \in 1..(len + Len(items)) PROVE Kept'[i] = (Kept \o items)[i]
      <4>1. Kept'[i] = block'[i] /\ i \in 1..Len(b)
        BY <1>1, <2>2, <2>3, <3>2, <3>4
      <4>2. CASE i <= len
        <5>1. block'[i] = b[i]
          BY <1>1, <2>2, <4>1, <4>2
        <5>2. b[i] = block[i]
          BY <1>1, <3>1, <3>3, <4>1, <4>2 DEF Fits
        <5>3. Kept[i] = block[i]
          BY <1>1, <3>2, <3>5, <4>2
        <5> QED
          BY <3>9, <4>1, <4>2, <5>1, <5>2, <5>3
      <4>3. CASE i > len
        <5>1. i - len \in 1..Len(items) /\ i \in (len + 1)..(len + Len(items))
          BY <1>1, <4>3
        <5>2. block'[i] = items[i - len]
          BY <2>2, <4>1, <5>1
        <5> QED
          BY <1>1, <3>9, <4>1, <4>3, <5>2
      <4>4. i <= len \/ i > len
        BY <1>1
      <4> QED
        BY <4>2, <4>3, <4>4
    <3>11. Kept' = Kept \o items
      BY <3>6, <3>7, <3>9, <3>10, SeqEqual
    <3> QED
      BY <3>1, <3>11
  <2> QED
    BY <2>5, <2>6, <2>10, <2>11, <2>12 DEF IInv, Stored
<1> QED
  BY <1>2, <1>3

(* Growing and storing keeps the invariant when the size covers what is needed *)
(* and its bytes do not wrap.                                                  *)
LEMMA GrowInv ==
  ASSUME IInv, Live, NEW items \in Seq(Values), NEW needed \in Nat, NEW size \in Nat,
         len + Len(items) <= needed, needed <= size, size < Word, ElemSize * size < Word,
         needed = 0 => items = <<>>,
         Grow(needed, size, items)
  PROVE  IInv' /\ Stored(items)
<1>1. /\ len \in Nat /\ Len(items) \in Nat /\ Word \in Nat /\ capacity \in 0..(Word - 1)
      /\ block \in Seq(Values \union {Junk}) /\ len <= capacity
      /\ TypeOK /\ Sound
  BY PowFacts DEF IInv, TypeOK
<1>2. CASE needed <= capacity
  <2>1. Store(block, capacity, items)
    BY <1>2 DEF Grow
  <2>2. block = <<>> => capacity = 0 \/ (allocator = "system" /\ len < capacity /\ lost)
    BY <1>1 DEF Sound
  <2>3. Fits(block, capacity, Len(items))
    BY <1>1, <1>2, <2>2 DEF Fits, Sound
  <2> QED
    BY <2>1, <2>3, StoreInv
<1>3. CASE needed > capacity
  <2>1. CASE allocator = "none"
    <3>1. Stop("no_funcs") /\ given # <<>>
      BY <1>1, <1>3, <2>1 DEF Grow, Sound
    <3> QED
      BY <2>1, <3>1, StopInv DEF Stop, Stored, Live
  <2>2. CASE allocator = "arena" /\ Stop("aborted")
    BY <2>2, StopInv DEF Stop, Stored, Live
  <2>3. ASSUME allocator # "none", NEW b \in Answers(size), Store(b, size, items)
        PROVE  IInv' /\ Stored(items)
    <3>1. size \in Nat \ {0} /\ size > capacity /\ size > len
      BY <1>1, <1>3
    <3>2. CASE b = Resized(size) /\ ElemSize * size <= Memory /\ b # <<>>
      <4>1. /\ b \in Seq(Values \union {Junk}) /\ Len(b) = size
            /\ \A i \in 1..size : i <= Len(block) => b[i] = block[i]
        BY <1>1, <3>2, ResizedFacts
      <4>2. ASSUME NEW i \in 1..len, ~ lost PROVE b[i] = block[i]
        <5>1. i <= Len(block)
          BY <1>1, <4>2 DEF Sound
        <5> QED
          BY <1>1, <3>1, <4>1, <5>1
      <4>3. Fits(b, size, Len(items))
        BY <1>1, <2>3, <3>1, <3>2, <4>1, <4>2 DEF Fits
      <4> QED
        BY <2>3, <4>3, StoreInv
    <3>3. CASE b = <<>> /\ allocator = "system"
      <4>1. ElemSize * Len(b) <= Memory
        BY <3>3, VecAssumption
      <4>2. Fits(b, size, Len(items))
        BY <1>1, <3>1, <3>3, <4>1 DEF Fits
      <4> QED
        BY <2>3, <4>2, StoreInv
    <3> QED
      BY <1>1, <2>3, <3>1, <3>2, <3>3, AnswerFacts
  <2> QED
    BY <1>1, <1>3, <2>1, <2>2, <2>3 DEF Grow
<1> QED
  BY <1>1, <1>2, <1>3

\* What is needed for n more elements in memory, and one more, does not wrap
LEMMA NeededFacts ==
  ASSUME IInv, NEW n \in Nat, Together(n)
  PROVE  /\ (len + n) % Word = len + n /\ len + n < Word /\ ElemSize * (len + n) < Word
         /\ (len + n + 1) % Word = len + n + 1
         /\ LET size == RoundUp(len + n + 1)
            IN  size \in Nat /\ len + n + 1 <= size /\ size < Word /\ ElemSize * size < Word
<1> DEFINE m == len + n
<1>1. m \in Nat /\ ElemSize * m <= Memory /\ len \in Nat
  BY PowFacts DEF IInv, TypeOK, Together
<1>2. /\ ElemSize \in Nat \ {0} /\ Memory \in Nat /\ Memory < Pow[Width - 1]
      /\ Pow[Width - 1] \in Nat /\ Word = 2 * Pow[Width - 1]
  BY VecAssumption, PowFacts
<1> HIDE DEF m
<1>3. m <= ElemSize * m /\ ElemSize * m \in Nat
  BY <1>1, <1>2
<1>4. m < Pow[Width - 1] /\ m + 1 < Word /\ m < Word /\ ElemSize * m < Word /\ Word \in Nat \ {0}
  BY <1>1, <1>2, <1>3
<1>5. m % Word = m /\ (m + 1) % Word = m + 1
  BY <1>1, <1>4
<1>6. m + 1 \in Nat \ {0} /\ m + 1 <= Pow[Width - 1]
  BY <1>1, <1>2, <1>4
<1>7. /\ RoundUp(m + 1) \in Nat /\ m + 1 <= RoundUp(m + 1)
      /\ RoundUp(m + 1) <= 2 * ((m + 1) - 1) \/ RoundUp(m + 1) = 1
  BY <1>6, RoundUpFacts
<1>8. RoundUp(m + 1) \in Nat \ {0} /\ (RoundUp(m + 1) <= 2 * m \/ RoundUp(m + 1) = 1)
  BY <1>1, <1>7
<1>9. RoundUp(m + 1) < Word /\ ElemSize * RoundUp(m + 1) < Word
  BY <1>1, <1>8, NoWrap
<1> QED
  BY <1>4, <1>5, <1>7, <1>9 DEF m

\* The room that PUT asks for in a full vector does not wrap
LEMMA GrownFacts ==
  ASSUME IInv, Sound, len >= capacity
  PROVE  /\ GrownToPut \in Nat /\ len + 1 <= GrownToPut /\ GrownToPut > capacity
         /\ GrownToPut < Word /\ ElemSize * GrownToPut < Word
<1>1. len \in Nat /\ capacity \in Nat /\ len = capacity /\ ElemSize * len <= Memory
  BY PowFacts DEF IInv, TypeOK, Sound
<1>2. Word \in Nat \ {0}
  BY PowFacts, VecAssumption
<1>3. CASE capacity = 0
  <2>1. ElemSize \in Nat /\ 2 * ElemSize < Word /\ 2 < Word
    BY VecAssumption, PowFacts
  <2>2. 2 % Word = 2
    BY <1>2, <2>1
  <2>3. GrownToPut = 2
    BY <1>1, <1>3, <2>2 DEF GrownToPut
  <2> QED
    BY <1>1, <1>3, <2>1, <2>3
<1>4. CASE capacity # 0
  <2> DEFINE n == len + capacity
  <2>1. n \in Nat \ {0} /\ n <= 2 * len
    BY <1>1, <1>4
  <2>2. n < Word /\ ElemSize * n < Word
    BY <1>1, <2>1, NoWrap
  <2>3. n % Word = n
    BY <1>2, <2>1, <2>2
  <2>4. GrownToPut = n
    BY <1>4, <2>3 DEF GrownToPut
  <2> QED
    BY <1>1, <1>4, <2>1, <2>2, <2>4
<1> QED
  BY <1>3, <1>4

-----------------------------------------------------------------------------
\* One operation at a time: the invariant, and what becomes of the elements

LEMMA ReserveExactInv ==
  ASSUME IInv, NEW n \in Nat, ReserveExact(n)
  PROVE  IInv' /\ Stored(<<>>)
<1> DEFINE needed == len + n
<1>1. Live /\ Together(n) /\ Grow(needed, needed, <<>>)
  BY NeededFacts DEF ReserveExact
<1>2. len \in Nat
  BY PowFacts DEF IInv, TypeOK
<1>3. needed \in Nat /\ len + Len(<<>>) <= needed /\ needed <= needed
  BY <1>2
<1>4. needed < Word /\ ElemSize * needed < Word
  BY <1>1, NeededFacts
<1>5. <<>> \in Seq(Values)
  OBVIOUS
<1> HIDE DEF needed
<1> QED
  BY <1>1, <1>3, <1>4, <1>5, GrowInv

LEMMA ReserveInv ==
  ASSUME IInv, NEW n \in Nat, Reserve(n)
  PROVE  IInv' /\ Stored(<<>>)
<1>1. Live /\ n - 1 \in Nat /\ Together(n - 1)
  BY DEF Reserve
<1> DEFINE needed == len + (n - 1) + 1
<1>2. len \in Nat
  BY PowFacts DEF IInv, TypeOK
<1>3. needed = len + n /\ needed \in Nat /\ len + Len(<<>>) <= needed /\ needed # 0
  BY <1>1, <1>2
<1>4. /\ needed % Word = needed
      /\ RoundUp(needed) \in Nat /\ needed <= RoundUp(needed)
      /\ RoundUp(needed) < Word /\ ElemSize * RoundUp(needed) < Word
  BY <1>1, NeededFacts
<1>5. Grow(needed, RoundUp(needed), <<>>)
  BY <1>3, <1>4 DEF Reserve
<1>6. <<>> \in Seq(Values)
  OBVIOUS
<1>7. needed \in Nat /\ len + Len(<<>>) <= needed /\ needed # 0
  BY <1>3
<1> HIDE DEF needed
<1> QED
  BY <1>1, <1>4, <1>5, <1>6, <1>7, GrowInv

LEMMA PutReservedInv ==
  ASSUME IInv, NEW n \in Nat, NEW items \in Seq(Values), Len(items) <= n, PutReserved(n, items)
  PROVE  /\ IInv' /\ Stored(items)
         /\ Live' /\ n = Len(items) => len' < capacity'
<1>1. Live /\ Together(n)
  BY DEF PutReserved
<1> DEFINE needed == len + n + 1
           size   == RoundUp(needed)
<1>2. len \in Nat /\ Len(items) \in Nat
  BY PowFacts DEF IInv, TypeOK
<1>3. needed \in Nat /\ len + Len(items) <= needed /\ needed # 0 /\ len + n < needed
  BY <1>2
<1>4. needed % Word = needed /\ size \in Nat /\ needed <= size /\ size < Word /\ ElemSize * size < Word
  BY <1>1, NeededFacts
<1>5. Grow(needed, size, items)
  BY <1>4 DEF PutReserved
<1>6. IInv' /\ Stored(items)
  <2> HIDE DEF needed, size
  <2> QED
    BY <1>1, <1>3, <1>4, <1>5, GrowInv
<1>7. ASSUME Live', n = Len(items) PROVE len' < capacity'
  <2>1. PICK b, cap : Store(b, cap, items) /\ (cap = size \/ (cap = capacity /\ needed <= capacity))
    <3> HIDE DEF needed, size
    <3> QED
      BY <1>5, <1>7 DEF Grow, Stop, Live
  <2>2. len' = len + Len(items) /\ capacity' = cap
    BY <1>7, <2>1 DEF Store, Stop, Live
  <2>3. capacity \in Nat
    BY PowFacts DEF IInv, TypeOK
  <2> HIDE DEF size
  <2> QED
    BY <1>2, <1>3, <1>4, <1>7, <2>1, <2>2, <2>3
<1> QED
  BY <1>6, <1>7

LEMMA PutInv ==
  ASSUME IInv, NEW e \in Values, Put(e)
  PROVE  IInv' /\ Stored(<<e>>)
<1>1. Live /\ Sound /\ len \in Nat /\ capacity \in 0..(Word - 1) /\ Word \in Nat
  BY PowFacts DEF Put, IInv, TypeOK
<1>2. <<e>> \in Seq(Values) /\ Len(<<e>>) = 1 /\ <<e>> # <<>>
  OBVIOUS
<1>3. CASE len >= capacity
  <2>1. Grow(GrownToPut, GrownToPut, <<e>>)
    BY <1>3 DEF Put, PutItem
  <2>2. /\ GrownToPut \in Nat /\ len + Len(<<e>>) <= GrownToPut /\ GrownToPut # 0
        /\ GrownToPut <= GrownToPut /\ GrownToPut < Word /\ ElemSize * GrownToPut < Word
    BY <1>1, <1>2, <1>3, GrownFacts
  <2> QED
    BY <1>1, <1>2, <2>1, <2>2, GrowInv
<1>4. CASE len < capacity
  <2>1. Store(block, capacity, <<e>>)
    BY <1>1, <1>4 DEF Put, PutItem
  <2>2. block = <<>> => allocator = "system" /\ lost
    BY <1>1, <1>4 DEF Sound
  <2>3. Fits(block, capacity, Len(<<e>>))
    BY <1>1, <1>2, <1>4, <2>2 DEF Fits, Sound, IInv, TypeOK
  <2> QED
    BY <1>1, <1>2, <2>1, <2>3, StoreInv
<1> QED
  BY <1>1, <1>3, <1>4

LEMMA PopInv ==
  ASSUME IInv, Pop
  PROVE  IInv' /\ (~ lost /\ len > 0 => Kept' = SubSeq(Kept, 1, Len(Kept) - 1) /\ Kept # <<>>)
               /\ (lost \/ len = 0 => Kept' = Kept)
<1>1. /\ Sound /\ TypeOK /\ NoWildWrite
      /\ UNCHANGED <<block, capacity, allocator, given, lost, fault>>
      /\ len' = IF len > 0 THEN len - 1 ELSE len
      /\ len \in Nat /\ capacity \in Nat /\ len <= capacity
      /\ block \in Seq(Values \union {Junk})
      /\ fault = "none"
  BY PowFacts DEF IInv, Pop, TypeOK, Live
<1>2. len' \in Nat /\ len' <= len
  BY <1>1
<1>3. TypeOK' /\ NoWildWrite'
  BY <1>1, <1>2 DEF TypeOK, NoWildWrite, Word
<1>4. ElemSize * len' <= Memory
  <2>1. ElemSize * len' <= ElemSize * len /\ ElemSize * len' \in Nat /\ ElemSize * len \in Nat
    BY <1>1, <1>2, Times
  <2>2. ElemSize * len <= Memory /\ Memory \in Nat
    BY <1>1, VecAssumption DEF Sound
  <2> QED
    BY <2>1, <2>2
<1>5. Sound'
  BY <1>1, <1>2, <1>4 DEF Sound
<1>6. ASSUME ~ lost, len > 0
      PROVE  Kept' = SubSeq(Kept, 1, Len(Kept) - 1) /\ Kept # <<>>
  <2>1. Kept = SubSeq(block, 1, len) /\ Kept' = SubSeq(block, 1, len - 1) /\ len <= Len(block)
    BY <1>1, <1>6 DEF Kept, Live, Sound
  <2> QED
    BY <1>1, <1>6, <2>1
<1>7. ASSUME lost \/ len = 0 PROVE Kept' = Kept
  BY <1>1, <1>7 DEF Kept, Live
<1> QED
  BY <1>3, <1>5, <1>6, <1>7 DEF IInv

LEMMA FreeInv ==
  ASSUME IInv, Free
  PROVE  IInv' /\ UNCHANGED given /\ Kept' = <<>> /\ (Live' => ~ lost')
<1>1. Live /\ Sound /\ TypeOK /\ NoWildWrite
  BY DEF Free, IInv
<1>2. CASE allocator = "none"
  <2>1. Stop("no_funcs") /\ given # <<>>
    BY <1>1, <1>2 DEF Free, Sound
  <2> QED
    BY <1>2, <2>1, StopInv DEF Stop, Kept, Live
<1>3. CASE allocator # "none"
  <2>1. /\ block' = <<>> /\ len' = 0 /\ capacity' = 0 /\ lost' = FALSE
        /\ UNCHANGED <<allocator, given, fault>>
    BY <1>3 DEF Free
  <2>2. 0 \in 0..(Word - 1)
    BY PowFacts, VecAssumption
  <2>3. block' \in Seq(Values \union {Junk}) /\ len' \in 0..capacity' /\ capacity' \in 0..(Word - 1)
    BY <2>1, <2>2
  <2>4. TypeOK'
    BY <1>1, <2>1, <2>3 DEF TypeOK, Word
  <2>5. NoWildWrite'
    BY <1>1, <2>1 DEF NoWildWrite
  <2>6. ElemSize * 0 <= Memory
    BY VecAssumption
  <2>7. Sound'
    BY <1>1, <1>3, <2>1, <2>6 DEF Sound
  <2>8. Kept' = <<>>
    BY <2>1 DEF Kept, Live
  <2> QED
    BY <2>1, <2>4, <2>5, <2>7, <2>8 DEF IInv
<1> QED
  BY <1>2, <1>3

\* What is given away of a block with room for the terminator
LEMMA GiveInv ==
  ASSUME IInv, Live, NEW b \in Seq(Values \union {Junk}), Give(b),
         b = <<>> => allocator = "system",
         b # <<>> => len < Len(b),
         \A i \in 1..len : ~ lost => b[i] = block[i]
  PROVE  /\ IInv' /\ Kept' = <<>> /\ (~ Live' => UNCHANGED given) /\ (Live' => ~ lost')
         /\ Live' /\ ~ lost => given' = Append(Kept, Nul)
<1>1. Sound /\ TypeOK /\ NoWildWrite /\ len \in Nat /\ Nul \in Values
  BY PowFacts, VecAssumption DEF IInv, TypeOK
<1>2. CASE b = <<>>
  <2>1. Stop("null_write")
    BY <1>2 DEF Give
  <2> QED
    BY <1>2, <2>1, StopInv DEF Stop, Kept, Live
<1>3. CASE b # <<>>
  <2>1. len < Len(b)
    BY <1>3
  <2>2. /\ given' = [i \in 1..(len + 1) |-> IF i <= len THEN b[i] ELSE Nul]
        /\ block' = <<>> /\ len' = 0 /\ capacity' = 0
        /\ allocator' = "none"
        /\ lost' = FALSE
        /\ UNCHANGED fault
    BY <1>1, <1>3, <2>1 DEF Give
  <2>3. given' \in Seq(Values \union {Junk}) /\ Len(given') = len + 1
    <3>1. \A i \in 1..(len + 1) : given'[i] \in Values \union {Junk}
      BY <1>1, <2>1, <2>2
    <3> QED
      BY <1>1, <2>2, <3>1
  <2>4. 0 \in 0..(Word - 1)
    BY PowFacts, VecAssumption
  <2>5. block' \in Seq(Values \union {Junk}) /\ len' \in 0..capacity' /\ capacity' \in 0..(Word - 1)
    BY <2>2, <2>4
  <2>6. TypeOK'
    BY <1>1, <2>2, <2>3, <2>5 DEF TypeOK, Word
  <2>7. given' # <<>>
    BY <1>1, <2>3
  <2>8. NoWildWrite'
    BY <2>2 DEF NoWildWrite, Live
  <2>9. ElemSize * 0 <= Memory
    BY VecAssumption
  <2>10. Sound'
    BY <2>2, <2>7, <2>9 DEF Sound
  <2>11. Kept' = <<>> /\ Live'
    BY <2>2 DEF Kept, Live
  <2>12. ASSUME ~ lost PROVE given' = Append(Kept, Nul)
    <3>1. Kept = SubSeq(block, 1, len) /\ len <= Len(block) /\ block \in Seq(Values \union {Junk})
      BY <1>1, <2>12 DEF Kept, Sound, TypeOK
    <3>2. /\ Append(Kept, Nul) \in Seq(Values \union {Junk}) /\ Len(Append(Kept, Nul)) = len + 1
          /\ \A i \in 1..(len + 1) : Append(Kept, Nul)[i] = IF i <= len THEN block[i] ELSE Nul
      BY <1>1, <3>1
    <3>3. \A i \in 1..(len + 1) : given'[i] = Append(Kept, Nul)[i]
      BY <1>1, <2>2, <2>12, <3>2
    <3> QED
      BY <2>3, <3>2, <3>3, SeqEqual
  <2> QED
    BY <2>2, <2>6, <2>8, <2>10, <2>11, <2>12 DEF IInv
<1> QED
  BY <1>2, <1>3

LEMMA MoveInv ==
  ASSUME IInv, MoveToCstr
  PROVE  /\ IInv' /\ Kept' = <<>> /\ (~ Live' => UNCHANGED given) /\ (Live' => ~ lost')
         /\ Live' /\ ~ lost => given' = Append(Kept, Nul)
<1>1. /\ Live /\ Sound /\ TypeOK /\ len \in Nat /\ capacity \in Nat
      /\ block \in Seq(Values \union {Junk})
  BY PowFacts DEF MoveToCstr, IInv, TypeOK
<1>2. CASE len < capacity
  <2>1. Give(block)
    BY <1>2 DEF MoveToCstr
  <2> QED
    BY <1>1, <1>2, <2>1, GiveInv DEF Sound
<1>3. CASE len >= capacity
  <2>1. /\ GrownToPut \in Nat \ {0} /\ len + 1 <= GrownToPut /\ GrownToPut > capacity
        /\ ElemSize * GrownToPut < Word
    BY <1>1, <1>3, GrownFacts
  <2>2. CASE allocator = "none"
    <3>1. Stop("no_funcs") /\ given # <<>>
      BY <1>1, <1>3, <2>1, <2>2 DEF MoveToCstr, Sound
    <3> QED
      BY <2>2, <3>1, StopInv DEF Stop, Kept, Live
  <2>3. CASE allocator = "arena" /\ Stop("aborted")
    BY <2>3, StopInv DEF Stop, Kept, Live
  <2>4. ASSUME NEW b \in Answers(GrownToPut), Give(b)
        PROVE  /\ IInv' /\ Kept' = <<>> /\ (~ Live' => UNCHANGED given) /\ (Live' => ~ lost')
               /\ Live' /\ ~ lost => given' = Append(Kept, Nul)
    <3>1. CASE b = Resized(GrownToPut) /\ b # <<>>
      <4>1. /\ b \in Seq(Values \union {Junk}) /\ Len(b) = GrownToPut
            /\ \A i \in 1..GrownToPut : i <= Len(block) => b[i] = block[i]
        BY <1>1, <2>1, <3>1, ResizedFacts
      <4>2. ASSUME NEW i \in 1..len, ~ lost PROVE b[i] = block[i]
        <5>1. i <= Len(block)
          BY <1>1, <1>3, <4>2 DEF Sound, TypeOK
        <5> QED
          BY <1>1, <2>1, <4>1, <5>1
      <4>3. len < Len(b)
        BY <1>1, <2>1, <4>1
      <4> QED
        BY <1>1, <2>4, <3>1, <4>1, <4>2, <4>3, GiveInv
    <3>2. CASE b = <<>> /\ allocator = "system"
      <4>1. Stop("null_write")
        BY <2>4, <3>2 DEF Give
      <4> QED
        BY <3>2, <4>1, StopInv DEF Stop, Kept, Live
    <3> QED
      BY <1>1, <2>1, <2>4, <3>1, <3>2, AnswerFacts
  <2> QED
    BY <1>1, <1>3, <2>1, <2>2, <2>3, <2>4 DEF MoveToCstr
<1> QED
  BY <1>1, <1>2, <1>3

\* VUT_VEC_PUT_MANY, and the copy that reduces blanks
LEMMA PutManyInv ==
  ASSUME IInv, NEW items \in Batches
  PROVE  /\ PutMany(items) => IInv' /\ Stored(items) /\ (Live' => len' < capacity')
         /\ \A n \in 1..MaxItems : PutReduced(n, items) => IInv' /\ Stored(items)
<1>1. items \in Seq(Values) /\ Len(items) \in Nat
  BY DEF Batches
<1>2. ASSUME PutMany(items) PROVE IInv' /\ Stored(items) /\ (Live' => len' < capacity')
  BY <1>1, <1>2, PutReservedInv DEF PutMany
<1>3. ASSUME NEW n \in 1..MaxItems, PutReduced(n, items) PROVE IInv' /\ Stored(items)
  <2>1. n \in Nat /\ Len(items) <= n /\ PutReserved(n, items)
    BY <1>1, <1>3, MaxItemsAssumption DEF PutReduced
  <2> QED
    BY <1>1, <2>1, PutReservedInv
<1> QED
  BY <1>2, <1>3

\* Every step keeps the invariant
LEMMA NextInv == IInv /\ [Next]_vars => IInv'
<1> SUFFICES ASSUME IInv, [Next]_vars PROVE IInv'
  OBVIOUS
<1>1. ASSUME NEW n \in 0..MaxItems, ReserveExact(n) \/ Reserve(n) PROVE IInv'
  BY <1>1, MaxItemsAssumption, ReserveExactInv, ReserveInv
<1>2. ASSUME NEW e \in Values, Put(e) PROVE IInv'
  BY <1>2, PutInv
<1>3. ASSUME NEW items \in Batches, PutMany(items) \/ \E n \in 1..MaxItems : PutReduced(n, items)
      PROVE  IInv'
  BY <1>3, PutManyInv
<1>4. CASE Pop \/ Free \/ MoveToCstr
  BY <1>4, PopInv, FreeInv, MoveInv
<1>5. CASE UNCHANGED vars
  BY <1>5 DEF vars, IInv, TypeOK, NoWildWrite, Sound, Live, Word
<1> QED
  BY <1>1, <1>2, <1>3, <1>4, <1>5 DEF Next

THEOREM Invariant == Spec => []IInv
BY InitInv, NextInv, PTL DEF Spec

(* The fields of a vector are typed and there are no more elements than its    *)
(* capacity, for every width of a size_t and size of an element.               *)
THEOREM TypeCorrect == Spec => []TypeOK
BY Invariant, PTL DEF IInv

(* No operation writes outside the block, and through the null pointer only    *)
(* when the system refused memory, for every width, element and memory.        *)
THEOREM NoWildWrites == Spec => []NoWildWrite
BY Invariant, PTL DEF IInv

(* VUT_VEC_PUT_MANY leaves room for the terminator: rounding and the wrap of a *)
(* size_t never take away the element that is reserved for it.                 *)
THEOREM TerminatorFits == Spec => RoomForNul
<1>1. ASSUME IInv, NEW items \in Batches, PutMany(items), fault' = "none"
      PROVE  len' < capacity'
  BY <1>1, PutManyInv DEF Live
<1>2. IInv /\ [Next]_vars => [\A items \in Batches : PutMany(items) /\ fault' = "none" => len' < capacity']_vars
  BY <1>1
<1> QED
  BY <1>2, Invariant, PTL DEF Spec, RoomForNul

-----------------------------------------------------------------------------
\* What each step comes to for the owner of the vector

\* The status of the vector
LEMMA StatusFacts ==
  /\ ~ Live => Kept = <<>>
  /\ lost => Kept = <<>>
  /\ Live <=> fault = "none"
BY DEF Kept, Live

LEMMA StoredRefines ==
  ASSUME IInv, Live, NEW items \in Batches, Stored(items)
  PROVE  [Promise!Next]_(Promise!cvars)
<1>1. lost \in BOOLEAN
  BY DEF IInv, TypeOK
<1>2. CASE ~ Live'
  <2>1. Promise!Stop
    BY <1>2, StatusFacts DEF Stored, Promise!Stop, Kept
  <2> QED
    BY <2>1 DEF Promise!Next
<1>3. CASE Live' /\ lost' /\ ~ lost
  <2>1. Promise!Lose
    BY <1>3 DEF Stored, Promise!Lose, Kept
  <2> QED
    BY <2>1 DEF Promise!Next
<1>4. CASE Live' /\ lost' /\ lost
  BY <1>4 DEF Stored, Promise!cvars, Kept
<1>5. CASE Live' /\ ~ lost'
  <2>1. Promise!Extend(items)
    BY <1>5 DEF Stored, Promise!Extend
  <2> QED
    BY <2>1 DEF Promise!Next
<1> QED
  BY <1>2, <1>3, <1>4, <1>5

LEMMA SmallBatches == <<>> \in Batches /\ \A e \in Values : <<e>> \in Batches
<1>1. 0 \in 0..MaxItems /\ 1 \in 0..MaxItems
  BY MaxItemsAssumption
<1>2. <<>> \in [1..0 -> Values]
  OBVIOUS
<1>3. \A e \in Values : <<e>> \in [1..1 -> Values]
  OBVIOUS
<1> QED
  BY <1>1, <1>2, <1>3 DEF Batches

LEMMA RefinesPop ==
  ASSUME IInv, Pop
  PROVE  [Promise!Next]_(Promise!cvars)
<1>1. Live /\ Live' /\ lost' = lost /\ given' = given
  BY DEF Pop, Live
<1>2. CASE ~ lost /\ len > 0
  <2>1. Promise!Pop
    BY <1>1, <1>2, PopInv DEF Promise!Pop
  <2> QED
    BY <2>1 DEF Promise!Next
<1>3. CASE lost \/ len = 0
  BY <1>1, <1>3, PopInv DEF Promise!cvars
<1> QED
  <2>1. len \in Nat
    BY PowFacts DEF IInv, TypeOK
  <2> QED
    BY <1>2, <1>3, <2>1

LEMMA RefinesFree ==
  ASSUME IInv, Free
  PROVE  Promise!Next
<1>1. Live
  BY DEF Free
<1>2. CASE Live'
  BY <1>1, <1>2, FreeInv DEF Promise!Clear, Promise!Next
<1>3. CASE ~ Live'
  BY <1>1, <1>3, FreeInv DEF Promise!Stop, Promise!Next
<1> QED
  BY <1>2, <1>3

LEMMA RefinesMove ==
  ASSUME IInv, MoveToCstr
  PROVE  Promise!Next
<1>1. Live
  BY DEF MoveToCstr
<1>2. CASE ~ Live'
  BY <1>1, <1>2, MoveInv DEF Promise!Stop, Promise!Next
<1>3. CASE Live' /\ ~ lost
  BY <1>1, <1>3, MoveInv DEF Promise!Give, Promise!Next
<1>4. CASE Live' /\ lost
  BY <1>1, <1>4, MoveInv, StatusFacts DEF Promise!GiveLost, Promise!Next
<1> QED
  BY <1>2, <1>3, <1>4

\* Every step of the vector is a step of the contents it promises, or none
LEMMA RefinesNext == IInv /\ [Next]_vars => [Promise!Next]_(Promise!cvars)
<1> SUFFICES ASSUME IInv, [Next]_vars PROVE [Promise!Next]_(Promise!cvars)
  OBVIOUS
<1>1. ASSUME NEW n \in 0..MaxItems, ReserveExact(n) \/ Reserve(n)
      PROVE  [Promise!Next]_(Promise!cvars)
  <2>1. n \in Nat /\ Live
    BY <1>1, MaxItemsAssumption DEF ReserveExact, Reserve
  <2>2. Stored(<<>>)
    BY <1>1, <2>1, ReserveExactInv, ReserveInv
  <2> QED
    BY <2>1, <2>2, SmallBatches, StoredRefines
<1>2. ASSUME NEW e \in Values, Put(e)
      PROVE  [Promise!Next]_(Promise!cvars)
  <2>1. Live /\ Stored(<<e>>)
    BY <1>2, PutInv DEF Put
  <2> QED
    BY <2>1, SmallBatches, StoredRefines
<1>3. ASSUME NEW items \in Batches, PutMany(items) \/ \E n \in 1..MaxItems : PutReduced(n, items)
      PROVE  [Promise!Next]_(Promise!cvars)
  <2>1. Live /\ Stored(items)
    BY <1>3, PutManyInv DEF PutMany, PutReduced, PutReserved
  <2> QED
    BY <2>1, StoredRefines
<1>4. CASE Pop \/ Free \/ MoveToCstr
  BY <1>4, RefinesPop, RefinesFree, RefinesMove
<1>5. CASE UNCHANGED vars
  BY <1>5 DEF vars, Promise!cvars, Kept, Live
<1> QED
  BY <1>1, <1>2, <1>3, <1>4, <1>5 DEF Next

(* The vector of vec.h is the sequence of what was put and not popped: no      *)
(* rounding, growing or moving of its block shows, whatever the width of a     *)
(* size_t, the size of an element and the memory there is.                     *)
THEOREM Refinement == Spec => ImplementsContents
<1>1. Init => Promise!Init
  BY DEF Init, Promise!Init, Kept, Live
<1>2. IInv /\ [Next]_vars => [Promise!Next]_(Promise!cvars)
  BY RefinesNext
<1> QED
  BY <1>1, <1>2, Invariant, PTL DEF Spec, ImplementsContents, Promise!Spec
=============================================================================
