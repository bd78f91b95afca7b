---------------------------- MODULE ArenaProofs ----------------------------
(* The arena's invariants, and that it implements the abstract allocator, for  *)
(* every buffer, alignment and set of clients and sizes.                       *)
EXTENDS Arena, TLAPS

\* What the clearing of the low bits leaves
LEMMA RoundDown ==
  ASSUME NEW n \in Nat, NEW m \in Nat \ {0}
  PROVE  /\ n - (n % m) \in Nat
         /\ n - (n % m) <= n
         /\ n - (n % m) > n - m
         /\ (n - (n % m)) % m = 0
<1>1. n % m \in 0..(m - 1)
  OBVIOUS
<1>2. n = m * (n \div m) + (n % m)
  OBVIOUS
<1>3. n \div m \in Nat
  OBVIOUS
<1>4. (m * (n \div m)) % m = 0
  BY <1>3
<1>5. n % m <= n
  BY <1>1, <1>2, <1>3
<1> QED
  BY <1>1, <1>2, <1>3, <1>4, <1>5

\* ALIGN_UP goes up, less than a whole alignment, to an aligned address
LEMMA AlignUpFacts ==
  ASSUME NEW a \in Nat
  PROVE  /\ AlignUp(a) \in Nat
         /\ a <= AlignUp(a)
         /\ AlignUp(a) < a + Align
         /\ AlignUp(a) % Align = 0
<1> DEFINE up == a + (Align - 1)
<1>1. up \in Nat /\ Align \in Nat \ {0}
  BY ArenaAssumption
<1> HIDE DEF up
<1>2. /\ up - (up % Align) \in Nat
      /\ up - (up % Align) <= up
      /\ up - (up % Align) > up - Align
      /\ (up - (up % Align)) % Align = 0
  BY <1>1, RoundDown
<1>3. AlignUp(a) = up - (up % Align)
  BY DEF AlignUp, up
<1>4. up = a + (Align - 1)
  BY DEF up
<1> QED
  BY <1>1, <1>2, <1>3, <1>4

-----------------------------------------------------------------------------
(* The inductive invariant.  That a fresh block is disjoint from the others    *)
(* needs that the others end before free_ptr, which BlocksInBuffer says.       *)
IInv == TypeOK /\ BlocksInBuffer /\ BlocksDisjoint

\* A fresh arena satisfies the inductive invariant
LEMMA InitInv == Init => IInv
BY ArenaAssumption DEF Init, IInv, TypeOK, BlocksInBuffer, BlocksDisjoint, Null, End,
                       Statuses, BytesOf, Bytes

\* Taking a block keeps what the invariant says of the pointers
LEMMA TakeInv ==
  ASSUME IInv, NEW c \in Clients, NEW n \in Sizes, Take(c, n)
  PROVE  /\ freePtr' \in Base..End
         /\ block' \in [Clients -> [ptr : Nat, size : Nat]]
         /\ status' \in Statuses
         /\ BlocksInBuffer'
         /\ BlocksDisjoint'
<1>1. n \in Nat \ {0} /\ Base \in Nat /\ Base # 0 /\ Size \in Nat /\ Align \in Nat \ {0}
  BY ArenaAssumption DEF Take
<1>2. freePtr \in Nat /\ Base <= freePtr /\ freePtr <= End /\ End \in Nat
  BY <1>1 DEF IInv, TypeOK, End
<1>3. Aligned \in Nat /\ freePtr <= Aligned /\ Aligned % Align = 0
  BY <1>2, AlignUpFacts DEF Aligned
<1>4. freePtr' = Aligned + n /\ Aligned + n <= End
  BY DEF Take, Fits
<1>5. block \in [Clients -> [ptr : Nat, size : Nat]]
  BY DEF IInv, TypeOK
<1>6. block'[c] = [ptr |-> Aligned, size |-> n]
  BY <1>5 DEF Take
<1>7. \A d \in Clients : d # c => block'[d] = block[d]
  BY <1>5 DEF Take
<1>8. freePtr' \in Base..End
  BY <1>1, <1>2, <1>3, <1>4
<1>9. block' \in [Clients -> [ptr : Nat, size : Nat]]
  BY <1>1, <1>3, <1>5 DEF Take
<1>10. status' \in Statuses
  BY DEF Take, IInv, TypeOK
<1>11. BlocksInBuffer'
  <2>1. SUFFICES ASSUME NEW d \in Clients, block'[d] # Null
                 PROVE  /\ block'[d].size > 0
                        /\ block'[d].ptr % Align = 0
                        /\ Base <= block'[d].ptr
                        /\ block'[d].ptr + block'[d].size <= freePtr'
    BY DEF BlocksInBuffer, Null
  <2>2. CASE d = c
    BY <1>1, <1>2, <1>3, <1>4, <1>6, <2>2
  <2>3. CASE d # c
    <3>1. block'[d] = block[d] /\ block[d] # Null
      BY <1>7, <2>1, <2>3
    <3>2. /\ block[d].size > 0
          /\ block[d].ptr % Align = 0
          /\ Base <= block[d].ptr
          /\ block[d].ptr + block[d].size <= freePtr
      BY <3>1 DEF IInv, BlocksInBuffer
    <3>3. block[d].ptr \in Nat /\ block[d].size \in Nat
      BY <1>5
    <3> QED
      BY <1>1, <1>2, <1>3, <1>4, <3>1, <3>2, <3>3
  <2> QED
    BY <2>2, <2>3
<1>12. BlocksDisjoint'
  <2>1. \A d \in Clients : d # c => Bytes(Aligned, n) \intersect BytesOf(d) = {}
    <3>1. SUFFICES ASSUME NEW d \in Clients, d # c
                   PROVE  Bytes(Aligned, n) \intersect BytesOf(d) = {}
      OBVIOUS
    <3>2. block[d].ptr \in Nat /\ block[d].size \in Nat
      BY <1>5
    <3>3. CASE block[d] = Null
      BY <3>3 DEF BytesOf, Bytes, Null
    <3>4. CASE block[d] # Null
      <4>1. block[d].ptr + block[d].size <= freePtr
        BY <3>4 DEF IInv, BlocksInBuffer
      <4> QED
        BY <1>1, <1>2, <1>3, <3>2, <4>1 DEF BytesOf, Bytes
    <3> QED
      BY <3>3, <3>4
  <2>2. BytesOf(c)' = Bytes(Aligned, n)
    BY <1>6 DEF BytesOf, Bytes
  <2>3. \A d \in Clients : d # c => BytesOf(d)' = BytesOf(d)
    BY <1>7 DEF BytesOf, Bytes
  <2>4. BlocksDisjoint
    BY DEF IInv
  <2> QED
    BY <2>1, <2>2, <2>3, <2>4 DEF BlocksDisjoint
<1> QED
  BY <1>8, <1>9, <1>10, <1>11, <1>12

\* Losing blocks keeps what the invariant says of the pointers
LEMMA DropInv ==
  ASSUME IInv, UNCHANGED <<mem, freePtr>>, status' \in Statuses,
         block' \in [Clients -> [ptr : Nat, size : Nat]],
         \A d \in Clients : block'[d] = block[d] \/ block'[d] = Null
  PROVE  IInv'
<1>1. TypeOK'
  BY DEF IInv, TypeOK, Addr, End
<1>2. BlocksInBuffer'
  BY DEF IInv, BlocksInBuffer, Null
<1>3. BlocksDisjoint'
  <2>1. \A d \in Clients : BytesOf(d)' = BytesOf(d) \/ BytesOf(d)' = {}
    BY DEF BytesOf, Bytes, Null
  <2> QED
    BY <2>1 DEF IInv, BlocksDisjoint
<1> QED
  BY <1>1, <1>2, <1>3 DEF IInv

\* What realloc reads for each byte of the new block lies in the buffer
LEMMA OldAddress ==
  ASSUME IInv, NEW c \in Clients, NEW n \in Sizes, Fits(n), block[c] # Null,
         NEW a \in Bytes(Aligned, n)
  PROVE  block[c].ptr + (a - Aligned) \in Addr
<1>1. n \in Nat /\ Base \in Nat /\ Size \in Nat
  BY ArenaAssumption
<1>2. freePtr \in Nat /\ freePtr <= End /\ End \in Nat
  BY <1>1 DEF IInv, TypeOK, End
<1>3. Aligned \in Nat /\ freePtr <= Aligned /\ Aligned + n <= End
  BY <1>2, AlignUpFacts DEF Aligned, Fits
<1>4. /\ block[c].ptr \in Nat /\ block[c].size \in Nat
      /\ Base <= block[c].ptr /\ block[c].ptr + block[c].size <= freePtr
  BY DEF IInv, TypeOK, BlocksInBuffer
<1>5. a \in Int /\ Aligned <= a /\ a < Aligned + n
  BY <1>1, <1>3 DEF Bytes
<1> QED
  BY <1>1, <1>2, <1>3, <1>4, <1>5 DEF Addr

\* Every step keeps the inductive invariant
LEMMA NextInv == IInv /\ [Next]_vars => IInv'
<1> SUFFICES ASSUME IInv, [Next]_vars
             PROVE  IInv'
  OBVIOUS
<1>1. TypeOK
  BY DEF IInv
<1>2. Null \in [ptr : Nat, size : Nat]
  BY DEF Null
<1>3. ASSUME NEW c \in Clients, NEW n \in Sizes, Malloc(c, n)
      PROVE  IInv'
  BY <1>1, <1>3, TakeInv DEF Malloc, IInv, TypeOK
<1>4. ASSUME NEW c \in Clients, NEW n \in Sizes, Calloc(c, n)
      PROVE  IInv'
  <2>1. mem' \in [Addr -> Values]
    BY <1>1, <1>4, ArenaAssumption DEF Calloc, TypeOK
  <2> QED
    BY <1>4, <2>1, TakeInv DEF Calloc, IInv, TypeOK
<1>5. ASSUME NEW c \in Clients, NEW n \in Sizes, Realloc(c, n)
      PROVE  IInv'
  <2>1. mem' = [a \in Addr |-> IF a \in Bytes(Aligned, n) /\ block[c] # Null
                              THEN mem[block[c].ptr + (a - Aligned)] ELSE mem[a]]
    BY <1>5 DEF Realloc
  <2>2. ASSUME NEW a \in Bytes(Aligned, n), block[c] # Null
        PROVE  block[c].ptr + (a - Aligned) \in Addr
    BY <1>1, <1>5, <2>2, OldAddress DEF Realloc, Take
  <2>3. mem' \in [Addr -> Values]
    BY <1>1, <2>1, <2>2 DEF TypeOK
  <2> QED
    BY <1>5, <2>3, TakeInv DEF Realloc, IInv, TypeOK
<1>6. ASSUME NEW c \in Clients, RequestNothing(c)
      PROVE  IInv'
  BY <1>1, <1>2, <1>6, DropInv DEF RequestNothing, TypeOK
<1>7. ASSUME NEW c \in Clients, Free(c)
      PROVE  IInv'
  BY <1>1, <1>2, <1>7, DropInv DEF Free, TypeOK
<1>8. ASSUME NEW c \in Clients, NEW a \in BytesOf(c), NEW v \in Values, Write(c, a, v)
      PROVE  IInv'
  <2>1. mem' \in [Addr -> Values]
    BY <1>1, <1>8 DEF Write, TypeOK
  <2> QED
    BY <1>1, <1>8, <2>1 DEF Write, IInv, TypeOK, BlocksInBuffer, BlocksDisjoint, BytesOf
<1>9. CASE Abort
  BY <1>1, <1>9, DropInv DEF Abort, TypeOK, Statuses
<1>10. CASE FreeAll
  BY <1>1, <1>2, <1>10, DropInv DEF FreeAll, TypeOK, Statuses
<1>11. CASE UNCHANGED vars
  BY <1>1, <1>11, DropInv DEF vars, TypeOK
<1> QED
  BY <1>3, <1>4, <1>5, <1>6, <1>7, <1>8, <1>9, <1>10, <1>11 DEF Next

\* The inductive invariant, in every reachable state
THEOREM Invariant == Spec => []IInv
BY InitInv, NextInv, PTL DEF Spec

(* The variables stay in their types, in every arena (arena_allocator.c): in    *)
(* particular free_ptr never leaves the buffer.                                *)
THEOREM TypeCorrect == Spec => []TypeOK
BY Invariant, PTL DEF IInv

\* The new block lies after the old one: as many bytes from there end before it does
LEMMA OverRead == IInv => OverReadInBuffer
<1> SUFFICES ASSUME IInv, NEW c \in Clients, NEW n \in Sizes, block[c] # Null, Fits(n),
                    NEW a \in Bytes(block[c].ptr, n)
             PROVE  a \in Addr
  BY DEF OverReadInBuffer
<1>1. n \in Nat /\ Base \in Nat /\ Size \in Nat
  BY ArenaAssumption
<1>2. freePtr \in Nat /\ block[c].ptr \in Nat
  BY <1>1 DEF IInv, TypeOK, End
<1>3. Aligned \in Nat
  BY <1>2, AlignUpFacts DEF Aligned
<1>4. Aligned + (a - block[c].ptr) \in Bytes(Aligned, n)
  BY <1>1, <1>2, <1>3 DEF Bytes
<1>5. block[c].ptr + ((Aligned + (a - block[c].ptr)) - Aligned) \in Addr
  BY <1>4, OldAddress
<1>6. a \in Int
  BY <1>1, <1>2 DEF Bytes
<1> QED
  BY <1>2, <1>3, <1>5, <1>6

(* Every block is aligned and lies between the buffer's start and free_ptr:    *)
(* vut_arena_malloc hands out nothing below the last block or past the end.    *)
THEOREM BlocksPlaced == Spec => []BlocksInBuffer
BY Invariant, PTL DEF IInv

(* No byte belongs to two blocks, whatever was requested, reallocated and      *)
(* dropped before.                                                             *)
THEOREM BlocksApart == Spec => []BlocksDisjoint
BY Invariant, PTL DEF IInv

(* vut_arena_realloc copies as many bytes as it was asked for whatever the old *)
(* block's size: what it reads lies in the buffer.                             *)
THEOREM ReallocReadsInside == Spec => []OverReadInBuffer
BY OverRead, Invariant, PTL

-----------------------------------------------------------------------------
(* The refinement.  A block's contents are a sequence of its size.             *)
LEMMA ContentsFacts ==
  ASSUME IInv, NEW c \in Clients
  PROVE  /\ Contents[c] = [i \in 1..block[c].size |-> mem[block[c].ptr + i - 1]]
         /\ block[c].size \in Nat
         /\ Len(Contents[c]) = block[c].size
         /\ DOMAIN Contents = Clients
BY DEF Contents, IInv, TypeOK

\* A block whose bytes do not change has the same contents
LEMMA ContentsKept ==
  ASSUME IInv, NEW d \in Clients, block'[d] = block[d],
         \A a \in BytesOf(d) : mem'[a] = mem[a]
  PROVE  Contents'[d] = Contents[d]
<1>1. block[d].ptr \in Nat /\ block[d].size \in Nat
  BY DEF IInv, TypeOK
<1>2. \A i \in 1..block[d].size : block[d].ptr + i - 1 \in BytesOf(d)
  BY <1>1 DEF BytesOf, Bytes
<1>3. Contents'[d] = [i \in 1..block[d].size |-> mem'[block[d].ptr + i - 1]]
  BY DEF Contents
<1> QED
  BY <1>2, <1>3 DEF Contents

\* Taking a block leaves the contents of all the others alone
LEMMA OthersKept ==
  ASSUME IInv, NEW c \in Clients, NEW n \in Sizes, Take(c, n),
         \A a \in Addr : a \notin Bytes(Aligned, n) => mem'[a] = mem[a]
  PROVE  \A d \in Clients : d # c => Contents'[d] = Contents[d]
<1> SUFFICES ASSUME NEW d \in Clients, d # c
             PROVE  Contents'[d] = Contents[d]
  OBVIOUS
<1>1. block'[d] = block[d]
  BY DEF Take, IInv, TypeOK
<1>2. ASSUME NEW a \in BytesOf(d)
      PROVE  a \in Addr /\ a \notin Bytes(Aligned, n)
  <2>1. n \in Nat /\ Base \in Nat /\ Size \in Nat
    BY ArenaAssumption
  <2>2. freePtr \in Nat /\ freePtr <= End /\ End \in Nat
    BY <2>1 DEF IInv, TypeOK, End
  <2>3. Aligned \in Nat /\ freePtr <= Aligned
    BY <2>2, AlignUpFacts DEF Aligned
  <2>4. block[d].ptr \in Nat /\ block[d].size \in Nat
    BY DEF IInv, TypeOK
  <2>5. block[d] # Null
    BY <1>2, <2>4 DEF BytesOf, Bytes, Null
  <2>6. Base <= block[d].ptr /\ block[d].ptr + block[d].size <= freePtr
    BY <2>5 DEF IInv, BlocksInBuffer
  <2> QED
    BY <1>2, <2>1, <2>2, <2>3, <2>4, <2>6 DEF BytesOf, Bytes, Addr
<1> QED
  BY <1>1, <1>2, ContentsKept

\* The contents of a block just taken
LEMMA Taken ==
  ASSUME IInv, NEW c \in Clients, NEW n \in Sizes, Take(c, n)
  PROVE  /\ Contents'[c] = [i \in 1..n |-> mem'[Aligned + i - 1]]
         /\ n \in Nat
         /\ \A i \in 1..n : Aligned + i - 1 \in Addr /\ Aligned + i - 1 \in Bytes(Aligned, n)
<1>1. n \in Nat /\ Base \in Nat /\ Size \in Nat
  BY ArenaAssumption
<1>2. freePtr \in Nat /\ Base <= freePtr /\ End \in Nat
  BY <1>1 DEF IInv, TypeOK, End
<1>3. Aligned \in Nat /\ freePtr <= Aligned /\ Aligned + n <= End
  BY <1>2, AlignUpFacts DEF Aligned, Take, Fits
<1>4. block'[c] = [ptr |-> Aligned, size |-> n]
  BY DEF Take, IInv, TypeOK
<1>5. Contents'[c] = [i \in 1..n |-> mem'[Aligned + i - 1]]
  BY <1>4 DEF Contents
<1>6. \A i \in 1..n : Aligned + i - 1 \in Addr /\ Aligned + i - 1 \in Bytes(Aligned, n)
  BY <1>1, <1>2, <1>3 DEF Addr, Bytes
<1> QED
  BY <1>1, <1>5, <1>6

\* The contents of a block just taken are a sequence of the abstract type
LEMMA TakenType ==
  ASSUME IInv, NEW c \in Clients, NEW n \in Sizes, Take(c, n), mem' \in [Addr -> Values]
  PROVE  Contents'[c] \in [1..n -> Values]
<1>1. Contents'[c] = [i \in 1..n |-> mem'[Aligned + i - 1]]
  BY Taken
<1>2. \A i \in 1..n : mem'[Aligned + i - 1] \in Values
  BY Taken
<1> QED
  BY <1>1, <1>2

\* Two states of the contents that differ in one client's block
LEMMA ContentsExcept ==
  ASSUME NEW c \in Clients, NEW bytes, Contents'[c] = bytes,
         \A d \in Clients : d # c => Contents'[d] = Contents[d]
  PROVE  Contents' = [Contents EXCEPT ![c] = bytes]
BY DEF Contents

\* A block of no bytes is the null pointer of the allocator
LEMMA NullContents ==
  ASSUME NEW c \in Clients, block'[c] = Null
  PROVE  Contents'[c] = <<>>
<1>1. Contents'[c] = [i \in 1..0 |-> mem'[0 + i - 1]]
  BY DEF Contents, Null
<1> QED
  BY <1>1

\* Every client starts with nothing
LEMMA RefinesInit == Init => A!Init
<1> SUFFICES ASSUME Init PROVE A!Init
  OBVIOUS
<1>1. ASSUME NEW c \in Clients PROVE [i \in 1..block[c].size |-> mem[block[c].ptr + i - 1]] = <<>>
  <2>1. block[c].size = 0
    BY DEF Init, Null
  <2> QED
    BY <2>1
<1>2. Contents = [c \in Clients |-> <<>>]
  BY <1>1 DEF Contents
<1> QED
  BY <1>2 DEF Init, A!Init

\* A client that holds no block is one that holds nothing for the allocator
LEMMA NoContents ==
  ASSUME NEW c \in Clients, block[c] = Null
  PROVE  A!HoldsNothing(c)
<1>1. Contents[c] = [i \in 1..0 |-> mem[0 + i - 1]]
  BY DEF Contents, Null
<1> QED
  BY <1>1 DEF A!HoldsNothing

\* malloc: the fresh bytes are whatever the buffer held
LEMMA RefinesMalloc ==
  ASSUME IInv, NEW c \in Clients, NEW n \in Sizes, Malloc(c, n)
  PROVE  A!Malloc(c, n)
<1>1. Take(c, n) /\ mem' = mem /\ mem \in [Addr -> Values]
  BY DEF Malloc, IInv, TypeOK
<1>2. Contents'[c] \in [1..n -> Values]
  BY <1>1, TakenType
<1>3. Contents' = [Contents EXCEPT ![c] = Contents'[c]]
  BY <1>1, OthersKept, ContentsExcept
<1>4. A!HoldsNothing(c)
  BY NoContents DEF Malloc
<1> QED
  BY <1>1, <1>2, <1>3, <1>4 DEF A!Malloc, A!Blocks, A!Assign, Take

\* calloc: every fresh byte is zero
LEMMA RefinesCalloc ==
  ASSUME IInv, NEW c \in Clients, NEW n \in Sizes, Calloc(c, n)
  PROVE  A!Calloc(c, n)
<1>1. Take(c, n) /\ mem' = [a \in Addr |-> IF a \in Bytes(Aligned, n) THEN 0 ELSE mem[a]]
  BY DEF Calloc
<1>2. Contents'[c] = [i \in 1..n |-> 0]
  BY <1>1, Taken
<1>3. Contents' = [Contents EXCEPT ![c] = [i \in 1..n |-> 0]]
  BY <1>1, <1>2, OthersKept, ContentsExcept
<1>4. A!HoldsNothing(c)
  BY NoContents DEF Calloc
<1> QED
  BY <1>1, <1>3, <1>4 DEF A!Calloc, A!Assign, Take

\* realloc: the fresh block starts with the bytes of the old one
LEMMA RefinesRealloc ==
  ASSUME IInv, NEW c \in Clients, NEW n \in Sizes, Realloc(c, n)
  PROVE  A!Realloc(c, n)
<1>1. /\ Take(c, n)
      /\ mem' = [a \in Addr |-> IF a \in Bytes(Aligned, n) /\ block[c] # Null
                               THEN mem[block[c].ptr + (a - Aligned)] ELSE mem[a]]
  BY DEF Realloc
<1>2. mem' \in [Addr -> Values]
  <2>1. IInv'
    BY NextInv DEF Next
  <2> QED
    BY <2>1 DEF IInv, TypeOK
<1>3. Contents'[c] \in [1..n -> Values]
  BY <1>1, <1>2, TakenType
<1>4. ASSUME NEW i \in 1..n, i <= Len(Contents[c])
      PROVE  Contents'[c][i] = Contents[c][i]
  <2>1. /\ Contents[c] = [k \in 1..block[c].size |-> mem[block[c].ptr + k - 1]]
        /\ Len(Contents[c]) = block[c].size
        /\ block[c].size \in Nat
    BY ContentsFacts
  <2>2. i \in 1..block[c].size /\ i \in Nat
    BY <1>1, <1>4, <2>1, Taken
  <2>3. block[c] # Null
    BY <2>2 DEF Null
  <2>4. Contents'[c][i] = mem'[Aligned + i - 1]
    <3>1. Contents'[c] = [k \in 1..n |-> mem'[Aligned + k - 1]]
      BY <1>1, Taken
    <3> QED
      BY <1>4, <3>1
  <2>5. mem'[Aligned + i - 1] = mem[block[c].ptr + ((Aligned + i - 1) - Aligned)]
    BY <1>1, <2>3, Taken
  <2>6. Aligned \in Nat /\ block[c].ptr \in Nat
    BY ArenaAssumption, AlignUpFacts DEF Aligned, IInv, TypeOK, End
  <2>7. block[c].ptr + ((Aligned + i - 1) - Aligned) = block[c].ptr + i - 1
    BY <2>2, <2>6
  <2>8. Contents[c][i] = mem[block[c].ptr + i - 1]
    BY <2>1, <2>2
  <2> QED
    BY <2>4, <2>5, <2>7, <2>8
<1>5. Contents' = [Contents EXCEPT ![c] = Contents'[c]]
  BY <1>1, OthersKept, ContentsExcept
<1> QED
  BY <1>1, <1>3, <1>4, <1>5 DEF A!Realloc, A!Blocks, A!Assign, Take

\* Dropping a pointer is free, and so is a request of no bytes
LEMMA RefinesFree ==
  ASSUME IInv, NEW c \in Clients, Free(c) \/ RequestNothing(c)
  PROVE  A!Free(c)
<1>1. /\ mem' = mem /\ status = "live" /\ status' = status
      /\ block' = [block EXCEPT ![c] = Null]
      /\ block \in [Clients -> [ptr : Nat, size : Nat]]
  BY DEF Free, RequestNothing, IInv, TypeOK
<1>2. Contents'[c] = <<>>
  BY <1>1, NullContents
<1>3. \A d \in Clients : d # c => Contents'[d] = Contents[d]
  BY <1>1, ContentsKept
<1>4. Contents' = [Contents EXCEPT ![c] = <<>>]
  BY <1>2, <1>3, ContentsExcept
<1> QED
  BY <1>1, <1>4 DEF A!Free, A!Assign

\* A write reaches the contents of one client, at one place
LEMMA RefinesWrite ==
  ASSUME IInv, NEW c \in Clients, NEW a \in BytesOf(c), NEW v \in Values, Write(c, a, v)
  PROVE  \E i \in 1..Len(Contents[c]) : A!Write(c, i, v)
<1> DEFINE i == a - block[c].ptr + 1
<1>1. /\ mem' = [mem EXCEPT ![a] = v] /\ status = "live" /\ status' = status
      /\ block' = block
      /\ mem \in [Addr -> Values]
  BY DEF Write, IInv, TypeOK
<1>2. /\ Contents[c] = [k \in 1..block[c].size |-> mem[block[c].ptr + k - 1]]
      /\ Len(Contents[c]) = block[c].size
      /\ block[c].size \in Nat /\ block[c].ptr \in Nat
  BY ContentsFacts DEF IInv, TypeOK
<1>3. /\ i \in 1..block[c].size
      /\ a = block[c].ptr + i - 1
      /\ a \in Int
  BY <1>2 DEF BytesOf, Bytes
<1>4. ASSUME NEW k \in 1..block[c].size
      PROVE  block[c].ptr + k - 1 \in Addr
  <2>1. Base \in Nat /\ Size \in Nat /\ freePtr \in Nat /\ freePtr <= End /\ End \in Nat
    BY ArenaAssumption DEF IInv, TypeOK, End
  <2>2. block[c] # Null
    BY <1>2, <1>4 DEF Null
  <2>3. Base <= block[c].ptr /\ block[c].ptr + block[c].size <= freePtr
    BY <2>2 DEF IInv, BlocksInBuffer
  <2> QED
    BY <1>2, <1>4, <2>1, <2>3 DEF Addr
<1>5. Contents'[c] = [k \in 1..block[c].size |-> mem'[block[c].ptr + k - 1]]
  BY <1>1 DEF Contents
<1>6. ASSUME NEW k \in 1..block[c].size
      PROVE  mem'[block[c].ptr + k - 1] = IF k = i THEN v ELSE mem[block[c].ptr + k - 1]
  <2>1. k = i <=> block[c].ptr + k - 1 = a
    BY <1>2, <1>3, <1>6
  <2> QED
    BY <1>1, <1>4, <1>6, <2>1
<1> HIDE DEF i
<1>7. Contents'[c] = [Contents[c] EXCEPT ![i] = v]
  BY <1>2, <1>3, <1>5, <1>6
<1>8. \A d \in Clients : d # c => Contents'[d] = Contents[d]
  <2> SUFFICES ASSUME NEW d \in Clients, d # c PROVE Contents'[d] = Contents[d]
    OBVIOUS
  <2>1. \A b \in BytesOf(d) : b # a
    BY DEF IInv, BlocksDisjoint
  <2> QED
    BY <1>1, <2>1, ContentsKept, \A b \in BytesOf(d) : mem'[b] = mem[b]
<1>9. Contents' = [Contents EXCEPT ![c] = [Contents[c] EXCEPT ![i] = v]]
  BY <1>7, <1>8, ContentsExcept
<1> QED
  BY <1>1, <1>2, <1>3, <1>9 DEF A!Write, A!Assign

\* vut_arena_free_all is the abstract release of everything
LEMMA RefinesFreeAll ==
  ASSUME IInv, FreeAll
  PROVE  A!Release
<1>1. status = "live" /\ status' = "released" /\ block' = [c \in Clients |-> Null]
  BY DEF FreeAll
<1>2. \A c \in Clients : Contents'[c] = <<>>
  BY <1>1, NullContents
<1>3. Contents' = [c \in Clients |-> <<>>]
  BY <1>2 DEF Contents
<1> QED
  BY <1>1, <1>3 DEF A!Release

\* What changes no byte and no block changes no contents
LEMMA RefinesStutter ==
  ASSUME UNCHANGED <<mem, block>>
  PROVE  Contents' = Contents
BY DEF Contents

\* Every step of the arena is a step of the abstract allocator, or none
LEMMA RefinesNext == IInv /\ [Next]_vars => [A!Next]_A!avars
<1> SUFFICES ASSUME IInv, [Next]_vars
             PROVE  [A!Next]_A!avars
  OBVIOUS
<1>1. ASSUME NEW c \in Clients, NEW n \in Sizes, Malloc(c, n) \/ Calloc(c, n) \/ Realloc(c, n)
      PROVE  A!Next
  BY <1>1, RefinesMalloc, RefinesCalloc, RefinesRealloc DEF A!Next
<1>2. ASSUME NEW c \in Clients, RequestNothing(c) \/ Free(c)
      PROVE  A!Next
  BY <1>2, RefinesFree DEF A!Next
<1>3. ASSUME NEW c \in Clients, NEW a \in BytesOf(c), NEW v \in Values, Write(c, a, v)
      PROVE  A!Next
  BY <1>3, RefinesWrite DEF A!Next
<1>4. CASE Abort
  BY <1>4, RefinesStutter DEF Abort, A!Abort, A!Next
<1>5. CASE FreeAll
  BY <1>5, RefinesFreeAll DEF A!Next
<1>6. CASE UNCHANGED vars
  BY <1>6, RefinesStutter DEF vars, A!avars
<1> QED
  BY <1>1, <1>2, <1>3, <1>4, <1>5, <1>6 DEF Next

(* What the arena does for its clients is what an allocator promises: no       *)
(* client's bytes change but by its own writes, and realloc keeps them.        *)
THEOREM Refinement == Spec => ImplementsAllocator
<1>1. Init => A!Init
  BY RefinesInit
<1>2. IInv /\ [Next]_vars => [A!Next]_A!avars
  BY RefinesNext
<1> QED
  BY <1>1, <1>2, Invariant, PTL DEF Spec, ImplementsAllocator, A!Spec

=============================================================================
