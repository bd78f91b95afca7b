-------------------------------- MODULE Vec --------------------------------
(* The vector macros of vutils/vec.h and the string operations of str.c on     *)
(* them, for one vector, with size_t of Width bits and an allocator that may   *)
(* have no memory.  A block is the sequence of its whole elements; <<>> is the *)
(* null pointer.                                                               *)
EXTENDS Integers, Sequences, FiniteSetsExt

CONSTANTS
  Width,      \* the bits of a size_t
  Pow,        \* the powers of two up to Pow[Width], one more than SIZE_MAX
  ElemSize,   \* sizeof of an element
  Memory,     \* the bytes that all live objects together may take
  Values,     \* of an element
  Nul,        \* the character '\0'
  Junk        \* what a fresh element holds

ASSUME VecAssumption ==
  /\ Width \in Nat \ {0}
  /\ Pow \in [0..Width -> Nat]
  /\ Pow[0] = 1
  /\ \A k \in 1..Width : Pow[k] = 2 * Pow[k - 1]
  /\ ElemSize \in Nat \ {0}
  /\ Memory \in Nat
  /\ ElemSize <= Memory
  /\ Memory < Pow[Width - 1]   \* PTRDIFF_MAX: no malloc gives half the addresses
  /\ Nul \in Values
  /\ Junk \notin Values

VARIABLES
  block,      \* base: the elements of the block it points to
  len,
  capacity,
  allocator,  \* "arena", "system", or "none" once the struct is zeroed
  given,      \* what vut_str_move_to_cstr returned last
  lost,       \* history: the system's realloc has returned NULL for this vector
  fault       \* "none", or how the process was stopped

vars == <<block, len, capacity, allocator, given, lost, fault>>

Word == Pow[Width]

\* Mutant of RoundUp: a power of two is rounded to the next one
RoundUpAbove(n) ==
  LET powers == {Pow[k] : k \in 0..(Width - 1)}
      above  == {p \in powers : n < p}
  IN  IF n = 0 \/ above = {} THEN 0 ELSE Min(above)

(* The shifts of VUT_VEC_RESERVE: the least power of two that is not below n,  *)
(* and 0 when that is none of Width bits, or when n is 0.                      *)
RoundUp(n) ==
  LET powers == {Pow[k] : k \in 0..(Width - 1)}
      above  == {p \in powers : n <= p}
  IN  IF n = 0 \/ above = {} THEN 0 ELSE Min(above)

Init ==   \* VUT_VEC_INIT
  /\ block = <<>> /\ len = 0 /\ capacity = 0
  /\ allocator \in {"arena", "system"}
  /\ given = <<>>
  /\ lost = FALSE
  /\ fault = "none"

Live == fault = "none"

Stop(why) == fault' = why /\ UNCHANGED <<block, len, capacity, allocator, given, lost>>

\* The block, resized to n whole elements
Resized(n) == [i \in 1..n |-> IF i <= Len(block) THEN block[i] ELSE Junk]

(* What vut_allocator_realloc may answer to a request of n elements.  The      *)
(* product wraps; of no bytes NULL is asked for.  The system's realloc returns *)
(* NULL when there is no memory, the arena aborts (Refuse).                    *)
Answers(n) ==
  LET bytes == (ElemSize * n) % Word
  IN  IF bytes = 0 THEN {<<>>}
      ELSE (IF bytes <= Memory THEN {Resized(bytes \div ElemSize)} ELSE {})
           \union (IF allocator = "system" THEN {<<>>} ELSE {})

\* Mutant of Store: VUT_VEC_PUT_MANY copies to the start of the block
StoreAtStart(b, cap, items) ==
  IF items # <<>> /\ b = <<>> THEN Stop("null_write")
  ELSE IF len + Len(items) > Len(b) /\ items # <<>> THEN Stop("outside")
  ELSE /\ block' = [i \in 1..Len(b) |-> IF i <= Len(items) THEN items[i] ELSE b[i]]
       /\ len' = len + Len(items)
       /\ capacity' = cap
       /\ lost' = (lost \/ (b = <<>> /\ cap # capacity))
       /\ UNCHANGED <<allocator, given, fault>>

(* items are written from the end of the vector on, in block b: the process is *)
(* stopped when that is no block, and does something else when it is too short.*)
Store(b, cap, items) ==
  IF items # <<>> /\ b = <<>> THEN Stop("null_write")
  ELSE IF len + Len(items) > Len(b) /\ items # <<>> THEN Stop("outside")
  ELSE /\ block' = [i \in 1..Len(b) |-> IF i \in (len + 1)..(len + Len(items))
                                        THEN items[i - len] ELSE b[i]]
       /\ len' = len + Len(items)
       /\ capacity' = cap
       /\ lost' = (lost \/ (b = <<>> /\ cap # capacity))
       /\ UNCHANGED <<allocator, given, fault>>

(* The common part of the macros: when needed does not fit, the block is       *)
(* resized to size elements, then items are stored.                            *)
Grow(needed, size, items) ==
  IF needed <= capacity THEN Store(block, capacity, items)
  ELSE IF allocator = "none" THEN Stop("no_funcs")
  ELSE \/ \E b \in Answers(size) : Store(b, size, items)
       \/ allocator = "arena" /\ Stop("aborted")

(* n elements somewhere else, and those of the vector, are in memory together. *)
Together(n) == ElemSize * (len + n) <= Memory

ReserveExact(n) ==
  LET needed == (len + n) % Word
  IN  Live /\ Together(n) /\ Grow(needed, needed, <<>>)

\* For n - 1 elements that are going to be put
Reserve(n) ==
  LET needed == (len + n) % Word
  IN  Live /\ n > 0 /\ Together(n - 1) /\ Grow(needed, RoundUp(needed), <<>>)

\* Mutant of GrownToPut: the capacity of an empty vector is doubled as well
GrownToPutDoubled == (len + capacity) % Word

\* What VUT_VEC_PUT reserves, when it does
GrownToPut == (len + (IF capacity = 0 THEN 2 ELSE capacity)) % Word

\* VUT_VEC_PUT, but for its guard
PutItem(e) == IF len >= capacity THEN Grow(GrownToPut, GrownToPut, <<e>>)
                                 ELSE Store(block, capacity, <<e>>)

Put(e) == Live /\ PutItem(e)

\* Mutant of PutReserved: no element is reserved for a terminator
PutReservedExactly(n, items) ==
  LET needed == (len + n) % Word
  IN  Live /\ Together(n) /\ Grow(needed, RoundUp(needed), items)

\* Room for n elements and a terminator is reserved, and items are put
PutReserved(n, items) ==
  LET needed == (len + n + 1) % Word
  IN  Live /\ Together(n) /\ Grow(needed, RoundUp(needed), items)

\* VUT_VEC_PUT_MANY, vut_str_put_sv and vut_str_put_cstr
PutMany(items) == PutReserved(Len(items), items)

(* vut_str_put_blank_reduced_sv: what is left of n characters once their       *)
(* blanks are reduced, put one by one, is never more than was reserved.        *)
PutReduced(n, items) == Len(items) < n /\ PutReserved(n, items)

\* Mutant of Pop: an empty vector is popped
PopUnguarded ==
  /\ Live
  /\ len' = len - 1
  /\ UNCHANGED <<block, capacity, allocator, given, lost, fault>>

Pop ==
  /\ Live
  /\ len' = IF len > 0 THEN len - 1 ELSE len
  /\ UNCHANGED <<block, capacity, allocator, given, lost, fault>>

\* VUT_VEC_FREE: the allocator's functions are called whatever base is
Free ==
  /\ Live
  /\ IF allocator = "none" THEN Stop("no_funcs")
     ELSE /\ block' = <<>> /\ len' = 0 /\ capacity' = 0
          /\ lost' = FALSE
          /\ UNCHANGED <<allocator, given, fault>>

\* vut_str_move_to_cstr, when the terminator is put in block b
Give(b) ==
  IF b = <<>> THEN Stop("null_write")
  ELSE IF len >= Len(b) THEN Stop("outside")
  ELSE /\ given' = [i \in 1..(len + 1) |-> IF i <= len THEN b[i] ELSE Nul]
       /\ block' = <<>> /\ len' = 0 /\ capacity' = 0
       /\ allocator' = "none"
       /\ lost' = FALSE
       /\ UNCHANGED fault

MoveToCstr ==
  /\ Live
  /\ IF len < capacity \/ GrownToPut <= capacity THEN Give(block)
     ELSE IF allocator = "none" THEN Stop("no_funcs")
     ELSE \/ \E b \in Answers(GrownToPut) : Give(b)
          \/ allocator = "arena" /\ Stop("aborted")

CONSTANT MaxItems   \* the elements that are put at once

ASSUME MaxItemsAssumption == MaxItems \in Nat \ {0}

Batches == UNION {[1..n -> Values] : n \in 0..MaxItems}

Next ==
  \/ \E n \in 0..MaxItems : ReserveExact(n) \/ Reserve(n)
  \/ \E e \in Values : Put(e)
  \/ \E items \in Batches : PutMany(items) \/ \E n \in 1..MaxItems : PutReduced(n, items)
  \/ Pop \/ Free \/ MoveToCstr
  \/ ~ Live /\ UNCHANGED vars

Spec == Init /\ [][Next]_vars

----------------------------------------------------------------------------

(* The struct is what its fields say: no more elements than room for them.     *)
TypeOK ==
  /\ block \in Seq(Values \union {Junk})
  /\ capacity \in 0..(Word - 1) /\ len \in 0..capacity
  /\ allocator \in {"arena", "system", "none"}
  /\ given \in Seq(Values \union {Junk})
  /\ lost \in BOOLEAN
  /\ fault \in {"none", "aborted", "null_write", "outside", "no_funcs"}

(* No element is written outside the block, however the sizes were computed    *)
(* and rounded and whatever answered realloc; through the null pointer only    *)
(* when the system had no memory, because the macros do not test what realloc  *)
(* returns (vec.h:31); and the allocator is missing only once the text of the  *)
(* string was moved out of it (str.c:78).                                      *)
NoWildWrite ==
  /\ fault # "outside"
  /\ fault = "null_write" => allocator = "system"
  /\ fault = "no_funcs" => allocator = "none" /\ given # <<>>

(* "It will reserve enough space for `from_size + 1` elements in `to`. This    *)
(* ensures that there is space for a possible null terminator" (vec.h:86-88):  *)
(* the terminator that vut_str_move_to_cstr puts next needs no memory.         *)
RoomForNul ==
  [][\A items \in Batches : PutMany(items) /\ fault' = "none" => len' < capacity']_vars

Kept == IF lost \/ ~ Live THEN <<>> ELSE SubSeq(block, 1, len)

Promise == INSTANCE Contents
  WITH items  <- Kept,
       status <- IF ~ Live THEN "stopped" ELSE IF lost THEN "lost" ELSE "live",
       given  <- given

(* Whatever is reserved, grown, moved and popped, and however often the block  *)
(* moves, the vector holds exactly what was put and not popped since it was    *)
(* last freed, and the string that is moved out is that text and a terminator. *)
ImplementsContents == Promise!Spec
=============================================================================
