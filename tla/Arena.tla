------------------------------- MODULE Arena -------------------------------
(* The arena of vutils/arena_allocator.c: blocks are taken from one buffer, in *)
(* order, and never given back; a request that does not fit fails the          *)
(* assertion of line 60.  Addresses are numbers; requests are given as their   *)
(* product bytes * times, which is taken not to wrap, nor to carry a pointer   *)
(* past the end of the address space.                                          *)
EXTENDS Integers, Sequences

CONSTANTS
  Clients,   \* the owners of blocks: vectors, strings, each with one pointer
  Sizes,     \* the bytes a client asks for
  Values,    \* of a byte
  Base,      \* the buffer's address
  Size,      \* buffer_size
  Align      \* _Alignof(max_align_t)

ASSUME ArenaAssumption ==
  /\ Sizes \subseteq Nat
  /\ 0 \in Values
  /\ Base \in Nat \ {0}
  /\ Size \in Nat
  /\ Align \in Nat \ {0}

VARIABLES
  mem,       \* the bytes of the buffer
  freePtr,   \* free_ptr
  block,     \* what each client holds: where its block starts, and its bytes
  status     \* "live", "aborted" by the assertion, or "released" by free_all

vars == <<mem, freePtr, block, status>>

End  == Base + Size
Addr == Base..(End - 1)
Null == [ptr |-> 0, size |-> 0]

\* The addresses of the n bytes from p
Bytes(p, n) == p..(p + n - 1)
BytesOf(c)  == Bytes(block[c].ptr, block[c].size)

\* Mutant of AlignUp: addresses are left as they are
AlignNothing(addr) == addr

\* ALIGN_UP: the low bits of addr + (align - 1) are cleared
AlignUp(addr) == LET up == addr + (Align - 1) IN up - (up % Align)

\* vut_arena_new: base_allocator.malloc does not clear the buffer
Init ==
  /\ mem \in [Addr -> Values]
  /\ freePtr = Base
  /\ block = [c \in Clients |-> Null]
  /\ status = "live"

Aligned == AlignUp(freePtr)
\* Mutants of Fits: one byte too many; only the size of the request is looked at
FitsOneMore(n) == Aligned + n <= End + 1
FitsAlone(n)   == n <= Size

Fits(n) == Aligned + n <= End

\* A request of no bytes is answered with NULL, before anything else
RequestNothing(c) ==
  /\ status = "live"
  /\ 0 \in Sizes
  /\ block' = [block EXCEPT ![c] = Null]
  /\ UNCHANGED <<mem, freePtr, status>>

\* Mutant of Take: the padding is not counted
TakeUnpadded(c, n) ==
  /\ status = "live"
  /\ n # 0
  /\ Fits(n)
  /\ freePtr' = freePtr + n
  /\ block' = [block EXCEPT ![c] = [ptr |-> Aligned, size |-> n]]
  /\ UNCHANGED status

\* vut_arena_malloc, once it is known that n # 0
Take(c, n) ==
  /\ status = "live"
  /\ n # 0
  /\ Fits(n)
  /\ freePtr' = Aligned + n
  /\ block' = [block EXCEPT ![c] = [ptr |-> Aligned, size |-> n]]
  /\ UNCHANGED status

\* vut_arena_malloc, asked by a client that holds no block
Malloc(c, n) == block[c] = Null /\ Take(c, n) /\ UNCHANGED mem

\* vut_arena_calloc, likewise
Calloc(c, n) ==
  /\ block[c] = Null
  /\ Take(c, n)
  /\ mem' = [a \in Addr |-> IF a \in Bytes(Aligned, n) THEN 0 ELSE mem[a]]

\* Mutant of Realloc: the old bytes are not moved
ReallocFresh(c, n) == Take(c, n) /\ UNCHANGED mem

(* vut_arena_realloc: a fresh block, to which the new number of bytes is moved *)
(* from where the old block starts, past its end if it was smaller.            *)
Realloc(c, n) ==
  /\ Take(c, n)
  /\ mem' = [a \in Addr |-> IF a \in Bytes(Aligned, n) /\ block[c] # Null
                           THEN mem[block[c].ptr + (a - Aligned)] ELSE mem[a]]

\* The assertion of vut_arena_malloc fails and the process aborts
Abort ==
  /\ status = "live"
  /\ \E n \in Sizes : n # 0 /\ ~ Fits(n)
  /\ status' = "aborted"
  /\ UNCHANGED <<mem, freePtr, block>>

\* stub_arena_alloc_free does nothing; the client forgets its pointer
Free(c) ==
  /\ status = "live"
  /\ block' = [block EXCEPT ![c] = Null]
  /\ UNCHANGED <<mem, freePtr, status>>

\* A client writes to its block
Write(c, a, v) ==
  /\ status = "live"
  /\ mem' = [mem EXCEPT ![a] = v]
  /\ UNCHANGED <<freePtr, block, status>>

\* vut_arena_free_all, when every client is done
FreeAll ==
  /\ status = "live"
  /\ status' = "released"
  /\ block' = [c \in Clients |-> Null]
  /\ UNCHANGED <<mem, freePtr>>

Next ==
  \/ \E c \in Clients, n \in Sizes : Malloc(c, n) \/ Calloc(c, n) \/ Realloc(c, n)
  \/ \E c \in Clients : \/ RequestNothing(c) \/ Free(c)
                        \/ \E a \in BytesOf(c), v \in Values : Write(c, a, v)
  \/ Abort \/ FreeAll

Spec == Init /\ [][Next]_vars
-----------------------------------------------------------------------------
Statuses == {"live", "aborted", "released"}

TypeOK ==
  /\ mem \in [Addr -> Values]
  /\ freePtr \in Base..End
  /\ block \in [Clients -> [ptr : Nat, size : Nat]]
  /\ status \in Statuses

(* Every block lies in the part of the buffer that was handed out, on an       *)
(* address aligned for any type, and is not empty (malloc and its siblings     *)
(* return NULL, not an empty block).                                           *)
BlocksInBuffer ==
  \A c \in Clients : block[c] # Null =>
    /\ block[c].size > 0
    /\ block[c].ptr % Align = 0
    /\ Base <= block[c].ptr
    /\ block[c].ptr + block[c].size <= freePtr

\* No byte belongs to two blocks
BlocksDisjoint ==
  \A c, d \in Clients : c # d => BytesOf(c) \intersect BytesOf(d) = {}

(* vut_arena_realloc reads as many bytes as it was asked for from the start of *)
(* the old block, however small that was: it never reads out of the buffer,    *)
(* because the new block is always further on.                                 *)
OverReadInBuffer ==
  \A c \in Clients, n \in Sizes :
    block[c] # Null /\ Fits(n) => Bytes(block[c].ptr, n) \subseteq Addr

(* What the arena does for its clients is what an allocator promises: nobody's *)
(* bytes change but by their owner's writes, and realloc keeps them.           *)
Contents == [c \in Clients |-> [i \in 1..block[c].size |-> mem[block[c].ptr + i - 1]]]
A == INSTANCE Allocator WITH contents <- Contents
ImplementsAllocator == A!Spec
=============================================================================
