----------------------------- MODULE Allocator -----------------------------
(* What a vut_allocator (vutils/allocator.h) promises its clients: a block     *)
(* holds what its client wrote to it, whatever the others do, through realloc  *)
(* as far as both sizes go.  A client holds one block; <<>> is the null        *)
(* pointer, which is also what a request of no bytes returns.                  *)
EXTENDS Naturals, Sequences

CONSTANTS Clients, Sizes, Values

VARIABLES contents,   \* the bytes of each client's block
          status      \* "live", "aborted" or "released"

avars == <<contents, status>>

Blocks(n) == [1..n -> Values]

Init == contents = [c \in Clients |-> <<>>] /\ status = "live"

Assign(c, bytes) ==
  /\ status = "live"
  /\ contents' = [contents EXCEPT ![c] = bytes]
  /\ UNCHANGED status

\* A client that has a block asks for a larger one with realloc, or drops it first
HoldsNothing(c) == contents[c] = <<>>

\* Fresh bytes are anything
Malloc(c, n) == HoldsNothing(c) /\ \E bytes \in Blocks(n) : Assign(c, bytes)

Calloc(c, n) == HoldsNothing(c) /\ Assign(c, [i \in 1..n |-> 0])

Realloc(c, n) ==
  \E bytes \in Blocks(n) :
    /\ \A i \in 1..n : i <= Len(contents[c]) => bytes[i] = contents[c][i]
    /\ Assign(c, bytes)

Free(c) == Assign(c, <<>>)

Write(c, i, v) ==
  /\ i \in 1..Len(contents[c])
  /\ Assign(c, [contents[c] EXCEPT ![i] = v])

\* There may be no memory for a request, and the allocator can be torn down
Abort   == status = "live" /\ status' = "aborted" /\ UNCHANGED contents
Release == status = "live" /\ status' = "released" /\ contents' = [c \in Clients |-> <<>>]

Next ==
  \/ \E c \in Clients, n \in Sizes : Malloc(c, n) \/ Calloc(c, n) \/ Realloc(c, n)
  \/ \E c \in Clients : Free(c) \/ \E i \in 1..Len(contents[c]), v \in Values : Write(c, i, v)
  \/ Abort \/ Release

Spec == Init /\ [][Next]_avars
=============================================================================
