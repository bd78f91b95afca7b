------------------------------ MODULE Contents ------------------------------
(* What a vector or a string promises its owner: the elements that were put,   *)
(* in order, whatever blocks of memory hold them.                              *)
EXTENDS Naturals, Sequences

CONSTANTS Values,   \* of an element
          Nul,      \* the character '\0'
          Batches   \* what is put at once

VARIABLES items,    \* the elements
          given,    \* the text that was given away
          status    \* "live", "lost" once memory was refused, or "stopped"

cvars == <<items, given, status>>

Init == items = <<>> /\ given = <<>> /\ status = "live"

Extend(batch) == status = "live" /\ items' = items \o batch /\ UNCHANGED <<given, status>>

Pop == /\ status = "live" /\ items # <<>>
       /\ items' = SubSeq(items, 1, Len(items) - 1)
       /\ UNCHANGED <<given, status>>

\* What the vector held, lost or not, is gone; the vector can be used again
Clear == status # "stopped" /\ items' = <<>> /\ status' = "live" /\ UNCHANGED given

\* The elements become a C string
Give == status = "live" /\ items' = <<>> /\ given' = Append(items, Nul) /\ UNCHANGED status

\* There is no memory: the elements are gone, and what is given away later is unknown
Lose     == status = "live" /\ status' = "lost" /\ items' = <<>> /\ UNCHANGED given
GiveLost == status = "lost" /\ status' = "live" /\ UNCHANGED items

\* The process ends
Stop == status' = "stopped" /\ items' = <<>> /\ UNCHANGED given

Next == (\E batch \in Batches : Extend(batch)) \/ Pop \/ Clear \/ Give \/ Lose \/ GiveLost \/ Stop

Spec == Init /\ [][Next]_cvars
=============================================================================
