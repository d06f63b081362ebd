------------------------------ MODULE Channel -------------------------------
(***************************************************************************)
(* What the input side of libballyhoo promises: the messages that the      *)
(* server completes are delivered whole, once each and in the order of     *)
(* their completion, whatever happens to the bytes on the way.             *)
(***************************************************************************)
EXTENDS Naturals, Sequences

VARIABLES completed, delivered

Init == completed = <<>> /\ delivered = <<>>

Complete ==
  /\ Len(completed') = Len(completed) + 1
  /\ SubSeq(completed', 1, Len(completed)) = completed
  /\ UNCHANGED delivered

Deliver ==
  /\ Len(delivered) < Len(completed)
  /\ delivered' = Append(delivered, completed[Len(delivered) + 1])
  /\ UNCHANGED completed

Spec == Init /\ [][Complete \/ Deliver]_<<completed, delivered>>
=============================================================================
