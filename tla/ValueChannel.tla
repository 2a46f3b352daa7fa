---------------------------- MODULE ValueChannel ----------------------------
(***************************************************************************)
(* What a StreamWriter and a StreamReader on one stream promise together:  *)
(* Values are received whole, unchanged and in the order they were sent,   *)
(* each with the number of bytes it took.                                  *)
(***************************************************************************)
EXTENDS Sequences, Naturals

CONSTANT Messages    (* what may be sent: Values with their size           *)

VARIABLES
  sent,              (* the messages under way                             *)
  received           (* the last one that arrived, if any                  *)

Init == sent = <<>> /\ received = <<>>

Send ==
  /\ sent' \in [1 .. Len(sent) + 1 -> Messages]
  /\ SubSeq(sent', 1, Len(sent)) = sent
  /\ UNCHANGED received

Receive ==
  /\ sent # <<>>
  /\ received' = <<Head(sent)>>
  /\ sent' = Tail(sent)

Next == Send \/ Receive

Spec == Init /\ [][Next]_<<sent, received>>
=============================================================================
