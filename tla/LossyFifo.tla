------------------------------ MODULE LossyFifo ------------------------------
(***************************************************************************)
(* What the legs of the audio promise: packets or frames pass from one     *)
(* end to the other in the order in which they went in, none twice and     *)
(* none made up on the way; any of them may be lost.  UdpClient (from the  *)
(* network to its callback), Playback (from there to the codec) and        *)
(* Capture (from the codec to the UDP client) are each shown to implement  *)
(* this specification, through two to four threads.                        *)
(***************************************************************************)
EXTENDS Naturals, Sequences

CONSTANTS Item, \* what passes through
          None  \* nothing yet: not a member of Item

VARIABLES pending, \* what is on its way, oldest first
          out      \* what came out last, or None

vars == <<pending, out>>

TypeOK ==
  /\ pending \in Seq(Item)
  /\ out \in Item \cup {None}

Init ==
  /\ pending = <<>>
  /\ out = None

Put(i) ==
  /\ pending' = Append(pending, i)
  /\ UNCHANGED out

Deliver ==
  /\ pending # <<>>
  /\ out' = Head(pending)
  /\ pending' = Tail(pending)

\* A run of neighbours, from the i-th to the one before the j-th, is lost.
Lose ==
  \E i, j \in 1..(Len(pending) + 1) :
    /\ i < j
    /\ pending' = SubSeq(pending, 1, i - 1) \o SubSeq(pending, j, Len(pending))
    /\ UNCHANGED out

Next == (\E i \in Item : Put(i)) \/ Deliver \/ Lose

Spec == Init /\ [][Next]_vars
=============================================================================
