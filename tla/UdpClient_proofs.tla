-------------------------- MODULE UdpClient_proofs --------------------------
(***************************************************************************)
(* Proofs about UdpClient, for any number of datagrams and packets sent.   *)
(***************************************************************************)
EXTENDS UdpClient, SequenceTheorems, TLAPS

LEMMA InitIInv == Init => IInv
<1> SUFFICES ASSUME Init PROVE IInv
  OBVIOUS
<1>1. TypeOK
  <2>1. <<>> \in Seq(Packet)
    BY EmptySeq
  <2>2. 0 \in 0..MaxPackets /\ 0 \in 0..MaxSends
    BY BoundsAssumption
  <2> QED BY <2>1, <2>2 DEF Init, TypeOK
<1>2. Lifecycle
  BY DEF Init, Lifecycle
<1>3. Flow
  <2>1. 1..Len(<<>>) = {}
    BY EmptySeq
  <2> QED BY <2>1 DEF Init, Flow, Increasing, InFlight
<1> QED BY <1>1, <1>2, <1>3 DEF IInv

LEMMA NextLifecycle ==
  TypeOK /\ Lifecycle /\ [Next]_vars => Lifecycle'
<1> SUFFICES ASSUME TypeOK, Lifecycle, [Next]_vars PROVE Lifecycle'
  OBVIOUS
<1> USE DEF TypeOK, Lifecycle, MutexFree
<1>1. CASE Connect \/ Send \/ Disconnect \/ Destroy \/ Arrive
  BY <1>1 DEF Connect, Send, Disconnect, Destroy, Arrive
<1>2. CASE Receiver
  BY <1>2 DEF Receiver, EnterRecv, Recv, CheckResult, Callback, Leave
<1>3. CASE UNCHANGED vars
  BY <1>3 DEF vars
<1> QED BY <1>1, <1>2, <1>3 DEF Next

\* A sequence followed by something larger than all of it.
LEMMA IncreasingAppend ==
  ASSUME NEW s \in Seq(Nat), NEW n \in Nat, Increasing(s),
         \A i \in 1..Len(s) : s[i] < n
  PROVE  Increasing(Append(s, n))
BY AppendProperties, LenProperties DEF Increasing

\* The rest of a sequence, and its head.
LEMMA IncreasingTail ==
  ASSUME NEW s \in Seq(Nat), Increasing(s), s # <<>>
  PROVE  /\ Increasing(Tail(s))
         /\ Len(Tail(s)) = Len(s) - 1 /\ Len(s) \in Nat \ {0}
         /\ Head(s) = s[1]
         /\ \A j \in 1..Len(Tail(s)) : Tail(s)[j] = s[j+1] /\ Head(s) < Tail(s)[j]
<1>1. Len(s) \in Nat \ {0} /\ Head(s) = s[1]
  BY EmptySeq
<1>2. /\ Len(Tail(s)) = Len(s) - 1
      /\ \A j \in 1..Len(Tail(s)) : Tail(s)[j] = s[j+1]
  BY HeadTailProperties
<1> QED BY <1>1, <1>2 DEF Increasing

LEMMA NextFlow == IInv /\ [Next]_vars => (TypeOK /\ Flow)'
<1> SUFFICES ASSUME IInv, [Next]_vars PROVE TypeOK' /\ Flow'
  OBVIOUS
<1> USE DEF IInv, TypeOK
<1>1. /\ inbox \in Seq(Nat) /\ delivered \in Seq(Nat)
      /\ \A n \in Packet : n \in Nat
  <2>1. Packet \subseteq Nat
    BY BoundsAssumption DEF Packet
  <2> QED BY <2>1, SeqMonotonic
<1>2. CASE Connect \/ Send \/ Disconnect \/ Destroy
  <2>1. UNCHANGED <<result, inbox, packet, delivered, arrived>>
    BY <1>2 DEF Connect, Send, Disconnect, Destroy
  <2>2. /\ InFlight' => InFlight
        /\ receiver' \in {"none", "loop", "recv", "check", "callback", "leave",
                          "done"}
    BY <1>2, <2>1 DEF Connect, Send, Disconnect, Destroy, InFlight
  <2>3. TypeOK'
    <3>1. /\ owner' \in {"new", "idle", "join", "returned", "deleted",
                         "terminated"}
          /\ connected' \in BOOLEAN
          /\ socket' \in {"none", "open", "closed"}
      BY <1>2 DEF Connect, Send, Disconnect, Destroy
    <3>2. sent' \in 0..MaxSends
      BY <1>2, BoundsAssumption DEF Connect, Send, Disconnect, Destroy
    <3> QED BY <2>1, <2>2, <3>1, <3>2
  <2>4. Flow'
    BY <2>1, <2>2 DEF Flow, Increasing
  <2> QED BY <2>3, <2>4
<1>3. CASE EnterRecv \/ CheckResult \/ Leave
  BY <1>3 DEF EnterRecv, CheckResult, Leave, Flow, Increasing, InFlight
<1>4. CASE Recv
  <2>1. ASSUME inbox # <<>>, packet' = Head(inbox), inbox' = Tail(inbox),
               result' \in {"data", "nothing"}
        PROVE  TypeOK' /\ Flow'
    <3>1. /\ Increasing(inbox')
          /\ Len(inbox') = Len(inbox) - 1 /\ Len(inbox) \in Nat \ {0}
          /\ packet' = inbox[1]
          /\ \A j \in 1..Len(inbox') : inbox'[j] = inbox[j+1] /\ packet' < inbox'[j]
      BY <1>1, <2>1, IncreasingTail DEF Flow
    <3>2. packet' \in Packet /\ inbox' \in Seq(Packet)
      BY <2>1, HeadTailProperties
    <3>3. TypeOK'
      BY <1>4, <2>1, <3>2, BoundsAssumption DEF Recv, Packet
    <3>4. 1 \in 1..Len(inbox)
      BY <3>1
    <3>5. \A j \in 1..Len(inbox') : j + 1 \in 1..Len(inbox)
      BY <3>1
    <3>6. delivered' = delivered /\ arrived' = arrived
      BY <1>4 DEF Recv
    <3>7. packet' \in 1..arrived'
      BY <3>1, <3>2, <3>4, <3>6 DEF Flow, Packet
    <3> QED BY <3>1, <3>3, <3>4, <3>5, <3>6, <3>7 DEF Flow
  <2>2. ASSUME UNCHANGED <<inbox, packet>>, result' \in {"error", "nothing"}
        PROVE  TypeOK' /\ Flow'
    BY <1>4, <2>2 DEF Recv, Flow, Increasing, InFlight
  <2> QED BY <1>4, <2>1, <2>2 DEF Recv
<1>5. CASE Callback
  <2>1. InFlight
    BY <1>5 DEF Callback, InFlight
  <2>2. packet \in 1..arrived /\ packet \in Packet /\ arrived \in Nat
    BY <2>1, BoundsAssumption DEF Flow, Packet
  <2>3. /\ delivered' \in Seq(Packet)
        /\ Len(delivered') = Len(delivered) + 1 /\ Len(delivered) \in Nat
        /\ delivered'[Len(delivered) + 1] = packet
        /\ \A i \in 1..Len(delivered) : delivered'[i] = delivered[i]
    BY <1>5, <2>2, AppendProperties, LenProperties DEF Callback
  <2>4. Increasing(delivered')
    <3>1. \A i \in 1..Len(delivered) : delivered[i] < packet
      BY <2>1 DEF Flow
    <3> QED BY <1>1, <1>5, <2>2, <3>1, IncreasingAppend DEF Callback, Flow
  <2>5. \A i \in 1..Len(delivered') : i \in 1..Len(delivered) \/ i = Len(delivered) + 1
    BY <2>3
  <2>6. /\ inbox' = inbox /\ arrived' = arrived /\ packet' = packet
        /\ ~InFlight'
    BY <1>5 DEF Callback, InFlight
  <2>7. TypeOK'
    BY <1>5, <2>3 DEF Callback
  <2>8. \A i \in 1..Len(delivered') :
          /\ delivered'[i] <= arrived
          /\ \A j \in 1..Len(inbox) : delivered'[i] < inbox[j]
    <3> SUFFICES ASSUME NEW i \in 1..Len(delivered')
                 PROVE  /\ delivered'[i] <= arrived
                        /\ \A j \in 1..Len(inbox) : delivered'[i] < inbox[j]
      OBVIOUS
    <3>1. CASE i \in 1..Len(delivered)
      BY <3>1, <2>3 DEF Flow
    <3>2. CASE i = Len(delivered) + 1
      BY <3>2, <2>1, <2>2, <2>3 DEF Flow
    <3> QED BY <2>5, <3>1, <3>2
  <2>9. Increasing(inbox')
    BY <2>6 DEF Flow
  <2>10. Flow'
    BY <2>4, <2>6, <2>8, <2>9 DEF Flow
  <2> QED BY <2>7, <2>10
<1>6. CASE Arrive
  <2>1. arrived' \in Packet /\ arrived' = arrived + 1 /\ arrived' \in 0..MaxPackets
    BY <1>6, BoundsAssumption DEF Arrive, Packet
  <2>2. /\ inbox' \in Seq(Packet)
        /\ Len(inbox') = Len(inbox) + 1 /\ Len(inbox) \in Nat
        /\ inbox'[Len(inbox) + 1] = arrived'
        /\ \A j \in 1..Len(inbox) : inbox'[j] = inbox[j] /\ inbox[j] \in Nat
    BY <1>1, <1>6, <2>1, AppendProperties, LenProperties DEF Arrive
  <2>3. \A j \in 1..Len(inbox') : j \in 1..Len(inbox) \/ j = Len(inbox) + 1
    BY <2>2
  <2>4. Increasing(inbox')
    <3>1. \A j \in 1..Len(inbox) : inbox[j] < arrived'
      BY <2>1, <2>2 DEF Flow
    <3>2. arrived' \in Nat
      BY <2>1
    <3> QED BY <1>1, <1>6, <3>1, <3>2, IncreasingAppend DEF Arrive, Flow
  <2>5. /\ delivered' = delivered /\ packet' = packet
        /\ InFlight' <=> InFlight
    BY <1>6 DEF Arrive, InFlight
  <2>6. \A i \in 1..Len(delivered) : delivered[i] \in Nat
    BY <1>1, LenProperties
  <2>7. TypeOK'
    BY <1>6, <2>1, <2>2 DEF Arrive
  <2>8. \A j \in 1..Len(inbox') :
          /\ inbox'[j] <= arrived'
          /\ \A i \in 1..Len(delivered) : delivered[i] < inbox'[j]
          /\ InFlight => packet < inbox'[j]
    <3> SUFFICES ASSUME NEW j \in 1..Len(inbox')
                 PROVE  /\ inbox'[j] <= arrived'
                        /\ \A i \in 1..Len(delivered) : delivered[i] < inbox'[j]
                        /\ InFlight => packet < inbox'[j]
      OBVIOUS
    <3>1. CASE j \in 1..Len(inbox)
      BY <3>1, <2>1, <2>2 DEF Flow
    <3>2. CASE j = Len(inbox) + 1
      BY <3>2, <2>1, <2>2, <2>6 DEF Flow
    <3> QED BY <2>3, <3>1, <3>2
  <2>9. /\ \A i \in 1..Len(delivered) : delivered[i] <= arrived'
        /\ InFlight => packet \in 1..arrived'
    BY <2>1, <2>6 DEF Flow
  <2>10. Increasing(delivered')
    BY <2>5 DEF Flow
  <2>11. Flow'
    BY <2>4, <2>5, <2>8, <2>9, <2>10 DEF Flow
  <2> QED BY <2>7, <2>11
<1>7. CASE UNCHANGED vars
  BY <1>7 DEF vars, Flow, Increasing, InFlight
<1> QED
  BY <1>2, <1>3, <1>4, <1>5, <1>6, <1>7 DEF Next, Receiver

\* IInv holds in every reachable state of a client's life.
THEOREM Invariance == Spec => []IInv
<1>1. IInv /\ [Next]_vars => IInv'
  BY NextLifecycle, NextFlow DEF IInv
<1> QED BY <1>1, InitIInv, PTL DEF Spec

\* Every variable keeps its type.
THEOREM TypeCorrect == Spec => []TypeOK
BY Invariance, PTL DEF IInv

\* A client is never freed while its receiver can still touch it.
THEOREM NoFreeUnderReceiver == Spec => []FreedMeansQuiet
<1>1. IInv => FreedMeansQuiet
  BY DEF IInv, Lifecycle, FreedMeansQuiet
<1> QED BY <1>1, Invariance, PTL

\* Datagrams reach message_callback_ at most once, in arrival order.
THEOREM DeliveryInOrder == Spec => []DeliveredInOrder
<1>1. IInv => DeliveredInOrder
  BY DEF IInv, Flow, DeliveredInOrder
<1> QED BY <1>1, Invariance, PTL

\* connected_ is true only while the receiver is reading the open socket.
THEOREM ConnectedIsReading == Spec => []ConnectedMeansReading
<1>1. IInv => ConnectedMeansReading
  BY DEF IInv, Lifecycle, ConnectedMeansReading
<1> QED BY <1>1, Invariance, PTL

\* delete of a client whose receiver was started never returns.
THEOREM DeleteOfStartedClientNeverReturns == Spec => []DeleteNeverReturns
<1>1. IInv => DeleteNeverReturns
  BY DEF IInv, Lifecycle, DeleteNeverReturns, Started
<1> QED BY <1>1, Invariance, PTL
-----------------------------------------------------------------------------
(***************************************************************************)
(* Refinement: the receiver's datagram in flight and what the socket holds *)
(* are what a LossyFifo has pending.                                       *)
(***************************************************************************)
\* The head of a sequence and its tail make it up.
LEMMA HeadAndTail ==
  ASSUME NEW S, NEW s \in Seq(S), s # <<>>
  PROVE  /\ <<Head(s)>> \o Tail(s) = s
         /\ Head(s) \in S /\ Tail(s) \in Seq(S)
<1>1. Len(s) \in Nat \ {0} /\ Head(s) = s[1]
  BY EmptySeq
<1>2. /\ SubSeq(s, 1, Len(s)) = <<s[1]>> \o SubSeq(s, 2, Len(s))
      /\ SubSeq(s, 1, Len(s)) = s
      /\ Tail(s) = SubSeq(s, 2, Len(s))
  BY <1>1, SubSeqRecursiveFirst, SubSeqFull, TailIsSubSeq
<1>3. Head(s) \in S /\ Tail(s) \in Seq(S)
  BY HeadTailProperties
<1> QED BY <1>1, <1>2, <1>3

\* Losing the oldest datagram is a step of the abstract queue.
LEMMA HeadIsLost ==
  ASSUME OnTheWay \in Seq(Packet), OnTheWay # <<>>, OnTheWay' = Tail(OnTheWay),
         LastDelivered' = LastDelivered
  PROVE  Path!Lose
<1>1. /\ Len(OnTheWay) \in Nat \ {0}
      /\ SubSeq(OnTheWay, 1, 0) = <<>>
      /\ Tail(OnTheWay) = SubSeq(OnTheWay, 2, Len(OnTheWay))
      /\ <<>> \o Tail(OnTheWay) = Tail(OnTheWay)
  BY EmptySeq, SubSeqEmpty, TailIsSubSeq, HeadTailProperties, ConcatEmptySeq
<1>2. /\ 1 \in 1..(Len(OnTheWay) + 1) /\ 2 \in 1..(Len(OnTheWay) + 1) /\ 1 < 2
      /\ OnTheWay' = SubSeq(OnTheWay, 1, 1 - 1) \o SubSeq(OnTheWay, 2, Len(OnTheWay))
  BY <1>1
<1> QED BY <1>2 DEF Path!Lose

\* A datagram in flight is the oldest.
LEMMA InFlightIsOldest ==
  ASSUME IInv, InFlight
  PROVE  /\ OnTheWay \in Seq(Packet) /\ OnTheWay # <<>>
         /\ Head(OnTheWay) = packet /\ Tail(OnTheWay) = inbox
<1>1. packet \in Packet /\ inbox \in Seq(Packet) /\ <<packet>> \in Seq(Packet)
  <2>1. packet \in Packet
    BY BoundsAssumption DEF IInv, TypeOK, Flow, Packet
  <2> QED BY <2>1 DEF IInv, TypeOK
<1>2. OnTheWay = <<packet>> \o inbox
  BY DEF OnTheWay
<1>3. /\ OnTheWay \in Seq(Packet) /\ OnTheWay # <<>>
      /\ Head(OnTheWay) = packet /\ Tail(OnTheWay) = inbox
  BY <1>1, <1>2, ConcatProperties, SMTT(30)
<1> QED BY <1>3

LEMMA RefinementInit == Init => Path!Init
BY EmptySeq, ConcatEmptySeq DEF Init, Path!Init, OnTheWay, LastDelivered, InFlight

\* What recv returns is put in the receiver's hands, or is an empty datagram,
\* which is lost.
LEMMA RecvRefines == IInv /\ Recv => [Path!Next]_Path!vars
<1> SUFFICES ASSUME IInv, Recv PROVE [Path!Next]_Path!vars
  OBVIOUS
<1>1. /\ ~InFlight /\ receiver' = "check" /\ LastDelivered' = LastDelivered
      /\ inbox \in Seq(Packet)
  BY DEF Recv, InFlight, LastDelivered, IInv, TypeOK
<1>2. OnTheWay = inbox
  BY <1>1, ConcatEmptySeq DEF OnTheWay
<1>3. CASE inbox # <<>> /\ packet' = Head(inbox) /\ inbox' = Tail(inbox)
           /\ result' \in {"data", "nothing"}
  <2>1. <<packet'>> \o inbox' = inbox /\ inbox' \in Seq(Packet)
    BY <1>1, <1>3, HeadAndTail
  <2>2. CASE result' = "data"
    <3>1. OnTheWay' = <<packet'>> \o inbox'
      BY <1>1, <2>2 DEF OnTheWay, InFlight
    <3> QED BY <1>1, <1>2, <2>1, <3>1 DEF Path!vars
  <2>3. CASE result' = "nothing"
    <3>1. OnTheWay' = inbox'
      BY <1>1, <2>1, <2>3, ConcatEmptySeq DEF OnTheWay, InFlight
    <3> QED BY <1>1, <1>2, <1>3, <3>1, HeadIsLost DEF Path!Next
  <2> QED BY <1>3, <2>2, <2>3
<1>4. CASE UNCHANGED <<inbox, packet>> /\ result' \in {"error", "nothing"}
  <2>1. OnTheWay' = inbox
    BY <1>1, <1>4, ConcatEmptySeq DEF OnTheWay, InFlight
  <2> QED BY <1>1, <1>2, <2>1 DEF Path!vars
<1> QED BY <1>3, <1>4 DEF Recv

\* The datagram goes to the callback, or is dropped with the connection.
LEMMA ReceiverRefines ==
  IInv /\ (EnterRecv \/ CheckResult \/ Callback \/ Leave) => [Path!Next]_Path!vars
<1> SUFFICES ASSUME IInv, EnterRecv \/ CheckResult \/ Callback \/ Leave
             PROVE [Path!Next]_Path!vars
  OBVIOUS
<1>1. CASE EnterRecv \/ Leave
  BY <1>1 DEF EnterRecv, Leave, OnTheWay, InFlight, LastDelivered, Path!vars
<1>2. CASE CheckResult
  <2>1. UNCHANGED <<inbox, packet>> /\ LastDelivered' = LastDelivered
    BY <1>2 DEF CheckResult, LastDelivered
  <2>2. CASE InFlight' = InFlight
    BY <2>1, <2>2 DEF OnTheWay, Path!vars
  <2>3. CASE InFlight' # InFlight
    <3>1. InFlight /\ ~InFlight' /\ inbox \in Seq(Packet)
      BY <1>2, <2>3 DEF CheckResult, InFlight, IInv, TypeOK
    <3>2. OnTheWay' = Tail(OnTheWay)
      BY <2>1, <3>1, InFlightIsOldest, ConcatEmptySeq DEF OnTheWay
    <3> QED BY <2>1, <3>1, <3>2, InFlightIsOldest, HeadIsLost DEF Path!Next
  <2> QED BY <2>2, <2>3
<1>3. CASE Callback
  <2>1. /\ InFlight /\ ~InFlight' /\ inbox' = inbox
        /\ delivered' = Append(delivered, packet)
    BY <1>3 DEF Callback, InFlight
  <2>2. inbox \in Seq(Packet) /\ delivered \in Seq(Packet) /\ packet \in Packet
    BY <2>1, BoundsAssumption DEF IInv, TypeOK, Flow, Packet
  <2>3. LastDelivered' = packet
    <3>1. /\ Len(delivered') = Len(delivered) + 1 /\ Len(delivered) \in Nat
          /\ delivered'[Len(delivered) + 1] = packet /\ delivered' \in Seq(Packet)
      BY <2>1, <2>2, AppendProperties, LenProperties
    <3>2. delivered' # <<>>
      BY <3>1, EmptySeq
    <3> QED BY <3>1, <3>2 DEF LastDelivered
  <2>4. OnTheWay' = inbox
    BY <2>1, <2>2, ConcatEmptySeq DEF OnTheWay
  <2> QED BY <2>1, <2>3, <2>4, InFlightIsOldest DEF Path!Deliver, Path!Next
<1> QED BY <1>1, <1>2, <1>3

LEMMA ArriveRefines == IInv /\ Arrive => [Path!Next]_Path!vars
<1> SUFFICES ASSUME IInv, Arrive PROVE [Path!Next]_Path!vars
  OBVIOUS
<1> DEFINE front == IF InFlight THEN <<packet>> ELSE <<>>
<1>1. /\ front' = front /\ LastDelivered' = LastDelivered
      /\ inbox' = Append(inbox, arrived') /\ arrived' \in Packet
  <2>1. arrived' \in Packet
    BY BoundsAssumption DEF Arrive, IInv, TypeOK, Packet
  <2> QED BY <2>1 DEF Arrive, InFlight, LastDelivered
<1>2. front \in Seq(Packet) /\ inbox \in Seq(Packet) /\ <<arrived'>> \in Seq(Packet)
  <2>1. InFlight => packet \in Packet
    BY BoundsAssumption DEF IInv, TypeOK, Flow, Packet
  <2> QED BY <1>1, <2>1, EmptySeq DEF IInv, TypeOK
<1>3. OnTheWay = front \o inbox /\ OnTheWay' = front \o inbox'
  BY <1>1 DEF OnTheWay
<1> HIDE DEF front
<1>4. front \o Append(inbox, arrived') = Append(front \o inbox, arrived')
  <2>1. front \o inbox \in Seq(Packet)
    BY <1>2, ConcatProperties
  <2>2. Append(inbox, arrived') = inbox \o <<arrived'>>
    BY <1>1, <1>2, AppendIsConcat
  <2>3. Append(front \o inbox, arrived') = (front \o inbox) \o <<arrived'>>
    BY <1>1, <2>1, AppendIsConcat
  <2> QED BY <1>2, <2>2, <2>3, ConcatAssociative
<1> QED BY <1>1, <1>3, <1>4 DEF Path!Put, Path!Next

\* UdpClient implements LossyFifo: datagrams reach the callback in the order in
\* which the socket got them, none twice, whatever the owner does meanwhile.
THEOREM ImplementsLossyFifo == Spec => PathSpec
<1>1. IInv /\ [Next]_vars => [Path!Next]_Path!vars
  <2>1. Connect \/ Send \/ Disconnect \/ Destroy \/ UNCHANGED vars
          => UNCHANGED <<result, inbox, packet, delivered>>
    BY DEF Connect, Send, Disconnect, Destroy, vars
  <2>2. IInv /\ (Connect \/ Send \/ Disconnect \/ Destroy \/ UNCHANGED vars)
          => InFlight' = InFlight
    BY DEF Connect, Send, Disconnect, Destroy, vars, InFlight, IInv, Lifecycle
  <2>3. IInv /\ (Connect \/ Send \/ Disconnect \/ Destroy \/ UNCHANGED vars)
          => UNCHANGED Path!vars
    BY <2>1, <2>2 DEF OnTheWay, LastDelivered, Path!vars
  <2> QED BY <2>3, RecvRefines, ReceiverRefines, ArriveRefines DEF Next, Receiver
<1> QED BY <1>1, RefinementInit, Invariance, PTL DEF Spec, PathSpec, Path!Spec
=============================================================================
