------------------------------ MODULE UdpClient ------------------------------
(***************************************************************************)
(* udp_client.cc: the audio channel's socket and its receiver thread, over *)
(* the life of one client: MqttProtocol makes it with new, connects it     *)
(* once, sends on it and deletes it, all on the main thread; the           *)
(* destructor is Disconnect.  Every section that holds mutex_ is one       *)
(* action, except Disconnect, which keeps the mutex while it joins.        *)
(***************************************************************************)
EXTENDS Naturals, Sequences

CONSTANTS MaxPackets, \* bound: datagrams that arrive in a behaviour
          MaxSends    \* bound: packets that are sent in a behaviour

ASSUME BoundsAssumption == MaxPackets \in Nat /\ MaxSends \in Nat

\* Datagrams are named by the order in which they arrive.
Packet == 1..MaxPackets

VARIABLES
  owner,     \* the main thread: "new", "idle" (Connect has returned), "join"
             \* (in Disconnect, holding mutex_), "returned" (from a Disconnect
             \* without a join), "deleted" or "terminated"
  connected, \* connected_
  socket,    \* socket_: "none", "open" or "closed"
  receiver,  \* the receiver thread: "none" (never started), "loop" (before
             \* its first section), "recv", "check" (recv has returned),
             \* "callback", "leave" (out of the loop) or "done"
  result,    \* what recv returned last: "data", "nothing" (no bytes, or
             \* interrupted) or "error"
  inbox,     \* datagrams the socket holds
  packet,    \* the datagram recv returned last
  delivered, \* datagrams handed to message_callback_
  arrived,   \* how many datagrams have arrived (names the next one)
  sent       \* how many packets have been sent

vars == <<owner, connected, socket, receiver, result, inbox, packet, delivered,
          arrived, sent>>

TypeOK ==
  /\ owner \in {"new", "idle", "join", "returned", "deleted", "terminated"}
  /\ connected \in BOOLEAN
  /\ socket \in {"none", "open", "closed"}
  /\ receiver \in {"none", "loop", "recv", "check", "callback", "leave", "done"}
  /\ result \in {"data", "nothing", "error"}
  /\ inbox \in Seq(Packet)
  /\ packet \in 0..MaxPackets
  /\ delivered \in Seq(Packet)
  /\ arrived \in 0..MaxPackets
  /\ sent \in 0..MaxSends

Init ==
  /\ owner = "new"
  /\ connected = FALSE
  /\ socket = "none"
  /\ receiver = "none"
  /\ result = "nothing"
  /\ inbox = <<>>
  /\ packet = 0
  /\ delivered = <<>>
  /\ arrived = 0
  /\ sent = 0

\* mutex_ can be taken: Disconnect does not hold it.
MutexFree == owner # "join"
-----------------------------------------------------------------------------
(***************************************************************************)
(* The owner.                                                              *)
(***************************************************************************)
\* Connect starts the receiver, or fails because there is no socket to be
\* had or because the host is not a dotted address.
Connect ==
  /\ owner = "new"
  /\ owner' = "idle"
  /\ \/ /\ connected' = TRUE
        /\ socket' = "open"
        /\ receiver' = "loop"
     \/ UNCHANGED <<connected, socket, receiver>>
  /\ UNCHANGED <<result, inbox, packet, delivered, arrived, sent>>

\* Send: sendto, or -1 when the client is not connected.
Send ==
  /\ owner = "idle"
  /\ connected
  /\ sent < MaxSends
  /\ sent' = sent + 1
  /\ UNCHANGED <<owner, connected, socket, receiver, result, inbox, packet,
                 delivered, arrived>>

\* A slip: close the socket and go, without joining the receiver.
DisconnectUnjoined ==
  /\ owner = "idle"
  /\ owner' = "returned"
  /\ connected' = FALSE
  /\ socket' = IF connected THEN "closed" ELSE socket
  /\ UNCHANGED <<receiver, result, inbox, packet, delivered, arrived, sent>>

\* ~UdpClient calls Disconnect, which returns at once when the client is not
\* connected, and else closes the socket and joins with mutex_ held.
Disconnect ==
  /\ owner = "idle"
  /\ owner' = IF connected THEN "join" ELSE "returned"
  /\ connected' = FALSE
  /\ socket' = IF connected THEN "closed" ELSE socket
  /\ UNCHANGED <<receiver, result, inbox, packet, delivered, arrived, sent>>

\* A slip: the members are destroyed while the join is under way.
DestroyUnjoined ==
  /\ owner \in {"join", "returned"}
  /\ owner' = IF owner = "join" \/ receiver = "none" THEN "deleted" ELSE "terminated"
  /\ UNCHANGED <<connected, socket, receiver, result, inbox, packet, delivered,
                 arrived, sent>>

\* Disconnect returns (after the join when there is one) and the members are
\* destroyed: destroying a std::thread that was started and not joined ends
\* the program (std::terminate).
Destroy ==
  /\ owner \in {"join", "returned"}
  /\ owner = "join" => receiver = "done"
  /\ owner' = IF owner = "join" \/ receiver = "none" THEN "deleted" ELSE "terminated"
  /\ UNCHANGED <<connected, socket, receiver, result, inbox, packet, delivered,
                 arrived, sent>>
-----------------------------------------------------------------------------
(***************************************************************************)
(* The receiver, ReceiveLoop.                                              *)
(***************************************************************************)
\* First section: leave the loop, or copy the descriptor and call recv.
EnterRecv ==
  /\ receiver = "loop"
  /\ MutexFree
  /\ receiver' = IF connected THEN "recv" ELSE "leave"
  /\ UNCHANGED <<owner, connected, socket, result, inbox, packet, delivered,
                 arrived, sent>>

\* A slip: the datagram is read and stays in the socket.
RecvPeek ==
  /\ receiver = "recv"
  /\ receiver' = "check"
  /\ \/ /\ socket = "open"
        /\ inbox # <<>>
        /\ packet' = Head(inbox)
        /\ result' \in {"data", "nothing"}
        /\ UNCHANGED inbox
     \/ /\ result' \in {"error"} \cup (IF socket = "open" THEN {"nothing"} ELSE {})
        /\ UNCHANGED <<inbox, packet>>
  /\ UNCHANGED <<owner, connected, socket, delivered, arrived, sent>>

\* recv, without the mutex: a datagram (a datagram may be empty), an
\* interruption, or an error, which a closed socket always gives.
Recv ==
  /\ receiver = "recv"
  /\ receiver' = "check"
  /\ \/ /\ socket = "open"
        /\ inbox # <<>>
        /\ packet' = Head(inbox)
        /\ inbox' = Tail(inbox)
        /\ result' \in {"data", "nothing"}
     \/ /\ result' \in {"error"} \cup (IF socket = "open" THEN {"nothing"} ELSE {})
        /\ UNCHANGED <<inbox, packet>>
  /\ UNCHANGED <<owner, connected, socket, delivered, arrived, sent>>

\* Second section and the branches on bytes.
CheckResult ==
  /\ receiver = "check"
  /\ MutexFree
  /\ receiver' = IF ~connected \/ result = "error" THEN "leave"
                 ELSE IF result = "data" THEN "callback"
                 ELSE "loop"
  /\ UNCHANGED <<owner, connected, socket, result, inbox, packet, delivered,
                 arrived, sent>>

\* message_callback_, without the mutex.
Callback ==
  /\ receiver = "callback"
  /\ delivered' = Append(delivered, packet)
  /\ receiver' = "loop"
  /\ UNCHANGED <<owner, connected, socket, result, inbox, packet, arrived, sent>>

\* A slip: the receiver's last section is left out.
LeaveConnected ==
  /\ receiver = "leave"
  /\ receiver' = "done"
  /\ UNCHANGED <<owner, connected, socket, result, inbox, packet, delivered,
                 arrived, sent>>

\* Third section, after the loop.
Leave ==
  /\ receiver = "leave"
  /\ MutexFree
  /\ connected' = FALSE
  /\ receiver' = "done"
  /\ UNCHANGED <<owner, socket, result, inbox, packet, delivered, arrived, sent>>
-----------------------------------------------------------------------------
\* The network brings a datagram.
Arrive ==
  /\ socket = "open"
  /\ arrived < MaxPackets
  /\ arrived' = arrived + 1
  /\ inbox' = Append(inbox, arrived')
  /\ UNCHANGED <<owner, connected, socket, receiver, result, packet, delivered,
                 sent>>

Receiver == EnterRecv \/ Recv \/ CheckResult \/ Callback \/ Leave

Next == Connect \/ Send \/ Disconnect \/ Destroy \/ Receiver \/ Arrive

\* The receiver runs whenever it can, callbacks return, and a join that can
\* return does.  Nothing obliges the main thread to delete the client.
Spec == Init /\ [][Next]_vars /\ WF_vars(Receiver) /\ WF_vars(Destroy)
-----------------------------------------------------------------------------
(***************************************************************************)
(* Properties.                                                             *)
(***************************************************************************)
Started == receiver # "none"

\* The client is never freed under its receiver: when delete returns there is
\* no receiver thread, or it has ended.
FreedMeansQuiet == owner = "deleted" => receiver \in {"none", "done"}

\* The callback sees each datagram at most once and in arrival order: the
\* sequence filter of MqttProtocol is about the network's reordering only.
Increasing(s) == \A i, j \in 1..Len(s) : i < j => s[i] < s[j]

DeliveredInOrder == Increasing(delivered)

\* The datagram between recv and the callback, if there is one.
InFlight == receiver = "callback" \/ (receiver = "check" /\ result = "data")

\* As a LossyFifo: what has arrived and not reached the callback, and what
\* reached it last, if anything has.
OnTheWay == (IF InFlight THEN <<packet>> ELSE <<>>) \o inbox

LastDelivered == IF delivered = <<>> THEN 0 ELSE delivered[Len(delivered)]

\* Between the network and the callback datagrams keep their order and none
\* comes twice, whatever the owner does meanwhile; one that recv has returned
\* may get lost.
Path == INSTANCE LossyFifo
          WITH Item <- Packet, None <- 0, pending <- OnTheWay, out <- LastDelivered

PathSpec == Path!Spec

\* Why DeliveredInOrder is inductive: what has been delivered comes before the
\* datagram in flight, which comes before what the socket holds.
Flow ==
  /\ Increasing(delivered) /\ Increasing(inbox)
  /\ \A i \in 1..Len(delivered) : delivered[i] <= arrived
  /\ \A j \in 1..Len(inbox) : inbox[j] <= arrived
  /\ \A i \in 1..Len(delivered), j \in 1..Len(inbox) : delivered[i] < inbox[j]
  /\ InFlight =>
       /\ packet \in 1..arrived
       /\ \A i \in 1..Len(delivered) : delivered[i] < packet
       /\ \A j \in 1..Len(inbox) : packet < inbox[j]

\* While the client is connected, its receiver is in the loop, so that what
\* arrives is read; Send relies on the same flag.
ConnectedMeansReading ==
  connected => socket = "open" /\ receiver \notin {"none", "done"}

\* As the code stands, delete of a client whose receiver was started never
\* returns: it ends the program (the receiver left on an error), or waits for
\* a receiver that needs the mutex Disconnect holds.  ChatSession is built on
\* this.
DeleteNeverReturns == owner = "deleted" => ~Started

\* How the owner and the receiver stand to each other.
Lifecycle ==
  /\ connected => owner = "idle" /\ socket = "open" /\ receiver # "none"
  /\ receiver \in {"none", "done"} => ~connected /\ owner # "join"
  /\ receiver \notin {"none", "done"} => connected \/ owner = "join"
  /\ owner = "new" => receiver = "none"
  /\ owner = "deleted" => receiver = "none"

IInv == TypeOK /\ Lifecycle /\ Flow

\* What the comment at udp_client.cc:64 promises of closing the socket: the
\* blocked receiver is interrupted, so that the join that follows returns.
DisconnectReturns == owner = "join" ~> owner # "join"
=============================================================================
