----------------------------- MODULE FifoChannel -----------------------------
(***************************************************************************)
(* What a channel of ipc_shm.h does for one writer and one reader: it is a *)
(* bounded queue of messages.  They come out in the order in which they    *)
(* went in, none is lost, repeated or invented, and a full channel takes   *)
(* no more.  A reader whose buffer has room for the head of the queue gets *)
(* it whole.  To one whose buffer has not, the channel is no byte stream:  *)
(* each read starts at the first unit of the message again, and the        *)
(* message leaves when as many units were copied as it has, its last ones  *)
(* unread.  The program's two readers, AgoraVideoSourceIpcImpl::run and    *)
(* AgoraIpcDataReceiver::run, have buffers of a block and never see that.  *)
(***************************************************************************)
EXTENDS Naturals, Sequences

CONSTANTS
  Message,
  Amounts,      \* how many units a message may have
  ReadSizes,    \* for how many units a reader's buffer may have room
  Capacity

VARIABLES
  queue,        \* messages, each with the units still counted as unread
  out           \* what the reader's buffer last got

Init == queue = <<>> /\ out = [of |-> <<>>, units |-> {}]

Send(m, n) ==
  /\ Len(queue) < Capacity
  /\ queue' = Append(queue, [msg |-> m, left |-> n])
  /\ UNCHANGED out

\* The buffer gets the first k units of the head.
Deliver(k) == out' = [of |-> queue[1].msg, units |-> 1 .. k]

ReceiveRest(n) ==
  /\ queue # <<>>
  /\ queue[1].left <= n
  /\ Deliver(queue[1].left)
  /\ queue' = Tail(queue)

ReceivePart(n) ==
  /\ queue # <<>>
  /\ queue[1].left > n
  /\ Deliver(n)
  /\ queue' = [queue EXCEPT ![1] = [msg |-> @.msg, left |-> @.left - n]]

Next ==
  \/ \E m \in Message, n \in Amounts : Send(m, n)
  \/ \E n \in ReadSizes : ReceiveRest(n) \/ ReceivePart(n)

Spec == Init /\ [][Next]_<<queue, out>>
=============================================================================
