-------------------------- MODULE OneSessionProofs --------------------------
(***************************************************************************)
(* Theorems about a session of the video source whose process does not     *)
(* crash, for rings of any size and any number of calls and events: the    *)
(* process may fail to start or to initialize, the application may call in *)
(* any order, and the main process may die at any time.                    *)
(***************************************************************************)
EXTENDS VideoSourceSessionProofs

-----------------------------------------------------------------------------
\* A queue of messages to the process: calls, then at most one disconnect.
Final(q) == q # <<>> /\ q[Len(q)] = "disconnect"
Shaped(q) == \A i \in 1 .. Len(q) - 1 : q[i] = "call"
Calls(q) == IF Final(q) THEN Len(q) - 1 ELSE Len(q)

LEMMA Appending ==
  ASSUME NEW q \in Seq({"call", "disconnect"}), Shaped(q), ~Final(q),
         NEW m \in {"call", "disconnect"}
  PROVE  /\ Shaped(Append(q, m))
         /\ Final(Append(q, m)) <=> m = "disconnect"
         /\ Calls(Append(q, m)) = IF m = "call" THEN Calls(q) + 1 ELSE Calls(q)
<1>1. /\ Append(q, m) # <<>>
      /\ Len(Append(q, m)) = Len(q) + 1
      /\ Append(q, m)[Len(q) + 1] = m
      /\ \A i \in 1 .. Len(q) : Append(q, m)[i] = q[i]
  BY AppendProperties
<1>2. Len(q) \in Nat
  BY LenProperties
<1>3. \A i \in 1 .. Len(q) : q[i] = "call"
  <2>1. \A i \in 1 .. Len(q) : q[i] \in {"call", "disconnect"}
    BY ElementOfSeq
  <2>. QED
    BY <1>2, <2>1, EmptySeq DEF Shaped, Final
<1>. QED
  BY <1>1, <1>2, <1>3 DEF Shaped, Final, Calls

LEMMA Amount ==
  ASSUME NEW q \in Seq({"call", "disconnect"})
  PROVE  Calls(q) \in Nat
<1>1. Len(q) \in Nat /\ (q # <<>> => Len(q) >= 1)
  BY LenProperties, EmptySeq
<1>. QED
  BY <1>1 DEF Calls, Final

LEMMA Taking ==
  ASSUME NEW q \in Seq({"call", "disconnect"}), Shaped(q), q # <<>>
  PROVE  /\ Shaped(Tail(q))
         /\ Head(q) = "disconnect" => Tail(q) = <<>> /\ Calls(q) = 0
         /\ Head(q) = "disconnect" => Final(q)
         /\ Head(q) = "call" => Calls(q) = Calls(Tail(q)) + 1
         /\ Final(Tail(q)) => Final(q)
<1>1. /\ Tail(q) \in Seq({"call", "disconnect"})
      /\ Len(Tail(q)) = Len(q) - 1
      /\ \A i \in 1 .. Len(q) - 1 : Tail(q)[i] = q[i + 1]
      /\ Head(q) = q[1]
  BY HeadTailProperties
<1>2. Len(q) \in Nat /\ Len(q) >= 1
  BY LenProperties, EmptySeq
<1>3. Tail(q) = <<>> <=> Len(q) = 1
  BY <1>1, <1>2, EmptySeq
<1>. QED
  BY <1>1, <1>2, <1>3 DEF Shaped, Final, Calls

-----------------------------------------------------------------------------
\* No monitor thread is in Clear: the process leaves only when Clear told it to.
Unwatched == \A s \in Sessions : at[s] \notin Clears

Unstarted ==
  session = 0 => \A s \in Sessions : source[s] = "off" /\ toSource[s] = <<>> /\ ends[s] = {}

Silent == at[JS] \in {"bye", "close", "join"} => ~initialized

\* The session was torn down; no call is in progress and none can begin.
Torn == ~initialized /\ at[JS] \notin Calling /\ session = MaxSessions

Leaving ==
  \A s \in Sessions :
    /\ alive
    /\ \/ source[s] \in {"leave", "gone"}
       \/ Final(toSource[s])
       \/ source[s] = "run" /\ "source" \notin ends[s]
    => Torn

Entered == \A s \in Sessions : source[s] \in {"engine", "announce"} => "source" \in ends[s]

Said == \A s \in Sessions : Final(toSource[s]) => at[JS] = "close" \/ "proxy" \notin ends[s]

Queued == \A s \in Sessions : Shaped(toSource[s])

\* What was accepted was executed or is in the channel.
Counted ==
  \A s \in Sessions :
    /\ sourceInit[s] \/ source[s] \notin {"run", "gone"}
         => accepted[s] = executed[s] + Calls(toSource[s])
    /\ ~sourceInit[s] => executed[s] = 0

Drained ==
  \A s \in Sessions : source[s] = "leave" => Calls(toSource[s]) = 0

Places == Unwatched /\ Unstarted /\ Silent /\ Leaving /\ Entered /\ Said
Messages == Queued /\ Counted /\ Drained

OneInv == IInv /\ Places /\ Messages

-----------------------------------------------------------------------------
\* A step keeps the invariant.
LEMMA OneStep ==
  ASSUME MaxSessions = 1, "crash" \notin Faults, OneInv, Next
  PROVE  Places' /\ Messages'
<1>. USE DEF OneInv, IInv, TypeOK, proxy, threads, ipc, process, counts, Go, Threads, JS, Clears, Calling
<1>0. /\ Sessions = {1}
      /\ IInv
      /\ \A s \in Sessions : Calls(toSource[s]) \in Nat
  <2>1. Sessions = {1}
    BY DEF Sessions
  <2>2. ASSUME NEW s \in Sessions PROVE Calls(toSource[s]) \in Nat
    BY Amount DEF ChannelTypes
  <2>. QED
    BY <2>1, <2>2
<1>1. ASSUME NEW t \in Threads, Clear(t) PROVE Places' /\ Messages'
  <2>1. Places'
    BY <1>0, <1>1 DEF Clear, Places, Unwatched, Unstarted, Silent, Leaving, Torn, Entered, Said, Final, Placed, ProxyTypes, ThreadTypes, ChannelTypes, ProcessTypes
  <2>2. Messages'
    BY <1>0, <1>1 DEF Clear, Messages, Places, Queued, Counted, Drained, Unstarted, Leaving, Torn, Entered, ProxyTypes, ThreadTypes, ChannelTypes, ProcessTypes
  <2>. QED
    BY <2>1, <2>2
<1>2. ASSUME NEW t \in Threads, Bye(t) PROVE Places' /\ Messages'
  <2>1. Places'
    BY <1>0, <1>2 DEF Bye, Room, AfterClear, Places, Unwatched, Unstarted, Silent, Leaving, Torn, Entered, Said, Final, Placed, ProxyTypes, ThreadTypes, ChannelTypes, ProcessTypes
  <2>2. Messages'
    <3>1. CASE session # 0 /\ "proxy" \in ends[session]
      <4>1. session = 1 /\ t = JS
        BY <1>0, <1>2, <3>1 DEF Bye, Places, Unwatched, ProxyTypes
      <4>2. ~Final(toSource[1])
        BY <1>0, <1>2, <3>1, <4>1 DEF Bye, Places, Said
      <4>3. toSource' = [toSource EXCEPT ![1] = Append(toSource[1], "disconnect")]
        BY <1>2, <3>1, <4>1 DEF Bye
      <4>4. toSource[1] \in Seq({"call", "disconnect"}) /\ Shaped(toSource[1])
        BY <1>0 DEF ChannelTypes, Messages, Queued
      <4>5. toSource'[1] = Append(toSource[1], "disconnect")
        BY <1>0, <4>3 DEF ChannelTypes
      <4>6. Shaped(toSource'[1]) /\ Calls(toSource'[1]) = Calls(toSource[1])
        BY <4>2, <4>4, <4>5, Appending
      <4>. QED
        BY <1>0, <1>2, <4>6 DEF Bye, Messages, Queued, Counted, Drained
    <3>2. CASE ~(session # 0 /\ "proxy" \in ends[session])
      BY <1>0, <1>2, <3>2 DEF Bye, Messages, Queued, Counted, Drained
    <3>. QED
      BY <3>1, <3>2
  <2>. QED
    BY <2>1, <2>2
<1>3. ASSUME NEW t \in Threads, Close(t) PROVE Places' /\ Messages'
  <2>1. Places'
    BY <1>0, <1>3 DEF Close, Places, Unwatched, Unstarted, Silent, Leaving, Torn, Entered, Said, Final, Placed, ProxyTypes, ThreadTypes, ChannelTypes, ProcessTypes
  <2>2. Messages'
    BY <1>0, <1>3 DEF Close, Messages, Places, Queued, Counted, Drained, Unstarted, Leaving, Torn, Entered, ProxyTypes, ThreadTypes, ChannelTypes, ProcessTypes
  <2>. QED
    BY <2>1, <2>2
<1>4. ASSUME NEW t \in Threads, Join(t) PROVE Places' /\ Messages'
  <2>1. Places'
    BY <1>0, <1>4 DEF Join, AfterClear, Places, Unwatched, Unstarted, Silent, Leaving, Torn, Entered, Said, Final, Placed, ProxyTypes, ThreadTypes, ChannelTypes, ProcessTypes
  <2>2. Messages'
    BY <1>0, <1>4 DEF Join, AfterClear, Messages, Places, Queued, Counted, Drained, Unstarted, Leaving, Torn, Entered, ProxyTypes, ThreadTypes, ChannelTypes, ProcessTypes
  <2>. QED
    BY <2>1, <2>2
<1>5. CASE Initialize
  <2>1. Places'
    BY <1>0, <1>5 DEF Initialize, Places, Unwatched, Unstarted, Silent, Leaving, Torn, Entered, Said, Final, Placed, ProxyTypes, ThreadTypes, ChannelTypes, ProcessTypes
  <2>2. Messages'
    BY <1>0, <1>5 DEF Initialize, Messages, Places, Queued, Counted, Drained, Unstarted, Leaving, Torn, Entered, ProxyTypes, ThreadTypes, ChannelTypes, ProcessTypes
  <2>. QED
    BY <2>1, <2>2
<1>6. CASE Launch
  <2>1. Places'
    BY <1>0, <1>6 DEF Launch, Proceed, Places, Unwatched, Unstarted, Silent, Leaving, Torn, Entered, Said, Final, Placed, ProxyTypes, ThreadTypes, ChannelTypes, ProcessTypes
  <2>2. Messages'
    BY <1>0, <1>6 DEF Launch, Proceed, Messages, Places, Queued, Counted, Drained, Unstarted, Leaving, Torn, Entered, ProxyTypes, ThreadTypes, ChannelTypes, ProcessTypes
  <2>. QED
    BY <2>1, <2>2
<1>7. CASE WaitReady
  <2>1. Places'
    BY <1>0, <1>7 DEF WaitReady, Places, Unwatched, Unstarted, Silent, Leaving, Torn, Entered, Said, Final, Placed, ProxyTypes, ThreadTypes, ChannelTypes, ProcessTypes
  <2>2. Messages'
    BY <1>0, <1>7 DEF WaitReady, Messages, Places, Queued, Counted, Drained, Unstarted, Leaving, Torn, Entered, ProxyTypes, ThreadTypes, ChannelTypes, ProcessTypes
  <2>. QED
    BY <2>1, <2>2
<1>8. CASE WaitTimeout
  <2>1. Places'
    BY <1>0, <1>8 DEF WaitTimeout, Places, Unwatched, Unstarted, Silent, Leaving, Torn, Entered, Said, Final, Placed, ProxyTypes, ThreadTypes, ChannelTypes, ProcessTypes
  <2>2. Messages'
    BY <1>0, <1>8 DEF WaitTimeout, Messages, Places, Queued, Counted, Drained, Unstarted, Leaving, Torn, Entered, ProxyTypes, ThreadTypes, ChannelTypes, ProcessTypes
  <2>. QED
    BY <2>1, <2>2
<1>9. CASE Monitor
  <2>1. Places'
    BY <1>0, <1>9 DEF Monitor, Places, Unwatched, Unstarted, Silent, Leaving, Torn, Entered, Said, Final, Placed, ProxyTypes, ThreadTypes, ChannelTypes, ProcessTypes
  <2>2. Messages'
    BY <1>0, <1>9 DEF Monitor, Messages, Places, Queued, Counted, Drained, Unstarted, Leaving, Torn, Entered, ProxyTypes, ThreadTypes, ChannelTypes, ProcessTypes
  <2>. QED
    BY <2>1, <2>2
<1>10. CASE Receive
  <2>1. Places'
    BY <1>0, <1>10 DEF Receive, Places, Unwatched, Unstarted, Silent, Leaving, Torn, Entered, Said, Final, Placed, ProxyTypes, ThreadTypes, ChannelTypes, ProcessTypes
  <2>2. Messages'
    BY <1>0, <1>10 DEF Receive, Messages, Places, Queued, Counted, Drained, Unstarted, Leaving, Torn, Entered, ProxyTypes, ThreadTypes, ChannelTypes, ProcessTypes
  <2>. QED
    BY <2>1, <2>2
<1>11. CASE Release
  <2>1. Places'
    BY <1>0, <1>11 DEF Release, Places, Unwatched, Unstarted, Silent, Leaving, Torn, Entered, Said, Final, Placed, ProxyTypes, ThreadTypes, ChannelTypes, ProcessTypes
  <2>2. Messages'
    BY <1>0, <1>11 DEF Release, Messages, Places, Queued, Counted, Drained, Unstarted, Leaving, Torn, Entered, ProxyTypes, ThreadTypes, ChannelTypes, ProcessTypes
  <2>. QED
    BY <2>1, <2>2
<1>12. CASE Destroy
  <2>1. Places'
    BY <1>0, <1>12 DEF Destroy, Places, Unwatched, Unstarted, Silent, Leaving, Torn, Entered, Said, Final, Placed, ProxyTypes, ThreadTypes, ChannelTypes, ProcessTypes
  <2>2. Messages'
    BY <1>0, <1>12 DEF Destroy, Messages, Places, Queued, Counted, Drained, Unstarted, Leaving, Torn, Entered, ProxyTypes, ThreadTypes, ChannelTypes, ProcessTypes
  <2>. QED
    BY <2>1, <2>2
<1>13. CASE CallApi
  <2>1. Places'
    BY <1>0, <1>13 DEF CallApi, Places, Unwatched, Unstarted, Silent, Leaving, Torn, Entered, Said, Final, Placed, ProxyTypes, ThreadTypes, ChannelTypes, ProcessTypes
  <2>2. Messages'
    BY <1>0, <1>13 DEF CallApi, Messages, Places, Queued, Counted, Drained, Unstarted, Leaving, Torn, Entered, ProxyTypes, ThreadTypes, ChannelTypes, ProcessTypes
  <2>. QED
    BY <2>1, <2>2
<1>14. CASE SendCall
  <2>1. Places'
    BY <1>0, <1>14 DEF SendCall, Room, Places, Unwatched, Unstarted, Silent, Leaving, Torn, Entered, Said, Final, Placed, ProxyTypes, ThreadTypes, ChannelTypes, ProcessTypes
  <2>2. Messages'
    <3>0. session = 1 /\ alive
      BY <1>0, <1>14 DEF SendCall, Placed, ProxyTypes
    <3>1. CASE "proxy" \in ends[session]
      <4>1. /\ ~Final(toSource[1])
            /\ ~(source[1] = "run" /\ "source" \notin ends[1])
            /\ source[1] \notin {"leave", "gone"}
        BY <1>0, <1>14, <3>0 DEF SendCall, Places, Leaving, Torn
      <4>2. toSource[1] \in Seq({"call", "disconnect"}) /\ Shaped(toSource[1])
        BY <1>0 DEF ChannelTypes, Messages, Queued
      <4>3. toSource'[1] = Append(toSource[1], "call")
        BY <1>0, <1>14, <3>0, <3>1 DEF SendCall, ChannelTypes
      <4>4. Shaped(toSource'[1]) /\ Calls(toSource'[1]) = Calls(toSource[1]) + 1
        BY <4>1, <4>2, <4>3, Appending
      <4>5. accepted'[1] = accepted[1] + 1
        BY <1>0, <1>14, <3>0, <3>1 DEF SendCall, ProcessTypes
      <4>6. accepted[1] \in Nat /\ executed[1] \in Nat
        BY <1>0, BoundsAssumption DEF ProcessTypes
      <4>. QED
        BY <1>0, <1>14, <4>1, <4>4, <4>5, <4>6 DEF SendCall, Messages, Queued, Counted, Drained
    <3>2. CASE "proxy" \notin ends[session]
      BY <1>0, <1>14, <3>2 DEF SendCall, Messages, Queued, Counted, Drained
    <3>. QED
      BY <3>1, <3>2
  <2>. QED
    BY <2>1, <2>2
<1>15. ASSUME NEW s \in Sessions, MonitorExit(s) PROVE Places' /\ Messages'
  <2>1. Places'
    BY <1>0, <1>15 DEF MonitorExit, Places, Unwatched, Unstarted, Silent, Leaving, Torn, Entered, Said, Final, Placed, ProxyTypes, ThreadTypes, ChannelTypes, ProcessTypes
  <2>2. Messages'
    BY <1>0, <1>15 DEF MonitorExit, Messages, Places, Queued, Counted, Drained, Unstarted, Leaving, Torn, Entered, ProxyTypes, ThreadTypes, ChannelTypes, ProcessTypes
  <2>. QED
    BY <2>1, <2>2
<1>16. ASSUME NEW s \in Sessions, ListenEnd(s) PROVE Places' /\ Messages'
  <2>1. Places'
    BY <1>0, <1>16 DEF ListenEnd, Places, Unwatched, Unstarted, Silent, Leaving, Torn, Entered, Said, Final, Placed, ProxyTypes, ThreadTypes, ChannelTypes, ProcessTypes
  <2>2. Messages'
    BY <1>0, <1>16 DEF ListenEnd, Messages, Places, Queued, Counted, Drained, Unstarted, Leaving, Torn, Entered, ProxyTypes, ThreadTypes, ChannelTypes, ProcessTypes
  <2>. QED
    BY <2>1, <2>2
<1>17. ASSUME NEW s \in Sessions, Listen(s) PROVE Places' /\ Messages'
  <2>1. Places'
    BY <1>0, <1>17 DEF Listen, Places, Unwatched, Unstarted, Silent, Leaving, Torn, Entered, Said, Final, Placed, ProxyTypes, ThreadTypes, ChannelTypes, ProcessTypes
  <2>2. Messages'
    BY <1>0, <1>17 DEF Listen, Messages, Places, Queued, Counted, Drained, Unstarted, Leaving, Torn, Entered, ProxyTypes, ThreadTypes, ChannelTypes, ProcessTypes
  <2>. QED
    BY <2>1, <2>2
<1>18. ASSUME NEW s \in Sessions, CheckHandler(s) PROVE Places' /\ Messages'
  <2>1. Places'
    BY <1>0, <1>18 DEF CheckHandler, Places, Unwatched, Unstarted, Silent, Leaving, Torn, Entered, Said, Final, Placed, ProxyTypes, ThreadTypes, ChannelTypes, ProcessTypes
  <2>2. Messages'
    BY <1>0, <1>18 DEF CheckHandler, Messages, Places, Queued, Counted, Drained, Unstarted, Leaving, Torn, Entered, ProxyTypes, ThreadTypes, ChannelTypes, ProcessTypes
  <2>. QED
    BY <2>1, <2>2
<1>19. ASSUME NEW s \in Sessions, UseHandler(s) PROVE Places' /\ Messages'
  <2>1. Places'
    BY <1>0, <1>19 DEF UseHandler, Places, Unwatched, Unstarted, Silent, Leaving, Torn, Entered, Said, Final, Placed, ProxyTypes, ThreadTypes, ChannelTypes, ProcessTypes
  <2>2. Messages'
    BY <1>0, <1>19 DEF UseHandler, Messages, Places, Queued, Counted, Drained, Unstarted, Leaving, Torn, Entered, ProxyTypes, ThreadTypes, ChannelTypes, ProcessTypes
  <2>. QED
    BY <2>1, <2>2
<1>20. ASSUME NEW s \in Sessions, Connect(s) PROVE Places' /\ Messages'
  <2>1. Places'
    BY <1>0, <1>20 DEF Connect, Proceed, Places, Unwatched, Unstarted, Silent, Leaving, Torn, Entered, Said, Final, Placed, ProxyTypes, ThreadTypes, ChannelTypes, ProcessTypes
  <2>2. Messages'
    BY <1>0, <1>20 DEF Connect, Proceed, Messages, Places, Queued, Counted, Drained, Unstarted, Leaving, Torn, Entered, ProxyTypes, ThreadTypes, ChannelTypes, ProcessTypes
  <2>. QED
    BY <2>1, <2>2
<1>21. ASSUME NEW s \in Sessions, Setup(s) PROVE Places' /\ Messages'
  <2>1. Places'
    BY <1>0, <1>21 DEF Setup, Proceed, Places, Unwatched, Unstarted, Silent, Leaving, Torn, Entered, Said, Final, Placed, ProxyTypes, ThreadTypes, ChannelTypes, ProcessTypes
  <2>2. Messages'
    BY <1>0, <1>21 DEF Setup, Proceed, Messages, Places, Queued, Counted, Drained, Unstarted, Leaving, Torn, Entered, ProxyTypes, ThreadTypes, ChannelTypes, ProcessTypes
  <2>. QED
    BY <2>1, <2>2
<1>22. ASSUME NEW s \in Sessions, Announce(s) PROVE Places' /\ Messages'
  <2>1. Places'
    BY <1>0, <1>22 DEF Announce, Proceed, Room, Places, Unwatched, Unstarted, Silent, Leaving, Torn, Entered, Said, Final, Placed, ProxyTypes, ThreadTypes, ChannelTypes, ProcessTypes
  <2>2. Messages'
    BY <1>0, <1>22 DEF Announce, Proceed, Room, Messages, Places, Queued, Counted, Drained, Unstarted, Leaving, Torn, Entered, ProxyTypes, ThreadTypes, ChannelTypes, ProcessTypes
  <2>. QED
    BY <2>1, <2>2
<1>23. ASSUME NEW s \in Sessions, RaiseEvent(s) PROVE Places' /\ Messages'
  <2>1. Places'
    BY <1>0, <1>23 DEF RaiseEvent, Room, Places, Unwatched, Unstarted, Silent, Leaving, Torn, Entered, Said, Final, Placed, ProxyTypes, ThreadTypes, ChannelTypes, ProcessTypes
  <2>2. Messages'
    BY <1>0, <1>23 DEF RaiseEvent, Room, Messages, Places, Queued, Counted, Drained, Unstarted, Leaving, Torn, Entered, ProxyTypes, ThreadTypes, ChannelTypes, ProcessTypes
  <2>. QED
    BY <2>1, <2>2
<1>24. ASSUME NEW s \in Sessions, SourceRead(s) PROVE Places' /\ Messages'
  <2>1. Places'
    <3>1. s = 1 /\ toSource[1] # <<>>
      BY <1>0, <1>24 DEF SourceRead
    <3>2. toSource[1] \in Seq({"call", "disconnect"}) /\ Shaped(toSource[1])
      BY <1>0 DEF ChannelTypes, Messages, Queued
    <3>3. toSource'[1] = Tail(toSource[1])
      BY <1>0, <1>24, <3>1 DEF SourceRead, ChannelTypes
    <3>4. /\ Final(toSource'[1]) => Final(toSource[1])
          /\ Head(toSource[1]) = "disconnect" => Final(toSource[1])
      BY <3>1, <3>2, <3>3, Taking
    <3>5. Leaving' /\ Said'
      BY <1>0, <1>24, <3>1, <3>4 DEF SourceRead, Proceed, Places, Leaving, Torn, Said, ChannelTypes, ProcessTypes
    <3>6. Unstarted' /\ Entered'
      BY <1>0, <1>24, <3>1 DEF SourceRead, Proceed, Places, Unstarted, Entered, ChannelTypes, ProcessTypes
    <3>. QED
      BY <1>0, <1>24, <3>5, <3>6 DEF SourceRead, Places, Unwatched, Silent
  <2>2. Messages'
    <3>1. s = 1 /\ toSource[1] # <<>>
      BY <1>0, <1>24 DEF SourceRead
    <3>2. toSource[1] \in Seq({"call", "disconnect"}) /\ Shaped(toSource[1])
      BY <1>0 DEF ChannelTypes, Messages, Queued
    <3>3. toSource'[1] = Tail(toSource[1])
      BY <1>0, <1>24, <3>1 DEF SourceRead, ChannelTypes
    <3>4. /\ Shaped(toSource'[1])
          /\ Head(toSource[1]) \in {"call", "disconnect"}
          /\ Head(toSource[1]) = "disconnect" => toSource'[1] = <<>> /\ Calls(toSource[1]) = 0
          /\ Head(toSource[1]) = "call" => Calls(toSource[1]) = Calls(toSource'[1]) + 1
      BY <3>1, <3>2, <3>3, Taking, HeadTailProperties
    <3>5. toSource'[1] = <<>> => Calls(toSource'[1]) = 0
      BY EmptySeq DEF Calls, Final
    <3>6. /\ Calls(toSource[1]) \in Nat
          /\ accepted[1] \in Nat /\ executed[1] \in Nat
          /\ Calls(toSource'[1]) \in Nat
      <4>1. toSource'[1] \in Seq({"call", "disconnect"})
        BY <3>1, <3>2, <3>3, HeadTailProperties
      <4>. QED
        BY <1>0, <3>2, <4>1, Amount, BoundsAssumption DEF ProcessTypes
    <3>7. Queued'
      BY <1>0, <3>4 DEF Queued
    <3>8. Counted'
      <4>1. /\ accepted' = accepted /\ sourceInit' = sourceInit
            /\ source'[1] \in {"run", "leave"} /\ (source'[1] = "leave" => sourceInit[1])
            /\ executed'[1] = IF sourceInit[1] /\ Head(toSource[1]) = "call"
                               THEN executed[1] + 1 ELSE executed[1]
        BY <1>0, <1>24, <3>1 DEF SourceRead, Proceed, ProcessTypes
      <4>2. source[1] = "run"
        BY <1>24, <3>1 DEF SourceRead
      <4>. QED
        BY <1>0, <3>4, <3>5, <3>6, <4>1, <4>2 DEF Messages, Counted
    <3>9. Drained'
      BY <1>0, <1>24, <3>1, <3>4, <3>5 DEF SourceRead, Proceed, Messages, Drained, ProcessTypes, ChannelTypes
    <3>. QED
      BY <3>7, <3>8, <3>9 DEF Messages
  <2>. QED
    BY <2>1, <2>2
<1>25. ASSUME NEW s \in Sessions, ParentExit(s) PROVE Places' /\ Messages'
  <2>1. Places'
    BY <1>0, <1>25 DEF ParentExit, Places, Unwatched, Unstarted, Silent, Leaving, Torn, Entered, Said, Final, Placed, ProxyTypes, ThreadTypes, ChannelTypes, ProcessTypes
  <2>2. Messages'
    BY <1>0, <1>25 DEF ParentExit, Messages, Places, Queued, Counted, Drained, Unstarted, Leaving, Torn, Entered, ProxyTypes, ThreadTypes, ChannelTypes, ProcessTypes
  <2>. QED
    BY <2>1, <2>2
<1>26. ASSUME NEW s \in Sessions, SourceEnd(s) PROVE Places' /\ Messages'
  <2>1. Places'
    BY <1>0, <1>26 DEF SourceEnd, Proceed, Places, Unwatched, Unstarted, Silent, Leaving, Torn, Entered, Said, Final, Placed, ProxyTypes, ThreadTypes, ChannelTypes, ProcessTypes
  <2>2. Messages'
    BY <1>0, <1>26 DEF SourceEnd, Proceed, Messages, Places, Queued, Counted, Drained, Unstarted, Leaving, Torn, Entered, ProxyTypes, ThreadTypes, ChannelTypes, ProcessTypes
  <2>. QED
    BY <2>1, <2>2
<1>27. ASSUME NEW s \in Sessions, SourceCrash(s) PROVE Places' /\ Messages'
  <2>1. Places'
    BY <1>0, <1>27 DEF SourceCrash, Places, Unwatched, Unstarted, Silent, Leaving, Torn, Entered, Said, Final, Placed, ProxyTypes, ThreadTypes, ChannelTypes, ProcessTypes
  <2>2. Messages'
    BY <1>0, <1>27 DEF SourceCrash, Messages, Places, Queued, Counted, Drained, Unstarted, Leaving, Torn, Entered, ProxyTypes, ThreadTypes, ChannelTypes, ProcessTypes
  <2>. QED
    BY <2>1, <2>2
<1>28. CASE ParentCrash
  <2>1. Places'
    BY <1>0, <1>28 DEF ParentCrash, Places, Unwatched, Unstarted, Silent, Leaving, Torn, Entered, Said, Final, Placed, ProxyTypes, ThreadTypes, ChannelTypes, ProcessTypes
  <2>2. Messages'
    BY <1>0, <1>28 DEF ParentCrash, Messages, Places, Queued, Counted, Drained, Unstarted, Leaving, Torn, Entered, ProxyTypes, ThreadTypes, ChannelTypes, ProcessTypes
  <2>. QED
    BY <2>1, <2>2
<1>. QED
  BY <1>1, <1>2, <1>3, <1>4, <1>5, <1>6, <1>7, <1>8, <1>9, <1>10, <1>11, <1>12, <1>13, <1>14, <1>15, <1>16, <1>17, <1>18, <1>19, <1>20, <1>21, <1>22, <1>23, <1>24, <1>25, <1>26, <1>27, <1>28
     DEF Next, Run, Clearing, Watch, Message, SourceStep

LEMMA OneInductive ==
  ASSUME MaxSessions = 1, "crash" \notin Faults
  PROVE  Spec => []OneInv
<1>1. ASSUME Init PROVE Places /\ Messages
  <2>. USE <1>1 DEF Init, Threads, JS, Sessions, Clears, Calling
  <2>1. Places
    BY DEF Places, Unwatched, Unstarted, Silent, Leaving, Entered, Said, Final
  <2>2. Messages
    BY DEF Messages, Queued, Counted, Drained, Shaped, Calls, Final
  <2>. QED
    BY <2>1, <2>2
<1>2. ASSUME IInv, IInv', Places, Messages, [Next]_vars PROVE Places' /\ Messages'
  <2>1. CASE Next
    BY <1>2, <2>1, OneStep DEF OneInv
  <2>2. CASE UNCHANGED vars
    <3>. USE <1>2, <2>2 DEF vars, proxy, threads, ipc, process, counts, left
    <3>1. Places'
      BY DEF Places, Unwatched, Unstarted, Silent, Leaving, Torn, Entered, Said
    <3>2. Messages'
      BY DEF Messages, Queued, Counted, Drained
    <3>. QED
      BY <3>1, <3>2
  <2>. QED
    BY <1>2, <2>1, <2>2
<1>3. Spec => []IInv
  BY Inductive
<1>. QED
  BY <1>1, <1>2, <1>3, PTL DEF Spec, OneInv

\* In one session that does not crash, a process that leaves because it was told
\* to has run each accepted call, and none twice.
THEOREM CallsRun ==
  ASSUME MaxSessions = 1, "crash" \notin Faults
  PROVE  Spec => []CallsBeforeBye
<1>1. ASSUME OneInv PROVE CallsBeforeBye
  <2>. SUFFICES ASSUME NEW s \in Sessions
                PROVE  /\ executed[s] <= accepted[s]
                       /\ source[s] = "leave" => executed[s] = accepted[s]
    BY DEF CallsBeforeBye
  <2>1. accepted[s] \in Nat /\ executed[s] \in Nat
    BY <1>1, BoundsAssumption DEF OneInv, IInv, TypeOK, ProcessTypes
  <2>2. Calls(toSource[s]) \in Nat
    BY <1>1, Amount DEF OneInv, IInv, TypeOK, ChannelTypes
  <2>. QED
    BY <1>1, <2>1, <2>2 DEF OneInv, Messages, Counted, Drained
<1>. QED
  BY <1>1, OneInductive, PTL
=============================================================================
