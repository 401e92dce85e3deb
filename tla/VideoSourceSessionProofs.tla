---------------------- MODULE VideoSourceSessionProofs ----------------------
(***************************************************************************)
(* Theorems about VideoSourceSession: for any number of sessions, calls    *)
(* and events, rings of any size and all faults what concerns the threads; *)
(* for one session without a crash of its process what concerns its calls. *)
(***************************************************************************)
EXTENDS VideoSourceSession, SequenceTheorems, FiniteSetTheorems, TLAPS

-----------------------------------------------------------------------------
\* A call of Initialize may start a session, what needs one has one, and a call
\* that was let in is within the bound.
Placed ==
  /\ at[JS] = "launch" \/ (then = "launch" /\ at[JS] \in Clears) => session < MaxSessions
  /\ \A t \in Threads : at[t] \in {"close", "join"} => session >= 1
  /\ at[JS] \in {"wait", "arm", "receive", "send"} \/ initialized => session >= 1
  /\ at[JS] = "send" => accepted[session] < MaxCalls

\* Each session that was started has a message thread; the last one has ended
\* when the next session is started.
Listening ==
  /\ \A s \in Sessions : s <= session <=> listener[s] # "off"
  /\ at[JS] = "launch" => session = 0 \/ listener[session] = "ended"

IInv == TypeOK /\ Placed /\ Listening /\ OldListenersEnded

-----------------------------------------------------------------------------
\* Whatever locks are left, they stand before calls of the two sides.
LEMMA BarTyped ==
  ASSUME LockTypes, NEW s \in Sessions, NEW calls \in SUBSET ReadsAndWrites, NEW over,
         Bar(s, calls, over)
  PROVE  barred' \in [Sessions -> SUBSET ReadsAndWrites]
<1>1. PICK C \in SUBSET calls : barred' = [barred EXCEPT ![s] = (@ \cup C) \ over]
  BY DEF Bar
<1>2. (barred[s] \cup C) \ over \in SUBSET ReadsAndWrites
  BY DEF LockTypes
<1>. QED
  BY <1>1, <1>2 DEF LockTypes

LEMMA MayBar ==
  ASSUME NEW s \in Sessions
  PROVE  /\ ProxyMayBar(s) \in SUBSET ReadsAndWrites
         /\ SourceMayBar(s) \in SUBSET ReadsAndWrites
BY DEF ProxyMayBar, SourceMayBar, ReadsAndWrites

LEMMA LocksStep ==
  ASSUME ProxyTypes, Placed, LockTypes, Next
  PROVE  LockTypes'
<1>. USE DEF LockTypes
<1>1. ASSUME NEW t \in Threads, Close(t) PROVE LockTypes'
  <2>1. session \in Sessions
    BY <1>1, BoundsAssumption DEF Close, Go, Placed, ProxyTypes, Sessions
  <2>. QED
    BY <1>1, <2>1, BarTyped, MayBar DEF Close
<1>2. ASSUME NEW s \in Sessions, ListenEnd(s) PROVE LockTypes'
  BY <1>2, BarTyped DEF ListenEnd
<1>3. ASSUME NEW s \in Sessions, SourceRead(s) PROVE LockTypes'
  <2>1. SourceMayBar(s) \cap {"proxyReads"} \in SUBSET ReadsAndWrites
    BY DEF ReadsAndWrites
  <2>2. barred' \in [Sessions -> SUBSET ReadsAndWrites]
    BY <1>3, <2>1, BarTyped DEF SourceRead
  <2>. QED
    BY <1>3, <2>2 DEF SourceRead
<1>4. ASSUME NEW s \in Sessions, SourceEnd(s) PROVE LockTypes'
  BY <1>4, BarTyped DEF SourceEnd
<1>5. ASSUME NEW s \in Sessions, SourceCrash(s) PROVE LockTypes'
  <2>1. (IF "source" \in ends[s] THEN SourceMayBar(s) ELSE {}) \in SUBSET ReadsAndWrites
    BY MayBar
  <2>. QED
    BY <1>5, <2>1, BarTyped DEF SourceCrash
<1>6. CASE ParentCrash
  <2>1. CASE session # 0
    <3>1. session \in Sessions
      BY <2>1 DEF ProxyTypes, Sessions
    <3>. QED
      BY <1>6, <2>1, <3>1, BarTyped, MayBar DEF ParentCrash
  <2>2. CASE session = 0
    BY <1>6, <2>2 DEF ParentCrash
  <2>. QED
    BY <2>1, <2>2
<1>7. ASSUME NEW s \in Sessions, RaiseEvent(s) PROVE LockTypes'
  BY <1>7 DEF RaiseEvent
<1>8. CASE UNCHANGED left
  BY <1>8 DEF left
<1>. QED
  BY <1>1, <1>2, <1>3, <1>4, <1>5, <1>6, <1>7, <1>8
     DEF Next, Run, Clearing, Watch, Message, SourceStep, Threads,
         Clear, Bye, Join, Initialize, Launch, WaitReady, WaitTimeout, Monitor, Receive,
         Release, Destroy, CallApi, SendCall, MonitorExit, Listen, CheckHandler, UseHandler,
         Connect, Setup, Announce, ParentExit

\* A step keeps the invariant.
LEMMA Step ==
  ASSUME IInv, Next
  PROVE  IInv'
<1>. USE RingAssumption, BoundsAssumption DEF IInv, TypeOK, proxy, threads, ipc, process, counts, Go, Threads, JS, Sessions, Clears, Calling
<1>0. LockTypes'
  BY LocksStep
<1>. USE <1>0
<1>1. ASSUME NEW t \in Threads, Clear(t) PROVE IInv'
  <2>1. TypeOK'
    BY <1>1 DEF Clear, Placed, ProxyTypes, ThreadTypes, ChannelTypes, ProcessTypes
  <2>2. Placed' /\ Listening' /\ OldListenersEnded'
    BY <1>1 DEF Clear, Placed, Listening, OldListenersEnded, ProxyTypes, ThreadTypes
  <2>. QED
    BY <2>1, <2>2
<1>2. ASSUME NEW t \in Threads, Bye(t) PROVE IInv'
  <2>1. ProxyTypes'
    BY <1>2 DEF Bye, Room, ProxyTypes, Placed
  <2>2. ThreadTypes'
    BY <1>2 DEF Bye, AfterClear, ThreadTypes
  <2>3. ChannelTypes'
    <3>1. CASE session # 0 /\ "proxy" \in ends[session]
      <4>1. session \in Sessions
        BY <3>1 DEF ProxyTypes
      <4>2. /\ Append(toSource[session], "disconnect") \in Seq({"call", "disconnect"})
            /\ Len(Append(toSource[session], "disconnect")) = Len(toSource[session]) + 1
        BY <4>1 DEF ChannelTypes
      <4>3. Len(Append(toSource[session], "disconnect")) <= RingSize
        BY <1>2, <3>1, <4>1, <4>2, LenProperties DEF Bye, Room, ChannelTypes
      <4>4. toSource' = [toSource EXCEPT ![session] = Append(toSource[session], "disconnect")]
        BY <1>2, <3>1 DEF Bye
      <4>5. toSource' \in [Sessions -> Seq({"call", "disconnect"})]
        BY <4>1, <4>2, <4>4 DEF ChannelTypes
      <4>6. \A s \in Sessions : Len(toSource'[s]) <= RingSize
        BY <4>3, <4>4 DEF ChannelTypes
      <4>. QED
        BY <1>2, <4>5, <4>6 DEF Bye, ChannelTypes
    <3>2. CASE ~(session # 0 /\ "proxy" \in ends[session])
      BY <1>2, <3>2 DEF Bye, ChannelTypes
    <3>. QED
      BY <3>1, <3>2
  <2>4. ProcessTypes'
    BY <1>2 DEF Bye, Room, ProcessTypes, ProxyTypes
  <2>5. Placed' /\ Listening' /\ OldListenersEnded'
    <3>1. Placed'
      BY <1>2 DEF Bye, AfterClear, Placed, ProxyTypes, ThreadTypes
    <3>2. Listening'
      BY <1>2 DEF Bye, Room, Listening, ProxyTypes, ThreadTypes, Placed
    <3>3. OldListenersEnded'
      BY <1>2 DEF Bye, Room, OldListenersEnded, Listening, ProxyTypes, ThreadTypes, Placed
    <3>. QED
      BY <3>1, <3>2, <3>3
  <2>. QED
    BY <2>1, <2>2, <2>3, <2>4, <2>5
<1>3. ASSUME NEW t \in Threads, Close(t) PROVE IInv'
  <2>1. TypeOK'
    BY <1>3 DEF Close, Placed, ProxyTypes, ThreadTypes, ChannelTypes, ProcessTypes
  <2>2. Placed' /\ Listening' /\ OldListenersEnded'
    BY <1>3 DEF Close, Placed, Listening, OldListenersEnded, ProxyTypes, ThreadTypes
  <2>. QED
    BY <2>1, <2>2
<1>4. ASSUME NEW t \in Threads, Join(t) PROVE IInv'
  <2>1. TypeOK'
    <3>1. ProxyTypes'
      BY <1>4 DEF Join, AfterClear, ProxyTypes, Placed
    <3>2. ThreadTypes'
      BY <1>4 DEF Join, AfterClear, ThreadTypes
    <3>3. ChannelTypes'
      BY <1>4 DEF Join, AfterClear, ChannelTypes, ProxyTypes
    <3>4. ProcessTypes'
      BY <1>4 DEF Join, AfterClear, ProcessTypes, ProxyTypes
    <3>. QED
      BY <3>1, <3>2, <3>3, <3>4
  <2>2. Placed' /\ Listening' /\ OldListenersEnded'
    BY <1>4 DEF Join, AfterClear, Placed, Listening, OldListenersEnded, ProxyTypes, ThreadTypes
  <2>. QED
    BY <2>1, <2>2
<1>5. CASE Initialize
  <2>1. TypeOK'
    BY <1>5 DEF Initialize, Placed, ProxyTypes, ThreadTypes, ChannelTypes, ProcessTypes
  <2>2. Placed' /\ Listening' /\ OldListenersEnded'
    BY <1>5 DEF Initialize, Placed, Listening, OldListenersEnded, ProxyTypes, ThreadTypes
  <2>. QED
    BY <2>1, <2>2
<1>6. CASE Launch
  <2>1. TypeOK'
    <3>1. ProxyTypes'
      BY <1>6 DEF Launch, Proceed, ProxyTypes, Placed
    <3>2. ThreadTypes'
      BY <1>6 DEF Launch, Proceed, ThreadTypes
    <3>3. ChannelTypes'
      BY <1>6 DEF Launch, Proceed, ChannelTypes, ProxyTypes
    <3>4. ProcessTypes'
      BY <1>6 DEF Launch, Proceed, ProcessTypes, ProxyTypes
    <3>. QED
      BY <3>1, <3>2, <3>3, <3>4
  <2>2. Placed' /\ Listening' /\ OldListenersEnded'
    BY <1>6 DEF Launch, Proceed, Placed, Listening, OldListenersEnded, ProxyTypes, ThreadTypes
  <2>. QED
    BY <2>1, <2>2
<1>7. CASE WaitReady
  <2>1. TypeOK'
    BY <1>7 DEF WaitReady, Placed, ProxyTypes, ThreadTypes, ChannelTypes, ProcessTypes
  <2>2. Placed' /\ Listening' /\ OldListenersEnded'
    BY <1>7 DEF WaitReady, Placed, Listening, OldListenersEnded, ProxyTypes, ThreadTypes
  <2>. QED
    BY <2>1, <2>2
<1>8. CASE WaitTimeout
  <2>1. TypeOK'
    BY <1>8 DEF WaitTimeout, Placed, ProxyTypes, ThreadTypes, ChannelTypes, ProcessTypes
  <2>2. Placed' /\ Listening' /\ OldListenersEnded'
    BY <1>8 DEF WaitTimeout, Placed, Listening, OldListenersEnded, ProxyTypes, ThreadTypes
  <2>. QED
    BY <2>1, <2>2
<1>9. CASE Monitor
  <2>1. ProxyTypes'
    BY <1>9 DEF Monitor, ProxyTypes, Placed
  <2>2. ThreadTypes'
    <3>1. session \in Sessions
      BY <1>9 DEF Monitor, Placed, ProxyTypes
    <3>. QED
      BY <1>9, <3>1 DEF Monitor, ThreadTypes
  <2>3. ChannelTypes'
    BY <1>9 DEF Monitor, ChannelTypes, ProxyTypes
  <2>4. ProcessTypes'
    BY <1>9 DEF Monitor, ProcessTypes, ProxyTypes
  <2>5. Placed' /\ Listening' /\ OldListenersEnded'
    BY <1>9 DEF Monitor, Placed, Listening, OldListenersEnded, ProxyTypes, ThreadTypes
  <2>. QED
    BY <2>1, <2>2, <2>3, <2>4, <2>5
<1>10. CASE Receive
  <2>1. ProxyTypes'
    <3>1. session \in Sessions
      BY <1>10 DEF Receive, Placed, ProxyTypes
    <3>2. data[session] \in BOOLEAN
      BY <3>1 DEF ProcessTypes
    <3>. QED
      BY <1>10, <3>2 DEF Receive, ProxyTypes
  <2>2. ThreadTypes'
    BY <1>10 DEF Receive, ThreadTypes
  <2>3. ChannelTypes'
    BY <1>10 DEF Receive, ChannelTypes, ProxyTypes
  <2>4. ProcessTypes'
    BY <1>10 DEF Receive, ProcessTypes, ProxyTypes
  <2>5. Placed' /\ Listening' /\ OldListenersEnded'
    BY <1>10 DEF Receive, Placed, Listening, OldListenersEnded, ProxyTypes, ThreadTypes
  <2>. QED
    BY <2>1, <2>2, <2>3, <2>4, <2>5
<1>11. CASE Release
  <2>1. TypeOK'
    BY <1>11 DEF Release, Placed, ProxyTypes, ThreadTypes, ChannelTypes, ProcessTypes
  <2>2. Placed' /\ Listening' /\ OldListenersEnded'
    BY <1>11 DEF Release, Placed, Listening, OldListenersEnded, ProxyTypes, ThreadTypes
  <2>. QED
    BY <2>1, <2>2
<1>12. CASE Destroy
  <2>1. TypeOK'
    BY <1>12 DEF Destroy, Placed, ProxyTypes, ThreadTypes, ChannelTypes, ProcessTypes
  <2>2. Placed' /\ Listening' /\ OldListenersEnded'
    BY <1>12 DEF Destroy, Placed, Listening, OldListenersEnded, ProxyTypes, ThreadTypes
  <2>. QED
    BY <2>1, <2>2
<1>13. CASE CallApi
  <2>1. TypeOK'
    BY <1>13 DEF CallApi, Placed, ProxyTypes, ThreadTypes, ChannelTypes, ProcessTypes
  <2>2. Placed' /\ Listening' /\ OldListenersEnded'
    BY <1>13 DEF CallApi, Placed, Listening, OldListenersEnded, ProxyTypes, ThreadTypes
  <2>. QED
    BY <2>1, <2>2
<1>14. CASE SendCall
  <2>1. ProxyTypes'
    BY <1>14 DEF SendCall, Room, ProxyTypes, Placed
  <2>2. ThreadTypes'
    BY <1>14 DEF SendCall, Room, ThreadTypes
  <2>3. ChannelTypes'
    <3>1. session \in Sessions
      BY <1>14 DEF SendCall, Placed, ProxyTypes
    <3>2. /\ Append(toSource[session], "call") \in Seq({"call", "disconnect"})
          /\ Len(Append(toSource[session], "call")) = Len(toSource[session]) + 1
      BY <3>1 DEF ChannelTypes
    <3>3. CASE "proxy" \in ends[session]
      <4>1. Len(Append(toSource[session], "call")) <= RingSize
        BY <1>14, <3>1, <3>2, <3>3, LenProperties DEF SendCall, Room, ChannelTypes
      <4>2. toSource' = [toSource EXCEPT ![session] = Append(toSource[session], "call")]
        BY <1>14, <3>3 DEF SendCall
      <4>3. toSource' \in [Sessions -> Seq({"call", "disconnect"})]
        BY <3>1, <3>2, <4>2 DEF ChannelTypes
      <4>4. \A s \in Sessions : Len(toSource'[s]) <= RingSize
        BY <4>1, <4>2 DEF ChannelTypes
      <4>. QED
        BY <1>14, <4>3, <4>4 DEF SendCall, ChannelTypes
    <3>4. CASE "proxy" \notin ends[session]
      BY <1>14, <3>4 DEF SendCall, ChannelTypes
    <3>. QED
      BY <3>3, <3>4
  <2>4. ProcessTypes'
    <3>1. session \in Sessions /\ accepted[session] < MaxCalls
      BY <1>14 DEF SendCall, Placed, ProxyTypes
    <3>2. accepted[session] + 1 \in 0 .. MaxCalls
      BY <3>1 DEF ProcessTypes
    <3>3. accepted' \in [Sessions -> 0 .. MaxCalls]
      BY <1>14, <3>1, <3>2 DEF SendCall, ProcessTypes
    <3>. QED
      BY <1>14, <3>3 DEF SendCall, ProcessTypes
  <2>5. Placed' /\ Listening' /\ OldListenersEnded'
    BY <1>14 DEF SendCall, Room, Placed, Listening, OldListenersEnded, ProxyTypes, ThreadTypes
  <2>. QED
    BY <2>1, <2>2, <2>3, <2>4, <2>5
<1>15. ASSUME NEW s \in Sessions, MonitorExit(s) PROVE IInv'
  <2>1. TypeOK'
    BY <1>15 DEF MonitorExit, Placed, ProxyTypes, ThreadTypes, ChannelTypes, ProcessTypes
  <2>2. Placed' /\ Listening' /\ OldListenersEnded'
    BY <1>15 DEF MonitorExit, Placed, Listening, OldListenersEnded, ProxyTypes, ThreadTypes
  <2>. QED
    BY <2>1, <2>2
<1>16. ASSUME NEW s \in Sessions, ListenEnd(s) PROVE IInv'
  <2>1. TypeOK'
    BY <1>16 DEF ListenEnd, Placed, ProxyTypes, ThreadTypes, ChannelTypes, ProcessTypes
  <2>2. Placed' /\ Listening' /\ OldListenersEnded'
    BY <1>16 DEF ListenEnd, Placed, Listening, OldListenersEnded, ProxyTypes, ThreadTypes
  <2>. QED
    BY <2>1, <2>2
<1>17. ASSUME NEW s \in Sessions, Listen(s) PROVE IInv'
  <2>1. TypeOK'
    <3>1. ProxyTypes'
      BY <1>17 DEF Listen, ProxyTypes, Placed
    <3>2. ThreadTypes'
      BY <1>17 DEF Listen, ThreadTypes
    <3>3. ChannelTypes'
      BY <1>17 DEF Listen, ChannelTypes, ProxyTypes
    <3>4. ProcessTypes'
      BY <1>17 DEF Listen, ProcessTypes, ProxyTypes
    <3>. QED
      BY <3>1, <3>2, <3>3, <3>4
  <2>2. Placed' /\ Listening' /\ OldListenersEnded'
    BY <1>17 DEF Listen, Placed, Listening, OldListenersEnded, ProxyTypes, ThreadTypes
  <2>. QED
    BY <2>1, <2>2
<1>18. ASSUME NEW s \in Sessions, CheckHandler(s) PROVE IInv'
  <2>1. TypeOK'
    BY <1>18 DEF CheckHandler, Placed, ProxyTypes, ThreadTypes, ChannelTypes, ProcessTypes
  <2>2. Placed' /\ Listening' /\ OldListenersEnded'
    BY <1>18 DEF CheckHandler, Placed, Listening, OldListenersEnded, ProxyTypes, ThreadTypes
  <2>. QED
    BY <2>1, <2>2
<1>19. ASSUME NEW s \in Sessions, UseHandler(s) PROVE IInv'
  <2>1. TypeOK'
    BY <1>19 DEF UseHandler, Placed, ProxyTypes, ThreadTypes, ChannelTypes, ProcessTypes
  <2>2. Placed' /\ Listening' /\ OldListenersEnded'
    BY <1>19 DEF UseHandler, Placed, Listening, OldListenersEnded, ProxyTypes, ThreadTypes
  <2>. QED
    BY <2>1, <2>2
<1>20. ASSUME NEW s \in Sessions, Connect(s) PROVE IInv'
  <2>1. TypeOK'
    <3>1. ProxyTypes'
      BY <1>20 DEF Connect, Proceed, ProxyTypes
    <3>2. ThreadTypes'
      BY <1>20 DEF Connect, Proceed, ThreadTypes
    <3>3. ChannelTypes'
      BY <1>20 DEF Connect, Proceed, ChannelTypes
    <3>4. ProcessTypes'
      BY <1>20 DEF Connect, Proceed, ProcessTypes
    <3>. QED
      BY <3>1, <3>2, <3>3, <3>4
  <2>2. Placed' /\ Listening' /\ OldListenersEnded'
    BY <1>20 DEF Connect, Proceed, Placed, Listening, OldListenersEnded, ProxyTypes, ThreadTypes
  <2>. QED
    BY <2>1, <2>2
<1>21. ASSUME NEW s \in Sessions, Setup(s) PROVE IInv'
  <2>1. TypeOK'
    <3>1. ProxyTypes'
      BY <1>21 DEF Setup, Proceed, ProxyTypes
    <3>2. ThreadTypes'
      BY <1>21 DEF Setup, Proceed, ThreadTypes
    <3>3. ChannelTypes'
      BY <1>21 DEF Setup, Proceed, ChannelTypes
    <3>4. ProcessTypes'
      BY <1>21 DEF Setup, Proceed, ProcessTypes
    <3>. QED
      BY <3>1, <3>2, <3>3, <3>4
  <2>2. Placed' /\ Listening' /\ OldListenersEnded'
    BY <1>21 DEF Setup, Proceed, Placed, Listening, OldListenersEnded, ProxyTypes, ThreadTypes
  <2>. QED
    BY <2>1, <2>2
<1>22. ASSUME NEW s \in Sessions, Announce(s) PROVE IInv'
  <2>1. ProxyTypes'
    BY <1>22 DEF Announce, Proceed, Room, ProxyTypes, Placed
  <2>2. ThreadTypes'
    BY <1>22 DEF Announce, Proceed, Room, ThreadTypes
  <2>3. ChannelTypes'
    <3>1. /\ Append(toProxy[s], "ready") \in Seq({"ready", "event"})
          /\ Len(Append(toProxy[s], "ready")) = Len(toProxy[s]) + 1
      BY DEF ChannelTypes
    <3>2. CASE "source" \in ends[s]
      <4>1. Len(Append(toProxy[s], "ready")) <= RingSize
        BY <1>22, <3>1, <3>2, LenProperties DEF Announce, Room, ChannelTypes
      <4>2. toProxy' = [toProxy EXCEPT ![s] = Append(toProxy[s], "ready")]
        BY <1>22, <3>2 DEF Announce
      <4>3. toProxy' \in [Sessions -> Seq({"ready", "event"})]
        BY <3>1, <4>2 DEF ChannelTypes
      <4>4. \A r \in Sessions : Len(toProxy'[r]) <= RingSize
        BY <4>1, <4>2 DEF ChannelTypes
      <4>. QED
        BY <1>22, <4>3, <4>4 DEF Announce, ChannelTypes
    <3>3. CASE "source" \notin ends[s]
      BY <1>22, <3>3 DEF Announce, ChannelTypes
    <3>. QED
      BY <3>2, <3>3
  <2>4. ProcessTypes'
    BY <1>22 DEF Announce, Proceed, Room, ProcessTypes, ProxyTypes
  <2>5. Placed' /\ Listening' /\ OldListenersEnded'
    BY <1>22 DEF Announce, Proceed, Room, Placed, Listening, OldListenersEnded, ProxyTypes, ThreadTypes
  <2>. QED
    BY <2>1, <2>2, <2>3, <2>4, <2>5
<1>23. ASSUME NEW s \in Sessions, RaiseEvent(s) PROVE IInv'
  <2>1. TypeOK'
    <3>1. ProxyTypes'
      BY <1>23 DEF RaiseEvent, Room, ProxyTypes, Placed
    <3>2. ThreadTypes'
      BY <1>23 DEF RaiseEvent, Room, ThreadTypes
    <3>3. ChannelTypes'
      <4>1. /\ Append(toProxy[s], "event") \in Seq({"ready", "event"})
            /\ Len(Append(toProxy[s], "event")) = Len(toProxy[s]) + 1
        BY DEF ChannelTypes
      <4>2. CASE UNCHANGED toProxy
        BY <1>23, <4>2 DEF RaiseEvent, ChannelTypes
      <4>3. CASE Room(toProxy[s]) /\ toProxy' = [toProxy EXCEPT ![s] = Append(@, "event")]
        BY <1>23, <4>1, <4>3, LenProperties DEF RaiseEvent, Room, ChannelTypes
      <4>. QED
        BY <1>23, <4>2, <4>3 DEF RaiseEvent
    <3>4. ProcessTypes'
      BY <1>23 DEF RaiseEvent, Room, ProcessTypes, ProxyTypes
    <3>. QED
      BY <3>1, <3>2, <3>3, <3>4
  <2>2. Placed' /\ Listening' /\ OldListenersEnded'
    BY <1>23 DEF RaiseEvent, Room, Placed, Listening, OldListenersEnded, ProxyTypes, ThreadTypes
  <2>. QED
    BY <2>1, <2>2
<1>24. ASSUME NEW s \in Sessions, SourceRead(s) PROVE IInv'
  <2>1. ProxyTypes'
    BY <1>24 DEF SourceRead, ProxyTypes, Placed
  <2>2. ThreadTypes'
    BY <1>24 DEF SourceRead, ThreadTypes
  <2>3. ChannelTypes'
    <3>1. /\ Tail(toSource[s]) \in Seq({"call", "disconnect"})
          /\ Len(Tail(toSource[s])) = Len(toSource[s]) - 1
      BY <1>24 DEF SourceRead, ChannelTypes
    <3>2. toSource' = [toSource EXCEPT ![s] = Tail(toSource[s])]
      BY <1>24 DEF SourceRead
    <3>3. toSource' \in [Sessions -> Seq({"call", "disconnect"})]
      BY <3>1, <3>2 DEF ChannelTypes
    <3>4. \A r \in Sessions : Len(toSource'[r]) <= RingSize
      BY <3>1, <3>2 DEF ChannelTypes
    <3>5. ends' \in [Sessions -> SUBSET {"proxy", "source"}] /\ toProxy' = toProxy
      <4>1. ends' = [ends EXCEPT ![s] = ends[s] \ {"source"}] \/ ends' = ends
        BY <1>24 DEF SourceRead
      <4>2. toProxy' = toProxy
        BY <1>24 DEF SourceRead
      <4>. QED
        BY <4>1, <4>2 DEF ChannelTypes
    <3>. QED
      BY <3>3, <3>4, <3>5 DEF ChannelTypes
  <2>4. ProcessTypes'
    <3>1. executed' \in [Sessions -> Nat]
      <4>1. executed[s] + 1 \in Nat
        BY DEF ProcessTypes
      <4>. QED
        BY <1>24, <4>1 DEF SourceRead, ProcessTypes
    <3>2. data' \in [Sessions -> BOOLEAN]
      BY <1>24 DEF SourceRead, ProcessTypes
    <3>3. source' \in [Sessions -> {"off", "start", "engine", "announce", "run", "leave", "gone"}]
      BY <1>24 DEF SourceRead, Proceed, ProcessTypes
    <3>. QED
      BY <1>24, <3>1, <3>2, <3>3 DEF SourceRead, ProcessTypes
  <2>5. Placed' /\ Listening' /\ OldListenersEnded'
    BY <1>24 DEF SourceRead, Proceed, Placed, Listening, OldListenersEnded, ProxyTypes, ThreadTypes
  <2>. QED
    BY <2>1, <2>2, <2>3, <2>4, <2>5
<1>25. ASSUME NEW s \in Sessions, ParentExit(s) PROVE IInv'
  <2>1. TypeOK'
    BY <1>25 DEF ParentExit, Placed, ProxyTypes, ThreadTypes, ChannelTypes, ProcessTypes
  <2>2. Placed' /\ Listening' /\ OldListenersEnded'
    BY <1>25 DEF ParentExit, Placed, Listening, OldListenersEnded, ProxyTypes, ThreadTypes
  <2>. QED
    BY <2>1, <2>2
<1>26. ASSUME NEW s \in Sessions, SourceEnd(s) PROVE IInv'
  <2>1. TypeOK'
    <3>1. ProxyTypes'
      BY <1>26 DEF SourceEnd, Proceed, ProxyTypes
    <3>2. ThreadTypes'
      BY <1>26 DEF SourceEnd, Proceed, ThreadTypes
    <3>3. ChannelTypes'
      BY <1>26 DEF SourceEnd, Proceed, ChannelTypes
    <3>4. ProcessTypes'
      BY <1>26 DEF SourceEnd, Proceed, ProcessTypes
    <3>. QED
      BY <3>1, <3>2, <3>3, <3>4
  <2>2. Placed' /\ Listening' /\ OldListenersEnded'
    BY <1>26 DEF SourceEnd, Proceed, Placed, Listening, OldListenersEnded, ProxyTypes, ThreadTypes
  <2>. QED
    BY <2>1, <2>2
<1>27. ASSUME NEW s \in Sessions, SourceCrash(s) PROVE IInv'
  <2>1. TypeOK'
    <3>1. ProxyTypes'
      BY <1>27 DEF SourceCrash, ProxyTypes
    <3>2. ThreadTypes'
      BY <1>27 DEF SourceCrash, ThreadTypes
    <3>3. ChannelTypes'
      BY <1>27 DEF SourceCrash, ChannelTypes
    <3>4. ProcessTypes'
      BY <1>27 DEF SourceCrash, ProcessTypes
    <3>. QED
      BY <3>1, <3>2, <3>3, <3>4
  <2>2. Placed' /\ Listening' /\ OldListenersEnded'
    BY <1>27 DEF SourceCrash, Placed, Listening, OldListenersEnded, ProxyTypes, ThreadTypes
  <2>. QED
    BY <2>1, <2>2
<1>28. CASE ParentCrash
  <2>1. TypeOK'
    BY <1>28 DEF ParentCrash, Placed, ProxyTypes, ThreadTypes, ChannelTypes, ProcessTypes
  <2>2. Placed' /\ Listening' /\ OldListenersEnded'
    BY <1>28 DEF ParentCrash, Placed, Listening, OldListenersEnded, ProxyTypes, ThreadTypes
  <2>. QED
    BY <2>1, <2>2
<1>. QED
  BY <1>1, <1>2, <1>3, <1>4, <1>5, <1>6, <1>7, <1>8, <1>9, <1>10, <1>11, <1>12, <1>13, <1>14, <1>15, <1>16, <1>17, <1>18, <1>19, <1>20, <1>21, <1>22, <1>23, <1>24, <1>25, <1>26, <1>27, <1>28
     DEF Next, Run, Clearing, Watch, Message, SourceStep

LEMMA Inductive == Spec => []IInv
<1>1. ASSUME Init PROVE IInv
  <2>. USE <1>1, RingAssumption, BoundsAssumption DEF Init, Threads, JS, Sessions, Clears, Calling
  <2>1. ProxyTypes
    <3>1. alive \in BOOLEAN /\ initialized \in BOOLEAN /\ handler \in BOOLEAN /\ statusEvent \in BOOLEAN
      BY Zenon DEF Init
    <3>. QED
      BY <3>1 DEF ProxyTypes
  <2>2. ThreadTypes
    BY DEF ThreadTypes
  <2>3. ChannelTypes
    <3>1. toSource \in [Sessions -> Seq({"call", "disconnect"})]
      OBVIOUS
    <3>2. toProxy \in [Sessions -> Seq({"ready", "event"})]
      OBVIOUS
    <3>. QED
      BY <3>1, <3>2 DEF ChannelTypes
  <2>4. ProcessTypes
    <3>1. sourceInit \in [Sessions -> BOOLEAN] /\ data \in [Sessions -> BOOLEAN]
      BY Zenon DEF Init
    <3>. QED
      BY <3>1 DEF ProcessTypes
  <2>5. LockTypes
    <3>1. caught \in [Sessions -> BOOLEAN]
      BY Zenon DEF Init
    <3>. QED
      BY <3>1 DEF LockTypes
  <2>6. Placed /\ Listening /\ OldListenersEnded
    BY DEF Placed, Listening, OldListenersEnded
  <2>. QED
    BY <2>1, <2>2, <2>3, <2>4, <2>5, <2>6 DEF IInv, TypeOK
<1>2. ASSUME IInv, [Next]_vars PROVE IInv'
  <2>1. CASE Next
    BY <1>2, <2>1, Step
  <2>2. CASE UNCHANGED vars
    <3>. USE <1>2, <2>2 DEF IInv, vars, proxy, threads, ipc, process, counts, left
    <3>1. TypeOK'
      BY DEF LockTypes, TypeOK, ProxyTypes, ThreadTypes, ChannelTypes, ProcessTypes
    <3>2. Placed' /\ Listening' /\ OldListenersEnded'
      BY DEF Placed, Listening, OldListenersEnded
    <3>. QED
      BY <3>1, <3>2
  <2>. QED
    BY <1>2, <2>1, <2>2
<1>. QED
  BY <1>1, <1>2, PTL DEF Spec

\* Types: no ring overflows, and no call or event goes past its bound.
THEOREM TypeCorrect == Spec => []TypeOK
<1>1. IInv => TypeOK
  BY DEF IInv
<1>. QED
  BY <1>1, Inductive, PTL

\* Whatever fails and however often sessions are started, the message thread of
\* an earlier session has ended: Clear joins it before a session is started.
THEOREM OldEnded == Spec => []OldListenersEnded
<1>1. IInv => OldListenersEnded
  BY DEF IInv
<1>. QED
  BY <1>1, Inductive, PTL
=============================================================================
