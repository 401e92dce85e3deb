--------------------------- MODULE ApiEventsProofs ---------------------------
(* Proofs about ApiEvents.  The argument: every event in the queue knows     *)
(* which channel the engine will be in when the events before it have been   *)
(* dispatched, so the channel that onUserOffline takes is the right one;     *)
(* and the rows of the tables, one part after another, name no listener that *)
(* an event may not call.                                                    *)
EXTENDS ApiEvents, TLAPS

Events == [kind : Kinds \cup Special, user : Users \cup {None},
           channel : Channels \cup {None}]

Joining == <<"call_back", "joinChannelSuccess">>
Leaving == <<"call_back", "leaveChannel">>
Offline == <<"call_back", "userOffline">>

\* An event whose dispatch changes currentChannel, and what to.
Switches(e) == e.kind = Joining \/ e.kind = Leaving
SwitchTo(e) == IF e.kind = Joining THEN e.channel ELSE None

\* After the first i - 1 events of q, starting from channel start, the engine
\* is in c: the last of them that switches sets c, or none does.
Before(q, start, i, c) ==
  \/ \E j \in 1..Len(q) :
       /\ j < i /\ Switches(q[j]) /\ SwitchTo(q[j]) = c
       /\ \A k \in 1..Len(q) : (j < k /\ k < i) => ~Switches(q[k])
  \/ /\ start = c
     /\ \A k \in 1..Len(q) : k < i => ~Switches(q[k])

\* The inductive invariant.
Tracked ==
  /\ heard # None => heard = joined /\ Before(queue, currentChannel, Len(queue) + 1, heard)
  /\ \A i \in 1..Len(queue) :
       queue[i].kind = Offline /\ queue[i].channel # None =>
         Before(queue, currentChannel, i, queue[i].channel)
  /\ closed => queue = <<>>

SmallType ==
  /\ queue \in Seq(Events)
  /\ joined \in Channels \cup {None} /\ heard \in Channels \cup {None}
  /\ present \subseteq Users
  /\ objects \subseteq Channels /\ closed \in BOOLEAN

IInv == SmallType /\ Tracked

\* An event at the end of the queue leaves what was before it, and the engine
\* ends where the event leads.
LEMMA AppendBefore ==
  ASSUME NEW q \in Seq(Events), NEW e \in Events, NEW start, NEW c,
         NEW i \in 1..(Len(q) + 1), Before(q, start, i, c)
  PROVE  Before(Append(q, e), start, i, c)
<1>1. Len(Append(q, e)) = Len(q) + 1 /\ Len(q) \in Nat
  OBVIOUS
<1>2. \A k \in 1..Len(q) : Append(q, e)[k] = q[k]
  OBVIOUS
<1>3. CASE \E j \in 1..Len(q) :
             /\ j < i /\ Switches(q[j]) /\ SwitchTo(q[j]) = c
             /\ \A k \in 1..Len(q) : (j < k /\ k < i) => ~Switches(q[k])
  <2>1. PICK j \in 1..Len(q) :
             /\ j < i /\ Switches(q[j]) /\ SwitchTo(q[j]) = c
             /\ \A k \in 1..Len(q) : (j < k /\ k < i) => ~Switches(q[k])
    BY <1>3
  <2>2. \A k \in 1..Len(Append(q, e)) : k < i => k \in 1..Len(q)
    BY <1>1
  <2>3. j \in 1..Len(Append(q, e)) /\ Append(q, e)[j] = q[j]
    BY <1>1, <1>2
  <2> QED BY <2>1, <2>2, <2>3, <1>2 DEF Before
<1>4. CASE start = c /\ \A k \in 1..Len(q) : k < i => ~Switches(q[k])
  <2>1. \A k \in 1..Len(Append(q, e)) : k < i => k \in 1..Len(q)
    BY <1>1
  <2> QED BY <1>4, <1>2, <2>1 DEF Before
<1> QED BY <1>3, <1>4 DEF Before

LEMMA AppendEnd ==
  ASSUME NEW q \in Seq(Events), NEW e \in Events, NEW start, NEW c
  PROVE  /\ Switches(e) => Before(Append(q, e), start, Len(q) + 2, SwitchTo(e))
         /\ (~Switches(e) /\ Before(q, start, Len(q) + 1, c))
              => Before(Append(q, e), start, Len(q) + 2, c)
<1>1. Len(Append(q, e)) = Len(q) + 1 /\ Len(q) \in Nat
  OBVIOUS
<1>2. Append(q, e)[Len(q) + 1] = e /\ \A k \in 1..Len(q) : Append(q, e)[k] = q[k]
  OBVIOUS
<1>3. ASSUME Switches(e)
      PROVE  Before(Append(q, e), start, Len(q) + 2, SwitchTo(e))
  <2>1. Len(q) + 1 \in 1..Len(Append(q, e)) /\ Len(q) + 1 < Len(q) + 2
    BY <1>1
  <2>2. \A k \in 1..Len(Append(q, e)) : ~(Len(q) + 1 < k /\ k < Len(q) + 2)
    BY <1>1
  <2> QED BY <2>1, <2>2, <1>2, <1>3 DEF Before
<1>4. ASSUME ~Switches(e), Before(q, start, Len(q) + 1, c)
      PROVE  Before(Append(q, e), start, Len(q) + 2, c)
  <2>1. Before(Append(q, e), start, Len(q) + 1, c)
    <3>1. Len(q) + 1 \in 1..(Len(q) + 1)
      BY <1>1
    <3> QED BY <3>1, <1>4, AppendBefore
  <2>2. \A k \in 1..Len(Append(q, e)) :
          /\ k < Len(q) + 2 => k < Len(q) + 1 \/ ~Switches(Append(q, e)[k])
          /\ k < Len(q) + 1 => k < Len(q) + 2
    <3>1. \A k \in 1..(Len(q) + 1) : k < Len(q) + 1 \/ k = Len(q) + 1
      BY <1>1
    <3> QED BY <3>1, <1>1, <1>2, <1>4
  <2> QED BY <2>1, <2>2 DEF Before
<1> QED BY <1>3, <1>4

\* The first event leaves the queue and the engine goes where it leads.
LEMMA TailBefore ==
  ASSUME NEW q \in Seq(Events), q # <<>>, NEW start, NEW new, NEW c,
         new = IF Switches(Head(q)) THEN SwitchTo(Head(q)) ELSE start,
         NEW i \in 1..Len(q), Before(q, start, i + 1, c)
  PROVE  Before(Tail(q), new, i, c)
<1>1. /\ Len(q) \in Nat \ {0}
      /\ Len(Tail(q)) = Len(q) - 1
      /\ \A k \in 1..Len(Tail(q)) : Tail(q)[k] = q[k + 1]
      /\ Head(q) = q[1]
  OBVIOUS
<1>2. \A k \in 1..Len(Tail(q)) : k + 1 \in 1..Len(q) /\ (k < i => k + 1 < i + 1)
  BY <1>1
<1>3. CASE \E j \in 1..Len(q) :
             /\ j < i + 1 /\ Switches(q[j]) /\ SwitchTo(q[j]) = c
             /\ \A k \in 1..Len(q) : (j < k /\ k < i + 1) => ~Switches(q[k])
  <2>1. PICK j \in 1..Len(q) :
             /\ j < i + 1 /\ Switches(q[j]) /\ SwitchTo(q[j]) = c
             /\ \A k \in 1..Len(q) : (j < k /\ k < i + 1) => ~Switches(q[k])
    BY <1>3
  <2>2. CASE j = 1
    <3>1. new = c
      BY <2>1, <2>2, <1>1
    <3>2. \A k \in 1..Len(Tail(q)) : k < i => ~Switches(Tail(q)[k])
      <4>1. \A k \in 1..Len(Tail(q)) : 1 < k + 1
        BY <1>1
      <4> QED BY <4>1, <1>1, <1>2, <2>1, <2>2
    <3> QED BY <3>1, <3>2 DEF Before
  <2>3. CASE j # 1
    <3>1. j - 1 \in 1..Len(Tail(q)) /\ j - 1 < i /\ (j - 1) + 1 = j
      BY <2>1, <2>3, <1>1
    <3>2. Tail(q)[j - 1] = q[j]
      BY <3>1, <1>1
    <3>3. \A k \in 1..Len(Tail(q)) : (j - 1 < k /\ k < i) => ~Switches(Tail(q)[k])
      <4>1. \A k \in 1..Len(Tail(q)) : j - 1 < k => j < k + 1
        BY <1>1
      <4> QED BY <4>1, <1>1, <1>2, <2>1
    <3> QED BY <3>1, <3>2, <3>3, <2>1 DEF Before
  <2> QED BY <2>2, <2>3
<1>4. CASE start = c /\ \A k \in 1..Len(q) : k < i + 1 => ~Switches(q[k])
  <2>1. 1 \in 1..Len(q) /\ 1 < i + 1
    BY <1>1
  <2>2. new = c
    BY <2>1, <1>1, <1>4
  <2> QED BY <2>2, <1>1, <1>2, <1>4 DEF Before
<1> QED BY <1>3, <1>4 DEF Before

LEMMA InitTracked == Init => IInv
  <1> SUFFICES ASSUME Init PROVE IInv
    OBVIOUS
  <1>1. queue = <<>> /\ Len(queue) = 0 /\ 1..Len(queue) = {}
    BY DEF Init
  <1>2. SmallType
    <2>1. <<>> \in Seq(Events)
      OBVIOUS
    <2> QED BY <2>1 DEF SmallType, Init
  <1>3. Tracked
    BY <1>1 DEF Tracked, Before, Init
  <1> QED BY <1>2, <1>3 DEF IInv

\* What an action that raises an event has to show of it.
LEMMA PushTracked ==
  ASSUME IInv, NEW e \in Events, Push(e),
         joined' \in Channels \cup {None}, heard' \in Channels \cup {None},
         present' \subseteq Users,
         heard' # None => heard' = joined',
         IF Switches(e) THEN heard' # None => ~closed /\ heard' = SwitchTo(e)
                        ELSE heard' = heard,
         e.kind = Offline => e.channel = heard
  PROVE  IInv'
<1> USE DEF IInv
<1>1. CASE closed
  <2>1. /\ queue' = queue /\ currentChannel' = currentChannel
        /\ objects' = objects /\ closed' = closed
    BY <1>1 DEF Push, handlers, page
  <2>2. heard' # None => heard' = heard
    BY <1>1
  <2>3. SmallType'
    BY <2>1 DEF SmallType
  <2> QED BY <2>1, <2>2, <2>3 DEF Tracked, Before, Switches, SwitchTo
<1>2. CASE ~closed
  <2>1. /\ queue \in Seq(Events) /\ Len(queue) \in Nat
        /\ queue' = Append(queue, e) /\ queue' \in Seq(Events)
        /\ Len(queue') = Len(queue) + 1
        /\ \A k \in 1..Len(queue) : queue'[k] = queue[k]
        /\ queue'[Len(queue) + 1] = e
        /\ currentChannel' = currentChannel /\ objects' = objects /\ closed' = closed
    BY <1>2 DEF SmallType, Push, handlers, page
  <2>2. SmallType'
    BY <2>1 DEF SmallType
  <2>3. heard # None => Before(queue, currentChannel, Len(queue) + 1, heard)
    BY DEF Tracked
  <2>4. ASSUME heard' # None
        PROVE  Before(queue', currentChannel', Len(queue') + 1, heard')
    <3>1. Len(queue') + 1 = Len(queue) + 2
      BY <2>1
    <3>2. CASE Switches(e)
      BY <2>4, <3>1, <3>2, <2>1, AppendEnd
    <3>3. CASE ~Switches(e)
      BY <2>4, <3>1, <3>3, <2>1, <2>3, AppendEnd
    <3> QED BY <3>2, <3>3
  <2>5. ASSUME NEW i \in 1..Len(queue'), queue'[i].kind = Offline, queue'[i].channel # None
        PROVE  Before(queue', currentChannel', i, queue'[i].channel)
    <3>1. CASE i \in 1..Len(queue)
      <4>1. Before(queue, currentChannel, i, queue[i].channel)
        BY <2>1, <2>5, <3>1 DEF Tracked
      <4>2. i \in 1..(Len(queue) + 1)
        BY <2>1, <3>1
      <4> QED BY <4>1, <4>2, <3>1, <2>1, AppendBefore
    <3>2. CASE i = Len(queue) + 1
      <4>1. e.channel = heard /\ heard # None
        BY <2>1, <2>5, <3>2
      <4>2. i \in 1..(Len(queue) + 1)
        BY <2>1, <3>2
      <4>3. Before(queue', currentChannel', i, heard)
        BY <4>1, <4>2, <3>2, <2>1, <2>3, AppendBefore
      <4> QED BY <4>1, <4>3, <3>2, <2>1
    <3> QED BY <3>1, <3>2, <2>1
  <2> QED BY <1>2, <2>1, <2>2, <2>4, <2>5 DEF Tracked
<1> QED BY <1>1, <1>2

\* A handler that comes or goes takes the queue with it.  The engine is in the
\* channel that was announced, unless the announcement was in the queue.
LEMMA CloseTracked ==
  ASSUME IInv, NEW shut \in BOOLEAN, Close(shut), objects' \subseteq Channels
  PROVE  IInv'
<1> USE DEF IInv
<1>1. /\ queue' = <<>> /\ Len(queue') = 0 /\ 1..Len(queue') = {} /\ <<>> \in Seq(Events)
      /\ closed' = shut /\ joined' = joined /\ present' = present
      /\ currentChannel' = currentChannel
  BY DEF Close, page
<1>2. heard' \in {None, heard}
  BY DEF Close
<1>3. SmallType'
  BY <1>1, <1>2 DEF SmallType
<1>4. ASSUME heard' # None PROVE heard = joined /\ currentChannel = heard
  <2>1. \A i \in 1..Len(queue) : queue[i].kind # Joining
    BY <1>4 DEF Close, Joining
  <2>2. heard # None /\ heard = joined /\ Before(queue, currentChannel, Len(queue) + 1, heard)
    BY <1>2, <1>4 DEF Tracked
  <2>3. \A j \in 1..Len(queue) : SwitchTo(queue[j]) # heard
    BY <2>1, <2>2 DEF SwitchTo
  <2> QED BY <2>2, <2>3 DEF Before
<1>5. heard' # None => heard' = joined' /\ Before(queue', currentChannel', Len(queue') + 1, heard')
  BY <1>1, <1>2, <1>4 DEF Before
<1> QED BY <1>1, <1>3, <1>5 DEF Tracked

LEMMA DispatchTracked == IInv /\ Dispatch => IInv'
  <1> SUFFICES ASSUME IInv, Dispatch PROVE IInv'
    OBVIOUS
  <1> USE DEF IInv
  <1>1. /\ queue \in Seq(Events) /\ queue # <<>> /\ Len(queue) \in Nat \ {0}
        /\ queue' = Tail(queue) /\ queue' \in Seq(Events)
        /\ Len(queue') = Len(queue) - 1
        /\ \A k \in 1..Len(queue') : queue'[k] = queue[k + 1] /\ k + 1 \in 1..Len(queue)
        /\ joined' = joined /\ heard' = heard /\ present' = present
        /\ objects' = objects /\ closed' = closed
    BY DEF SmallType, Dispatch, sdk, handlers
  <1>2. currentChannel' = IF Switches(Head(queue)) THEN SwitchTo(Head(queue))
                          ELSE currentChannel
    <2> USE DEF Task, Switches, SwitchTo, Joining, Leaving
    <2>1. CASE OnJoinChannelSuccess
      BY <2>1 DEF OnJoinChannelSuccess
    <2>2. CASE OnLeaveChannel
      BY <2>2 DEF OnLeaveChannel
    <2>3. CASE OnUserOffline
      BY <2>3 DEF OnUserOffline
    <2>4. CASE OnSourceUserOffline
      BY <2>4 DEF OnSourceUserOffline
    <2>5. CASE OnChannelUserOffline
      BY <2>5 DEF OnChannelUserOffline
    <2>6. CASE OnOther
      BY <2>6 DEF OnOther, Special
    <2> QED BY <2>1, <2>2, <2>3, <2>4, <2>5, <2>6 DEF Dispatch
  <1>3. SmallType'
    BY <1>1 DEF SmallType
  <1>4. ASSUME heard # None
        PROVE  heard = joined /\ Before(queue', currentChannel', Len(queue') + 1, heard)
    <2>1. heard = joined /\ Before(queue, currentChannel, Len(queue) + 1, heard)
      BY <1>4 DEF Tracked
    <2>2. Len(queue) \in 1..Len(queue) /\ Len(queue') + 1 = Len(queue)
      BY <1>1
    <2>3. Before(Tail(queue), currentChannel', Len(queue), heard)
      BY <2>1, <2>2, <1>1, <1>2, TailBefore
    <2> QED BY <2>1, <2>2, <2>3, <1>1
  <1>5. ASSUME NEW i \in 1..Len(queue'), queue'[i].kind = Offline, queue'[i].channel # None
        PROVE  Before(queue', currentChannel', i, queue'[i].channel)
    <2>1. queue'[i] = queue[i + 1] /\ i + 1 \in 1..Len(queue) /\ i \in 1..Len(queue)
      BY <1>1
    <2>2. Before(queue, currentChannel, i + 1, queue[i + 1].channel)
      BY <2>1, <1>5 DEF Tracked
    <2>3. Before(Tail(queue), currentChannel', i, queue[i + 1].channel)
      BY <2>1, <2>2, <1>1, <1>2, TailBefore
    <2> QED BY <2>1, <2>2, <2>3, <1>1
  <1>6. ~closed
    BY <1>1 DEF Tracked
  <1> QED BY <1>1, <1>3, <1>4, <1>5, <1>6 DEF Tracked

LEMMA StepTracked == IInv /\ [Next]_vars => IInv'
  <1> SUFFICES ASSUME IInv, [Next]_vars PROVE IInv'
    OBVIOUS
  <1>same. ASSUME UNCHANGED <<sdk, handlers, queue, currentChannel>> PROVE IInv'
    <2>1. /\ joined' = joined /\ heard' = heard /\ present' = present
          /\ objects' = objects /\ closed' = closed
          /\ queue' = queue /\ currentChannel' = currentChannel
      BY <1>same DEF sdk, handlers
    <2>2. SmallType'
      BY <2>1 DEF IInv, SmallType
    <2>3. Tracked'
      BY <2>1 DEF IInv, Tracked, Before, Switches, SwitchTo
    <2> QED BY <2>2, <2>3 DEF IInv
  <1>type. /\ joined \in Channels \cup {None} /\ heard \in Channels \cup {None}
           /\ present \subseteq Users
           /\ objects \subseteq Channels /\ closed \in BOOLEAN
           /\ heard # None => heard = joined
    BY DEF IInv, SmallType, Tracked
  <1> USE DEF Event, Special, Switches, SwitchTo, Joining, Leaving, Offline, Events, sdk
  <1>1. ASSUME NEW c \in Channels, JoinSucceeds(c) PROVE IInv'
    <2>1. Event("call_back", "joinChannelSuccess", None, c) \in Events
      OBVIOUS
    <2> QED BY <1>1, <2>1, <1>type, PushTracked DEF JoinSucceeds
  <1>2. CASE Leaves
    <2>1. Event("call_back", "leaveChannel", None, None) \in Events
      BY <1>type
    <2> QED BY <1>2, <2>1, <1>type, PushTracked DEF Leaves
  <1>3. ASSUME NEW u \in Users, UserJoins(u) PROVE IInv'
    <2>1. Event("call_back", "userJoined", u, None) \in Events
      BY <1>type
    <2> QED BY <1>3, <2>1, <1>type, PushTracked DEF UserJoins
  <1>4. ASSUME NEW u \in Users, UserLeaves(u) PROVE IInv'
    <2>1. Event("call_back", "userOffline", u, heard) \in Events
      BY <1>type
    <2> QED BY <1>4, <2>1, <1>type, PushTracked DEF UserLeaves
  <1>5. ASSUME NEW u \in Users, NEW c \in Channels, ChannelUserLeaves(u, c) PROVE IInv'
    <2>1. Event("channel_call_back", "userOffline", u, c) \in Events
      OBVIOUS
    <2> QED BY <1>5, <2>1, <1>type, PushTracked DEF ChannelUserLeaves
  <1>6. ASSUME NEW u \in Users, SourceUserLeaves(u) PROVE IInv'
    <2>1. Event("video_source_call_back", "userOffline", u, None) \in Events
      OBVIOUS
    <2> QED BY <1>6, <2>1, <1>type, PushTracked DEF SourceUserLeaves
  <1>7. ASSUME NEW kind \in Kinds \ Special, OtherEvent(kind) PROVE IInv'
    <2>1. /\ [kind |-> kind, user |-> None, channel |-> None] \in Events
          /\ ~Switches([kind |-> kind, user |-> None, channel |-> None])
          /\ kind # Offline
      OBVIOUS
    <2> QED BY <1>7, <2>1, <1>type, PushTracked DEF OtherEvent
  <1>8. ASSUME NEW u \in Users, NEW c \in Channels \cup {None},
               SetView(u, c) \/ DestroyRenderer(u, c)
        PROVE  IInv'
    BY <1>8, <1>same DEF SetView, DestroyRenderer
  <1>9. ASSUME NEW c \in Channels, CreateChannel(c) \/ ReleaseChannel(c) PROVE IInv'
    BY <1>9, <1>type, CloseTracked DEF CreateChannel, ReleaseChannel
  <1>10. CASE Dispatch
    BY <1>10, DispatchTracked
  <1>11. CASE Hear
    BY <1>11, <1>same DEF Hear
  <1>12. CASE UNCHANGED vars
    BY <1>12, <1>same DEF vars, page
  <1> QED BY <1>1, <1>2, <1>3, <1>4, <1>5, <1>6, <1>7, <1>8, <1>9, <1>10, <1>11, <1>12 DEF Next

LEMMA Invariant == Spec => []IInv
  BY InitTracked, StepTracked, PTL DEF Spec

\* Whenever nothing is pending, _info.currentChannel is the channel that the SDK
\* is in (index.ts 251, 274), if the event that announced it was not lost.
THEOREM Following == Spec => []ChannelFollows
  <1>1. IInv => ChannelFollows
    <2> SUFFICES ASSUME IInv, queue = <<>>, heard # None PROVE currentChannel = joined
      BY DEF ChannelFollows
    <2>1. /\ heard = joined /\ Before(queue, currentChannel, Len(queue) + 1, heard)
          /\ 1..Len(queue) = {}
      BY DEF IInv, Tracked
    <2> QED BY <2>1 DEF Before
  <1> QED BY <1>1, Invariant, PTL

LEMMA OfflineNow == IInv => OfflineInItsChannel
<1> SUFFICES ASSUME IInv, queue # <<>>, Task.kind = Offline, Task.channel # None
             PROVE  currentChannel = Task.channel
  BY DEF OfflineInItsChannel, Offline
<1>1. 1 \in 1..Len(queue) /\ Task = queue[1] /\ Len(queue) \in Nat
  BY DEF IInv, SmallType, Task
<1>2. Before(queue, currentChannel, 1, queue[1].channel)
  BY <1>1 DEF IInv, Tracked
<1>3. \A j \in 1..Len(queue) : ~(j < 1)
  BY <1>1
<1> QED BY <1>1, <1>2, <1>3 DEF Before

\* The channel that onUserOffline takes for the user it names is the one the
\* user was in (index.ts 299-315), if the event of joining it was not lost.
THEOREM OfflineChannel == Spec => []OfflineInItsChannel
  BY OfflineNow, Invariant, PTL

\* Only a dispatch takes the first event out of the queue and leaves the handlers.
LEMMA OnlyDispatch ==
  ASSUME IInv, [Next]_vars, Dispatched
  PROVE  Dispatch
<1> USE DEF Dispatched
<1>1. queue \in Seq(Events) /\ Len(queue) \in Nat \ {0} /\ Len(Tail(queue)) = Len(queue) - 1
  BY DEF IInv, SmallType
<1>2. queue' # queue
  <2>1. Len(Tail(queue)) # Len(queue)
    <3>1. \A n \in Nat \ {0} : n - 1 # n
      OBVIOUS
    <3> QED BY <3>1, <1>1, Zenon
  <2>2. ASSUME NEW q, q = queue PROVE Len(q) = Len(queue)
    BY <2>2
  <2> QED BY <2>1, <2>2, Zenon
<1>3. ASSUME NEW e, Push(e) PROVE FALSE
  <2> DEFINE More == Events \cup {e}
  <2>1. queue \in Seq(More) /\ e \in More
    BY <1>1
  <2> HIDE DEF More
  <2>2. Len(Append(queue, e)) = Len(queue) + 1
    BY <2>1
  <2>3. Append(queue, e) = Tail(queue)
    BY <1>2, <1>3 DEF Push
  <2>4. Len(queue) + 1 = Len(queue) - 1
    BY <2>2, <2>3, <1>1, Zenon
  <2> QED BY <2>4, <1>1
<1>4. ~UNCHANGED vars /\ ~Hear
  BY <1>2 DEF vars, Hear
<1>5. \A u \in Users, c \in Channels \cup {None} : ~SetView(u, c) /\ ~DestroyRenderer(u, c)
  BY <1>2 DEF SetView, DestroyRenderer
<1>6. ~Leaves /\ \A c \in Channels : ~JoinSucceeds(c)
  BY <1>3 DEF Leaves, JoinSucceeds
<1>7. \A u \in Users : ~UserJoins(u) /\ ~UserLeaves(u)
  BY <1>3 DEF UserJoins, UserLeaves
<1>8. \A u \in Users : ~SourceUserLeaves(u) /\ \A c \in Channels : ~ChannelUserLeaves(u, c)
  BY <1>3 DEF ChannelUserLeaves, SourceUserLeaves
<1>9. \A kind \in Kinds \ Special : ~OtherEvent(kind)
  BY <1>3 DEF OtherEvent
<1>10. \A c \in Channels : ~CreateChannel(c) /\ ~ReleaseChannel(c)
  BY DEF CreateChannel, ReleaseChannel
<1> QED BY <1>4, <1>5, <1>6, <1>7, <1>8, <1>9, <1>10 DEF Next

\* A dispatched offline event of the engine takes the view its user had in the
\* channel it was raised in, and no other, if the event of joining that channel
\* was not lost; that of a channel takes no view of another user or of another
\* channel (index.ts 299-315, 11993-12003).
THEOREM OfflineView == Spec => OfflineTakesItsView
  <1>1. ASSUME IInv, [Next]_vars, Dispatched
        PROVE  /\ Task.kind = Offline /\ Task.channel # None
                    => views \ views' = views \cap {<<Task.user, Task.channel>>}
               /\ Task.kind = <<"channel_call_back", "userOffline">>
                    => views \ views' \subseteq {<<Task.user, Task.channel>>, <<Task.user, None>>}
    <2>1. Dispatch
      BY <1>1, OnlyDispatch
    <2>2. ASSUME Task.kind = Offline, Task.channel # None
          PROVE  views \ views' = views \cap {<<Task.user, Task.channel>>}
      <3>1. currentChannel = Task.channel
        BY <1>1, <2>2, OfflineNow DEF OfflineInItsChannel, Dispatched, Offline
      <3>2. OnUserOffline
        BY <2>1, <2>2 DEF Dispatch, OnJoinChannelSuccess, OnLeaveChannel,
           OnSourceUserOffline, OnChannelUserOffline, OnOther, Offline, Special
      <3>3. views' = views \ {<<Task.user, Task.channel>>}
        BY <2>2, <3>1, <3>2 DEF OnUserOffline, RemoveRenderer
      <3> QED BY <3>3
    <2>3. ASSUME Task.kind = <<"channel_call_back", "userOffline">>
          PROVE  views \ views' \subseteq {<<Task.user, Task.channel>>, <<Task.user, None>>}
      <3>1. OnChannelUserOffline
        BY <2>1, <2>3 DEF Dispatch, OnJoinChannelSuccess, OnLeaveChannel,
           OnUserOffline, OnSourceUserOffline, OnOther, Special
      <3>2. \/ views' = views \ {<<Task.user, Task.channel>>}
            \/ views' = views \ {<<Task.user, None>>}
        BY <3>1 DEF OnChannelUserOffline, RemoveRenderer
      <3> QED BY <3>2
    <2> QED BY <2>2, <2>3
  <1>2. IInv /\ [Next]_vars =>
          [Dispatched =>
             LET lost == views \ views'
             IN /\ Task.kind = <<"call_back", "userOffline">> /\ Task.channel # None
                     => lost = views \cap {<<Task.user, Task.channel>>}
                /\ Task.kind = <<"channel_call_back", "userOffline">>
                     => lost \subseteq {<<Task.user, Task.channel>>, <<Task.user, None>>}]_vars
    BY <1>1 DEF Offline
  <1> QED BY <1>2, Invariant, PTL DEF Spec, OfflineTakesItsView

\* What the JavaScript thread keeps.
HeardType ==
  /\ immediates \in Seq([event : Events, listeners : SUBSET Fired])
  /\ currentChannel \in Channels \cup {None}
  /\ views \subseteq Users \X (Channels \cup {None})

LEMMA DispatchType == SmallType /\ HeardType /\ Dispatch => HeardType'
  <1> SUFFICES ASSUME SmallType, HeardType, Dispatch PROVE HeardType'
    OBVIOUS
  <1>1. Task \in Events
    BY DEF SmallType, Dispatch, Task
  <1>2. /\ Listeners(Task.kind) \subseteq Fired
        /\ {<<"engine", "userOffline">>} \subseteq Fired
    BY <1>1 DEF Fired, Events
  <1>3. ASSUME NEW l \in SUBSET Fired, FireEvent(l)
        PROVE  immediates' \in Seq([event : Events, listeners : SUBSET Fired])
    <2>1. [event |-> Task, listeners |-> l] \in [event : Events, listeners : SUBSET Fired]
      BY <1>1
    <2> DEFINE Calls == [event : Events, listeners : SUBSET Fired]
    <2>2. immediates \in Seq(Calls)
      BY DEF HeardType
    <2> HIDE DEF Calls
    <2>3. \A c \in Calls : Append(immediates, c) \in Seq(Calls)
      BY <2>2
    <2> QED BY <2>1, <2>2, <2>3, <1>3 DEF FireEvent, Calls
  <1>4. Task.channel \in Channels \cup {None} /\ Task.user \in Users \cup {None}
    BY <1>1 DEF Events
  <1> USE DEF HeardType, RemoveRenderer
  <1>5. CASE OnJoinChannelSuccess
    BY <1>2, <1>3, <1>4, <1>5 DEF OnJoinChannelSuccess
  <1>6. CASE OnLeaveChannel
    BY <1>2, <1>3, <1>6 DEF OnLeaveChannel
  <1>7. CASE OnUserOffline
    <2>1. immediates' \in Seq([event : Events, listeners : SUBSET Fired])
      <3>1. CASE FireEvent({<<"engine", "userOffline">>})
        BY <3>1, <1>2, <1>3
      <3>2. CASE FireEvent(Listeners(Task.kind))
        BY <3>2, <1>2, <1>3
      <3> QED BY <3>1, <3>2, <1>7 DEF OnUserOffline
    <2>2. views' = views \/ views' = views \ {<<Task.user, currentChannel>>}
      BY <1>7 DEF OnUserOffline
    <2> QED BY <2>1, <2>2, <1>7 DEF OnUserOffline
  <1>8. CASE OnSourceUserOffline
    BY <1>2, <1>3, <1>8 DEF OnSourceUserOffline
  <1>9. CASE OnChannelUserOffline
    BY <1>2, <1>3, <1>9 DEF OnChannelUserOffline
  <1>10. CASE OnOther
    BY <1>2, <1>3, <1>10 DEF OnOther
  <1> QED BY <1>5, <1>6, <1>7, <1>8, <1>9, <1>10 DEF Dispatch

LEMMA HeardTyped == Spec => []HeardType
  <1>1. Init => HeardType
    BY DEF Init, HeardType
  <1>2. IInv /\ HeardType /\ [Next]_vars => HeardType'
    <2> SUFFICES ASSUME IInv, HeardType, [Next]_vars PROVE HeardType'
      OBVIOUS
    <2>1. ASSUME NEW e, Push(e) PROVE HeardType'
      BY <2>1 DEF Push, page, HeardType
    <2>2. ASSUME NEW u \in Users, NEW c \in Channels \cup {None},
                 SetView(u, c) \/ DestroyRenderer(u, c)
          PROVE  HeardType'
      BY <2>2 DEF SetView, DestroyRenderer, RemoveRenderer, HeardType
    <2>3. CASE Hear
      BY <2>3 DEF Hear, HeardType
    <2>4. CASE Dispatch
      BY <2>4, DispatchType DEF IInv
    <2>5. CASE UNCHANGED vars
      BY <2>5 DEF vars, page, HeardType
    <2>6. ASSUME NEW shut, Close(shut) PROVE HeardType'
      BY <2>6 DEF Close, page, HeardType
    <2> QED BY <2>1, <2>2, <2>3, <2>4, <2>5, <2>6 DEF Next, CreateChannel, ReleaseChannel, JoinSucceeds, Leaves,
          UserJoins, UserLeaves, ChannelUserLeaves, SourceUserLeaves, OtherEvent
  <1> QED BY <1>1, <1>2, Invariant, PTL DEF Spec

\* Every variable keeps the values it is meant to have.
THEOREM Typed == Spec => []TypeOK
  <1>1. IInv /\ HeardType => TypeOK
    BY DEF IInv, SmallType, HeardType, TypeOK, Events
  <1> QED BY <1>1, HeardTyped, Invariant, PTL

(***************************************************************************)
(* The tables: what each case of the switches fires, and who may hear it.  *)
(***************************************************************************)
\* A table whose rows all lie in S.
TableIn(table, S) == \A e \in DOMAIN table : table[e] \subseteq S

LEMMA MergeIn ==
  ASSUME NEW f, NEW g, NEW S, TableIn(f, S), TableIn(g, S)
  PROVE  TableIn(f @@ g, S)
BY DEF TableIn, @@

LEMMA JoinedIn ==
  ASSUME NEW tables, NEW S, \A t \in tables : TableIn(t, S)
  PROVE  TableIn(Joined(tables), S)
<1>. SUFFICES ASSUME NEW e \in UNION {DOMAIN t : t \in tables}
             PROVE  Joined(tables)[e] \subseteq S
  BY DEF TableIn, Joined
<1>1. \E t \in tables : e \in DOMAIN t
  OBVIOUS
<1>2. PICK t \in tables : e \in DOMAIN t /\ Joined(tables)[e] = t[e]
  BY <1>1 DEF Joined
<1>. QED
  BY <1>2 DEF TableIn

LEMMA CaseIn ==
  ASSUME NEW name, NEW S, NEW listeners, listeners \subseteq S
  PROVE  TableIn(name :> listeners, S)
BY DEF TableIn, :>

LEMMA FireIn ==
  ASSUME NEW family, NEW S, NEW events, \A e \in events : <<family, e>> \in S
  PROVE  TableIn(Fire(family, events), S)
BY DEF TableIn, Fire

\* What an event of a callback may call.
Rightful(callback) ==
  {l \in Declared \cup Undeclared :
     l[1] = Family(callback) \/ (callback = "video_source_call_back" /\ l \in Strays)}

LEMMA FamilyOf ==
  /\ Family("call_back") = "engine" /\ Family("call_back_with_buffer") = "engine"
  /\ Family("video_source_call_back") = "videoSource"
  /\ Family("channel_call_back") = "channel"
  /\ Family("channel_call_back_with_buffer") = "channel"
BY DEF Family

\* The parts of the declarations.
LEMMA PartsDeclared ==
  /\ DeclaredEngine1 \subseteq Declared /\ DeclaredEngine2 \subseteq Declared
  /\ DeclaredEngine3 \subseteq Declared /\ DeclaredEngine4 \subseteq Declared
  /\ DeclaredEngine5 \subseteq Declared /\ DeclaredEngine6 \subseteq Declared
  /\ DeclaredEngine7 \subseteq Declared /\ DeclaredEngine8 \subseteq Declared
  /\ DeclaredEngine9 \subseteq Declared /\ DeclaredEngine10 \subseteq Declared
  /\ DeclaredEngine11 \subseteq Declared /\ DeclaredEngine12 \subseteq Declared
  /\ DeclaredEngine13 \subseteq Declared /\ DeclaredEngine14 \subseteq Declared
  /\ DeclaredEngine15 \subseteq Declared /\ DeclaredEngine16 \subseteq Declared
  /\ DeclaredEngine17 \subseteq Declared /\ DeclaredEngine18 \subseteq Declared
  /\ DeclaredEngine19 \subseteq Declared /\ DeclaredEngine20 \subseteq Declared
  /\ DeclaredEngine21 \subseteq Declared /\ DeclaredEngine22 \subseteq Declared
  /\ DeclaredEngine23 \subseteq Declared /\ DeclaredEngine24 \subseteq Declared
  /\ DeclaredEngine25 \subseteq Declared /\ DeclaredEngine26 \subseteq Declared
  /\ DeclaredChannel1 \subseteq Declared /\ DeclaredChannel2 \subseteq Declared
  /\ DeclaredChannel3 \subseteq Declared /\ DeclaredChannel4 \subseteq Declared
BY DEF Declared, DeclaredEngine, DeclaredChannel

\* What each switch fires.
LEMMA EngineTable == TableIn(EngineEvents, Rightful("call_back"))
<1>. DEFINE S == Rightful("call_back")
<1>1. \A l \in Declared \cup Undeclared : l[1] = "engine" => l \in S
  BY FamilyOf DEF Rightful
<1>. HIDE DEF S
<1>2. TableIn(EngineEvents1, S)
  BY <1>1, PartsDeclared, MergeIn, CaseIn, FireIn
     DEF EngineEvents1, Undeclared, DeclaredEngine1, DeclaredEngine2, DeclaredEngine3,
         DeclaredEngine4, DeclaredEngine5
<1>3. TableIn(EngineEvents2, S)
  BY <1>1, PartsDeclared, MergeIn, CaseIn, FireIn
     DEF EngineEvents2, Undeclared, DeclaredEngine1, DeclaredEngine2, DeclaredEngine4,
         DeclaredEngine5, DeclaredEngine7, DeclaredEngine8
<1>4. TableIn(EngineEvents3, S)
  BY <1>1, PartsDeclared, MergeIn, CaseIn, FireIn
     DEF EngineEvents3, Undeclared, DeclaredEngine4, DeclaredEngine5, DeclaredEngine9,
         DeclaredEngine11
<1>5. TableIn(EngineEvents4, S)
  BY <1>1, PartsDeclared, MergeIn, CaseIn, FireIn
     DEF EngineEvents4, DeclaredEngine2, DeclaredEngine3, DeclaredEngine4,
         DeclaredEngine5, DeclaredEngine8
<1>6. TableIn(EngineEvents5, S)
  BY <1>1, PartsDeclared, MergeIn, CaseIn, FireIn
     DEF EngineEvents5, DeclaredEngine2, DeclaredEngine3, DeclaredEngine4,
         DeclaredEngine5, DeclaredEngine7
<1>7. TableIn(EngineEvents6, S)
  BY <1>1, PartsDeclared, MergeIn, CaseIn, FireIn
     DEF EngineEvents6, Undeclared, DeclaredEngine4, DeclaredEngine8, DeclaredEngine14
<1>8. TableIn(EngineEvents7, S)
  BY <1>1, PartsDeclared, MergeIn, CaseIn, FireIn
     DEF EngineEvents7, Undeclared, DeclaredEngine1, DeclaredEngine6, DeclaredEngine15
<1>. QED
  BY <1>2, <1>3, <1>4, <1>5, <1>6, <1>7, <1>8, JoinedIn
     DEF EngineEvents, S

LEMMA EngineBufferTable == TableIn(EngineBufferEvents, Rightful("call_back_with_buffer"))
<1>. DEFINE S == Rightful("call_back_with_buffer")
<1>1. \A l \in Declared \cup Undeclared : l[1] = "engine" => l \in S
  BY FamilyOf DEF Rightful
<1>. HIDE DEF S
<1>2. TableIn(EngineBufferEvents, S)
  BY <1>1, PartsDeclared, MergeIn, CaseIn, FireIn
     DEF EngineBufferEvents, Undeclared, DeclaredEngine4
<1>. QED
  BY <1>2 DEF S

LEMMA SourceTable == TableIn(SourceEvents, Rightful("video_source_call_back"))
<1>. DEFINE S == Rightful("video_source_call_back")
<1>1. \A l \in Declared \cup Undeclared : l[1] = "videoSource" \/ l \in Strays => l \in S
  BY FamilyOf DEF Rightful
<1>. HIDE DEF S
<1>2. TableIn(SourceEvents1, S)
  BY <1>1, PartsDeclared, MergeIn, CaseIn, FireIn
     DEF SourceEvents1, Undeclared, DeclaredEngine5, DeclaredEngine17, DeclaredEngine20,
         DeclaredEngine21, DeclaredEngine22
<1>3. TableIn(SourceEvents2, S)
  BY <1>1, PartsDeclared, MergeIn, CaseIn, FireIn
     DEF SourceEvents2, Undeclared, DeclaredEngine18, DeclaredEngine19,
         DeclaredEngine24, DeclaredEngine25
<1>4. TableIn(SourceEvents3, S)
  BY <1>1, PartsDeclared, MergeIn, CaseIn, FireIn
     DEF SourceEvents3, Undeclared, Strays, DeclaredEngine17, DeclaredEngine19,
         DeclaredEngine20, DeclaredEngine21, DeclaredEngine25, DeclaredEngine26
<1>5. TableIn(SourceEvents4, S)
  BY <1>1, PartsDeclared, MergeIn, CaseIn, FireIn
     DEF SourceEvents4, Strays, DeclaredEngine2, DeclaredEngine13, DeclaredEngine18,
         DeclaredEngine20, DeclaredEngine22
<1>6. TableIn(SourceEvents5, S)
  BY <1>1, PartsDeclared, MergeIn, CaseIn, FireIn
     DEF SourceEvents5, Undeclared, Strays, DeclaredEngine5, DeclaredEngine7,
         DeclaredEngine18, DeclaredEngine20, DeclaredEngine21, DeclaredEngine25
<1>7. TableIn(SourceEvents6, S)
  BY <1>1, PartsDeclared, MergeIn, CaseIn, FireIn
     DEF SourceEvents6, Undeclared, DeclaredEngine18, DeclaredEngine21,
         DeclaredEngine22, DeclaredEngine23, DeclaredEngine25
<1>8. TableIn(SourceEvents7, S)
  BY <1>1, PartsDeclared, MergeIn, CaseIn, FireIn
     DEF SourceEvents7, Undeclared, DeclaredEngine23, DeclaredEngine24
<1>. QED
  BY <1>2, <1>3, <1>4, <1>5, <1>6, <1>7, <1>8, JoinedIn
     DEF SourceEvents, S

LEMMA ChannelTable == TableIn(ChannelEvents, Rightful("channel_call_back"))
<1>. DEFINE S == Rightful("channel_call_back")
<1>1. \A l \in Declared \cup Undeclared : l[1] = "channel" => l \in S
  BY FamilyOf DEF Rightful
<1>. HIDE DEF S
<1>2. TableIn(ChannelEvents1, S)
  BY <1>1, PartsDeclared, MergeIn, CaseIn, FireIn
     DEF ChannelEvents1, Undeclared, DeclaredChannel1, DeclaredChannel2
<1>3. TableIn(ChannelEvents2, S)
  BY <1>1, PartsDeclared, MergeIn, CaseIn, FireIn
     DEF ChannelEvents2, Undeclared, DeclaredChannel2, DeclaredChannel4
<1>4. TableIn(ChannelEvents3, S)
  BY <1>1, PartsDeclared, MergeIn, CaseIn, FireIn
     DEF ChannelEvents3, Undeclared, DeclaredChannel2, DeclaredChannel3
<1>5. TableIn(ChannelEvents4, S)
  BY <1>1, PartsDeclared, MergeIn, CaseIn, FireIn
     DEF ChannelEvents4, Undeclared, DeclaredChannel4
<1>. QED
  BY <1>2, <1>3, <1>4, <1>5, JoinedIn
     DEF ChannelEvents, S

LEMMA ChannelBufferTable == TableIn(ChannelBufferEvents, Rightful("channel_call_back_with_buffer"))
<1>. DEFINE S == Rightful("channel_call_back_with_buffer")
<1>1. \A l \in Declared \cup Undeclared : l[1] = "channel" => l \in S
  BY FamilyOf DEF Rightful
<1>. HIDE DEF S
<1>2. TableIn(ChannelBufferEvents, S)
  BY <1>1, PartsDeclared, MergeIn, CaseIn, FireIn
     DEF ChannelBufferEvents, DeclaredChannel3
<1>. QED
  BY <1>2 DEF S

LEMMA TableOf ==
  /\ Table("call_back") = EngineEvents
  /\ Table("call_back_with_buffer") = EngineBufferEvents
  /\ Table("video_source_call_back") = SourceEvents
  /\ Table("channel_call_back") = ChannelEvents
  /\ Table("channel_call_back_with_buffer") = ChannelBufferEvents
BY DEF Table

LEMMA KeptJoined ==
  ASSUME NEW tables, NEW t \in tables, NEW e \in DOMAIN t
  PROVE  e \in DOMAIN Joined(tables)
BY DEF Joined

LEMMA Kept ==
  ASSUME NEW f, NEW g, NEW e, e \in DOMAIN f \cup DOMAIN g
  PROVE  e \in DOMAIN (f @@ g)
BY DEF @@

\* The switches have a case for each event that the SDK's actions raise.
LEMMA SpecialHandled ==
  ASSUME NEW kind \in Special
  PROVE  kind[1] \in Handled /\ kind[2] \in DOMAIN Table(kind[1])
<1>1. /\ {"joinChannelSuccess", "userOffline"} \subseteq DOMAIN EngineEvents
      /\ {"leaveChannel", "userJoined"} \subseteq DOMAIN EngineEvents
  <2>1. "joinChannelSuccess" \in DOMAIN EngineEvents1
    BY Kept DEF EngineEvents1, :>
  <2>2. "userOffline" \in DOMAIN EngineEvents1
    BY Kept DEF EngineEvents1, :>
  <2>3. "leaveChannel" \in DOMAIN EngineEvents1
    BY Kept DEF EngineEvents1, Fire
  <2>4. "userJoined" \in DOMAIN EngineEvents1
    BY Kept DEF EngineEvents1, Fire
  <2>. QED
    BY <2>1, <2>2, <2>3, <2>4, KeptJoined DEF EngineEvents
<1>2. "userOffline" \in DOMAIN SourceEvents
  <2>1. "userOffline" \in DOMAIN SourceEvents1
    BY Kept DEF SourceEvents1, Fire
  <2>. QED
    BY <2>1, KeptJoined DEF SourceEvents
<1>3. "userOffline" \in DOMAIN ChannelEvents
  <2>1. "userOffline" \in DOMAIN ChannelEvents1
    BY Kept DEF ChannelEvents1, Fire
  <2>. QED
    BY <2>1, KeptJoined DEF ChannelEvents
<1>. QED
  BY <1>1, <1>2, <1>3, TableOf DEF Special, Handled

\* Whatever an event calls, it may call.
LEMMA ListenersRightful ==
  ASSUME NEW kind \in Kinds \cup Special
  PROVE  Listeners(kind) \subseteq Rightful(kind[1])
<1>1. CASE kind \in Unmatched
  BY <1>1 DEF Listeners
<1>2. CASE kind \notin Unmatched
  <2>1. kind[1] \in Handled /\ kind[2] \in DOMAIN Table(kind[1])
    <3>1. CASE kind \in Special
      BY <3>1, SpecialHandled
    <3>2. CASE kind \notin Special
      <4>1. kind \in UNION {{cb} \X DOMAIN Table(cb) : cb \in Handled}
        BY <1>2, <3>2, Zenon DEF Kinds
      <4>2. PICK cb \in Handled : kind \in {cb} \X DOMAIN Table(cb)
        BY <4>1, Zenon
      <4>. QED
        BY <4>2
    <3>. QED
      BY <3>1, <3>2
  <2>2. TableIn(Table(kind[1]), Rightful(kind[1]))
    BY <2>1, TableOf, EngineTable, EngineBufferTable, SourceTable, ChannelTable,
       ChannelBufferTable DEF Handled
  <2>. QED
    BY <1>2, <2>1, <2>2 DEF Listeners, TableIn
<1>. QED
  BY <1>1, <1>2

LEMMA EarlyReturn == <<"engine", "userOffline">> \in Rightful("call_back")
<1>1. <<"engine", "userOffline">> \in Declared
  BY PartsDeclared DEF DeclaredEngine3
<1>. QED
  BY <1>1, FamilyOf DEF Rightful

\* A sequence with one more element, of whatever kind.
LEMMA AppendAny ==
  ASSUME NEW S, NEW s \in Seq(S), NEW x
  PROVE  /\ Len(Append(s, x)) = Len(s) + 1 /\ Len(s) \in Nat
         /\ \A i \in 1..Len(s) : Append(s, x)[i] = s[i]
         /\ Append(s, x)[Len(s) + 1] = x
<1>. DEFINE More == S \cup {x}
<1>1. s \in Seq(More) /\ x \in More
  OBVIOUS
<1>. HIDE DEF More
<1>. QED
  BY <1>1

\* What waits to be heard is called rightfully.
Calls == [event : Events, listeners : SUBSET Fired]
AllRightful == \A i \in 1..Len(immediates) :
                 immediates[i].listeners \subseteq Rightful(immediates[i].event.kind[1])

LEMMA RightfulStep ==
  ASSUME IInv, HeardType, AllRightful, [Next]_vars
  PROVE  AllRightful'
<1>. SUFFICES ASSUME ~UNCHANGED immediates PROVE AllRightful'
  BY DEF AllRightful
<1>1. immediates \in Seq(Calls)
  BY DEF HeardType, Calls
<1>2. CASE Hear
  <2>1. \A s \in Seq(Calls) : s # <<>> =>
          /\ Len(Tail(s)) = Len(s) - 1 /\ Len(s) \in Nat
          /\ \A i \in 1..Len(Tail(s)) : Tail(s)[i] = s[i + 1] /\ i + 1 \in 1..Len(s)
    OBVIOUS
  <2>. QED
    BY <1>1, <1>2, <2>1 DEF Hear, AllRightful
<1>3. ASSUME NEW l, l \subseteq Rightful(Task.kind[1]), FireEvent(l)
      PROVE  AllRightful'
  <2>1. CASE l = {}
    BY <1>3, <2>1 DEF FireEvent, AllRightful
  <2>2. CASE l # {}
    <3>. DEFINE c == [event |-> Task, listeners |-> l]
    <3>1. immediates' = Append(immediates, c)
      BY <1>3, <2>2 DEF FireEvent
    <3>2. /\ Len(immediates') = Len(immediates) + 1 /\ Len(immediates) \in Nat
          /\ \A i \in 1..Len(immediates) : immediates'[i] = immediates[i]
          /\ immediates'[Len(immediates) + 1] = c
      BY <1>1, <3>1, AppendAny
    <3>3. c.listeners \subseteq Rightful(c.event.kind[1])
      BY <1>3
    <3>4. \A i \in 1..Len(immediates') : i \in 1..Len(immediates) \/ i = Len(immediates) + 1
      BY <3>2
    <3>. HIDE DEF c
    <3>. QED
      BY <3>2, <3>3, <3>4 DEF AllRightful
  <2>. QED
    BY <2>1, <2>2
<1>4. CASE Dispatch
  <2>1. Task.kind \in Kinds \cup Special
    <3>1. Task \in Events
      BY <1>4 DEF Dispatch, Task, IInv, SmallType
    <3>. QED
      BY <3>1 DEF Events
  <2>2. Listeners(Task.kind) \subseteq Rightful(Task.kind[1])
    BY <2>1, ListenersRightful
  <2>3. CASE OnUserOffline
    <3>1. {<<"engine", "userOffline">>} \subseteq Rightful(Task.kind[1])
      BY <2>3, EarlyReturn DEF OnUserOffline
    <3>2. \/ FireEvent({<<"engine", "userOffline">>})
          \/ FireEvent(Listeners(Task.kind))
      BY <2>3 DEF OnUserOffline
    <3>. QED
      BY <1>3, <2>2, <3>1, <3>2
  <2>4. CASE ~OnUserOffline
    <3>1. FireEvent(Listeners(Task.kind))
      BY <1>4, <2>4 DEF Dispatch, OnJoinChannelSuccess, OnLeaveChannel, OnSourceUserOffline,
                        OnChannelUserOffline, OnOther
    <3>. QED
      BY <1>3, <2>2, <3>1
  <2>. QED
    BY <2>3, <2>4
<1>. QED
  BY <1>2, <1>4 DEF Next, vars, Push, JoinSucceeds, Leaves, UserJoins, UserLeaves,
                    ChannelUserLeaves, SourceUserLeaves, OtherEvent, SetView, DestroyRenderer,
                    CreateChannel, ReleaseChannel, Close, page

LEMMA Rightfully == Spec => []AllRightful
<1>1. Init => AllRightful
  BY DEF Init, AllRightful
<1>. QED
  BY <1>1, RightfulStep, Invariant, HeardTyped, PTL DEF Spec

\* KeptApart of ApiEvents: with the cases of the switches as they are written, no event of one
\* process or channel is heard by the listeners of another, the seven strays aside.
THEOREM Apart == Spec => []KeptApart
<1>1. AllRightful => KeptApart
  BY DEF AllRightful, KeptApart, Rightful
<1>. QED
  BY <1>1, Rightfully, PTL

\* Announced of ApiEvents: what the switches fire is declared, the listed names aside.
THEOREM OnlyAnnounced == Spec => []Announced
<1>1. AllRightful => Announced
  BY DEF AllRightful, Announced, Rightful
<1>. QED
  BY <1>1, Rightfully, PTL
=============================================================================
