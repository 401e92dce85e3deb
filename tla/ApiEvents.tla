------------------------------ MODULE ApiEvents ------------------------------
(* How an event of the SDK reaches the listeners of the application:         *)
(* initEventHandler of AgoraRtcEngine and AgoraRtcChannel, ts/Api/index.ts.  *)
(*                                                                           *)
(* A native event waits in the addon's queue for one of the six callbacks.   *)
(* The callback changes the engine's state at once, and calls the listeners  *)
(* one turn of the event loop later (setImmediate), so what a listener sees  *)
(* may be the work of later events.                                          *)
(*                                                                           *)
(* There is one queue for all: the handler of a channel that is created or   *)
(* released takes with it the events that wait there, those of the engine    *)
(* too.  How a push meets such a closing half-way is the subject of          *)
(* EventQueue, what the first frames do to a renderer of RendererManager; a  *)
(* renderer is here the fact that a user has a view.                         *)
EXTENDS ApiEventTables, Sequences, FiniteSets, Naturals

CONSTANTS
  Users,       \* remote users
  Channels,    \* names of channels
  None,        \* no channel, no user: "" and undefined in the code
  MaxPending,  \* bound: events raised and not yet heard
  MaxCalled,   \* bound: events whose listeners are to be called
  MaxObjects   \* bound: AgoraRtcChannels at a time

ASSUME BoundAssumption == {MaxPending, MaxCalled, MaxObjects} \subseteq Nat \ {0}
ASSUME NoneAssumption == None \notin Channels \cup Users

VARIABLES
  joined,          \* the channel the SDK's engine is in
  heard,           \* history: that channel, or None if its onJoinChannelSuccess was lost
  present,         \* the remote users the SDK has announced in that channel
  objects,         \* the channels that an AgoraRtcChannel has a handler for
  queue,           \* native events on their way to their callback
  closed,          \* closed_: events are refused
  immediates,      \* events whose listeners are to be called
  currentChannel,  \* _info.currentChannel
  views            \* the <<user, channel>> that have a view

sdk == <<joined, heard, present>>
handlers == <<objects, closed>>
page == <<immediates, currentChannel, views>>
vars == <<sdk, handlers, queue, page>>

\* The switch of each callback that the native side looks up by name; what a
\* channel's own handler looks up is marked with "channel_".
Table(callback) ==
  CASE callback = "call_back" -> EngineEvents
    [] callback = "call_back_with_buffer" -> EngineBufferEvents
    [] callback = "video_source_call_back" -> SourceEvents
    [] callback = "channel_call_back" -> ChannelEvents
    [] callback = "channel_call_back_with_buffer" -> ChannelBufferEvents

Handled == {"call_back", "call_back_with_buffer", "video_source_call_back",
            "channel_call_back", "channel_call_back_with_buffer"}

\* Events of the native side that no switch has a case for: a call that throws
\* in the video source or in a channel, and the messages with a buffer of the
\* video source, which index.ts awaits under another name.
Unmatched ==
  {<<"video_source_call_back", "videoSourceApiError">>,
   <<"channel_call_back", "apiError">>,
   <<"video_source_call_back_with_buffer", "streamMessage">>,
   <<"video_source_call_back_with_buffer", "metadataReceived">>}

Kinds == (UNION {{cb} \X DOMAIN Table(cb) : cb \in Handled}) \cup Unmatched

\* The listeners that an event calls.
Listeners(kind) ==
  IF kind \in Unmatched THEN {} ELSE Table(kind[1])[kind[2]]

\* The events the SDK's actions below raise, the others come from OtherEvent.
Special ==
  {<<"call_back", "joinChannelSuccess">>, <<"call_back", "leaveChannel">>,
   <<"call_back", "userJoined">>, <<"call_back", "userOffline">>,
   <<"video_source_call_back", "userOffline">>,
   <<"channel_call_back", "userOffline">>}

\* Whatever an event may call.
Fired == {<<"engine", "userOffline">>} \cup
         UNION {Listeners(kind) : kind \in Kinds \cup Special}

\* An event, with the channel it names.  onUserOffline of the engine names none:
\* there it is the one the user was in, if the engine has heard of that.
Event(callback, name, user, channel) ==
  [kind |-> <<callback, name>>, user |-> user, channel |-> channel]

\* The values of the variables.
TypeOK ==
  LET Events == [kind : Kinds \cup Special, user : Users \cup {None},
                 channel : Channels \cup {None}]
  IN /\ joined \in Channels \cup {None}
     /\ heard \in Channels \cup {None}
     /\ present \subseteq Users
     /\ objects \subseteq Channels /\ closed \in BOOLEAN
     /\ queue \in Seq(Events)
     /\ immediates \in Seq([event : Events, listeners : SUBSET Fired])
     /\ currentChannel \in Channels \cup {None}
     /\ views \subseteq Users \X (Channels \cup {None})

Init ==
  /\ joined = None /\ heard = None
  /\ present = {}
  /\ objects = {} /\ closed = FALSE
  /\ queue = <<>>
  /\ immediates = <<>>
  /\ currentChannel = None
  /\ views = {}

(***************************************************************************)
(* The SDK.                                                                *)
(***************************************************************************)
Push(event) ==
  /\ Len(queue) + Len(immediates) < MaxPending
  /\ queue' = IF closed THEN queue ELSE Append(queue, event)
  /\ UNCHANGED <<handlers, page>>

JoinSucceeds(c) ==
  /\ joined = None
  /\ joined' = c
  /\ heard' = IF closed THEN None ELSE c
  /\ Push(Event("call_back", "joinChannelSuccess", None, c))
  /\ UNCHANGED present

Leaves ==
  /\ joined # None
  /\ joined' = None /\ heard' = None
  /\ present' = {}
  /\ Push(Event("call_back", "leaveChannel", None, None))

UserJoins(u) ==
  /\ joined # None /\ u \notin present
  /\ present' = present \cup {u}
  /\ Push(Event("call_back", "userJoined", u, None))
  /\ UNCHANGED <<joined, heard>>

UserLeaves(u) ==
  /\ u \in present
  /\ present' = present \ {u}
  /\ Push(Event("call_back", "userOffline", u, heard))
  /\ UNCHANGED <<joined, heard>>

\* A channel of its own, joined through an AgoraRtcChannel, and the channel of
\* the video source.
ChannelUserLeaves(u, c) ==
  /\ c \in objects
  /\ Push(Event("channel_call_back", "userOffline", u, c))
  /\ UNCHANGED sdk

SourceUserLeaves(u) ==
  /\ Push(Event("video_source_call_back", "userOffline", u, None))
  /\ UNCHANGED sdk

\* The other events share no state with those above: one at a time, with
\* nothing else pending, shows all they do.
OtherEvent(kind) ==
  /\ queue = <<>> /\ immediates = <<>> /\ ~closed
  /\ kind[1] \in {"channel_call_back", "channel_call_back_with_buffer"} => objects # {}
  /\ Push([kind |-> kind, user |-> None, channel |-> None])
  /\ UNCHANGED sdk

(***************************************************************************)
(* The JavaScript thread.                                                  *)
(***************************************************************************)
\* Faulty variant of SetView: the key is put together the wrong way round.
SetViewSwapped(u, c) ==
  /\ views' = views \cup {<<c, u>>}
  /\ UNCHANGED <<sdk, handlers, queue, immediates, currentChannel>>

SetView(u, c) ==
  /\ views' = views \cup {<<u, c>>}
  /\ UNCHANGED <<sdk, handlers, queue, immediates, currentChannel>>

RemoveRenderer(user, channel) == views' = views \ {<<user, channel>>}

DestroyRenderer(u, c) ==
  /\ RemoveRenderer(u, c)
  /\ UNCHANGED <<sdk, handlers, queue, immediates, currentChannel>>

\* node_async_call::close, which every handler of an event calls when it is
\* made and when it goes: what waits in the queue is gone.
Close(shut) ==
  /\ queue' = <<>>
  /\ closed' = shut
  /\ heard' = IF \E i \in 1..Len(queue) :
                    queue[i].kind = <<"call_back", "joinChannelSuccess">>
              THEN None ELSE heard
  /\ UNCHANGED <<joined, present, page>>

\* One object for each channel at a time.
CreateChannel(c) ==
  /\ c \notin objects /\ Cardinality(objects) < MaxObjects
  /\ objects' = objects \cup {c}
  /\ Close(FALSE)

ReleaseChannel(c) ==
  /\ c \in objects
  /\ objects' = objects \ {c}
  /\ Close(TRUE)

Task == Head(queue)

\* fire: the listeners are called by a setImmediate of their own.
FireEvent(listeners) ==
  immediates' = IF listeners = {} THEN immediates
                ELSE Append(immediates, [event |-> Task, listeners |-> listeners])

\* Faulty variant of OnJoinChannelSuccess: the channel is only reported.
OnJoinChannelSuccessOnly ==
  /\ Task.kind = <<"call_back", "joinChannelSuccess">>
  /\ FireEvent(Listeners(Task.kind))
  /\ UNCHANGED <<currentChannel, views>>

OnJoinChannelSuccess ==
  /\ Task.kind = <<"call_back", "joinChannelSuccess">>
  /\ currentChannel' = Task.channel
  /\ FireEvent(Listeners(Task.kind))
  /\ UNCHANGED views

OnLeaveChannel ==
  /\ Task.kind = <<"call_back", "leaveChannel">>
  /\ currentChannel' = None
  /\ FireEvent(Listeners(Task.kind))
  /\ UNCHANGED views

\* Faulty variant of OnUserOffline: the view is looked up without a channel.
OnUserOfflineByUid ==
  /\ Task.kind = <<"call_back", "userOffline">>
  /\ FireEvent(Listeners(Task.kind))
  /\ RemoveRenderer(Task.user, None)
  /\ UNCHANGED currentChannel

\* The event does not name its channel: the current one is taken, and without
\* one the handler returns after the first of its two listeners.
OnUserOffline ==
  /\ Task.kind = <<"call_back", "userOffline">>
  /\ IF currentChannel = None
     THEN /\ FireEvent({<<"engine", "userOffline">>})
          /\ UNCHANGED views
     ELSE /\ FireEvent(Listeners(Task.kind))
          /\ RemoveRenderer(Task.user, currentChannel)
  /\ UNCHANGED currentChannel

OnSourceUserOffline ==
  /\ Task.kind = <<"video_source_call_back", "userOffline">>
  /\ FireEvent(Listeners(Task.kind))
  /\ RemoveRenderer(Task.user, None)
  /\ UNCHANGED currentChannel

\* The event names its channel, but the handler asks the SDK for it
\* (channelId), which answers the empty string when the call fails.
OnChannelUserOffline ==
  /\ Task.kind = <<"channel_call_back", "userOffline">>
  /\ FireEvent(Listeners(Task.kind))
  /\ \E channelId \in {Task.channel, None} : RemoveRenderer(Task.user, channelId)
  /\ UNCHANGED currentChannel

OnOther ==
  /\ Task.kind \notin Special \ {<<"call_back", "userJoined">>}
  /\ FireEvent(Listeners(Task.kind))
  /\ UNCHANGED <<views, currentChannel>>

\* One task of the queue: the callback with its switch.
Dispatch ==
  /\ queue # <<>> /\ Len(immediates) < MaxCalled
  /\ \/ OnJoinChannelSuccess \/ OnLeaveChannel \/ OnUserOffline
     \/ OnSourceUserOffline \/ OnChannelUserOffline \/ OnOther
  /\ queue' = Tail(queue)
  /\ UNCHANGED <<sdk, handlers>>

\* emit: the listeners run.
Hear ==
  /\ immediates # <<>>
  /\ immediates' = Tail(immediates)
  /\ UNCHANGED <<sdk, handlers, queue, currentChannel, views>>

Next ==
  \/ \E c \in Channels : JoinSucceeds(c)
  \/ Leaves
  \/ \E u \in Users : UserJoins(u) \/ UserLeaves(u) \/ SourceUserLeaves(u)
  \/ \E u \in Users, c \in Channels : ChannelUserLeaves(u, c)
  \/ \E kind \in Kinds \ Special : OtherEvent(kind)
  \/ \E u \in Users, c \in Channels \cup {None} : SetView(u, c) \/ DestroyRenderer(u, c)
  \/ \E c \in Channels : CreateChannel(c) \/ ReleaseChannel(c)
  \/ Dispatch
  \/ Hear

Spec == Init /\ [][Next]_vars

(***************************************************************************)
(* Properties.                                                             *)
(***************************************************************************)

\* When nothing is pending, the engine's idea of its channel is the SDK's,
\* unless the event that announced it was lost: the events of joining and
\* leaving have been applied in their order.  (When the onLeaveChannel is lost
\* the engine keeps a channel that the SDK has left, until the next is joined.)
ChannelFollows == queue = <<>> /\ heard # None => currentChannel = joined

\* onUserOffline carries no channel (index.ts 299): the one the engine takes for
\* it, when the event is dispatched at last, is the one that the user was in
\* when the event was raised, provided that the event of joining that channel
\* was not lost.  An onLeaveChannel that was lost does no harm.
OfflineInItsChannel ==
  (/\ queue # <<>>
   /\ Task.kind = <<"call_back", "userOffline">> /\ Task.channel # None)
    => currentChannel = Task.channel

\* An event is taken out of the queue to be dispatched, and not with a handler.
Dispatched == queue # <<>> /\ queue' = Tail(queue) /\ UNCHANGED objects

\* The dispatch of an offline event of the engine takes exactly the view that
\* this user had in that channel, whatever the application has joined, left,
\* set up and released in between, under the same proviso; that of a channel
\* takes at most the view of that user there, or the one without a channel.
OfflineTakesItsView ==
  [][Dispatched =>
       LET lost == views \ views'
       IN /\ Task.kind = <<"call_back", "userOffline">> /\ Task.channel # None
               => lost = views \cap {<<Task.user, Task.channel>>}
          /\ Task.kind = <<"channel_call_back", "userOffline">>
               => lost \subseteq {<<Task.user, Task.channel>>, <<Task.user, None>>}]_vars

Family(callback) ==
  CASE callback \in {"call_back", "call_back_with_buffer"} -> "engine"
    [] callback = "video_source_call_back" -> "videoSource"
    [] OTHER -> "channel"

\* Events of the video source that reach listeners of the main engine: their
\* cases were copied without renaming the listener (index.ts 1678, 1747, 1765,
\* 1789, 1818, 1843, 1871).
Strays ==
  {<<"engine", l>> : l \in
    {"addStream", "cameraFocusAreaChanged", "cameraExposureAreaChanged",
     "audioMixingStateChanged", "firstRemoteAudioDecoded",
     "localVideoStateChanged", "remoteVideoStateChanged"}}

\* An event of one process or channel is heard by the listeners of that process
\* or channel only, the strays aside.
KeptApart ==
  \A i \in 1..Len(immediates) :
    LET callback == immediates[i].event.kind[1]
    IN \A l \in immediates[i].listeners :
         \/ l[1] = Family(callback)
         \/ callback = "video_source_call_back" /\ l \in Strays

\* Names that the switches fire and the interfaces do not declare: some events
\* are not documented at all, others under another name (streamInjectStatus,
\* channelMediaRelayState, receiveMetadata, videoSourceJoinedSuccess).
Undeclared ==
  ({"engine", "videoSource"} \X
     {"audioQuality", "mediaEngineLoadSuccess", "userSuperResolutionEnabled",
      "channelMediaRelayStateChanged", "streamInjectedStatus",
      "audioRouteChanged", "networkTypeChanged"})
  \cup ({"engine"} \X {"removeStream", "addStream", "groupAudioVolumeIndication",
                       "metadataReceived"})
  \cup ({"videoSource"} \X {"joinedsuccess"})
  \cup ({"channel"} \X
     {"userSuperResolutionEnabled", "channelMediaRelayStateChanged",
      "rtmpStreamingEvent", "localPublishFallbackToAudioOnly",
      "connectionlost", "rtcstats", "networkquality"})

\* What is fired is a listener that the interfaces declare, with the exceptions
\* above: an application that registers what is declared misses nothing else.
Announced ==
  \A i \in 1..Len(immediates) :
    immediates[i].listeners \subseteq Declared \cup Undeclared

\* An event of a channel calls the listener that the interface declares for it.
\* False of the code: onRtcStats, onNetworkQuality and onConnectionLost fire
\* names in lower case.
ChannelListenersHear ==
  \A i \in 1..Len(immediates) :
    LET kind == immediates[i].event.kind
    IN (/\ kind[1] = "channel_call_back"
        /\ <<"channel", kind[2]>> \in Declared)
       => <<"channel", kind[2]>> \in immediates[i].listeners
=============================================================================
