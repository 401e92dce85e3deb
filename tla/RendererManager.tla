-------------------------- MODULE RendererManager --------------------------
(***************************************************************************)
(* The views of the application and the video streams drawn on them:       *)
(* ts/Renderer/RendererManager.ts with the methods and event handlers of   *)
(* ts/Api/index.ts that drive it.  Everything runs on the JavaScript       *)
(* thread, so a method, an event handler or one tick of the polling timer  *)
(* is one action.                                                          *)
(*                                                                         *)
(* A frame is abstracted to whether there is one: its size, the content    *)
(* mode and the mirroring do not change who draws what where.  A renderer  *)
(* is the view it is bound to and whether it has drawn.  Left to the       *)
(* environment are the streams (`live`) and the native frame cache         *)
(* (`enabled`), which are in the SDK and in the video source process.      *)
(***************************************************************************)
EXTENDS Integers, FiniteSets, Sequences

CONSTANTS
  Uids,          \* remote users
  Local,         \* the user "local"; also its uid, 0
  VideoSource,   \* the user "videoSource"; its uid is 0 too
  Default,       \* the channel ""
  Channels,      \* the channels that events name
  Arguments,     \* the channel arguments the application passes for remote users
  Undefined,     \* an argument that is left out
  Views,         \* elements of the page
  Fps,           \* polling rates
  DefaultFps,    \* the rate the manager starts with
  None,          \* no interval, no channel
  MaxRenderers   \* bound: renderers in the page

ASSUME FpsAssumption == DefaultFps \in Fps /\ None \notin Fps
ASSUME NamesAssumption == /\ Local \notin Uids /\ VideoSource \notin Uids
                          /\ Local # VideoSource /\ Default # Undefined
ASSUME BoundAssumption == MaxRenderers \in Nat

VARIABLES
  manager,     \* `_rendererManager` is defined
  renderers,   \* <<channel, user>> -> [render: renderers, cached: it has a cachedVideoFrame]
  interval,    \* videoFrameUpdateInterval: the rate it was started with, or None
  intervals,   \* how many timers of each rate really run
  videoFps,    \* _config.videoFps
  initialized, \* initializeWithContext was called
  containers,  \* for each view, the <div>s that renderers appended to it
  currentChannel, \* _info.currentChannel
  session,     \* the video source is initialised
  enabled,     \* the streams <<process, channel, uid>> whose frames are cached
  live,        \* the <<channel, user>> whose first frame was reported, and that still send
  received     \* the video source's frame cache of the main process holds a frame

vars == <<manager, renderers, interval, intervals, videoFps, initialized, containers,
          currentChannel, session, enabled, live, received>>
timers == <<interval, intervals, videoFps>>
outside == <<initialized, currentChannel, session, live, received>>

Users == Uids \cup {Local, VideoSource}

\* The channel a renderer may be set up for: "" for the two users without one.
ArgumentsOf(user) == IF user \in Uids THEN Arguments ELSE {Default}

\* The default parameter value of getRenderer and removeRenderer, and the `?:` of their callers.
Named(channelId) == IF channelId = Undefined THEN Default ELSE channelId

userToUid(user) == IF user = VideoSource THEN Local ELSE user

\* The stream that enableVideoFrameCache and disableVideoFrameCache name.
Stream(user, channelId) ==
  <<IF user = VideoSource THEN "SCREEN_SHARE" ELSE "MAIN", channelId, userToUid(user)>>

\* A message to the video source is sent only while there is one (video_source_proxy.cpp:183).
Reaches(user) == user = VideoSource => session

Enable(streams, user, channelId) ==
  IF Reaches(user) THEN streams \cup {Stream(user, channelId)} ELSE streams

Disable(streams, user, channelId) ==
  IF Reaches(user) THEN streams \ {Stream(user, channelId)} ELSE streams

NoEntries == [k \in {} |-> {}]

Without(entries, key) == [k \in DOMAIN entries \ {key} |-> entries[k]]

With(entries, key, entry) ==
  [k \in DOMAIN entries \cup {key} |-> IF k = key THEN entry ELSE entries[k]]

\* The renderers that the entries under some keys have bound to a view.
Bound(entries, keys, view) ==
  {p \in keys \X (1 .. MaxRenderers) :
     /\ p[2] \in DOMAIN entries[p[1]].render
     /\ entries[p[1]].render[p[2]].view = view}

Unbound(boxes, entries, keys) ==
  [v \in Views |-> boxes[v] - Cardinality(Bound(entries, keys, v))]

\* All the renderers in the page.
InPage == UNION {Bound(renderers, DOMAIN renderers, v) : v \in Views}

-----------------------------------------------------------------------------
\* The timer.  setInterval starts one and overwrites the id that was held.
Timer == [held : Fps \cup {None}, running : [Fps -> Nat]]

StartRenderer(t, fps) ==
  [held |-> fps, running |-> [t.running EXCEPT ![fps] = @ + 1]]

StopRenderer(t) ==
  IF t.held = None THEN t
  ELSE [held |-> None, running |-> [t.running EXCEPT ![t.held] = @ - 1]]

\* Faulty variant of RestartRenderer: the id is looked at after the stop.
RestartAfterStop(t, fps) ==
  IF StopRenderer(t).held = None THEN StopRenderer(t) ELSE StartRenderer(t, fps)

RestartRenderer(t, fps) ==
  IF t.held = None THEN t ELSE StartRenderer(StopRenderer(t), fps)

SetTimer(t) == interval' = t.held /\ intervals' = t.running

TheTimer == [held |-> interval, running |-> intervals]

-----------------------------------------------------------------------------
Init ==
  /\ manager = TRUE
  /\ renderers = NoEntries
  /\ interval = None /\ intervals = [f \in Fps |-> 0] /\ videoFps = DefaultFps
  /\ initialized = FALSE
  /\ containers = [v \in Views |-> 0]
  /\ currentChannel = None
  /\ session = FALSE
  /\ enabled = {} /\ live = {} /\ received = FALSE

\* initializeWithContext.  The application initialises once, before anything else.
Initialize ==
  /\ manager /\ ~initialized
  /\ initialized' = TRUE
  /\ SetTimer(StartRenderer(TheTimer, videoFps))
  /\ UNCHANGED <<manager, renderers, videoFps, containers, currentChannel, session,
                 enabled, live, received>>

\* Faulty variant of Removed: the renderers are not unbound.
RemovedStillBound(user, channelId) ==
  [enabled |-> Disable(enabled, user, Named(channelId)),
   containers |-> containers,
   renderers |-> Without(renderers, <<Named(channelId), user>>)]

\* What removeRenderer leaves of the frame caches, the views and the entries.
Removed(user, channelId) ==
  LET key == <<Named(channelId), user>>
      keys == {key} \cap DOMAIN renderers IN
  [enabled |-> Disable(enabled, user, Named(channelId)),
   containers |-> Unbound(containers, renderers, keys),
   renderers |-> Without(renderers, key)]

\* Faulty variant of RemoveRenderer: the entry stays, with renderers that were unbound.
RemoveRendererKeepsEntry(user, channelId) ==
  LET left == Removed(user, channelId) IN
  /\ enabled' = left.enabled
  /\ containers' = left.containers
  /\ renderers' = renderers

RemoveRenderer(user, channelId) ==
  LET left == Removed(user, channelId) IN
  /\ enabled' = left.enabled
  /\ containers' = left.containers
  /\ renderers' = left.renderers

\* Faulty variant of SetRenderer: the stream is cached before what was there is removed.
SetRendererCachesFirst(user, view, channelId, append) ==
  LET key == <<channelId, user>>
      renderer == [view |-> view, drawn |-> FALSE]
      replace == key \in DOMAIN renderers /\ ~append
      start == IF replace THEN Removed(user, channelId)
               ELSE [enabled |-> Enable(enabled, user, Named(channelId)),
                     containers |-> containers, renderers |-> renderers]
      entry == IF key \in DOMAIN start.renderers THEN start.renderers[key]
               ELSE [render |-> <<>>, cached |-> FALSE] IN
  /\ enabled' = start.enabled
  /\ containers' = [start.containers EXCEPT ![view] = @ + 1]
  /\ renderers' = With(start.renderers, key, [entry EXCEPT !.render = Append(@, renderer)])

\* setRenderer: replace what is there, or append to it; cache the stream; bind a new renderer.
\* The view is not looked for among those already there: equalsElement is false of all of them.
SetRenderer(user, view, channelId, append) ==
  LET found == <<Named(channelId), user>> \in DOMAIN renderers
      start == IF found /\ ~append THEN Removed(user, channelId)
               ELSE [enabled |-> enabled, containers |-> containers, renderers |-> renderers]
      key == <<channelId, user>>
      entry == IF key \in DOMAIN start.renderers THEN start.renderers[key]
               ELSE [render |-> <<>>, cached |-> FALSE]
      renderer == [view |-> view, drawn |-> FALSE] IN
  /\ enabled' = Enable(start.enabled, user, Named(channelId))
  /\ containers' = [start.containers EXCEPT ![view] = @ + 1]
  /\ renderers' = With(start.renderers, key, [entry EXCEPT !.render = Append(@, renderer)])

\* setView, setupLocalVideo, setupLocalVideoSource and setupRemoteVideo with a view.
SetView(user, view, channelId, append) ==
  /\ manager /\ initialized
  /\ Cardinality(InPage) < MaxRenderers
  /\ SetRenderer(user, view, channelId, append)
  /\ UNCHANGED <<manager, timers, outside>>

\* setView and setupRemoteVideo without a view, and destroyRenderer.
DestroyRenderer(user, channelId) ==
  /\ manager /\ initialized
  /\ RemoveRenderer(user, channelId)
  /\ UNCHANGED <<manager, timers, outside>>

\* Faulty variant of SetVideoRenderDimension: the timer is not stopped first.
DimensionWithoutStop(user, channelId) ==
  /\ manager /\ initialized
  /\ SetTimer(StartRenderer(TheTimer, videoFps))
  /\ enabled' = Enable(enabled, user, Named(channelId))
  /\ UNCHANGED <<manager, renderers, videoFps, containers, outside>>

\* setVideoRenderDimension: the stream is cached whether or not it has a view.
SetVideoRenderDimension(user, channelId) ==
  /\ manager /\ initialized
  /\ SetTimer(StartRenderer(StopRenderer(TheTimer), videoFps))
  /\ enabled' = Enable(enabled, user, Named(channelId))
  /\ UNCHANGED <<manager, renderers, videoFps, containers, outside>>

SetVideoRenderFPS(fps) ==
  /\ manager /\ initialized
  /\ videoFps' = fps
  /\ SetTimer(RestartRenderer(TheTimer, fps))
  /\ UNCHANGED <<manager, renderers, containers, enabled, outside>>

\* removeAllRenderer: every entry under the key it is stored with.
RemoveAllRenderer ==
  /\ containers' = Unbound(containers, renderers, DOMAIN renderers)
  /\ renderers' = NoEntries

\* release.  The native engine goes, and with it the frame caches and the video source.
Release ==
  /\ manager /\ initialized
  /\ SetTimer(StopRenderer(TheTimer))
  /\ RemoveAllRenderer
  /\ manager' = FALSE
  /\ enabled' = {} /\ session' = FALSE /\ live' = {} /\ received' = FALSE
  /\ UNCHANGED <<videoFps, initialized, currentChannel>>

-----------------------------------------------------------------------------
\* Events.  addVideoFrameCacheToMap throws when there is no entry: the frame is lost.
AddVideoFrameCacheToMap(user, channelId) ==
  LET key == <<channelId, user>> IN
  renderers' = IF key \in DOMAIN renderers
               THEN [renderers EXCEPT ![key].cached = TRUE] ELSE renderers

FirstFrame(user, channelId) ==
  /\ manager
  /\ <<channelId, user>> \notin live
  /\ live' = live \cup {<<channelId, user>>}
  /\ AddVideoFrameCacheToMap(user, channelId)
  /\ UNCHANGED <<manager, timers, containers, initialized, currentChannel, session,
                 enabled, received>>

\* onFirstLocalVideoFrame
FirstLocalVideoFrame == initialized /\ FirstFrame(Local, Default)

\* onFirstRemoteVideoFrame: the joined channel, or that of a channel object.
FirstRemoteVideoFrame(uid, channelId) == initialized /\ FirstFrame(uid, channelId)

\* onFirstLocalVideoFrame of the video source.
VideoSourceFirstFrame == session /\ FirstFrame(VideoSource, Default)

\* The preview or the capture ends without an event.
StopCapture(user) ==
  /\ <<Default, user>> \in live /\ user \notin Uids
  /\ live' = live \ {<<Default, user>>}
  /\ UNCHANGED <<manager, renderers, timers, containers, initialized, currentChannel,
                 session, enabled, received>>

JoinChannelSuccess(channelId) ==
  /\ manager /\ initialized /\ currentChannel = None
  /\ currentChannel' = channelId
  /\ UNCHANGED <<manager, renderers, timers, containers, initialized, session, enabled,
                 live, received>>

LeaveChannel ==
  /\ manager /\ currentChannel # None
  /\ currentChannel' = None
  /\ live' = {s \in live : s[1] # currentChannel}
  /\ UNCHANGED <<manager, renderers, timers, containers, initialized, session, enabled, received>>

Offline(uid, channelId) ==
  /\ manager /\ <<channelId, uid>> \in live
  /\ live' = live \ {<<channelId, uid>>}
  /\ RemoveRenderer(uid, channelId)
  /\ UNCHANGED <<manager, timers, initialized, currentChannel, session, received>>

\* onUserOffline of the engine: without a joined channel it returns early.
UserOffline(uid) == currentChannel # None /\ Offline(uid, currentChannel)

\* onUserOffline of a channel object, in another channel than the engine's.
ChannelUserOffline(uid, channelId) == channelId # currentChannel /\ Offline(uid, channelId)

\* onUserOffline of the video source: a user left the channel that the video source is in.
VideoSourceUserOffline(uid) ==
  /\ manager /\ session
  /\ RemoveRenderer(uid, Default)
  /\ UNCHANGED <<manager, timers, outside>>

VideoSourceInitialize ==
  /\ manager /\ initialized /\ ~session
  /\ session' = TRUE
  /\ UNCHANGED <<manager, renderers, timers, containers, initialized, currentChannel,
                 enabled, live, received>>

\* The process of the video source ends and takes its frame cache with it.
VideoSourceRelease ==
  /\ manager /\ session
  /\ session' = FALSE
  /\ enabled' = {s \in enabled : s[1] # "SCREEN_SHARE"}
  /\ live' = live \ {<<Default, VideoSource>>}
  /\ UNCHANGED <<manager, renderers, timers, containers, initialized, currentChannel, received>>

\* OnVideoFrameReceived: a frame of the video source arrives in the main process.
SourceFrame ==
  /\ ~received /\ <<Default, VideoSource>> \in live
  /\ Stream(VideoSource, Default) \in enabled
  /\ received' = TRUE
  /\ UNCHANGED <<manager, renderers, timers, containers, initialized, currentChannel,
                 session, enabled, live>>

-----------------------------------------------------------------------------
\* GetVideoStreamData has a frame for the entry of this key.
HasStream(key) ==
  IF key[2] = VideoSource THEN received
  ELSE Stream(key[2], key[1]) \in enabled /\ key \in live

Drawn(entry) == [entry EXCEPT !.render = [i \in DOMAIN @ |-> [@[i] EXCEPT !.drawn = TRUE]]]

\* One tick of a timer that runs: every entry with a cached frame and a stream is drawn.
Poll ==
  /\ \E f \in Fps : intervals[f] > 0
  /\ renderers' = [k \in DOMAIN renderers |->
                     IF renderers[k].cached /\ HasStream(k) THEN Drawn(renderers[k])
                     ELSE renderers[k]]
  /\ UNCHANGED <<manager, timers, containers, enabled, outside>>

Next ==
  \/ Initialize \/ Release \/ Poll
  \/ \E user \in Users : \E channelId \in ArgumentsOf(user) :
       \/ \E view \in Views, append \in BOOLEAN : SetView(user, view, channelId, append)
       \/ DestroyRenderer(user, channelId)
       \/ SetVideoRenderDimension(user, channelId)
  \/ \E fps \in Fps : SetVideoRenderFPS(fps)
  \/ FirstLocalVideoFrame \/ VideoSourceFirstFrame
  \/ \E uid \in Uids, channelId \in Channels :
       FirstRemoteVideoFrame(uid, channelId) \/ ChannelUserOffline(uid, channelId)
  \/ \E user \in Users : StopCapture(user)
  \/ \E channelId \in Channels : JoinChannelSuccess(channelId)
  \/ LeaveChannel
  \/ \E uid \in Uids : UserOffline(uid) \/ VideoSourceUserOffline(uid)
  \/ VideoSourceInitialize \/ VideoSourceRelease \/ SourceFrame

\* The timer ticks as long as it runs; nobody has to call anything.
Spec == Init /\ [][Next]_vars /\ WF_vars(Poll)

-----------------------------------------------------------------------------
TypeOK ==
  /\ {manager, initialized, session, received} \subseteq BOOLEAN
  /\ DOMAIN renderers \subseteq (Channels \cup Arguments \cup {Default}) \X Users
  /\ \A k \in DOMAIN renderers :
       /\ renderers[k].cached \in BOOLEAN
       /\ renderers[k].render \in Seq([view : Views, drawn : BOOLEAN])
  /\ TheTimer \in Timer /\ videoFps \in Fps
  /\ containers \in [Views -> Nat]
  /\ currentChannel \in Channels \cup {None}

\* The page and the renderers agree: a view holds one container for each renderer bound to
\* it, however views are replaced, appended twice, shared by users or removed by an event.
\* A renderer dropped without unbind, or unbound twice, leaves a dead canvas or throws.
ContainersMatch ==
  \A v \in Views :
    containers[v] = Cardinality(Bound(renderers, DOMAIN renderers, v))

\* Every entry of a user of the main process has its stream cached natively: what one method
\* or event switches off under some user and channel is never what another entry needs.
EntriesAreFed ==
  \A k \in DOMAIN renderers : k[2] # VideoSource => Stream(k[2], Named(k[1])) \in enabled

\* At most one timer runs, it is the one the manager can stop, and it ticks at the rate that
\* was set last.  Changes of rate and of dimension start and stop timers in between, and
\* after release none is left that would poll an engine that is gone.
OneTimer ==
  /\ intervals = [f \in Fps |-> IF f = interval THEN 1 ELSE 0]
  /\ interval # None => interval = videoFps /\ manager

\* A view whose entry has a frame and whose stream still sends is drawn at last, whoever
\* removes or replaces other views meanwhile.
ToDraw(k) == k \in DOMAIN renderers /\ renderers[k].cached /\ k \in live /\ manager
             /\ ~ \A i \in DOMAIN renderers[k].render : renderers[k].render[i].drawn
Appears == \A k \in (Channels \X Uids) \cup {<<Default, Local>>} : ToDraw(k) ~> ~ToDraw(k)

\* A view set up for a stream that sends gets its frame.  False of the code: the first-frame
\* event comes once, so a view set up later, or again, stays black.
FrameReachesView == \A k \in DOMAIN renderers : k \in live => renderers[k].cached

=============================================================================
