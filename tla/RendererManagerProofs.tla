----------------------- MODULE RendererManagerProofs -----------------------
(***************************************************************************)
(* Theorems about RendererManager, for any users, channels, views, rates   *)
(* and any number of renderers.                                            *)
(***************************************************************************)
EXTENDS RendererManager, SequenceTheorems, FiniteSetTheorems, TLAPS

-----------------------------------------------------------------------------
\* What OneTimer needs to know of the ids and rates.
TimerTypes == interval \in Fps \cup {None} /\ videoFps \in Fps

TimerInv == TimerTypes /\ OneTimer

\* Starting the only timer when none is held leaves exactly that one running.
LEMMA StartOne ==
  ASSUME NEW fps \in Fps, NEW t, t.held = None, t.running = [f \in Fps |-> 0],
         interval' = StartRenderer(t, fps).held, intervals' = StartRenderer(t, fps).running
  PROVE  interval' = fps /\ intervals' = [f \in Fps |-> IF f = interval' THEN 1 ELSE 0]
BY DEF StartRenderer

\* Stopping the timer that is held leaves none running, if it was the only one.
LEMMA StopOne ==
  ASSUME TimerInv
  PROVE  /\ StopRenderer(TheTimer).held = None
         /\ StopRenderer(TheTimer).running = [f \in Fps |-> 0]
<1>1. CASE interval = None
  BY <1>1, FpsAssumption DEF TimerInv, TimerTypes, OneTimer, StopRenderer, TheTimer
<1>2. CASE interval # None
  <2>1. intervals = [f \in Fps |-> IF f = interval THEN 1 ELSE 0] /\ interval \in Fps
    BY <1>2 DEF TimerInv, TimerTypes, OneTimer
  <2>2. [intervals EXCEPT ![interval] = @ - 1] = [f \in Fps |-> 0]
    BY <2>1
  <2>. QED
    BY <1>2, <2>2 DEF StopRenderer, TheTimer
<1>. QED
  BY <1>1, <1>2

\* Every step keeps one timer, at the current rate.
LEMMA TimerStep ==
  ASSUME TimerInv, [Next]_vars, initialized \/ interval = None
  PROVE  TimerInv' /\ (initialized \/ interval = None)'
<1>. DEFINE J == TimerInv' /\ (initialized \/ interval = None)'
<1>. USE DEF TimerInv
<1>1. CASE UNCHANGED <<timers, initialized, manager>>
  BY <1>1 DEF timers, TimerTypes, OneTimer
<1>2. CASE Initialize
  <2>1. interval = None /\ intervals = [f \in Fps |-> 0]
    BY <1>2, FpsAssumption DEF Initialize, OneTimer
  <2>2. interval' = videoFps /\ intervals' = [f \in Fps |-> IF f = interval' THEN 1 ELSE 0]
    BY <1>2, <2>1, StartOne DEF Initialize, SetTimer, TheTimer, TimerTypes
  <2>. QED
    BY <1>2, <2>2 DEF Initialize, TimerTypes, OneTimer
<1>3. CASE Release
  <2>1. interval' = None /\ intervals' = [f \in Fps |-> 0]
    BY <1>3, StopOne DEF Release, SetTimer
  <2>. QED
    BY <1>3, <2>1, FpsAssumption DEF Release, TimerTypes, OneTimer
<1>4. ASSUME NEW user, NEW channelId, SetVideoRenderDimension(user, channelId) PROVE J
  <2>1. interval' = videoFps /\ intervals' = [f \in Fps |-> IF f = interval' THEN 1 ELSE 0]
    BY <1>4, StopOne, StartOne DEF SetVideoRenderDimension, SetTimer, TimerTypes
  <2>. QED
    BY <1>4, <2>1 DEF SetVideoRenderDimension, TimerTypes, OneTimer, outside
<1>5. ASSUME NEW fps \in Fps, SetVideoRenderFPS(fps) PROVE J
  <2>1. CASE interval = None
    BY <1>5, <2>1 DEF SetVideoRenderFPS, SetTimer, RestartRenderer, TheTimer, TimerTypes,
                      OneTimer, outside
  <2>2. CASE interval # None
    <3>1. interval' = fps /\ intervals' = [f \in Fps |-> IF f = interval' THEN 1 ELSE 0]
      BY <1>5, <2>2, StopOne, StartOne DEF SetVideoRenderFPS, SetTimer, RestartRenderer, TheTimer
    <3>. QED
      BY <1>5, <3>1 DEF SetVideoRenderFPS, TimerTypes, OneTimer, outside
  <2>. QED
    BY <2>1, <2>2
<1>. QED
  BY <1>1, <1>2, <1>3, <1>4, <1>5
     DEF Next, vars, timers, outside, SetView, DestroyRenderer, Poll, FirstLocalVideoFrame,
         FirstRemoteVideoFrame, VideoSourceFirstFrame, FirstFrame, StopCapture,
         JoinChannelSuccess, LeaveChannel, Offline, UserOffline, ChannelUserOffline,
         VideoSourceUserOffline, VideoSourceInitialize, VideoSourceRelease, SourceFrame

LEMMA TimerInit == Init => TimerInv /\ (initialized \/ interval = None)
BY FpsAssumption DEF Init, TimerInv, TimerTypes, OneTimer

\* OneTimer of RendererManager: setInterval and clearInterval stay paired, for any sequence of
\* calls that initialises once and first.
THEOREM TimersArePaired == Spec => []OneTimer
<1>1. TimerInv => OneTimer
  BY DEF TimerInv
<1>. QED
  BY TimerInit, TimerStep, <1>1, PTL DEF Spec

-----------------------------------------------------------------------------
\* The keys of the entries, when a remote user's renderer always names a channel.
Keys == {<<channelId, user>> : channelId \in Arguments, user \in Uids}
        \cup {<<Default, Local>>, <<Default, VideoSource>>}

FedInv == DOMAIN renderers \subseteq Keys /\ EntriesAreFed

\* A key names one user and one channel, and the channel is not left out.
LEMMA KeyOf ==
  ASSUME Undefined \notin Arguments, NEW user \in Users, NEW channelId \in ArgumentsOf(user)
  PROVE  <<channelId, user>> \in Keys /\ Named(channelId) = channelId
BY NamesAssumption DEF Users, ArgumentsOf, Keys, Named

\* Two entries of the main process never share a native stream: only the video source has a
\* uid that is another user's, and its stream is of another process.
LEMMA OwnStream ==
  ASSUME Undefined \notin Arguments, NEW k \in Keys, k[2] # VideoSource,
         NEW user \in Users, NEW channelId, <<channelId, user>> # k
  PROVE  Stream(user, channelId) # Stream(k[2], Named(k[1]))
BY NamesAssumption DEF Keys, Users, Stream, userToUid, Named

\* What remains after a removal is fed, and nothing is added.
LEMMA RemovedFed ==
  ASSUME Undefined \notin Arguments, FedInv, NEW user \in Users, NEW channelId
  PROVE  LET left == Removed(user, channelId) IN
         /\ DOMAIN left.renderers \subseteq DOMAIN renderers
         /\ \A k \in DOMAIN left.renderers :
              k[2] # VideoSource => Stream(k[2], Named(k[1])) \in left.enabled
<1>. DEFINE left == Removed(user, channelId)
            key == <<Named(channelId), user>>
<1>1. /\ left.enabled = Disable(enabled, user, Named(channelId))
      /\ left.renderers = Without(renderers, key)
  BY DEF Removed
<1>2. DOMAIN left.renderers = (DOMAIN renderers) \ {key}
  BY <1>1 DEF Without
<1>3. ASSUME NEW k \in DOMAIN left.renderers, k[2] # VideoSource
      PROVE  Stream(k[2], Named(k[1])) \in left.enabled
  <2>1. k \in DOMAIN renderers /\ k \in Keys /\ k # key
    BY <1>2, <1>3 DEF FedInv
  <2>2. Stream(k[2], Named(k[1])) \in enabled
    BY <1>3, <2>1 DEF FedInv, EntriesAreFed
  <2>3. Stream(user, Named(channelId)) # Stream(k[2], Named(k[1]))
    BY <1>3, <2>1, OwnStream
  <2>. QED
    BY <1>1, <2>2, <2>3 DEF Disable
<1>. QED
  BY <1>2, <1>3

\* Setting a renderer feeds its entry and starves no other.
LEMMA SetRendererFed ==
  ASSUME Undefined \notin Arguments, FedInv,
         NEW user \in Users, NEW channelId \in ArgumentsOf(user), NEW view, NEW append,
         SetRenderer(user, view, channelId, append)
  PROVE  FedInv'
<1>. DEFINE key == <<channelId, user>>
            found == <<Named(channelId), user>> \in DOMAIN renderers
            start == IF found /\ ~append THEN Removed(user, channelId)
                     ELSE [enabled |-> enabled, containers |-> containers,
                           renderers |-> renderers]
<1>1. key \in Keys /\ Named(channelId) = channelId
  BY KeyOf
<1>2. /\ DOMAIN start.renderers \subseteq Keys
      /\ \A k \in DOMAIN start.renderers :
           k[2] # VideoSource => Stream(k[2], Named(k[1])) \in start.enabled
  <2>1. CASE found /\ ~append
    BY <2>1, RemovedFed DEF FedInv
  <2>2. CASE ~(found /\ ~append)
    BY <2>2 DEF FedInv, EntriesAreFed
  <2>. QED
    BY <2>1, <2>2
<1>3. enabled' = Enable(start.enabled, user, channelId)
  BY <1>1 DEF SetRenderer
<1>4. DOMAIN renderers' = DOMAIN start.renderers \cup {key}
  BY DEF SetRenderer, With
<1>5. ASSUME NEW k \in DOMAIN renderers', k[2] # VideoSource
      PROVE  Stream(k[2], Named(k[1])) \in enabled'
  <2>1. CASE k = key
    BY <1>1, <1>3, <1>5, <2>1 DEF Enable, Reaches
  <2>2. CASE k # key
    BY <1>2, <1>3, <1>4, <1>5, <2>2 DEF Enable
  <2>. QED
    BY <2>1, <2>2
<1>. QED
  BY <1>1, <1>2, <1>4, <1>5 DEF FedInv, EntriesAreFed

\* Every step keeps every entry fed.
LEMMA FedStep ==
  ASSUME Undefined \notin Arguments, FedInv, [Next]_vars
  PROVE  FedInv'
<1>1. CASE UNCHANGED <<renderers, enabled>>
  BY <1>1 DEF FedInv, EntriesAreFed
<1>2. ASSUME NEW user \in Users, NEW channelId, RemoveRenderer(user, channelId) PROVE FedInv'
  BY <1>2, RemovedFed DEF RemoveRenderer, FedInv, EntriesAreFed
<1>3. CASE Release
  BY <1>3 DEF Release, RemoveAllRenderer, NoEntries, FedInv, EntriesAreFed
<1>4. CASE Poll
  BY <1>4 DEF Poll, FedInv, EntriesAreFed
<1>5. ASSUME NEW user \in Users, NEW channelId, FirstFrame(user, channelId) PROVE FedInv'
  BY <1>5 DEF FirstFrame, AddVideoFrameCacheToMap, FedInv, EntriesAreFed
<1>6. ASSUME NEW user \in Users, NEW channelId, SetVideoRenderDimension(user, channelId)
      PROVE  FedInv'
  BY <1>6 DEF SetVideoRenderDimension, Enable, FedInv, EntriesAreFed
<1>7. CASE VideoSourceRelease
  BY <1>7 DEF VideoSourceRelease, Stream, FedInv, EntriesAreFed
<1>8. ASSUME NEW user \in Users, NEW channelId \in ArgumentsOf(user), NEW view, NEW append,
             SetView(user, view, channelId, append)
      PROVE  FedInv'
  BY <1>8, SetRendererFed DEF SetView
<1>. QED
  BY <1>1, <1>2, <1>3, <1>4, <1>5, <1>6, <1>7, <1>8
     DEF Next, vars, DestroyRenderer, Initialize, FirstLocalVideoFrame, FirstRemoteVideoFrame,
         VideoSourceFirstFrame, StopCapture, JoinChannelSuccess, LeaveChannel, Offline,
         UserOffline, ChannelUserOffline, VideoSourceUserOffline, VideoSourceInitialize,
         SourceFrame, SetVideoRenderFPS, Users

\* EntriesAreFed of RendererManager: if a remote user's renderer always names a channel, no
\* sequence of calls and events switches off the native cache that an entry needs.
THEOREM EntriesFed ==
  ASSUME Undefined \notin Arguments
  PROVE  Spec => []EntriesAreFed
<1>1. Init => FedInv
  BY DEF Init, NoEntries, FedInv, EntriesAreFed
<1>2. FedInv /\ [Next]_vars => FedInv'
  BY FedStep
<1>3. FedInv => EntriesAreFed
  BY DEF FedInv
<1>. QED
  BY <1>1, <1>2, <1>3, PTL DEF Spec

-----------------------------------------------------------------------------
\* The page: each view against the renderers bound to it.
Renderer == [view : Views, drawn : BOOLEAN]
Entry == [render : Seq(Renderer), cached : BOOLEAN]

Entries(entries) ==
  /\ IsFiniteSet(DOMAIN entries)
  /\ \A k \in DOMAIN entries :
       entries[k] \in Entry /\ Len(entries[k].render) <= MaxRenderers

Agree(boxes, entries) ==
  /\ boxes = [v \in Views |-> boxes[v]]
  /\ \A v \in Views : boxes[v] = Cardinality(Bound(entries, DOMAIN entries, v))

\* An entry's renderers are numbered.
LEMMA Numbered ==
  ASSUME NEW e \in Entry
  PROVE  /\ Len(e.render) \in Nat /\ DOMAIN e.render = 1 .. Len(e.render)
         /\ \A i \in 1 .. Len(e.render) : e.render[i] \in Renderer
BY LenProperties, ElementOfSeq DEF Entry

\* The sizes of an interval, of a set that gains an element, and of a product.
LEMMA Places ==
  ASSUME NEW n \in Nat
  PROVE  IsFiniteSet(1 .. n) /\ Cardinality(1 .. n) = n
<1>1. IsFiniteSet(1 .. n) /\ Cardinality(1 .. n) = IF 1 > n THEN 0 ELSE n - 1 + 1
  BY FS_Interval
<1>. QED
  BY <1>1

LEMMA OneMore ==
  ASSUME NEW S, IsFiniteSet(S), NEW x, x \notin S
  PROVE  Cardinality(S \cup {x}) = Cardinality(S) + 1
BY FS_AddElement

LEMMA Pairs ==
  ASSUME NEW S, IsFiniteSet(S), NEW T, IsFiniteSet(T)
  PROVE  Cardinality(S \X T) = Cardinality(S) * Cardinality(T)
BY FS_Product

\* What is bound to a view is finite.
LEMMA BoundFinite ==
  ASSUME NEW entries, IsFiniteSet(DOMAIN entries),
         NEW keys \in SUBSET DOMAIN entries, NEW v
  PROVE  /\ IsFiniteSet(Bound(entries, keys, v))
         /\ Cardinality(Bound(entries, keys, v)) \in Nat
<1>1. IsFiniteSet(keys) /\ IsFiniteSet(1 .. MaxRenderers)
  BY FS_Subset, FS_Interval, BoundAssumption
<1>2. IsFiniteSet(keys \X (1 .. MaxRenderers))
  BY <1>1, FS_Product
<1>3. Bound(entries, keys, v) \subseteq keys \X (1 .. MaxRenderers)
  BY DEF Bound
<1>. QED
  BY <1>2, <1>3, FS_Subset, FS_CardinalityType

\* Removing the entry of a key and unbinding its renderers keeps the page in agreement.
LEMMA RemovalAgrees ==
  ASSUME NEW entries, NEW boxes, Entries(entries), Agree(boxes, entries),
         NEW keys \in SUBSET DOMAIN entries, NEW left,
         left = [k \in DOMAIN entries \ keys |-> entries[k]]
  PROVE  Entries(left) /\ Agree(Unbound(boxes, entries, keys), left)
<1>1. DOMAIN left = DOMAIN entries \ keys /\ IsFiniteSet(DOMAIN left)
  BY FS_Difference DEF Entries
<1>2. Entries(left)
  BY <1>1 DEF Entries
<1>3. ASSUME NEW v \in Views
      PROVE  Cardinality(Bound(left, DOMAIN left, v))
               = Cardinality(Bound(entries, DOMAIN entries, v))
                   - Cardinality(Bound(entries, keys, v))
  <2>1. Bound(left, DOMAIN left, v)
          = Bound(entries, DOMAIN entries, v) \ Bound(entries, keys, v)
    BY <1>1 DEF Bound
  <2>2. Bound(entries, keys, v) \subseteq Bound(entries, DOMAIN entries, v)
    BY DEF Bound
  <2>3. IsFiniteSet(Bound(entries, DOMAIN entries, v)) /\ IsFiniteSet(Bound(entries, keys, v))
    BY BoundFinite DEF Entries
  <2>4. Bound(entries, DOMAIN entries, v) \cap Bound(entries, keys, v) = Bound(entries, keys, v)
    BY <2>2
  <2>. QED
    BY <2>1, <2>3, <2>4, FS_Difference
<1>. QED
  BY <1>2, <1>3 DEF Agree, Unbound

\* Binding one more renderer under a key puts one more container in its view.
LEMMA AppendAgrees ==
  ASSUME NEW entries, NEW boxes, Entries(entries), Agree(boxes, entries),
         NEW key, NEW view \in Views, NEW e \in Entry,
         key \in DOMAIN entries => e.render = entries[key].render,
         key \notin DOMAIN entries => e.render = <<>>,
         Len(e.render) < MaxRenderers,
         NEW grown,
         grown = With(entries, key,
                      [e EXCEPT !.render = Append(@, [view |-> view, drawn |-> FALSE])])
  PROVE  Entries(grown) /\ Agree([boxes EXCEPT ![view] = @ + 1], grown)
<1>. DEFINE r == [view |-> view, drawn |-> FALSE]
            n == Len(e.render)
            g == [e EXCEPT !.render = Append(@, r)]
<1>1. /\ n \in Nat /\ e.render \in Seq(Renderer) /\ r \in Renderer
  BY Numbered DEF Entry, Renderer
<1>2. /\ g \in Entry /\ g.render = Append(e.render, r) /\ Len(g.render) = n + 1
      /\ DOMAIN g.render = 1 .. n + 1 /\ g.render[n + 1] = r
      /\ \A i \in 1 .. n : g.render[i] = e.render[i]
  <2>1. g.render = Append(e.render, r) /\ g = [render |-> Append(e.render, r), cached |-> e.cached]
    <3>1. e = [render |-> e.render, cached |-> e.cached]
      BY DEF Entry
    <3>2. ASSUME NEW x PROVE [e EXCEPT !.render = x] = [render |-> x, cached |-> e.cached]
      BY <3>1
    <3>. QED
      BY <3>2
  <2>. QED
    BY <1>1, <2>1, AppendProperties, LenProperties DEF Entry
<1>3. /\ DOMAIN grown = DOMAIN entries \cup {key} /\ grown[key] = g
      /\ \A k \in DOMAIN entries \ {key} : grown[k] = entries[k]
  BY DEF With
<1>4. Entries(grown)
  <2>1. IsFiniteSet(DOMAIN grown)
    BY <1>3, FS_AddElement DEF Entries
  <2>2. n + 1 <= MaxRenderers
    BY <1>1, BoundAssumption
  <2>3. grown[key] \in Entry /\ Len(grown[key].render) <= MaxRenderers
    BY <1>2, <1>3, <2>2, Zenon
  <2>4. ASSUME NEW k \in DOMAIN entries \ {key}
        PROVE  grown[k] \in Entry /\ Len(grown[k].render) <= MaxRenderers
    BY <1>3, Zenon DEF Entries
  <2>. QED
    BY <1>3, <2>1, <2>3, <2>4, Zenon DEF Entries
<1>5. <<key, n + 1>> \notin Bound(entries, DOMAIN entries, view)
  <2>1. CASE key \in DOMAIN entries
    <3>1. DOMAIN entries[key].render = 1 .. n
      BY <2>1, Numbered DEF Entries
    <3>2. n + 1 \notin 1 .. n
      BY <1>1
    <3>. QED
      BY <3>1, <3>2 DEF Bound
  <2>2. CASE key \notin DOMAIN entries
    BY <2>2 DEF Bound
  <2>. QED
    BY <2>1, <2>2
<1>6. ASSUME NEW v \in Views
      PROVE  Bound(grown, DOMAIN grown, v)
               = IF v = view THEN Bound(entries, DOMAIN entries, v) \cup {<<key, n + 1>>}
                 ELSE Bound(entries, DOMAIN entries, v)
  <2>1. ASSUME NEW k \in DOMAIN entries, k # key, NEW i \in 1 .. MaxRenderers
        PROVE  <<k, i>> \in Bound(grown, DOMAIN grown, v)
                 <=> <<k, i>> \in Bound(entries, DOMAIN entries, v)
    BY <1>3, <2>1 DEF Bound
  <2>2. ASSUME NEW i \in 1 .. MaxRenderers
        PROVE  <<key, i>> \in Bound(grown, DOMAIN grown, v)
                 <=> \/ <<key, i>> \in Bound(entries, DOMAIN entries, v)
                     \/ i = n + 1 /\ v = view
    <3>1. <<key, i>> \in Bound(grown, DOMAIN grown, v)
            <=> i \in 1 .. n + 1 /\ g.render[i].view = v
      BY <1>2, <1>3 DEF Bound
    <3>2. <<key, i>> \in Bound(entries, DOMAIN entries, v)
            <=> i \in 1 .. n /\ e.render[i].view = v
      <4>1. CASE key \in DOMAIN entries
        <5>1. DOMAIN entries[key].render = 1 .. n
          BY <4>1, Numbered DEF Entries
        <5>. QED
          BY <4>1, <5>1 DEF Bound
      <4>2. CASE key \notin DOMAIN entries
        BY <4>2, EmptySeq DEF Bound
      <4>. QED
        BY <4>1, <4>2
    <3>3. i \in 1 .. n + 1 <=> i \in 1 .. n \/ i = n + 1
      BY <1>1
    <3>4. i = n + 1 => ~ i \in 1 .. n
      BY <1>1
    <3>. QED
      BY <1>2, <3>1, <3>2, <3>3, <3>4
  <2>3. n + 1 \in 1 .. MaxRenderers
    BY <1>1, BoundAssumption
  <2>4. /\ Bound(grown, DOMAIN grown, v) \subseteq (DOMAIN entries \cup {key}) \X (1 .. MaxRenderers)
        /\ Bound(entries, DOMAIN entries, v) \subseteq (DOMAIN entries \cup {key}) \X (1 .. MaxRenderers)
    BY <1>3 DEF Bound
  <2>5. ASSUME NEW p \in (DOMAIN entries \cup {key}) \X (1 .. MaxRenderers)
        PROVE  p \in Bound(grown, DOMAIN grown, v)
                 <=> \/ p \in Bound(entries, DOMAIN entries, v)
                     \/ p = <<key, n + 1>> /\ v = view
    <3>1. PICK k \in DOMAIN entries \cup {key}, i \in 1 .. MaxRenderers : p = <<k, i>>
      OBVIOUS
    <3>2. CASE k = key
      BY <2>2, <3>1, <3>2
    <3>3. CASE k # key
      BY <2>1, <3>1, <3>3
    <3>. QED
      BY <3>2, <3>3
  <2>6. <<key, n + 1>> \in (DOMAIN entries \cup {key}) \X (1 .. MaxRenderers)
    BY <2>3
  <2>. QED
    BY <2>4, <2>5, <2>6
<1>7. ASSUME NEW v \in Views
      PROVE  [boxes EXCEPT ![view] = @ + 1][v] = Cardinality(Bound(grown, DOMAIN grown, v))
  <2>1. /\ IsFiniteSet(Bound(entries, DOMAIN entries, v))
        /\ boxes[v] = Cardinality(Bound(entries, DOMAIN entries, v))
    BY BoundFinite DEF Entries, Agree
  <2>2. CASE v = view
    <3>1. [boxes EXCEPT ![view] = @ + 1][v] = boxes[v] + 1
      BY <2>2 DEF Agree
    <3>2. Bound(grown, DOMAIN grown, v) = Bound(entries, DOMAIN entries, v) \cup {<<key, n + 1>>}
      BY <1>6, <2>2
    <3>3. <<key, n + 1>> \notin Bound(entries, DOMAIN entries, v)
      BY <1>5, <2>2
    <3>4. Cardinality(Bound(grown, DOMAIN grown, v)) = Cardinality(Bound(entries, DOMAIN entries, v)) + 1
      BY <2>1, <3>2, <3>3, OneMore
    <3>. QED
      BY <2>1, <3>1, <3>4
  <2>3. CASE v # view
    BY <1>6, <2>1, <2>3 DEF Agree
  <2>. QED
    BY <2>2, <2>3
<1>. QED
  BY <1>4, <1>7 DEF Agree

\* A page whose entries keep their renderers stays in agreement.
LEMMA RedrawAgrees ==
  ASSUME NEW entries, NEW boxes, Entries(entries), Agree(boxes, entries),
         NEW other, DOMAIN other = DOMAIN entries,
         \A k \in DOMAIN entries :
           /\ other[k] \in Entry
           /\ Len(other[k].render) = Len(entries[k].render)
           /\ \A i \in 1 .. Len(entries[k].render) :
                other[k].render[i].view = entries[k].render[i].view
  PROVE  Entries(other) /\ Agree(boxes, other)
<1>1. Entries(other)
  BY DEF Entries
<1>2. ASSUME NEW k \in DOMAIN entries
      PROVE  /\ DOMAIN other[k].render = DOMAIN entries[k].render
             /\ \A i \in DOMAIN entries[k].render :
                  other[k].render[i].view = entries[k].render[i].view
  BY Numbered DEF Entries
<1>3. \A v \in Views : Bound(other, DOMAIN other, v) = Bound(entries, DOMAIN entries, v)
  BY <1>2 DEF Bound
<1>. QED
  BY <1>1, <1>3 DEF Agree

\* While a renderer may still be added to the page, one may be added to each entry.
LEMMA Room ==
  ASSUME Entries(renderers), Cardinality(InPage) < MaxRenderers
  PROVE  /\ MaxRenderers > 0
         /\ \A k \in DOMAIN renderers : Len(renderers[k].render) < MaxRenderers
<1>1. IsFiniteSet(InPage) /\ Cardinality(InPage) \in Nat
  <2>1. IsFiniteSet((DOMAIN renderers) \X (1 .. MaxRenderers))
    <3>1. IsFiniteSet(1 .. MaxRenderers)
      BY FS_Interval, BoundAssumption
    <3>. QED
      BY <3>1, FS_Product DEF Entries
  <2>2. InPage \subseteq (DOMAIN renderers) \X (1 .. MaxRenderers)
    BY DEF InPage, Bound
  <2>. QED
    BY <2>1, <2>2, FS_Subset, FS_CardinalityType
<1>2. ASSUME NEW k \in DOMAIN renderers
      PROVE  Len(renderers[k].render) < MaxRenderers
  <2>. DEFINE n == Len(renderers[k].render)
  <2>1. /\ n \in Nat /\ n <= MaxRenderers /\ DOMAIN renderers[k].render = 1 .. n
        /\ \A i \in 1 .. n : renderers[k].render[i] \in Renderer
    BY Numbered DEF Entries
  <2>2. 1 .. n \subseteq 1 .. MaxRenderers
    BY <2>1, BoundAssumption
  <2>3. {k} \X (1 .. n) \subseteq InPage
    BY <2>1, <2>2 DEF InPage, Bound, Renderer
  <2>4. Cardinality({k} \X (1 .. n)) = n
    <3>1. IsFiniteSet({k}) /\ Cardinality({k}) = 1
      BY FS_Singleton
    <3>. HIDE DEF n
    <3>2. IsFiniteSet(1 .. n)
      BY <2>1, Places
    <3>3. Cardinality(1 .. n) = n
      BY <2>1, Places
    <3>4. Cardinality({k} \X (1 .. n)) = Cardinality({k}) * Cardinality(1 .. n)
      BY <3>1, <3>2, Pairs, Zenon
    <3>5. Cardinality({k}) * Cardinality(1 .. n) = n
      BY <2>1, <3>1, <3>3
    <3>. QED
      BY <3>4, <3>5, Zenon
  <2>5. n <= Cardinality(InPage)
    BY <1>1, <2>3, <2>4, FS_Subset
  <2>. QED
    BY <1>1, <2>1, <2>5, BoundAssumption
<1>. QED
  BY <1>1, <1>2, BoundAssumption

AllKeys == (Channels \cup Arguments \cup {Default}) \X Users

PageInv ==
  /\ Entries(renderers) /\ Agree(containers, renderers)
  /\ DOMAIN renderers \subseteq AllKeys
  /\ {manager, initialized, session, received} \subseteq BOOLEAN
  /\ currentChannel \in Channels \cup {None}

\* removeRenderer takes an entry, if there is one, with its containers.
LEMMA RemovedAgrees ==
  ASSUME PageInv, NEW user, NEW channelId
  PROVE  LET left == Removed(user, channelId) IN
         /\ Entries(left.renderers) /\ Agree(left.containers, left.renderers)
         /\ DOMAIN left.renderers \subseteq DOMAIN renderers
         /\ \A k \in DOMAIN left.renderers : left.renderers[k] = renderers[k]
<1>. DEFINE key == <<Named(channelId), user>>
            keys == {key} \cap DOMAIN renderers
<1>1. Without(renderers, key) = [k \in DOMAIN renderers \ keys |-> renderers[k]]
  <2>1. DOMAIN renderers \ keys = DOMAIN renderers \ {key}
    OBVIOUS
  <2>. QED
    BY <2>1 DEF Without
<1>2. /\ Entries(Without(renderers, key))
      /\ Agree(Unbound(containers, renderers, keys), Without(renderers, key))
  BY <1>1, RemovalAgrees DEF PageInv
<1>. QED
  BY <1>1, <1>2 DEF Removed

\* setRenderer keeps the page in agreement, whatever it replaces or appends to.
LEMMA SetRendererAgrees ==
  ASSUME PageInv, NEW user \in Users, NEW view \in Views, NEW channelId \in ArgumentsOf(user),
         NEW append, Cardinality(InPage) < MaxRenderers,
         SetRenderer(user, view, channelId, append)
  PROVE  /\ Entries(renderers') /\ Agree(containers', renderers')
         /\ DOMAIN renderers' \subseteq AllKeys
<1>. DEFINE found == <<Named(channelId), user>> \in DOMAIN renderers
            start == IF found /\ ~append THEN Removed(user, channelId)
                     ELSE [enabled |-> enabled, containers |-> containers,
                           renderers |-> renderers]
            key == <<channelId, user>>
            entry == IF key \in DOMAIN start.renderers THEN start.renderers[key]
                     ELSE [render |-> <<>>, cached |-> FALSE]
            grown == With(start.renderers, key,
                          [entry EXCEPT !.render = Append(@, [view |-> view, drawn |-> FALSE])])
<1>1. /\ Entries(start.renderers) /\ Agree(start.containers, start.renderers)
      /\ DOMAIN start.renderers \subseteq DOMAIN renderers
      /\ \A k \in DOMAIN start.renderers : start.renderers[k] = renderers[k]
  <2>1. CASE found /\ ~append
    BY <2>1, RemovedAgrees
  <2>2. CASE ~(found /\ ~append)
    BY <2>2 DEF PageInv
  <2>. QED
    BY <2>1, <2>2
<1>2. renderers' = grown /\ containers' = [start.containers EXCEPT ![view] = @ + 1]
  BY DEF SetRenderer
<1>3. /\ entry \in Entry
      /\ key \in DOMAIN start.renderers => entry.render = start.renderers[key].render
      /\ key \notin DOMAIN start.renderers => entry.render = <<>>
  BY <1>1, EmptySeq DEF Entries, Entry
<1>4. Len(entry.render) < MaxRenderers
  <2>1. CASE key \in DOMAIN start.renderers
    BY <1>1, <2>1, Room DEF PageInv
  <2>2. CASE key \notin DOMAIN start.renderers
    BY <2>2, Room, EmptySeq DEF PageInv
  <2>. QED
    BY <2>1, <2>2
<1>5. key \in AllKeys
  BY DEF ArgumentsOf, AllKeys
<1>6. DOMAIN grown = DOMAIN start.renderers \cup {key}
  BY DEF With
<1>. HIDE DEF start, entry, grown
<1>7. Entries(grown) /\ Agree([start.containers EXCEPT ![view] = @ + 1], grown)
  BY <1>1, <1>3, <1>4, AppendAgrees DEF grown
<1>. QED
  BY <1>1, <1>2, <1>5, <1>6, <1>7 DEF PageInv

\* Every step keeps the page in agreement.
LEMMA PageStep ==
  ASSUME PageInv, [Next]_vars
  PROVE  PageInv'
<1>. DEFINE Agreed == /\ Entries(renderers') /\ Agree(containers', renderers')
                      /\ DOMAIN renderers' \subseteq AllKeys
<1>1. ASSUME UNCHANGED <<renderers, containers>> PROVE Agreed
  BY <1>1 DEF PageInv
<1>2. ASSUME NEW user \in Users, NEW channelId, RemoveRenderer(user, channelId) PROVE Agreed
  BY <1>2, RemovedAgrees DEF RemoveRenderer, PageInv
<1>3. ASSUME NEW user \in Users, NEW view \in Views, NEW channelId \in ArgumentsOf(user),
             NEW append, SetView(user, view, channelId, append)
      PROVE  Agreed
  BY <1>3, SetRendererAgrees DEF SetView
<1>4. ASSUME Release PROVE Agreed
  <2>1. renderers' = [k \in DOMAIN renderers \ DOMAIN renderers |-> renderers[k]]
    BY <1>4 DEF Release, RemoveAllRenderer, NoEntries
  <2>2. containers' = Unbound(containers, renderers, DOMAIN renderers)
    BY <1>4 DEF Release, RemoveAllRenderer
  <2>. QED
    BY <2>1, <2>2, RemovalAgrees DEF PageInv
<1>5. ASSUME NEW user \in Users, NEW channelId, FirstFrame(user, channelId) PROVE Agreed
  <2>1. /\ DOMAIN renderers' = DOMAIN renderers
        /\ \A k \in DOMAIN renderers :
             \/ renderers'[k] = renderers[k]
             \/ renderers'[k] = [renderers[k] EXCEPT !.cached = TRUE]
    BY <1>5 DEF FirstFrame, AddVideoFrameCacheToMap
  <2>2. ASSUME NEW e \in Entry
        PROVE  [e EXCEPT !.cached = TRUE] \in Entry /\ [e EXCEPT !.cached = TRUE].render = e.render
    BY DEF Entry
  <2>3. \A k \in DOMAIN renderers :
          renderers'[k] \in Entry /\ renderers'[k].render = renderers[k].render
    BY <2>1, <2>2 DEF PageInv, Entries
  <2>4. containers' = containers
    BY <1>5 DEF FirstFrame
  <2>. QED
    BY <2>1, <2>3, <2>4, RedrawAgrees DEF PageInv
<1>6. ASSUME Poll PROVE Agreed
  <2>1. /\ DOMAIN renderers' = DOMAIN renderers
        /\ \A k \in DOMAIN renderers :
             renderers'[k] = renderers[k] \/ renderers'[k] = Drawn(renderers[k])
    BY <1>6 DEF Poll
  <2>2. ASSUME NEW e \in Entry
        PROVE  /\ Drawn(e) \in Entry /\ Len(Drawn(e).render) = Len(e.render)
               /\ \A i \in 1 .. Len(e.render) : Drawn(e).render[i].view = e.render[i].view
    <3>. DEFINE s == [i \in DOMAIN e.render |-> [e.render[i] EXCEPT !.drawn = TRUE]]
    <3>1. Drawn(e) = [e EXCEPT !.render = s]
      BY DEF Drawn
    <3>2. /\ Len(e.render) \in Nat /\ DOMAIN e.render = 1 .. Len(e.render)
          /\ \A i \in 1 .. Len(e.render) : e.render[i] \in Renderer
      BY Numbered
    <3>3. ASSUME NEW x \in Renderer
          PROVE  /\ [x EXCEPT !.drawn = TRUE] \in Renderer
                 /\ [x EXCEPT !.drawn = TRUE].view = x.view
      BY DEF Renderer
    <3>4. /\ s \in [1 .. Len(e.render) -> Renderer]
          /\ \A i \in 1 .. Len(e.render) : s[i].view = e.render[i].view
      BY <3>2, <3>3
    <3>. HIDE DEF s
    <3>5. s \in Seq(Renderer) /\ Len(s) = Len(e.render)
      BY <3>2, <3>4
    <3>6. Drawn(e).render = s /\ Drawn(e) \in Entry
      BY <3>1, <3>5 DEF Entry
    <3>. QED
      BY <3>4, <3>5, <3>6
  <2>3. \A k \in DOMAIN renderers :
          /\ renderers'[k] \in Entry
          /\ Len(renderers'[k].render) = Len(renderers[k].render)
          /\ \A i \in 1 .. Len(renderers[k].render) :
               renderers'[k].render[i].view = renderers[k].render[i].view
    BY <2>1, <2>2 DEF PageInv, Entries
  <2>4. containers' = containers
    BY <1>6 DEF Poll
  <2>. QED
    BY <2>1, <2>3, <2>4, RedrawAgrees DEF PageInv
<1>7. Agreed
  BY <1>1, <1>2, <1>3, <1>4, <1>5, <1>6
     DEF Next, vars, timers, outside, PageInv, DestroyRenderer, Initialize, FirstLocalVideoFrame,
         FirstRemoteVideoFrame, VideoSourceFirstFrame, StopCapture, JoinChannelSuccess,
         LeaveChannel, Offline, UserOffline, ChannelUserOffline, VideoSourceUserOffline,
         VideoSourceInitialize, VideoSourceRelease, SourceFrame, SetVideoRenderFPS,
         SetVideoRenderDimension, Users
<1>8. /\ {manager', initialized', session', received'} \subseteq BOOLEAN
      /\ currentChannel' \in Channels \cup {None}
  BY DEF Next, vars, timers, outside, PageInv, SetView, DestroyRenderer, Initialize,
         Release, Poll, FirstFrame, FirstLocalVideoFrame, FirstRemoteVideoFrame,
         VideoSourceFirstFrame, StopCapture, JoinChannelSuccess, LeaveChannel, Offline,
         UserOffline, ChannelUserOffline, VideoSourceUserOffline, VideoSourceInitialize,
         VideoSourceRelease, SourceFrame, SetVideoRenderFPS, SetVideoRenderDimension
<1>. QED
  BY <1>7, <1>8 DEF PageInv

\* The page of RendererManager starts empty.
LEMMA PageInit == Init => PageInv
<1>. SUFFICES ASSUME Init PROVE PageInv
  OBVIOUS
<1>1. DOMAIN renderers = {} /\ IsFiniteSet({})
  BY FS_EmptySet DEF Init, NoEntries
<1>2. \A v \in Views : Bound(renderers, DOMAIN renderers, v) = {}
  BY <1>1 DEF Bound
<1>. QED
  BY <1>1, <1>2, FS_EmptySet DEF Init, PageInv, Entries, Agree

\* ContainersMatch of RendererManager: however views are replaced, shared, appended twice or
\* removed, by calls or by events, no container stays behind and none is removed twice.
THEOREM PageAgrees == Spec => []ContainersMatch
<1>1. PageInv => ContainersMatch
  BY DEF PageInv, Agree, ContainersMatch
<1>. QED
  BY PageInit, PageStep, <1>1, PTL DEF Spec

\* TypeOK of RendererManager: in particular no view's count of containers falls below zero,
\* and no timer is stopped more often than it was started.
THEOREM TypeCorrect == Spec => []TypeOK
<1>1. PageInv /\ TimerInv => TypeOK
  <2>. SUFFICES ASSUME PageInv, TimerInv PROVE TypeOK
    OBVIOUS
  <2>1. containers \in [Views -> Nat]
    BY BoundFinite DEF PageInv, Agree, Entries
  <2>2. TheTimer \in Timer
    <3>1. intervals \in [Fps -> Nat]
      BY DEF TimerInv, OneTimer
    <3>. QED
      BY <3>1 DEF TimerInv, TimerTypes, TheTimer, Timer
  <2>3. \A k \in DOMAIN renderers :
          /\ renderers[k].cached \in BOOLEAN
          /\ renderers[k].render \in Seq([view : Views, drawn : BOOLEAN])
    BY DEF PageInv, Entries, Entry, Renderer
  <2>. QED
    BY <2>1, <2>2, <2>3 DEF TypeOK, PageInv, AllKeys, TimerInv, TimerTypes
<1>2. Spec => []TimerInv
  BY TimerInit, TimerStep, PTL DEF Spec
<1>. QED
  BY PageInit, PageStep, <1>1, <1>2, PTL DEF Spec

=============================================================================
