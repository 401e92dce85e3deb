------------------------- MODULE FrameCacheProofs -------------------------
(***************************************************************************)
(* Theorems about FrameCache, for any sizes of frames and buffers, any     *)
(* number of sessions, frames and requests, and a pipe of any length.      *)
(***************************************************************************)
EXTENDS FrameCache, SequenceTheorems, TLAPS

-----------------------------------------------------------------------------
\* The two threads that touch the cached frame hold its mutex, and the
\* receiving thread of a session has ended before the next one begins.
Exclusive ==
  /\ mutex = "receiver" <=> receiver.at \in {"resize", "copy"}
  /\ mutex = "js" <=> js = "copying"
  /\ ~session /\ js # "joining" => receiver.at = "ended"
  /\ receiver.at \in {"lock", "resize", "copy"} => receiver.frame # None

\* Outside the copy of a frame the cache holds one frame whole, of the size in
\* its header; what the page is copying is that frame.
Whole ==
  /\ receiver.at # "copy" /\ cache.uv # None =>
       cache.y = cache.uv /\ cache.y.size = cache.header
  /\ receiver.at = "copy" => cache.y = receiver.frame /\ cache.header = receiver.frame.size
  /\ js = "copying" => copied = cache.y /\ cache.uv # None

IInv == TypeOK /\ Exclusive /\ Whole /\ ShownWhole

-----------------------------------------------------------------------------
\* A message that the proxy sends is put behind those that wait, or is dropped.
LEMMA Appended ==
  ASSUME PipeTypes, NEW ms \in Seq(Requests \cup {<<"disconnect">>}), Send(ms)
  PROVE  messages' \in Seq(Requests \cup {<<"disconnect">>}) /\ Len(messages') <= MaxMessages
<1>1. CASE session
  <2>1. messages \o ms \in Seq(Requests \cup {<<"disconnect">>})
    BY DEF PipeTypes
  <2>2. Len(messages \o ms) = Len(messages) + Len(ms)
    BY DEF PipeTypes
  <2>. QED
    BY <1>1, <2>1, <2>2 DEF Send
<1>2. CASE ~session
  BY <1>2 DEF Send, PipeTypes
<1>. QED
  BY <1>1, <1>2

\* What the page does keeps the invariant.
LEMMA PageStep ==
  ASSUME IInv,
         \/ \E s \in Streams : RemoveView(s) \/ \E append \in BOOLEAN : SetView(s, append)
         \/ FirstFrame \/ Poll \/ Draw \/ Initialize \/ Release \/ Joined \/ Crash
  PROVE  IInv'
<1>. USE DEF IInv, TypeOK, page, proxy, receiving, source
<1>1. ASSUME NEW s \in Streams, RemoveView(s) PROVE IInv'
  <2>1. PageTypes'
    BY <1>1 DEF RemoveView, Send, PageTypes
  <2>2. PipeTypes'
    <3>1. <<"disable", s, 0>> \in Requests
      BY DEF Requests
    <3>2. <<<<"disable", s, 0>>>> \in Seq(Requests \cup {<<"disconnect">>})
      BY <3>1
    <3>. QED
      BY <1>1, <3>2, Appended DEF RemoveView, PipeTypes
  <2>3. ReceiverTypes'
    BY <1>1 DEF RemoveView, Send, ReceiverTypes
  <2>4. SourceTypes'
    BY <1>1 DEF RemoveView, Send, SourceTypes
  <2>5. Exclusive'
    BY <1>1 DEF RemoveView, Send, Exclusive, Running
  <2>6. Whole'
    BY <1>1 DEF RemoveView, Send, Whole, Exclusive
  <2>7. ShownWhole'
    BY <1>1 DEF RemoveView, Send, ShownWhole, Whole, Exclusive, Fits, Running
  <2>. QED
    BY <2>1, <2>2, <2>3, <2>4, <2>5, <2>6, <2>7
<1>2. ASSUME NEW s \in Streams, NEW append \in BOOLEAN, SetView(s, append) PROVE IInv'
  <2>1. PageTypes'
    BY <1>2, BoundsAssumption DEF SetView, Send, PageTypes
  <2>2. PipeTypes'
    <3>1. <<"disable", s, 0>> \in Requests /\ <<"enable", s, enables + 1>> \in Requests
      BY <1>2, BoundsAssumption DEF SetView, PageTypes, Requests
    <3>2. ASSUME NEW replaced \in BOOLEAN
          PROVE  (IF replaced THEN <<<<"disable", s, 0>>>> ELSE <<>>) \o <<<<"enable", s, enables + 1>>>>
                   \in Seq(Requests \cup {<<"disconnect">>})
      <4>. DEFINE M == Requests \cup {<<"disconnect">>}
                  d == <<"disable", s, 0>>
                  e == <<"enable", s, enables + 1>>
      <4>1. d \in M /\ e \in M
        BY <3>1
      <4>. HIDE DEF M, d, e
      <4>2. <<e>> \in Seq(M) /\ <<d>> \in Seq(M) /\ <<>> \in Seq(M)
        BY <4>1
      <4>3. <<d>> \o <<e>> \in Seq(M) /\ <<>> \o <<e>> \in Seq(M)
        BY <4>2
      <4>. QED
        BY <4>3 DEF M, d, e
    <3>3. (view /\ ~append) \in BOOLEAN
      OBVIOUS
    <3>. QED
      BY <1>2, <3>2, <3>3, Appended DEF SetView, PipeTypes
  <2>3. ReceiverTypes'
    BY <1>2 DEF SetView, Send, ReceiverTypes
  <2>4. SourceTypes'
    BY <1>2 DEF SetView, Send, SourceTypes
  <2>5. Exclusive'
    BY <1>2 DEF SetView, Send, Exclusive, Running
  <2>6. Whole'
    BY <1>2 DEF SetView, Send, Whole, Exclusive
  <2>7. ShownWhole'
    BY <1>2 DEF SetView, Send, ShownWhole, Whole, Exclusive, Fits, Running
  <2>. QED
    BY <2>1, <2>2, <2>3, <2>4, <2>5, <2>6, <2>7
<1>3. CASE FirstFrame
  <2>1. PageTypes'
    <3>1. Head(events) \in Nat \X Nat \X Nat
      BY <1>3, SizesAssumption DEF FirstFrame, PipeTypes
    <3>2. <<Head(events)[3], Head(events)[2]>> \in Nat \X Nat
      BY <3>1
    <3>. QED
      BY <1>3, <3>2 DEF FirstFrame, PageTypes
  <2>2. PipeTypes'
    BY <1>3 DEF FirstFrame, PipeTypes
  <2>3. ReceiverTypes'
    BY <1>3 DEF FirstFrame, ReceiverTypes
  <2>4. SourceTypes'
    BY <1>3 DEF FirstFrame, SourceTypes
  <2>5. Exclusive'
    BY <1>3 DEF FirstFrame, Exclusive, Running
  <2>6. Whole'
    BY <1>3 DEF FirstFrame, Whole, Exclusive
  <2>7. ShownWhole'
    BY <1>3 DEF FirstFrame, ShownWhole, Whole, Exclusive, Fits, Running
  <2>. QED
    BY <2>1, <2>2, <2>3, <2>4, <2>5, <2>6, <2>7
<1>4. CASE Poll
  <2>1. PageTypes'
    BY <1>4 DEF Poll, PageTypes, ReceiverTypes
  <2>2. PipeTypes'
    BY <1>4 DEF Poll, PipeTypes
  <2>3. ReceiverTypes'
    BY <1>4 DEF Poll, ReceiverTypes
  <2>4. SourceTypes'
    BY <1>4 DEF Poll, SourceTypes
  <2>5. Exclusive'
    BY <1>4, NoneAssumption DEF Poll, Exclusive, Running, ReceiverTypes
  <2>6. Whole'
    BY <1>4 DEF Poll, Whole, Exclusive
  <2>7. ShownWhole'
    BY <1>4 DEF Poll, ShownWhole, Whole, Exclusive, Fits, Running
  <2>. QED
    BY <2>1, <2>2, <2>3, <2>4, <2>5, <2>6, <2>7
<1>5. CASE Draw
  <2>1. PageTypes'
    <3>1. cache.header \in Nat \X Nat \X Nat
      BY <1>5, SizesAssumption DEF Draw, ShownWhole, Fits, ReceiverTypes
    <3>2. cache.uv \in Frame /\ copied = cache.uv
      BY <1>5, NoneAssumption DEF Draw, Exclusive, Whole, ReceiverTypes
    <3>3. shown' \in [y : Frame, uv : Frame, width : Nat]
      BY <1>5, <3>1, <3>2 DEF Draw
    <3>. QED
      BY <1>5, <3>3 DEF Draw, PageTypes
  <2>2. PipeTypes'
    BY <1>5 DEF Draw, PipeTypes
  <2>3. ReceiverTypes'
    BY <1>5 DEF Draw, ReceiverTypes
  <2>4. SourceTypes'
    BY <1>5 DEF Draw, SourceTypes
  <2>5. Exclusive'
    BY <1>5, NoneAssumption DEF Draw, Exclusive, Running, ReceiverTypes
  <2>6. Whole'
    BY <1>5 DEF Draw, Whole, Exclusive
  <2>7. ShownWhole'
    BY <1>5 DEF Draw, ShownWhole, Whole, Exclusive, Fits, Running
  <2>. QED
    BY <2>1, <2>2, <2>3, <2>4, <2>5, <2>6, <2>7
<1>6. CASE Initialize
  <2>1. PageTypes'
    BY <1>6 DEF Initialize, PageTypes
  <2>2. PipeTypes'
    BY <1>6, BoundsAssumption DEF Initialize, PipeTypes
  <2>3. ReceiverTypes'
    BY <1>6 DEF Initialize, ReceiverTypes
  <2>4. SourceTypes'
    BY <1>6, BoundsAssumption DEF Initialize, SourceTypes, NoStreams
  <2>5. Exclusive'
    BY <1>6 DEF Initialize, Exclusive, Running
  <2>6. Whole'
    BY <1>6 DEF Initialize, Whole, Exclusive, Running
  <2>7. ShownWhole'
    BY <1>6 DEF Initialize, ShownWhole, Whole, Exclusive, Fits, Running
  <2>. QED
    BY <2>1, <2>2, <2>3, <2>4, <2>5, <2>6, <2>7
<1>7. CASE Release
  <2>1. PageTypes'
    BY <1>7 DEF Release, PageTypes
  <2>2. PipeTypes'
    BY <1>7 DEF Release, PipeTypes
  <2>3. ReceiverTypes'
    BY <1>7 DEF Release, ReceiverTypes
  <2>4. SourceTypes'
    BY <1>7 DEF Release, SourceTypes
  <2>5. Exclusive'
    BY <1>7 DEF Release, Exclusive, Running
  <2>6. Whole'
    BY <1>7 DEF Release, Whole, Exclusive
  <2>7. ShownWhole'
    BY <1>7 DEF Release, ShownWhole, Whole, Exclusive, Fits, Running
  <2>. QED
    BY <2>1, <2>2, <2>3, <2>4, <2>5, <2>6, <2>7
<1>8. CASE Joined
  <2>1. PageTypes'
    BY <1>8 DEF Joined, PageTypes
  <2>2. PipeTypes'
    <3>1. /\ messages' \in Seq(Requests \cup {<<"disconnect">>})
          /\ Len(messages') = Len(messages) + 1
      BY <1>8 DEF Joined, PipeTypes
    <3>. QED
      BY <1>8, <3>1, BoundsAssumption DEF Joined, PipeTypes
  <2>3. ReceiverTypes'
    BY <1>8 DEF Joined, ReceiverTypes
  <2>4. SourceTypes'
    BY <1>8 DEF Joined, SourceTypes
  <2>5. Exclusive'
    BY <1>8 DEF Joined, Exclusive, Running
  <2>6. Whole'
    BY <1>8 DEF Joined, Whole, Exclusive
  <2>7. ShownWhole'
    BY <1>8 DEF Joined, ShownWhole, Whole, Exclusive, Fits, Running
  <2>. QED
    BY <2>1, <2>2, <2>3, <2>4, <2>5, <2>6, <2>7
<1>9. CASE Crash
  <2>1. PageTypes'
    BY <1>9 DEF Crash, PageTypes
  <2>2. PipeTypes'
    BY <1>9 DEF Crash, PipeTypes
  <2>3. ReceiverTypes'
    <3>1. locked' \in BOOLEAN
      BY <1>9 DEF Crash, ReceiverTypes
    <3>2. UNCHANGED <<readable, wire, receiver, cache, mutex>>
      BY <1>9 DEF Crash
    <3>. QED
      BY <3>1, <3>2 DEF ReceiverTypes
  <2>4. SourceTypes'
    BY <1>9 DEF Crash, SourceTypes
  <2>5. Exclusive'
    BY <1>9 DEF Crash, Exclusive, Running
  <2>6. Whole'
    BY <1>9 DEF Crash, Whole, Exclusive
  <2>7. ShownWhole'
    BY <1>9 DEF Crash, ShownWhole, Whole, Exclusive, Fits, Running
  <2>. QED
    BY <2>1, <2>2, <2>3, <2>4, <2>5, <2>6, <2>7
<1>. QED
  BY <1>1, <1>2, <1>3, <1>4, <1>5, <1>6, <1>7, <1>8, <1>9

\* What the receiving thread does keeps the invariant.
LEMMA ReceiverStep ==
  ASSUME IInv,
         Receive \/ Lock \/ Resize \/ Copy
  PROVE  IInv'
<1>. USE DEF IInv, TypeOK, page, proxy, receiving, source
<1>1. CASE Receive
  <2>1. PageTypes'
    BY <1>1 DEF Receive, PageTypes
  <2>2. PipeTypes'
    BY <1>1 DEF Receive, PipeTypes
  <2>3. ReceiverTypes'
    BY <1>1 DEF Receive, ReceiverTypes
  <2>4. SourceTypes'
    BY <1>1 DEF Receive, SourceTypes
  <2>5. Exclusive'
    BY <1>1 DEF Receive, Exclusive, Running
  <2>6. Whole'
    BY <1>1 DEF Receive, Whole, Exclusive
  <2>7. ShownWhole'
    BY <1>1 DEF Receive, ShownWhole, Whole, Exclusive, Fits, Running
  <2>. QED
    BY <2>1, <2>2, <2>3, <2>4, <2>5, <2>6, <2>7
<1>2. CASE Lock
  <2>1. PageTypes'
    BY <1>2 DEF Lock, PageTypes
  <2>2. PipeTypes'
    BY <1>2 DEF Lock, PipeTypes
  <2>3. ReceiverTypes'
    BY <1>2 DEF Lock, ReceiverTypes
  <2>4. SourceTypes'
    BY <1>2 DEF Lock, SourceTypes
  <2>5. Exclusive'
    BY <1>2, NoneAssumption DEF Lock, Exclusive, Running, ReceiverTypes
  <2>6. Whole'
    BY <1>2 DEF Lock, Whole, Exclusive
  <2>7. ShownWhole'
    BY <1>2 DEF Lock, ShownWhole, Whole, Exclusive, Fits, Running
  <2>. QED
    BY <2>1, <2>2, <2>3, <2>4, <2>5, <2>6, <2>7
<1>3. CASE Resize
  <2>1. PageTypes'
    BY <1>3 DEF Resize, PageTypes
  <2>2. PipeTypes'
    BY <1>3 DEF Resize, PipeTypes
  <2>3. ReceiverTypes'
    <3>1. receiver.frame \in Frame /\ receiver.frame.size \in Sizes
      BY <1>3 DEF Resize, Exclusive, ReceiverTypes, Frame
    <3>. QED
      BY <1>3, <3>1 DEF Resize, ReceiverTypes
  <2>4. SourceTypes'
    BY <1>3 DEF Resize, SourceTypes
  <2>5. Exclusive'
    BY <1>3 DEF Resize, Exclusive, Running
  <2>6. Whole'
    BY <1>3 DEF Resize, Whole, Exclusive
  <2>7. ShownWhole'
    BY <1>3 DEF Resize, ShownWhole, Whole, Exclusive, Fits, Running
  <2>. QED
    BY <2>1, <2>2, <2>3, <2>4, <2>5, <2>6, <2>7
<1>4. CASE Copy
  <2>1. PageTypes'
    BY <1>4 DEF Copy, PageTypes
  <2>2. PipeTypes'
    BY <1>4 DEF Copy, PipeTypes
  <2>3. ReceiverTypes'
    BY <1>4 DEF Copy, ReceiverTypes
  <2>4. SourceTypes'
    BY <1>4 DEF Copy, SourceTypes
  <2>5. Exclusive'
    BY <1>4, NoneAssumption DEF Copy, Exclusive, Running, ReceiverTypes
  <2>6. Whole'
    BY <1>4 DEF Copy, Whole, Exclusive
  <2>7. ShownWhole'
    BY <1>4 DEF Copy, ShownWhole, Whole, Exclusive, Fits, Running
  <2>. QED
    BY <2>1, <2>2, <2>3, <2>4, <2>5, <2>6, <2>7
<1>. QED
  BY <1>1, <1>2, <1>3, <1>4

\* What the process of the video source does keeps the invariant.
LEMMA SourceStep ==
  ASSUME IInv,
         \/ Handle \/ Leave \/ Write
         \/ \E s \in Streams : Deliver(s)
         \/ \E size \in Sizes : StartCapture(size) \/ ResizeCapture(size)
  PROVE  IInv'
<1>. USE DEF IInv, TypeOK, page, proxy, receiving, source
<1>1. CASE Handle
  <2>1. PageTypes'
    BY <1>1 DEF Handle, Enabled, Disabled, PageTypes
  <2>2. PipeTypes'
    <3>1. /\ messages' \in Seq(Requests \cup {<<"disconnect">>})
          /\ Len(messages') = Len(messages) - 1
      BY <1>1 DEF Handle, PipeTypes
    <3>. QED
      BY <1>1, <3>1, BoundsAssumption DEF Handle, PipeTypes
  <2>3. ReceiverTypes'
    BY <1>1 DEF Handle, Enabled, Disabled, ReceiverTypes
  <2>4. SourceTypes'
    <3>1. Head(messages) \in Requests
      BY <1>1 DEF Handle, PipeTypes
    <3>2. CASE Head(messages)[1] = "enable"
      <4>1. Head(messages)[2] \in Streams /\ Head(messages)[3] \in 1 .. MaxEnables
        BY <3>1, <3>2 DEF Requests
      <4>2. Enabled(Head(messages)[2], Head(messages)[3]) /\ UNCHANGED <<process, capture, frames, sdk>>
        BY <1>1, <3>2 DEF Handle
      <4>3. \A t \in DOMAIN streams' : t \in Streams /\ streams'[t] \in 1 .. MaxEnables
        BY <4>1, <4>2 DEF Enabled, SourceTypes
      <4>. QED
        BY <4>1, <4>2, <4>3 DEF Enabled, SourceTypes
    <3>3. CASE Head(messages)[1] # "enable"
      BY <1>1, <3>3 DEF Handle, Disabled, SourceTypes
    <3>. QED
      BY <3>2, <3>3
  <2>5. Exclusive'
    BY <1>1 DEF Handle, Enabled, Disabled, Exclusive, Running
  <2>6. Whole'
    BY <1>1 DEF Handle, Enabled, Disabled, Whole, Exclusive
  <2>7. ShownWhole'
    BY <1>1 DEF Handle, Enabled, Disabled, ShownWhole, Whole, Exclusive, Fits, Running
  <2>. QED
    BY <2>1, <2>2, <2>3, <2>4, <2>5, <2>6, <2>7
<1>2. CASE Leave
  <2>1. PageTypes'
    BY <1>2 DEF Leave, PageTypes
  <2>2. PipeTypes'
    BY <1>2, BoundsAssumption DEF Leave, PipeTypes
  <2>3. ReceiverTypes'
    BY <1>2 DEF Leave, ReceiverTypes
  <2>4. SourceTypes'
    BY <1>2, BoundsAssumption DEF Leave, SourceTypes, NoStreams
  <2>5. Exclusive'
    BY <1>2 DEF Leave, Exclusive, Running
  <2>6. Whole'
    BY <1>2 DEF Leave, Whole, Exclusive
  <2>7. ShownWhole'
    BY <1>2 DEF Leave, ShownWhole, Whole, Exclusive, Fits, Running
  <2>. QED
    BY <2>1, <2>2, <2>3, <2>4, <2>5, <2>6, <2>7
<1>3. CASE Write
  <2>1. PageTypes'
    BY <1>3 DEF Write, PageTypes
  <2>2. PipeTypes'
    BY <1>3 DEF Write, PipeTypes
  <2>3. ReceiverTypes'
    BY <1>3 DEF Write, ReceiverTypes, SourceTypes
  <2>4. SourceTypes'
    BY <1>3 DEF Write, SourceTypes
  <2>5. Exclusive'
    BY <1>3 DEF Write, Exclusive, Running
  <2>6. Whole'
    BY <1>3 DEF Write, Whole, Exclusive
  <2>7. ShownWhole'
    BY <1>3 DEF Write, ShownWhole, Whole, Exclusive, Fits, Running
  <2>. QED
    BY <2>1, <2>2, <2>3, <2>4, <2>5, <2>6, <2>7
<1>4. ASSUME NEW s \in Streams, Deliver(s) PROVE IInv'
  <2>1. PageTypes'
    BY <1>4 DEF Deliver, PageTypes
  <2>2. PipeTypes'
    BY <1>4 DEF Deliver, PipeTypes
  <2>3. ReceiverTypes'
    BY <1>4 DEF Deliver, ReceiverTypes
  <2>4. SourceTypes'
    <3>1. frames + 1 \in 1 .. MaxFrames /\ capture \in Sizes /\ streams[s] \in 1 .. MaxEnables
      BY <1>4, BoundsAssumption DEF Deliver, SourceTypes
    <3>2. [n |-> frames + 1, size |-> capture] \in Frame
      BY <3>1 DEF Frame
    <3>. QED
      BY <1>4, <3>1, <3>2 DEF Deliver, SourceTypes
  <2>5. Exclusive'
    BY <1>4 DEF Deliver, Exclusive, Running
  <2>6. Whole'
    BY <1>4 DEF Deliver, Whole, Exclusive
  <2>7. ShownWhole'
    BY <1>4 DEF Deliver, ShownWhole, Whole, Exclusive, Fits, Running
  <2>. QED
    BY <2>1, <2>2, <2>3, <2>4, <2>5, <2>6, <2>7
<1>5. ASSUME NEW size \in Sizes, StartCapture(size) PROVE IInv'
  <2>1. PageTypes'
    BY <1>5 DEF StartCapture, PageTypes
  <2>2. PipeTypes'
    BY <1>5 DEF StartCapture, PipeTypes
  <2>3. ReceiverTypes'
    BY <1>5 DEF StartCapture, ReceiverTypes
  <2>4. SourceTypes'
    BY <1>5 DEF StartCapture, SourceTypes
  <2>5. Exclusive'
    BY <1>5 DEF StartCapture, Exclusive, Running
  <2>6. Whole'
    BY <1>5 DEF StartCapture, Whole, Exclusive
  <2>7. ShownWhole'
    BY <1>5 DEF StartCapture, ShownWhole, Whole, Exclusive, Fits, Running
  <2>. QED
    BY <2>1, <2>2, <2>3, <2>4, <2>5, <2>6, <2>7
<1>6. ASSUME NEW size \in Sizes, ResizeCapture(size) PROVE IInv'
  <2>1. PageTypes'
    BY <1>6 DEF ResizeCapture, PageTypes
  <2>2. PipeTypes'
    BY <1>6 DEF ResizeCapture, PipeTypes
  <2>3. ReceiverTypes'
    BY <1>6 DEF ResizeCapture, ReceiverTypes
  <2>4. SourceTypes'
    BY <1>6 DEF ResizeCapture, SourceTypes
  <2>5. Exclusive'
    BY <1>6 DEF ResizeCapture, Exclusive, Running
  <2>6. Whole'
    BY <1>6 DEF ResizeCapture, Whole, Exclusive
  <2>7. ShownWhole'
    BY <1>6 DEF ResizeCapture, ShownWhole, Whole, Exclusive, Fits, Running
  <2>. QED
    BY <2>1, <2>2, <2>3, <2>4, <2>5, <2>6, <2>7
<1>. QED
  BY <1>1, <1>2, <1>3, <1>4, <1>5, <1>6

\* IInv is an invariant.
LEMMA Inductive == Spec => []IInv
<1>1. Init => IInv
  <2>. SUFFICES ASSUME Init PROVE IInv
    OBVIOUS
  <2>1. PageTypes /\ PipeTypes
    <3>1. session \in BOOLEAN /\ view \in BOOLEAN
      BY DEF Init
    <3>. QED
      BY <3>1, BoundsAssumption DEF Init, PageTypes, PipeTypes
  <2>2. ReceiverTypes
    <3>1. readable \in BOOLEAN /\ locked \in BOOLEAN
      BY DEF Init
    <3>. QED
      BY <3>1 DEF Init, ReceiverTypes
  <2>3. SourceTypes
    BY BoundsAssumption DEF Init, SourceTypes, NoStreams
  <2>4. Exclusive /\ Whole /\ ShownWhole
    BY NoneAssumption DEF Init, Exclusive, Whole, ShownWhole
  <2>. QED
    BY <2>1, <2>2, <2>3, <2>4 DEF IInv, TypeOK
<1>2. IInv /\ UNCHANGED vars => IInv'
  <2>. SUFFICES ASSUME IInv, UNCHANGED vars PROVE IInv'
    OBVIOUS
  <2>. USE DEF IInv, TypeOK, vars, page, proxy, receiving, source
  <2>1. PageTypes' /\ PipeTypes'
    BY DEF PageTypes, PipeTypes
  <2>2. ReceiverTypes' /\ SourceTypes'
    BY DEF ReceiverTypes, SourceTypes
  <2>3. Exclusive' /\ Whole' /\ ShownWhole'
    BY DEF Exclusive, Whole, ShownWhole, Fits
  <2>. QED
    BY <2>1, <2>2, <2>3
<1>3. IInv /\ [Next]_vars => IInv'
  BY <1>2, PageStep, ReceiverStep, SourceStep DEF Next
<1>. QED
  BY <1>1, <1>3, PTL DEF Spec

-----------------------------------------------------------------------------
\* TypeOK of FrameCache: of the page, the pipe, the cache and the source.
THEOREM TypeCorrect == Spec => []TypeOK
<1>1. IInv => TypeOK
  BY DEF IInv
<1>. QED
  BY <1>1, Inductive, PTL

\* ShownWhole of FrameCache: what the page shows is one frame, of the size of
\* its buffers, however the receiving thread and the polls meet.
THEOREM Shown == Spec => []ShownWhole
<1>1. IInv => ShownWhole
  BY DEF IInv
<1>. QED
  BY <1>1, Inductive, PTL

-----------------------------------------------------------------------------
\* The delegate of the one stream is the one that the processer holds.
Held == DelegatesLive /\ \A s \in DOMAIN streams : streams[s] = held

\* DelegatesLive of FrameCache, if frames are asked for one stream only: the
\* SDK never calls a delegate that was deleted.
THEOREM Delegates ==
  ASSUME \A s, t \in Streams : s = t
  PROVE  Spec => []DelegatesLive
<1>1. Init => Held
  BY DEF Init, Held, DelegatesLive, NoStreams
<1>2. TypeOK /\ Held /\ [Next]_vars => Held'
  <2>. SUFFICES ASSUME TypeOK, Held, [Next]_vars PROVE Held'
    OBVIOUS
  <2>. USE DEF Held, DelegatesLive, page, proxy, receiving, source
  <2>1. CASE Handle
    <3>1. Head(messages) \in Requests
      BY <2>1 DEF Handle, TypeOK, PipeTypes
    <3>2. Head(messages)[2] \in Streams
      BY <3>1 DEF Requests
    <3>3. \A s \in DOMAIN streams : s = Head(messages)[2]
      BY <3>2 DEF TypeOK, SourceTypes
    <3>4. CASE Head(messages)[1] = "enable"
      <4>1. Enabled(Head(messages)[2], Head(messages)[3]) /\ UNCHANGED sdk
        BY <2>1, <3>4 DEF Handle
      <4>. QED
        BY <4>1, <3>3 DEF Enabled
    <3>5. CASE Head(messages)[1] # "enable"
      <4>1. Disabled(Head(messages)[2]) /\ UNCHANGED sdk
        BY <2>1, <3>5 DEF Handle
      <4>. QED
        BY <4>1, <3>3 DEF Disabled
    <3>. QED
      BY <3>4, <3>5
  <2>2. CASE Leave
    BY <2>2 DEF Leave, NoStreams
  <2>3. ASSUME NEW s \in Streams, Deliver(s) PROVE Held'
    BY <2>3 DEF Deliver
  <2>4. CASE Write
    BY <2>4 DEF Write
  <2>5. CASE UNCHANGED source
    BY <2>5
  <2>6. CASE Initialize
    BY <2>6 DEF Initialize, NoStreams
  <2>7. ASSUME NEW size \in Sizes, StartCapture(size) \/ ResizeCapture(size) PROVE Held'
    BY <2>7 DEF StartCapture, ResizeCapture
  <2>. QED
    BY <2>1, <2>2, <2>3, <2>4, <2>5, <2>6, <2>7
       DEF Next, vars, RemoveView, SetView, FirstFrame, Poll, Draw, Release, Joined,
           Crash, Receive, Lock, Resize, Copy
<1>3. Held => DelegatesLive
  BY DEF Held
<1>. QED
  BY <1>1, <1>2, <1>3, TypeCorrect, PTL DEF Spec
=============================================================================
