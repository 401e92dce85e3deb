----------------------------- MODULE FrameCache -----------------------------
(* The way of a frame of the video source: a thread of the SDK hands it to a  *)
(* delegate (video_source_iris_video_frame_observer.cpp), which writes it     *)
(* into a channel of one block; a thread of the main process reads it         *)
(* (video_source_ipc.cpp) and keeps it (ipc_video_frame_listener.h); the      *)
(* timer of the page copies it into buffers of its own                        *)
(* (node_iris_rtc_engine.cpp).  Delegates come and go on request of the page. *)
(*                                                                            *)
(* The frames of the main process stay within its SDK and are not the subject *)
(* here.  Of a frame there is its number, counted over all sessions, and its  *)
(* size <<yStride, height, width>>.                                           *)
EXTENDS Integers, Sequences, FiniteSets

CONSTANTS
  Streams,      \* what the page enables frames for; the code is made for one
  Sizes,        \* sizes of frames
  None,         \* no frame, no size
  MaxMessages,  \* messages that the pipe to the source holds
  MaxFrames,    \* bound: frames in all
  MaxEnables,   \* bound: requests for frames in all
  MaxSessions   \* bound: sessions of the video source

ASSUME SizesAssumption == Sizes \subseteq Nat \X Nat \X Nat
ASSUME NoneAssumption == None \notin Sizes \cup {"js", "receiver"}
ASSUME BoundsAssumption ==
  MaxMessages \in Nat /\ MaxFrames \in Nat /\ MaxEnables \in Nat /\ MaxSessions \in Nat

VARIABLES
  main,       \* the main process: "up" or "crashed"
  js,         \* the JavaScript thread: "idle", "copying" or "joining"
  session,    \* _initialized of the proxy
  sessions,   \* how many there were
  view,       \* the renderer manager has an entry for the video source
  buffers,    \* the size <<yStride, height>> of its buffers, or None
  copied,     \* the frame whose luma the poll that runs has copied
  shown,      \* what was copied last: [y, uv, width], or None
  enables,    \* requests for frames
  messages,   \* on their way to the source
  events,     \* first-frame events on their way to the page
  readable,   \* the reader has not closed its end of the channel
  wire,       \* the frame in the block of the channel, or None
  locked,     \* the reader left the block locked
  receiver,   \* the receiving thread: [at, frame]
  cache,      \* _cached_video_source_video_frame: [header, allocated, y, uv]
  mutex,      \* _video_frame_mutex: who holds it, or None
  process,    \* the process of the source: "up" or "gone"
  capture,    \* the size of what it captures, or None
  frames,     \* frames delivered
  sdk,        \* the SDK's thread: [delegate, frame] that it writes, or None
  held,       \* _iris_rtc_renderer_delegate, or None
  delegates,  \* those that are not deleted
  streams     \* the streams that the SDK delivers, with their delegates

page == <<view, buffers, copied, shown, enables>>
proxy == <<session, sessions>>
receiving == <<readable, wire, locked, receiver, cache>>
source == <<process, capture, frames, sdk, held, delegates, streams>>
vars == <<main, js, page, proxy, messages, events, receiving, mutex, source>>

NoStreams == [s \in {} |-> 0]
Frame == [n : 1 .. MaxFrames, size : Sizes]
Requests == ({"enable"} \X Streams \X (1 .. MaxEnables)) \cup ({"disable"} \X Streams \X {0})

PageTypes ==
  /\ main \in {"up", "crashed"}
  /\ js \in {"idle", "copying", "joining"}
  /\ session \in BOOLEAN /\ view \in BOOLEAN
  /\ buffers \in (Nat \X Nat) \cup {None}
  /\ copied \in Frame \cup {None}
  /\ shown \in [y : Frame, uv : Frame, width : Nat] \cup {None}
  /\ enables \in 0 .. MaxEnables

PipeTypes ==
  /\ messages \in Seq(Requests \cup {<<"disconnect">>})
  /\ Len(messages) <= MaxMessages
  /\ events \in Seq(Sizes)

ReceiverTypes ==
  /\ readable \in BOOLEAN /\ locked \in BOOLEAN
  /\ wire \in Frame \cup {None}
  /\ receiver \in [at : {"read", "lock", "resize", "copy", "ended"}, frame : Frame \cup {None}]
  /\ cache \in [header : Sizes \cup {None}, allocated : Sizes \cup {None},
                y : Frame \cup {None}, uv : Frame \cup {None}]
  /\ mutex \in {None, "js", "receiver"}

SourceTypes ==
  /\ process \in {"up", "gone"}
  /\ capture \in Sizes \cup {None}
  /\ frames \in 0 .. MaxFrames
  /\ sdk \in [delegate : 1 .. MaxEnables, frame : Frame] \cup {None}
  /\ held \in delegates \cup {None}
  /\ delegates \subseteq 1 .. MaxEnables
  /\ \A s \in DOMAIN streams : s \in Streams /\ streams[s] \in 1 .. MaxEnables

TypeOK == PageTypes /\ PipeTypes /\ ReceiverTypes /\ SourceTypes

\* The header of the cache is not initialised: it may be that of any frame.
Init ==
  /\ main = "up" /\ js = "idle"
  /\ session = FALSE /\ sessions = 0
  /\ view = FALSE /\ buffers = None /\ copied = None /\ shown = None /\ enables = 0
  /\ messages = <<>> /\ events = <<>>
  /\ readable = FALSE /\ wire = None /\ locked = FALSE
  /\ receiver = [at |-> "ended", frame |-> None]
  /\ \E header \in Sizes \cup {None} :
       cache = [header |-> header, allocated |-> None, y |-> None, uv |-> None]
  /\ mutex = None
  /\ process = "gone" /\ capture = None /\ frames = 0 /\ sdk = None
  /\ held = None /\ delegates = {} /\ streams = NoStreams

-----------------------------------------------------------------------------
\* The page.

Running == main = "up" /\ js = "idle"

\* The proxy takes a message only while it is initialised, and waits for room.
Send(ms) ==
  IF session
  THEN Len(messages) + Len(ms) <= MaxMessages /\ messages' = messages \o ms
  ELSE UNCHANGED messages

\* setView: what was there is removed first, unless the view is appended to it;
\* a method that sends two messages may wait between them as well.
SetView(s, append) ==
  /\ Running /\ enables < MaxEnables
  /\ LET replaced == view /\ ~append IN
     /\ Send((IF replaced THEN <<<<"disable", s, 0>>>> ELSE <<>>)
             \o <<<<"enable", s, enables + 1>>>>)
     /\ buffers' = IF replaced THEN None ELSE buffers
  /\ enables' = enables + 1
  /\ view' = TRUE
  /\ UNCHANGED <<main, js, copied, shown, proxy, events, receiving, mutex, source>>

\* destroyRenderer and what removes a renderer like it.
RemoveView(s) ==
  /\ Running /\ view
  /\ Send(<<<<"disable", s, 0>>>>)
  /\ view' = FALSE /\ buffers' = None
  /\ UNCHANGED <<main, js, copied, shown, enables, proxy, events, receiving, mutex, source>>

\* onFirstLocalVideoFrame of the video source: buffers for width times height.
FirstFrame ==
  /\ Running /\ events # <<>>
  /\ events' = Tail(events)
  /\ buffers' = IF view THEN <<Head(events)[3], Head(events)[2]>> ELSE buffers
  /\ UNCHANGED <<main, js, view, copied, shown, enables, proxy, messages, receiving, mutex,
                 source>>

\* The cached frame is of the size of the buffers.
Fits(size) == size # None /\ buffers = <<size[1], size[2]>>

\* Faulty variant of Poll: a frame with padded rows is left.
PollUnpadded ==
  /\ Running /\ view /\ buffers # None
  /\ mutex = None
  /\ cache.uv # None /\ Fits(cache.header) /\ cache.header[3] = cache.header[1]
  /\ mutex' = "js" /\ js' = "copying"
  /\ copied' = cache.y
  /\ UNCHANGED <<main, view, buffers, shown, enables, proxy, messages, events, receiving, source>>

\* GetVideoStreamData: CopyFrame copies a frame that fits, and copies it again
\* at the next poll, for it stays fresh.  One that does not fit is left.
Poll ==
  /\ Running /\ view /\ buffers # None
  /\ mutex = None
  /\ cache.uv # None /\ Fits(cache.header)
  /\ mutex' = "js" /\ js' = "copying"
  /\ copied' = cache.y
  /\ UNCHANGED <<main, view, buffers, shown, enables, proxy, messages, events, receiving, source>>

Draw ==
  /\ main = "up" /\ js = "copying"
  /\ shown' = [y |-> copied, uv |-> cache.uv, width |-> cache.header[3]]
  /\ mutex' = None /\ js' = "idle" /\ copied' = None
  /\ UNCHANGED <<main, view, buffers, enables, proxy, messages, events, receiving, source>>

\* videoSourceInitialize: a new process, a new channel, a new thread that reads
\* it.  It does not wait for the process of the session before, which may still
\* run, with channels of its own; from here on the new one is followed.
Initialize ==
  /\ Running /\ ~session /\ sessions < MaxSessions
  /\ session' = TRUE /\ sessions' = sessions + 1
  /\ process' = "up" /\ messages' = <<>>
  /\ readable' = TRUE /\ wire' = None /\ locked' = FALSE
  /\ receiver' = [at |-> "read", frame |-> None]
  /\ capture' = None /\ sdk' = None
  /\ held' = None /\ delegates' = {} /\ streams' = NoStreams
  /\ UNCHANGED <<main, js, page, events, cache, mutex, frames>>

\* Faulty variant of Release: the receiver's end is not closed.
ReleaseOpen ==
  /\ Running /\ session
  /\ session' = FALSE
  /\ js' = "joining"
  /\ UNCHANGED <<main, page, sessions, messages, events, receiving, mutex, source>>

\* Clear of the proxy: the receiver goes first; its stop closes its end of the
\* channel.  A thread that is in read() comes out of it, at the check that it
\* makes with the lock of the block or at the one before ...
Release ==
  /\ Running /\ session
  /\ session' = FALSE
  /\ readable' = FALSE
  /\ locked' \in {FALSE, receiver.at = "read"}
  /\ js' = "joining"
  /\ UNCHANGED <<main, page, sessions, messages, events, wire, receiver, cache, mutex, source>>

\* ... and joins its thread; then the source is told to leave.
Joined ==
  /\ main = "up" /\ js = "joining" /\ receiver.at = "ended"
  /\ Len(messages) < MaxMessages
  /\ messages' = Append(messages, <<"disconnect">>)
  /\ js' = "idle"
  /\ UNCHANGED <<main, page, proxy, events, receiving, mutex, source>>

\* The main process is killed; its end of the channel stays open, and locked if
\* its thread had just locked it.
Crash ==
  /\ main = "up"
  /\ main' = "crashed"
  /\ UNCHANGED locked \/ (receiver.at = "read" /\ locked' = TRUE)
  /\ UNCHANGED <<js, page, proxy, messages, events, readable, wire, receiver, cache, mutex, source>>

-----------------------------------------------------------------------------
\* The receiving thread.

Receive ==
  /\ main = "up" /\ receiver.at = "read"
  /\ IF ~readable
     THEN receiver' = [at |-> "ended", frame |-> None] /\ UNCHANGED wire
     ELSE /\ wire # None
          /\ receiver' = [at |-> "lock", frame |-> wire]
          /\ wire' = None
  /\ UNCHANGED <<main, js, page, proxy, messages, events, readable, locked, cache, mutex, source>>

\* Faulty variant of Lock: the mutex is not taken.
LockNot ==
  /\ main = "up" /\ receiver.at = "lock"
  /\ receiver' = [receiver EXCEPT !.at = "resize"]
  /\ UNCHANGED <<main, js, page, proxy, messages, events, readable, wire, locked, cache, mutex, source>>

Lock ==
  /\ main = "up" /\ receiver.at = "lock"
  /\ mutex = None
  /\ mutex' = "receiver"
  /\ receiver' = [receiver EXCEPT !.at = "resize"]
  /\ UNCHANGED <<main, js, page, proxy, messages, events, readable, wire, locked, cache, source>>

\* UpdateBuffer makes new buffers for a frame of another size than the last ...
Resize ==
  /\ main = "up" /\ receiver.at = "resize"
  /\ LET size == receiver.frame.size IN
     cache' = IF size = cache.header THEN [cache EXCEPT !.y = receiver.frame]
              ELSE [header |-> size, allocated |-> size, y |-> receiver.frame, uv |-> None]
  /\ main' = IF cache'.allocated = None THEN "crashed" ELSE main  \* memcpy to a null pointer
  /\ receiver' = [receiver EXCEPT !.at = "copy"]
  /\ UNCHANGED <<js, page, proxy, messages, events, readable, wire, locked, mutex, source>>

\* ... and copies it.
Copy ==
  /\ main = "up" /\ receiver.at = "copy"
  /\ cache' = [cache EXCEPT !.uv = receiver.frame]
  /\ mutex' = IF mutex = "receiver" THEN None ELSE mutex
  /\ receiver' = [at |-> "read", frame |-> None]
  /\ UNCHANGED <<main, js, page, proxy, messages, events, readable, wire, locked, source>>

-----------------------------------------------------------------------------
\* The process of the video source.

\* Faulty variant of Enabled: the delegate that is replaced is deleted first.
EnabledAfresh(s, d) ==
  /\ streams' = [t \in DOMAIN streams \cup {s} |-> IF t = s THEN d ELSE streams[t]]
  /\ held' = d
  /\ delegates' = (delegates \ {held}) \cup {d}

\* EnableVideoFrameCache of the processer: the delegate that was held is
\* forgotten, not deleted.
Enabled(s, d) ==
  /\ streams' = [t \in DOMAIN streams \cup {s} |-> IF t = s THEN d ELSE streams[t]]
  /\ held' = d
  /\ delegates' = delegates \cup {d}

\* Faulty variant of Disabled: the pointer is not reset.
DisabledDangling(s) ==
  /\ sdk = None
  /\ streams' = [t \in DOMAIN streams \ {s} |-> streams[t]]
  /\ UNCHANGED held
  /\ delegates' = delegates \ {held}

\* DisableVideoFrameCache: the SDK stops delivering, which waits for a frame
\* that is being delivered; then the delegate is deleted.
Disabled(s) ==
  /\ sdk = None
  /\ streams' = [t \in DOMAIN streams \ {s} |-> streams[t]]
  /\ held' = None
  /\ delegates' = delegates \ {held}

\* OnMessage of the source.
Handle ==
  /\ process = "up" /\ messages # <<>> /\ Head(messages) # <<"disconnect">>
  /\ messages' = Tail(messages)
  /\ LET m == Head(messages) IN
     IF m[1] = "enable" THEN Enabled(m[2], m[3]) ELSE Disabled(m[2])
  /\ UNCHANGED <<main, js, page, proxy, events, receiving, mutex, process, capture, frames, sdk>>

\* DISCONNECT, or the monitor of the main process: the engine is destroyed
\* first, which waits for its threads, the processer and its delegate last.
Leave ==
  /\ process = "up"
  /\ main = "crashed" \/ (messages # <<>> /\ Head(messages) = <<"disconnect">>)
  /\ sdk = None
  /\ process' = "gone" /\ messages' = <<>>
  /\ capture' = None /\ streams' = NoStreams /\ held' = None /\ delegates' = {}
  /\ UNCHANGED <<main, js, page, proxy, events, receiving, mutex, frames, sdk>>

\* The SDK reports the first frame of a capture, and no later change of its
\* size.  There is one capture in a session.
StartCapture(size) ==
  /\ process = "up" /\ capture = None
  /\ capture' = size
  /\ events' = Append(events, size)
  /\ UNCHANGED <<main, js, page, proxy, messages, receiving, mutex, process, frames, sdk, held,
                 delegates, streams>>

ResizeCapture(size) ==
  /\ process = "up" /\ capture # None /\ frames < MaxFrames
  /\ capture' = size
  /\ UNCHANGED <<main, js, page, proxy, messages, events, receiving, mutex, process, frames, sdk,
                 held, delegates, streams>>

\* A frame is handed to the delegate of a stream, which fills its buffer ...
Deliver(s) ==
  /\ process = "up" /\ capture # None /\ sdk = None
  /\ s \in DOMAIN streams /\ frames < MaxFrames
  /\ frames' = frames + 1
  /\ sdk' = [delegate |-> streams[s], frame |-> [n |-> frames + 1, size |-> capture]]
  /\ UNCHANGED <<main, js, page, proxy, messages, events, receiving, mutex, process, capture, held,
                 delegates, streams>>

\* ... and waits for the block.  Whether somebody reads it does not matter: only
\* its own end would make a write return, and that one is not closed, for the
\* delegates share the sender that Exit gives up (ipc_shm.h:483).
Write ==
  /\ process = "up" /\ sdk # None
  /\ wire = None /\ ~locked
  /\ wire' = sdk.frame
  /\ sdk' = None
  /\ UNCHANGED <<main, js, page, proxy, messages, events, readable, locked, receiver, cache, mutex, process,
                 capture, frames, held, delegates, streams>>

-----------------------------------------------------------------------------
Next ==
  \/ \E s \in Streams : RemoveView(s) \/ \E append \in BOOLEAN : SetView(s, append)
  \/ FirstFrame \/ Poll \/ Draw \/ Initialize \/ Release \/ Joined \/ Crash
  \/ Receive \/ Lock \/ Resize \/ Copy
  \/ Handle \/ Leave \/ Write
  \/ \E s \in Streams : Deliver(s)
  \/ \E size \in Sizes : StartCapture(size) \/ ResizeCapture(size)

\* Threads run; the mutex, free for most of the time between two polls, is had
\* at last by whoever waits for it, and the timer goes on polling.
Spec ==
  /\ Init /\ [][Next]_vars
  /\ SF_vars(Poll) /\ WF_vars(Draw) /\ WF_vars(Joined)
  /\ WF_vars(Receive) /\ SF_vars(Lock) /\ WF_vars(Resize) /\ WF_vars(Copy)
  /\ WF_vars(Handle) /\ WF_vars(Leave) /\ WF_vars(Write)

-----------------------------------------------------------------------------
\* Every delegate that the SDK may call, or is in, has not been deleted: the
\* processer keeps one pointer, which is enough for one stream however often
\* frames are asked for and given up.
DelegatesLive ==
  /\ \A s \in DOMAIN streams : streams[s] \in delegates
  /\ sdk # None => sdk.delegate \in delegates

\* What is shown is one frame with its own width, copied into buffers of its
\* size, whatever arrives while it is copied.
ShownWhole ==
  /\ js = "copying" => Fits(cache.header)
  /\ shown # None => shown.y = shown.uv /\ shown.width = shown.y.size[3]

\* A frame of the size of the page's buffers that has been sent is shown, or a
\* later one, unless the buffers change, the session or the process ends.
OnItsWay(n) ==
  /\ main = "up" /\ session
  /\ \E f \in {wire, receiver.frame, cache.uv} : f # None /\ f.n = n /\ Fits(f.size)
Newest ==
  \A n \in 1 .. MaxFrames :
    OnItsWay(n) ~> \/ shown # None /\ shown.y.n >= n
                   \/ main = "crashed" \/ ~session
                   \/ \E f \in {wire, receiver.frame, cache.uv} : f # None /\ f.n >= n /\ ~Fits(f.size)

\* The SDK's thread waits before a channel that nobody reads any more, and the
\* source, which waits for that thread, with it.
Stranded == ~readable /\ sdk # None /\ (wire # None \/ locked)

\* When the session is released the source leaves, whatever frame is on its way
\* between the threads and processes that wait for one another, unless a frame
\* was caught before the channel that the release closed.
SourceFollows ==
  (process = "up" /\ js = "joining")
    ~> (process = "gone" \/ Stranded \/ session \/ main = "crashed")
=============================================================================
