------------------------- MODULE VideoSourceSession -------------------------
(***************************************************************************)
(* The sessions of the video source: VideoSourceProxy in the main process  *)
(* starts a process per session, waits for it to be ready, sends it API    *)
(* calls and receives its events through two shared-memory channels, and   *)
(* tears the session down on a call of the application or when the process *)
(* exits.                                                                  *)
(*                                                                         *)
(* A channel is the bounded FIFO that ShmChannel implements: a write waits *)
(* while the ring is full and its end is open.  A thread whose end is      *)
(* closed, or whose process dies, inside read() or write() may leave the   *)
(* lock of its block set; who comes to that block spins until both ends    *)
(* are closed (ipc_shm.h:428-443, 477).  Of several threads in a write to  *)
(* an end that is closed, the model lets all return, though the second may *)
(* spin like the other side (CloseEndsCalls in README.md).                 *)
(* Both channels of a session are opened and closed together by each side. *)
(* The frame channel, whose reading thread only copies frames, is reduced  *)
(* to whether it exists.                                                   *)
(***************************************************************************)
EXTENDS Naturals, Sequences, FiniteSets

CONSTANTS
  MaxSessions,  \* bound: processes that are started
  RingSize,     \* VIDEO_SOURCE_BLOCK_NUM
  MaxCalls,     \* bound: API calls per session
  MaxEvents,    \* bound: events per session
  Faults        \* what may go wrong: "spawn", "init", "crash", "parent"

ASSUME RingAssumption == RingSize \in Nat \ {0}
ASSUME BoundsAssumption ==
  /\ MaxSessions \in Nat /\ MaxCalls \in Nat /\ MaxEvents \in Nat
  /\ Faults \subseteq {"spawn", "init", "crash", "parent"}

Sessions == 1 .. MaxSessions

\* Threads of the main process that run VideoSourceProxy: the JavaScript
\* thread, and the monitor thread of each session.
JS      == 0
Threads == {JS} \cup Sessions

VARIABLES
  alive,        \* the main process lives
  session,      \* the session of _agora_ipc, 0 before the first
  initialized,  \* _initialized
  handler,      \* _video_source_event_handler is set
  statusEvent,  \* _status_event is set
  at, then,     \* where each thread is; what JS does after Clear
  listener,     \* per session: _message_thread
  ends,         \* per session: the sides whose channel ends are open
  toSource, toProxy,  \* per session: the messages in the two channels
  source,       \* per session: where the main thread of the process is
  sourceInit,   \* per session: VideoSource::_initialize
  data,         \* per session: the frame channel exists
  barred,       \* per session: who will find a lock that was left behind
  caught,       \* per session: a thread of the process's SDK found one
  accepted, executed, raised  \* per session: calls written, calls run, events

proxy   == <<session, initialized, handler, statusEvent>>
threads == <<at, then>>
ipc     == <<ends, toSource, toProxy>>
process == <<source, sourceInit, data>>
counts  == <<accepted, executed, raised>>
left    == <<barred, caught>>
vars    == <<alive, proxy, threads, listener, ipc, process, counts, left>>

Init ==
  /\ alive = TRUE
  /\ session = 0
  /\ initialized = FALSE
  /\ handler = FALSE
  /\ statusEvent = FALSE
  /\ at = [t \in Threads |-> IF t = JS THEN "idle" ELSE "off"]
  /\ then = "idle"
  /\ listener = [s \in Sessions |-> "off"]
  /\ ends = [s \in Sessions |-> {}]
  /\ toSource = [s \in Sessions |-> <<>>]
  /\ toProxy = [s \in Sessions |-> <<>>]
  /\ source = [s \in Sessions |-> "off"]
  /\ sourceInit = [s \in Sessions |-> FALSE]
  /\ data = [s \in Sessions |-> FALSE]
  /\ barred = [s \in Sessions |-> {}]
  /\ caught = [s \in Sessions |-> FALSE]
  /\ accepted = [s \in Sessions |-> 0]
  /\ executed = [s \in Sessions |-> 0]
  /\ raised = [s \in Sessions |-> 0]

\* Thread t of the main process goes from one place to another.
Go(t, from, to) == alive /\ at[t] = from /\ at' = [at EXCEPT ![t] = to]

\* The process of session s does.
Proceed(s, from, to) ==
  source[s] = from /\ source' = [source EXCEPT ![s] = to]

AfterClear(t) == IF t = JS THEN then ELSE "ended"

Room(channel) == Len(channel) < RingSize

ReadsAndWrites == {"proxyReads", "proxyWrites", "sourceReads", "sourceWrites"}

\* The channel that a call is on.
Ring(s, call) ==
  IF call \in {"proxyWrites", "sourceReads"} THEN toSource[s] ELSE toProxy[s]

\* The call is at the block whose lock was left, and spins.  The block is the
\* next of both sides, the writer's and the reader's, when the ring is empty or
\* full; `used` is 1 as long as one end is open.
Stuck(s, call) ==
  /\ call \in barred[s]
  /\ ends[s] # {}
  /\ Ring(s, call) = <<>> \/ ~Room(Ring(s, call))

\* Locks may be left where these calls of the other side come; calls that are
\* over come no more.
Bar(s, calls, over) ==
  \E C \in SUBSET calls : barred' = [barred EXCEPT ![s] = (@ \cup C) \ over]

\* Whom the threads of the main process that are in read() and write() may bar,
\* and whom those of the process.
ProxyMayBar(s) ==
  (IF listener[s] = "read" THEN {"sourceWrites"} ELSE {})
  \cup (IF \E t \in Threads : session = s /\ at[t] \in {"bye", "send"}
          THEN {"sourceReads"} ELSE {})

SourceMayBar(s) ==
  (IF source[s] \in {"announce", "run"} /\ listener[s] # "ended" THEN {"proxyReads"} ELSE {})
  \cup (IF source[s] = "run" /\ "proxy" \in ends[s] THEN {"proxyWrites"} ELSE {})
-----------------------------------------------------------------------------
(* Faulty variants of some steps below, to show that the properties notice. *)

\* A write does not wait for room.
SendCallNow ==
  /\ Go(JS, "send", "idle")
  /\ IF "proxy" \in ends[session]
       THEN /\ toSource' = [toSource EXCEPT ![session] = Append(@, "call")]
            /\ accepted' = [accepted EXCEPT ![session] = @ + 1]
       ELSE UNCHANGED <<toSource, accepted>>
  /\ UNCHANGED <<proxy, then, listener, ends, toProxy, process, executed, raised, alive, left>>

\* A `break` is missing: a call falls through to AGORA_IPC_DISCONNECT.
SourceReadFallThrough(s) ==
  /\ source[s] = "run"
  /\ "source" \in ends[s]
  /\ toSource[s] # <<>>
  /\ toSource' = [toSource EXCEPT ![s] = Tail(@)]
  /\ executed' = [executed EXCEPT ![s] = @ + 1]
  /\ IF sourceInit[s]
       THEN /\ Proceed(s, "run", "leave")
            /\ ends' = [ends EXCEPT ![s] = @ \ {"source"}]
            /\ data' = [data EXCEPT ![s] = FALSE]
       ELSE UNCHANGED <<source, ends, data>>
  /\ UNCHANGED <<proxy, threads, listener, toProxy, sourceInit, accepted, raised, alive, left>>

\* Release does not look at _initialized.
MonitorExitAnyway(s) ==
  /\ source[s] = "gone"
  /\ Go(s, "watch", "clear")
  /\ UNCHANGED <<proxy, then, listener, ipc, process, counts, alive, left>>

\* The exit of the process is not reported.
MonitorExitNot(s) ==
  /\ source[s] = "gone"
  /\ Go(s, "watch", "ended")
  /\ UNCHANGED <<proxy, then, listener, ipc, process, counts, alive, left>>

\* Clear does not close the channels.
CloseNot(t) ==
  /\ Go(t, "close", "join")
  /\ UNCHANGED <<proxy, then, listener, ipc, process, counts, alive, left>>


\* The process announces itself and forgets _initialize.
AnnounceOnly(s) ==
  /\ Proceed(s, "announce", "run")
  /\ IF "source" \in ends[s]
       THEN toProxy' = [toProxy EXCEPT ![s] = Append(@, "ready")]
       ELSE UNCHANGED toProxy
  /\ UNCHANGED <<proxy, threads, listener, ends, toSource, sourceInit, data, counts, alive, left>>

\* Initialize does not clear what a failed call left behind.
InitializeDirty ==
  /\ session < MaxSessions
  /\ ~initialized
  /\ Go(JS, "idle", "launch")
  /\ UNCHANGED <<proxy, then, listener, ipc, process, counts, alive, left>>
-----------------------------------------------------------------------------
(* VideoSourceProxy::Clear, by the JavaScript thread or a monitor thread *)

\* Also the frame receiver is stopped here.
Clear(t) ==
  /\ Go(t, "clear", "bye")
  /\ initialized' = FALSE
  /\ handler' = FALSE
  /\ UNCHANGED <<session, statusEvent, then, listener, ipc, process, counts, alive, left>>

\* sendMessage(AGORA_IPC_DISCONNECT) waits while the ring is full.
Bye(t) ==
  /\ Go(t, "bye", IF session = 0 THEN AfterClear(t) ELSE "close")
  /\ IF session # 0 /\ "proxy" \in ends[session]
       THEN /\ Room(toSource[session])
            /\ ~Stuck(session, "proxyWrites")
            /\ toSource' = [toSource EXCEPT ![session] = Append(@, "disconnect")]
       ELSE UNCHANGED toSource
  /\ UNCHANGED <<proxy, then, listener, ends, toProxy, process, counts, alive, left>>

Close(t) ==
  /\ Go(t, "close", "join")
  /\ ends' = [ends EXCEPT ![session] = @ \ {"proxy"}]
  /\ Bar(session, ProxyMayBar(session), {"proxyWrites"})
  /\ UNCHANGED <<proxy, then, listener, toSource, toProxy, process, counts, alive, caught>>

Join(t) ==
  /\ Go(t, "join", AfterClear(t))
  /\ listener[session] \in {"off", "ended"}
  /\ UNCHANGED <<proxy, then, listener, ipc, process, counts, alive, left>>

Clearing(t) == Clear(t) \/ Bye(t) \/ Close(t) \/ Join(t)

(* VideoSourceProxy::Initialize *)

Initialize ==
  /\ session < MaxSessions
  /\ ~initialized
  /\ Go(JS, "idle", "clear")
  /\ then' = "launch"
  /\ UNCHANGED <<proxy, listener, ipc, process, counts, alive, left>>

\* A new id, channels and message thread, then the process.  The AgoraIpc of
\* the previous session is destroyed, which unlinks its shared memory.
Launch ==
  LET s == session + 1 IN
  /\ alive /\ at[JS] = "launch"
  /\ session' = s
  /\ handler' = TRUE
  /\ ends' = [ends EXCEPT ![s] = {"proxy"}]
  /\ listener' = [listener EXCEPT ![s] = "read"]
  /\ \/ /\ Go(JS, "launch", "wait")
        /\ Proceed(s, "off", "start")
     \/ /\ "spawn" \in Faults
        /\ Go(JS, "launch", "idle")
        /\ UNCHANGED source
  /\ UNCHANGED <<initialized, statusEvent, then, toSource, toProxy, sourceInit, data, counts, alive, left>>

WaitReady ==
  /\ statusEvent
  /\ Go(JS, "wait", "arm")
  /\ UNCHANGED <<proxy, then, listener, ipc, process, counts, alive, left>>

WaitTimeout ==
  /\ ~statusEvent
  /\ Go(JS, "wait", "idle")
  /\ UNCHANGED <<proxy, then, listener, ipc, process, counts, alive, left>>

Monitor ==
  /\ alive /\ at[JS] = "arm"
  /\ at' = [at EXCEPT ![JS] = "receive", ![session] = "watch"]
  /\ UNCHANGED <<proxy, then, listener, ipc, process, counts, alive, left>>

\* The frame receiver opens the channel that the process created.
Receive ==
  /\ Go(JS, "receive", "idle")
  /\ initialized' = data[session]
  /\ UNCHANGED <<session, handler, statusEvent, then, listener, ipc, process, counts, alive, left>>

(* Other calls of the application *)

Release ==
  /\ initialized
  /\ Go(JS, "idle", "clear")
  /\ then' = "idle"
  /\ UNCHANGED <<proxy, listener, ipc, process, counts, alive, left>>

\* The engine is released and with it the proxy.
Destroy ==
  /\ Go(JS, "idle", "clear")
  /\ then' = "deleted"
  /\ UNCHANGED <<proxy, listener, ipc, process, counts, alive, left>>

\* CallApi and the calls like it: the check, then sendMessage.
CallApi ==
  /\ initialized
  /\ accepted[session] < MaxCalls
  /\ Go(JS, "idle", "send")
  /\ UNCHANGED <<proxy, then, listener, ipc, process, counts, alive, left>>

SendCall ==
  /\ Go(JS, "send", "idle")
  /\ IF "proxy" \in ends[session]
       THEN /\ Room(toSource[session])
            /\ ~Stuck(session, "proxyWrites")
            /\ toSource' = [toSource EXCEPT ![session] = Append(@, "call")]
            /\ accepted' = [accepted EXCEPT ![session] = @ + 1]
       ELSE UNCHANGED <<toSource, accepted>>
  /\ UNCHANGED <<proxy, then, listener, ends, toProxy, process, executed, raised, alive, left>>

\* The process of s exited: OnVideoSourceExit calls VideoSourceRelease, which
\* finds no proxy once the engine released it.
MonitorExit(s) ==
  /\ source[s] = "gone"
  /\ LET deleted == then = "deleted" /\ at[JS] # "idle" IN
     Go(s, "watch", IF initialized /\ ~deleted THEN "clear" ELSE "ended")
  /\ UNCHANGED <<proxy, then, listener, ipc, process, counts, alive, left>>
-----------------------------------------------------------------------------
(* The message thread: AgoraIpc::run and VideoSourceProxy::OnMessage *)

ListenEnd(s) ==
  /\ alive
  /\ listener[s] = "read"
  /\ "proxy" \notin ends[s]
  /\ ~Stuck(s, "proxyReads")
  /\ listener' = [listener EXCEPT ![s] = "ended"]
  /\ Bar(s, {}, {"proxyReads"})
  /\ UNCHANGED <<proxy, threads, ipc, process, counts, alive, caught>>

Listen(s) ==
  /\ alive
  /\ listener[s] = "read"
  /\ "proxy" \in ends[s]
  /\ toProxy[s] # <<>>
  /\ ~Stuck(s, "proxyReads")
  /\ toProxy' = [toProxy EXCEPT ![s] = Tail(@)]
  /\ statusEvent' = (statusEvent \/ Head(toProxy[s]) = "ready")
  /\ listener' = [listener EXCEPT ![s] =
                    IF initialized /\ Head(toProxy[s]) = "event" THEN "event" ELSE "read"]
  /\ UNCHANGED <<session, initialized, handler, threads, ends, toSource, process, counts, alive, left>>

\* The handler is looked at, then called.
CheckHandler(s) ==
  /\ alive
  /\ listener[s] = "event"
  /\ listener' = [listener EXCEPT ![s] = IF handler THEN "use" ELSE "read"]
  /\ UNCHANGED <<proxy, threads, ipc, process, counts, alive, left>>

UseHandler(s) ==
  /\ alive
  /\ listener[s] = "use"
  /\ listener' = [listener EXCEPT ![s] = "read"]
  /\ UNCHANGED <<proxy, threads, ipc, process, counts, alive, left>>

Message(s) == ListenEnd(s) \/ Listen(s) \/ CheckHandler(s) \/ UseHandler(s)
-----------------------------------------------------------------------------
(* The video source process *)

\* The shared memory of an earlier session is gone: connect fails, Initialize
\* returns, and Run reads from a channel that was never opened.
Connect(s) ==
  /\ Proceed(s, "start", IF session = s THEN "engine" ELSE "gone")
  /\ ends' = IF session = s THEN [ends EXCEPT ![s] = @ \cup {"source"}] ELSE ends
  /\ UNCHANGED <<proxy, threads, listener, toSource, toProxy, sourceInit, data, counts, alive, left>>

\* The engine is initialized and the frame channel created; main runs on
\* whether or not this succeeds.
Setup(s) ==
  /\ \/ /\ Proceed(s, "engine", "announce")
        /\ data' = [data EXCEPT ![s] = TRUE]
     \/ /\ "init" \in Faults
        /\ Proceed(s, "engine", "run")
        /\ UNCHANGED data
  /\ UNCHANGED <<proxy, threads, listener, ipc, sourceInit, counts, alive, left>>

Announce(s) ==
  /\ Proceed(s, "announce", "run")
  /\ IF "source" \in ends[s]
       THEN /\ Room(toProxy[s])
            /\ ~Stuck(s, "sourceWrites")
            /\ toProxy' = [toProxy EXCEPT ![s] = Append(@, "ready")]
       ELSE UNCHANGED toProxy
  /\ sourceInit' = [sourceInit EXCEPT ![s] = TRUE]
  /\ UNCHANGED <<proxy, threads, listener, ends, toSource, data, counts, alive, left>>

\* A thread of the SDK in the process reports an event.
RaiseEvent(s) ==
  /\ source[s] \in {"announce", "run"}
  /\ raised[s] < MaxEvents
  /\ "source" \in ends[s]
  /\ raised' = [raised EXCEPT ![s] = @ + 1]
  /\ \/ /\ Room(toProxy[s])
        /\ ~Stuck(s, "sourceWrites")
        /\ toProxy' = [toProxy EXCEPT ![s] = Append(@, "event")]
        /\ UNCHANGED caught
     \/ /\ Stuck(s, "sourceWrites")
        /\ caught' = [caught EXCEPT ![s] = TRUE]
        /\ UNCHANGED toProxy
  /\ UNCHANGED <<proxy, threads, listener, ends, toSource, process, accepted, executed, alive, barred>>

\* VideoSource::OnMessage; AGORA_IPC_DISCONNECT makes it Exit and Clear, while
\* a thread of the SDK may be writing an event.
SourceRead(s) ==
  /\ source[s] = "run"
  /\ "source" \in ends[s]
  /\ toSource[s] # <<>>
  /\ ~Stuck(s, "sourceReads")
  /\ toSource' = [toSource EXCEPT ![s] = Tail(@)]
  /\ IF sourceInit[s] /\ Head(toSource[s]) = "call"
       THEN executed' = [executed EXCEPT ![s] = @ + 1]
       ELSE UNCHANGED executed
  /\ IF sourceInit[s] /\ Head(toSource[s]) = "disconnect"
       THEN /\ Proceed(s, "run", "leave")
            /\ ends' = [ends EXCEPT ![s] = @ \ {"source"}]
            /\ data' = [data EXCEPT ![s] = FALSE]
            /\ Bar(s, SourceMayBar(s) \cap {"proxyReads"}, {"sourceReads", "sourceWrites"})
       ELSE UNCHANGED <<source, ends, data, barred>>
  /\ UNCHANGED <<proxy, threads, listener, toProxy, sourceInit, accepted, raised, alive, caught>>

\* Its monitor thread sees the main process gone.
ParentExit(s) ==
  /\ source[s] = "run"
  /\ ~alive
  /\ "source" \in ends[s]
  /\ ends' = [ends EXCEPT ![s] = @ \ {"source"}]
  /\ data' = [data EXCEPT ![s] = FALSE]
  /\ UNCHANGED <<proxy, threads, listener, toSource, toProxy, source, sourceInit, counts, alive, left>>

\* run returns: OnMessage closed the end, or read finds it closed.  main deletes
\* the engine, which waits for the SDK's threads, and returns.
SourceEnd(s) ==
  /\ "source" \notin ends[s]
  /\ source[s] = "run" => ~Stuck(s, "sourceReads")
  /\ caught[s] => ends[s] = {}
  /\ Proceed(s, "run", "gone") \/ Proceed(s, "leave", "gone")
  /\ Bar(s, {}, {"sourceReads", "sourceWrites"})
  /\ UNCHANGED <<proxy, threads, listener, ipc, sourceInit, data, counts, alive, caught>>

SourceStep(s) ==
  Connect(s) \/ Setup(s) \/ Announce(s) \/ SourceRead(s) \/ ParentExit(s) \/ SourceEnd(s)

\* A crash leaves the shared memory as it is, with the locks of the threads that
\* were inside read() and write().
SourceCrash(s) ==
  /\ "crash" \in Faults
  /\ source[s] \notin {"off", "gone"}
  /\ source' = [source EXCEPT ![s] = "gone"]
  /\ Bar(s, IF "source" \in ends[s] THEN SourceMayBar(s) ELSE {},
            {"sourceReads", "sourceWrites"})
  /\ UNCHANGED <<proxy, threads, listener, ipc, sourceInit, data, counts, alive, caught>>

ParentCrash ==
  /\ "parent" \in Faults
  /\ alive
  /\ alive' = FALSE
  /\ session # 0 => Bar(session, ProxyMayBar(session), {})
  /\ session = 0 => UNCHANGED barred
  /\ UNCHANGED <<proxy, threads, listener, ipc, process, counts, caught>>
-----------------------------------------------------------------------------
\* What the JavaScript thread does inside a call.
Run ==
  \/ Clearing(JS) \/ Launch \/ WaitReady \/ WaitTimeout \/ Monitor \/ Receive
  \/ SendCall

Watch(s) == MonitorExit(s) \/ Clearing(s)

Next ==
  \/ Run
  \/ Initialize \/ Release \/ Destroy \/ CallApi
  \/ \E s \in Sessions :
       \/ Watch(s) \/ Message(s) \/ SourceStep(s)
       \/ RaiseEvent(s) \/ SourceCrash(s)
  \/ ParentCrash

Spec == Init /\ [][Next]_vars

\* Every thread runs.  Nobody has to call, to raise an event or to fail.
Fairness ==
  /\ WF_vars(Run)
  /\ \A s \in Sessions : WF_vars(Watch(s)) /\ WF_vars(Message(s)) /\ WF_vars(SourceStep(s))

FairSpec == Spec /\ Fairness
-----------------------------------------------------------------------------
(* Properties *)

ProxyTypes ==
  /\ alive \in BOOLEAN
  /\ session \in 0 .. MaxSessions
  /\ initialized \in BOOLEAN /\ handler \in BOOLEAN /\ statusEvent \in BOOLEAN

Clears == {"clear", "bye", "close", "join"}
Calling == {"launch", "wait", "arm", "receive", "send"}

ThreadTypes ==
  /\ at \in [Threads -> Clears \cup Calling \cup {"idle", "deleted", "off", "watch", "ended"}]
  /\ at[JS] \in Clears \cup Calling \cup {"idle", "deleted"}
  /\ \A s \in Sessions : at[s] \in Clears \cup {"off", "watch", "ended"}
  /\ then \in {"idle", "launch", "deleted"}
  /\ listener \in [Sessions -> {"off", "read", "event", "use", "ended"}]

ChannelTypes ==
  /\ ends \in [Sessions -> SUBSET {"proxy", "source"}]
  /\ toSource \in [Sessions -> Seq({"call", "disconnect"})]
  /\ toProxy \in [Sessions -> Seq({"ready", "event"})]
  /\ \A s \in Sessions : Len(toSource[s]) <= RingSize /\ Len(toProxy[s]) <= RingSize

ProcessTypes ==
  /\ source \in [Sessions -> {"off", "start", "engine", "announce", "run", "leave", "gone"}]
  /\ sourceInit \in [Sessions -> BOOLEAN] /\ data \in [Sessions -> BOOLEAN]
  /\ accepted \in [Sessions -> 0 .. MaxCalls]
  /\ executed \in [Sessions -> Nat]
  /\ raised \in [Sessions -> 0 .. MaxEvents]

LockTypes ==
  barred \in [Sessions -> SUBSET ReadsAndWrites] /\ caught \in [Sessions -> BOOLEAN]

TypeOK == ProxyTypes /\ ThreadTypes /\ ChannelTypes /\ ProcessTypes /\ LockTypes

Tearing(t) == at[t] \in Clears

\* video_source_ipc.h:41: AGORA_IPC_SOURCE_READY is there "To notify Video
\* Sink that Video Source is ready".  A session is set up, and Initialize
\* succeeds, only after the process of that very session said so.  False of the
\* code, as README.md tells.
AwaitReady == at[JS] \in {"arm", "receive"} \/ initialized => sourceInit[session]

\* A process that leaves because it was told to has run every call that was
\* accepted: nothing the application sent before the release is lost, and at no
\* time has it run more than was accepted.
CallsBeforeBye ==
  \A s \in Sessions :
    /\ executed[s] <= accepted[s]
    /\ source[s] = "leave" => executed[s] = accepted[s]

\* Clear joins a thread and resets pointers: two threads must not run it.
OneClear == Cardinality({t \in Threads : Tearing(t)}) <= 1

\* The monitor thread of a session tears down no other session.  False of the
\* code, as README.md tells.
OwnSessionOnly == \A s \in Sessions : Tearing(s) => session = s

\* The message threads of earlier sessions have ended, whatever made those
\* sessions end: an old process cannot signal _status_event for the new one.
OldListenersEnded ==
  \A s \in Sessions : s < session => listener[s] = "ended"

\* Every call of the application returns.
CallsReturn == at[JS] # "idle" ~> at[JS] \in {"idle", "deleted"} \/ ~alive

\* A lock that the main process left holds the process of s for ever: in the
\* write of READY, in its read, or in the write of an event, for whose thread
\* the engine's destruction waits.
Held(s) ==
  \/ source[s] = "announce" /\ Stuck(s, "sourceWrites")
  \/ source[s] = "run" /\ Stuck(s, "sourceReads")
  \/ caught[s] /\ ends[s] # {}


\* A call that was accepted is executed, unless the process ends or is held.
CallsExecuted ==
  \A s \in Sessions :
    accepted[s] > executed[s] ~>
      accepted[s] = executed[s] \/ source[s] = "gone" \/ Held(s)

\* The exit of the process is noticed while its monitor thread waits.
WatchedExitNoticed ==
  \A s \in Sessions :
    initialized /\ session = s /\ source[s] = "gone" /\ at[s] = "watch" ~> ~initialized

\* node_process.h:21, the monitor notices "if the process exit": the proxy
\* does not stay initialized for a process that is gone.  False of the code, as
\* README.md tells.
ExitNoticed ==
  \A s \in Sessions :
    initialized /\ session = s /\ source[s] = "gone" ~> ~initialized
=============================================================================
