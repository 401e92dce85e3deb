----------------------------- MODULE EventQueue -----------------------------
(***************************************************************************)
(* How native events reach JavaScript: NodeIrisEventHandler::OnEvent, on a *)
(* thread of the SDK, pushes a task that captured `this` onto the one      *)
(* async_queue of the addon; libuv runs the tasks on the JavaScript        *)
(* thread; the TypeScript callback hands the event to setImmediate.        *)
(*                                                                         *)
(* The engine and every channel have a handler of their own, but all of    *)
(* them open the queue in their constructor and close it in their          *)
(* destructor.  An engine's handler is also owned by the detached thread   *)
(* that waits for the video source process to exit, if one was started.    *)
(***************************************************************************)
EXTENDS Naturals, Sequences, FiniteSets

CONSTANTS
  Engines,    \* NodeIrisRtcEngine instances, one in use at a time
  Channels,   \* NodeIrisRtcChannel instances
  Monitored,  \* the engines on which the video source is initialized
  Producers,  \* threads of the SDK that call the handlers
  MaxEvents   \* bound: events the SDK raises

ASSUME KindsAssumption == Engines \cap Channels = {} /\ Monitored \subseteq Engines
ASSUME MaxEventsAssumption == MaxEvents \in Nat

Handlers == Engines \cup Channels

VARIABLES
  closed,       \* async_queue::closed_
  queue,        \* async_queue::q_: the handler each task captured
  signal,       \* uv_async_send was called and libuv has not run on_event
  life,         \* handler: "unborn", "live" or "dead"
  owners,       \* who keeps a handler: its wrapper, the monitor thread
  registered,   \* handlers the SDK may call
  raised,       \* events raised so far
  place, target,  \* per producer: where in OnEvent, of which handler
  js, subject,  \* JavaScript thread: what it does, for which handler
  immediates,   \* events waiting in setImmediate
  monitor       \* per engine: place of the monitor thread

task   == <<closed, queue, signal>>
handle == <<life, owners, registered>>
sdk    == <<raised, place, target>>
thread == <<js, subject, immediates>>
vars   == <<task, handle, sdk, thread, monitor>>

None == "none"

Init ==
  /\ closed = FALSE
  /\ queue = <<>>
  /\ signal = FALSE
  /\ life = [h \in Handlers |-> "unborn"]
  /\ owners = [h \in Handlers |-> {}]
  /\ registered = {}
  /\ raised = 0
  /\ place = [p \in Producers |-> "idle"]
  /\ target = [p \in Producers |-> None]
  /\ js = "idle"
  /\ subject = None
  /\ immediates = <<>>
  /\ monitor = [e \in Engines |-> "off"]

Move(p, from, to) == place[p] = from /\ place' = [place EXCEPT ![p] = to]

Turn(from, to) == js = from /\ js' = to
-----------------------------------------------------------------------------
(* Faulty variants of some steps below, to show that the properties notice. *)

\* The signal is not sent when the queue was believed to be busy.
SendNot(p) ==
  /\ Move(p, "send", "idle")
  /\ UNCHANGED <<task, handle, raised, target, thread, monitor>>

\* on_event runs one task only.
OnEventEndEarly ==
  /\ Turn("drain", "idle")
  /\ UNCHANGED <<task, handle, sdk, subject, immediates, monitor>>

\* The task is not forgotten after it ran.
EndTaskKeep ==
  /\ Turn("task", "drain")
  /\ immediates' = Append(immediates, subject)
  /\ UNCHANGED <<task, handle, sdk, subject, monitor>>

\* The destructor closes the queue with its tasks in it.
DestroyClearNot ==
  /\ Turn("destroy", "shut")
  /\ UNCHANGED <<task, handle, sdk, subject, immediates, monitor>>
-----------------------------------------------------------------------------
(* OnEvent, on a thread of the SDK *)

Raise(p, h) ==
  /\ raised < MaxEvents
  /\ h \in registered
  /\ Move(p, "idle", "check")
  /\ target' = [target EXCEPT ![p] = h]
  /\ raised' = raised + 1
  /\ UNCHANGED <<task, handle, thread, monitor>>

\* async_call looks at closed_ before it takes the lock.
CheckClosed(p) ==
  /\ Move(p, "check", IF closed THEN "idle" ELSE "push")
  /\ UNCHANGED <<task, handle, raised, target, thread, monitor>>

Push(p) ==
  /\ Move(p, "push", "send")
  /\ queue' = Append(queue, target[p])
  /\ UNCHANGED <<closed, signal, handle, raised, target, thread, monitor>>

\* uv_async_send: several calls may lead to one run of on_event.
Send(p) ==
  /\ Move(p, "send", "idle")
  /\ signal' = TRUE
  /\ UNCHANGED <<closed, queue, handle, raised, target, thread, monitor>>

Produce(p) ==
  \/ CheckClosed(p) \/ Push(p) \/ Send(p)
  \/ \E h \in Handlers : Raise(p, h)
-----------------------------------------------------------------------------
(* The JavaScript thread *)

\* libuv runs async_callback, which empties the queue.
OnEventStart ==
  /\ signal
  /\ Turn("idle", "drain")
  /\ signal' = FALSE
  /\ UNCHANGED <<closed, queue, handle, sdk, subject, immediates, monitor>>

\* The lock is released while the task runs.
RunTask ==
  /\ queue # <<>>
  /\ Turn("drain", "task")
  /\ subject' = Head(queue)
  /\ queue' = Tail(queue)
  /\ UNCHANGED <<closed, signal, handle, sdk, immediates, monitor>>

\* The task finds the callback of its handler; the TypeScript code fires the
\* event with setImmediate.
EndTask ==
  /\ Turn("task", "drain")
  /\ immediates' = Append(immediates, subject)
  /\ subject' = None
  /\ UNCHANGED <<task, handle, sdk, monitor>>

OnEventEnd ==
  /\ queue = <<>>
  /\ Turn("drain", "idle")
  /\ UNCHANGED <<task, handle, sdk, subject, immediates, monitor>>

\* The setImmediate callback runs and calls the application's listeners.
Emit ==
  /\ immediates # <<>>
  /\ Turn("idle", "emit")
  /\ subject' = Head(immediates)
  /\ immediates' = Tail(immediates)
  /\ UNCHANGED <<task, handle, sdk, monitor>>

EndEmit ==
  /\ Turn("emit", "idle")
  /\ subject' = None
  /\ UNCHANGED <<task, handle, sdk, immediates, monitor>>

(* Construction of an engine or a channel: close(false), then registration *)

\* An application has one engine at a time, and its channels while it has it.
MayCreate(h) ==
  /\ life[h] = "unborn"
  /\ IF h \in Engines THEN registered \cap Engines = {}
                      ELSE registered \cap Engines # {}

Create(h) ==
  /\ MayCreate(h)
  /\ Turn("idle", "create")
  /\ subject' = h
  /\ life' = [life EXCEPT ![h] = "live"]
  /\ owners' = [owners EXCEPT ![h] = {"wrapper"}]
  /\ UNCHANGED <<task, registered, sdk, immediates, monitor>>

CreateClear ==
  /\ Turn("create", "open")
  /\ queue' = <<>>
  /\ UNCHANGED <<closed, signal, handle, sdk, subject, immediates, monitor>>

CreateOpen ==
  /\ Turn("open", "idle")
  /\ closed' = FALSE
  /\ registered' = registered \cup {subject}
  /\ subject' = None
  /\ UNCHANGED <<queue, signal, life, owners, sdk, immediates, monitor>>

(* Release of an engine or a channel *)

\* kEngineRelease with sync, or UnRegisterEventHandler: the SDK calls the
\* handler no more (nor, without its engine, that of a channel) ...
Unregister(h) ==
  /\ h \in registered
  /\ Turn("idle", "release")
  /\ subject' = h
  /\ registered' = IF h \in Engines THEN registered \ (Channels \cup {h})
                                     ELSE registered \ {h}
  /\ UNCHANGED <<task, life, owners, sdk, immediates, monitor>>

\* ... and returns once the callbacks in progress are done.  Dropping the
\* last reference then runs the destructor.
DropHandler ==
  /\ \A p \in Producers : place[p] # "idle" => target[p] \in registered
  /\ Turn("release", IF owners[subject] = {"wrapper"} THEN "destroy" ELSE "idle")
  /\ owners' = [owners EXCEPT ![subject] = @ \ {"wrapper"}]
  /\ subject' = IF owners'[subject] = {} THEN subject ELSE None
  /\ UNCHANGED <<task, life, registered, sdk, immediates, monitor>>

\* ~NodeIrisEventHandler: close(true) clears the queue, then sets closed_.
DestroyClear ==
  /\ Turn("destroy", "shut")
  /\ queue' = <<>>
  /\ UNCHANGED <<closed, signal, handle, sdk, subject, immediates, monitor>>

DestroyClose ==
  /\ Turn("shut", "idle")
  /\ closed' = TRUE
  /\ life' = [life EXCEPT ![subject] = "dead"]
  /\ subject' = None
  /\ UNCHANGED <<queue, signal, owners, registered, sdk, immediates, monitor>>
-----------------------------------------------------------------------------
(* The monitor thread of an engine's video source process *)

\* VideoSourceProxy::Initialize starts it with a copy of the handler pointer.
VideoSourceInitialize(e) ==
  /\ e \in Monitored \cap registered
  /\ js = "idle"
  /\ monitor[e] = "off"
  /\ monitor' = [monitor EXCEPT ![e] = "wait"]
  /\ owners' = [owners EXCEPT ![e] = @ \cup {"monitor"}]
  /\ UNCHANGED <<task, life, registered, sdk, thread>>

\* The process exits and the thread ends: its lambda drops the pointer, and
\* runs the destructor if it was the last.
MonitorEnd(e) ==
  /\ monitor[e] = "wait"
  /\ monitor' = [monitor EXCEPT ![e] =
                   IF owners[e] = {"monitor"} THEN "destroy" ELSE "off"]
  /\ owners' = [owners EXCEPT ![e] = @ \ {"monitor"}]
  /\ UNCHANGED <<task, life, registered, sdk, thread>>

MonitorClear(e) ==
  /\ monitor[e] = "destroy"
  /\ monitor' = [monitor EXCEPT ![e] = "shut"]
  /\ queue' = <<>>
  /\ UNCHANGED <<closed, signal, handle, sdk, thread>>

MonitorClose(e) ==
  /\ monitor[e] = "shut"
  /\ monitor' = [monitor EXCEPT ![e] = "off"]
  /\ closed' = TRUE
  /\ life' = [life EXCEPT ![e] = "dead"]
  /\ UNCHANGED <<queue, signal, owners, registered, sdk, thread>>
-----------------------------------------------------------------------------
\* Steps the JavaScript thread or libuv takes by itself.
Run ==
  \/ OnEventStart \/ RunTask \/ EndTask \/ OnEventEnd \/ Emit \/ EndEmit
  \/ CreateClear \/ CreateOpen \/ DropHandler \/ DestroyClear \/ DestroyClose

\* Calls of the application.
Call ==
  \/ \E h \in Handlers : Create(h) \/ Unregister(h)
  \/ \E e \in Engines : VideoSourceInitialize(e)

Monitor(e) == MonitorEnd(e) \/ MonitorClear(e) \/ MonitorClose(e)

Next ==
  \/ Run \/ Call
  \/ \E p \in Producers : Produce(p)
  \/ \E e \in Engines : Monitor(e)

Spec == Init /\ [][Next]_vars

\* The threads run; libuv runs on_event after a signal and the immediates
\* after that.  Nobody has to raise an event or call the API.
Fairness ==
  /\ WF_vars(Run)
  /\ SF_vars(OnEventStart)
  /\ \A p \in Producers : WF_vars(CheckClosed(p) \/ Push(p) \/ Send(p))

FairSpec == Spec /\ Fairness
-----------------------------------------------------------------------------
(* Properties *)

TypeOK ==
  /\ closed \in BOOLEAN
  /\ queue \in Seq(Handlers)
  /\ signal \in BOOLEAN
  /\ life \in [Handlers -> {"unborn", "live", "dead"}]
  /\ owners \in [Handlers -> SUBSET {"wrapper", "monitor"}]
  /\ registered \in SUBSET Handlers
  /\ raised \in 0 .. MaxEvents
  /\ place \in [Producers -> {"idle", "check", "push", "send"}]
  /\ target \in [Producers -> Handlers \cup {None}]
  /\ js \in {"idle", "drain", "task", "emit", "create", "open", "release", "destroy", "shut"}
  /\ subject \in IF js \in {"idle", "drain"} THEN {None} ELSE Handlers
  /\ immediates \in Seq(Handlers)
  /\ monitor \in [Engines -> {"off", "wait", "destroy", "shut"}]

\* A task that waits in the queue will be looked at: libuv was signalled, or
\* on_event is at work, or the thread that pushed it is about to signal.  A
\* signal that coalesces with an earlier one is not lost.
NoLostWakeup ==
  queue # <<>> =>
    signal \/ js \in {"drain", "task"} \/ \E p \in Producers : place[p] = "send"

\* ts/Api/index.ts:2474: once the engine is released "no callbacks can occur".
\* No task of a handler runs once its engine or channel was released, though
\* its events may have been in the queue.  False of the code, as README.md tells.
NoTaskAfterRelease == js = "task" => subject \in registered

\* The `this` that a task captured is alive when the task runs, for every
\* handler that no monitor thread shares: it is destroyed on the JavaScript
\* thread, which empties the queue after the SDK stopped pushing for it.
NoDanglingTask == js = "task" /\ subject \notin Monitored => life[subject] = "live"

\* The listeners of the application, which setImmediate calls, hear nothing
\* either.  False of the code, as README.md tells.
NoCallbackAfterRelease == js = "emit" => subject \in registered

\* While the SDK may call any handler the queue takes its events.
OpenWhileRegistered == registered # {} => ~closed

\* node_async_queue.h:65: "You should close this queue after taking all the
\* elements!"  The tasks in it are taken by on_event and by nobody else.  False
\* of the code, as README.md tells.
EventsTakenBeforeClose ==
  [][queue # <<>> /\ queue' = <<>> => js = "drain"]_vars

\* Every task that is pushed is run or cleared in the end.
Drained == queue # <<>> ~> queue = <<>>
=============================================================================
