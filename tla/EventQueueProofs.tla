------------------------- MODULE EventQueueProofs -------------------------
(***************************************************************************)
(* Theorems about EventQueue, for any engines, channels, threads of the    *)
(* SDK and number of events.                                               *)
(***************************************************************************)
EXTENDS EventQueue, SequenceTheorems, TLAPS

-----------------------------------------------------------------------------
\* Who holds what: the wrapper of a handler keeps it while it is made, while it
\* is registered and until its release is done; only an engine whose video
\* source was initialised has a monitor thread.
Holding ==
  /\ \A h \in registered : "wrapper" \in owners[h]
  /\ js \in {"create", "open", "release"} => "wrapper" \in owners[subject]
  /\ \A e \in Engines : monitor[e] # "off" => e \in Monitored
  /\ \A p \in Producers : place[p] # "idle" => target[p] \in Handlers

\* A handler that is being destroyed is not registered, and the last callbacks
\* for it have returned.
Withdrawn ==
  /\ js \in {"release", "destroy", "shut"} => subject \notin registered
  /\ js \in {"destroy", "shut"} =>
       \A p \in Producers : place[p] # "idle" => target[p] # subject
  /\ js = "shut" => \A i \in 1 .. Len(queue) : queue[i] # subject

\* No monitor thread decides about its life.
Unshared(h) == h \notin Monitored

\* What may still lead to a task is alive.
Living ==
  /\ \A h \in registered : Unshared(h) => life[h] = "live"
  /\ \A p \in Producers : place[p] # "idle" /\ Unshared(target[p]) => life[target[p]] = "live"
  /\ \A i \in 1 .. Len(queue) : Unshared(queue[i]) => life[queue[i]] = "live"
  /\ js \in {"create", "open", "task"} /\ Unshared(subject) => life[subject] = "live"

IInv == TypeOK /\ Holding /\ Withdrawn /\ Living

-----------------------------------------------------------------------------
\* A step of a thread of the SDK keeps the invariant.
LEMMA ProduceStep ==
  ASSUME IInv, NEW p \in Producers, Produce(p)
  PROVE  IInv'
<1>. USE DEF IInv, TypeOK, Holding, Withdrawn, Living, Unshared, task, handle, sdk, thread, Move
<1>1. CASE CheckClosed(p)
  BY <1>1 DEF CheckClosed
<1>2. CASE Push(p)
  <2>1. target[p] \in Handlers /\ queue' = Append(queue, target[p])
    BY <1>2 DEF Push
  <2>2. /\ queue' \in Seq(Handlers) /\ Len(queue') = Len(queue) + 1
        /\ \A i \in 1 .. Len(queue') :
             queue'[i] = IF i = Len(queue) + 1 THEN target[p] ELSE queue[i]
    BY <2>1
  <2>3. \A q \in Producers : place'[q] # "idle" => place[q] # "idle"
    BY <1>2 DEF Push
  <2>4. TypeOK'
    BY <1>2, <2>2 DEF Push
  <2>5. Holding' /\ Withdrawn'
    BY <1>2, <2>2, <2>3 DEF Push
  <2>6. Living'
    BY <1>2, <2>2, <2>3 DEF Push
  <2>. QED
    BY <2>4, <2>5, <2>6
<1>3. CASE Send(p)
  BY <1>3 DEF Send
<1>4. ASSUME NEW h \in Handlers, Raise(p, h) PROVE IInv'
  BY <1>4, MaxEventsAssumption DEF Raise
<1>. QED
  BY <1>1, <1>2, <1>3, <1>4 DEF Produce

\* A step of the JavaScript thread keeps the invariant.
LEMMA RunStep ==
  ASSUME IInv, Run
  PROVE  IInv'
<1>. USE DEF IInv, TypeOK, Holding, Withdrawn, Living, Unshared, task, handle, sdk, thread, Turn
<1>1. CASE OnEventStart \/ OnEventEnd
  <2>1. CASE OnEventStart
    BY <2>1 DEF OnEventStart
  <2>2. CASE OnEventEnd
    BY <2>2 DEF OnEventEnd
  <2>. QED
    BY <1>1, <2>1, <2>2
<1>2. CASE RunTask
  <2>1. /\ subject' = queue[1] /\ subject' \in Handlers
        /\ queue' \in Seq(Handlers) /\ Len(queue') = Len(queue) - 1
        /\ \A i \in 1 .. Len(queue') : queue'[i] = queue[i + 1] /\ i + 1 \in 1 .. Len(queue)
        /\ 1 \in 1 .. Len(queue)
    BY <1>2 DEF RunTask
  <2>. QED
    BY <1>2, <2>1 DEF RunTask
<1>3. CASE EndTask
  BY <1>3 DEF EndTask
<1>4. CASE Emit
  BY <1>4 DEF Emit
<1>5. CASE EndEmit
  BY <1>5 DEF EndEmit
<1>6. CASE CreateClear
  BY <1>6 DEF CreateClear
<1>7. CASE CreateOpen
  BY <1>7 DEF CreateOpen
<1>8. CASE DropHandler
  BY <1>8 DEF DropHandler
<1>9. CASE DestroyClear
  BY <1>9 DEF DestroyClear
<1>10. CASE DestroyClose
  BY <1>10 DEF DestroyClose
<1>. QED
  BY <1>1, <1>2, <1>3, <1>4, <1>5, <1>6, <1>7, <1>8, <1>9, <1>10 DEF Run

\* A call of the application keeps the invariant.
LEMMA CallStep ==
  ASSUME IInv, Call
  PROVE  IInv'
<1>. USE DEF IInv, TypeOK, Holding, Withdrawn, Living, Unshared, task, handle, sdk, thread, Turn
<1>1. ASSUME NEW h \in Handlers, Create(h) PROVE IInv'
  BY <1>1 DEF Create, MayCreate
<1>2. ASSUME NEW h \in Handlers, Unregister(h) PROVE IInv'
  BY <1>2 DEF Unregister, Handlers
<1>3. ASSUME NEW e \in Engines, VideoSourceInitialize(e) PROVE IInv'
  BY <1>3 DEF VideoSourceInitialize, Handlers
<1>. QED
  BY <1>1, <1>2, <1>3 DEF Call

\* A step of a monitor thread keeps the invariant.
LEMMA MonitorStep ==
  ASSUME IInv, NEW e \in Engines, Monitor(e)
  PROVE  IInv'
<1>. USE DEF IInv, TypeOK, Holding, Withdrawn, Living, Unshared, task, handle, sdk, thread, Handlers
<1>1. CASE MonitorEnd(e)
  BY <1>1 DEF MonitorEnd
<1>2. CASE MonitorClear(e)
  BY <1>2 DEF MonitorClear
<1>3. CASE MonitorClose(e)
  BY <1>3 DEF MonitorClose
<1>. QED
  BY <1>1, <1>2, <1>3 DEF Monitor

\* IInv is an invariant.
LEMMA Inductive == Spec => []IInv
<1>1. Init => IInv
  <2>. SUFFICES ASSUME Init PROVE IInv
    OBVIOUS
  <2>1. queue = <<>> /\ immediates = <<>> /\ Len(queue) = 0
    BY DEF Init
  <2>2. TypeOK
    <3>1. closed \in BOOLEAN /\ signal \in BOOLEAN
      BY DEF Init
    <3>2. life \in [Handlers -> {"unborn", "live", "dead"}]
      BY DEF Init
    <3>3. owners \in [Handlers -> SUBSET {"wrapper", "monitor"}]
      BY DEF Init
    <3>4. raised \in 0 .. MaxEvents
      BY MaxEventsAssumption DEF Init
    <3>5. place \in [Producers -> {"idle", "check", "push", "send"}]
      BY DEF Init
    <3>6. target \in [Producers -> Handlers \cup {None}]
      BY DEF Init
    <3>7. registered \in SUBSET Handlers /\ js = "idle" /\ subject = None
      BY DEF Init
    <3>8. queue \in Seq(Handlers) /\ immediates \in Seq(Handlers)
      BY DEF Init
    <3>9. monitor \in [Engines -> {"off", "wait", "destroy", "shut"}]
      BY DEF Init
    <3>. QED
      BY <3>1, <3>2, <3>3, <3>4, <3>5, <3>6, <3>7, <3>8, <3>9 DEF TypeOK
  <2>3. Holding
    BY DEF Init, Holding
  <2>4. Withdrawn
    BY DEF Init, Withdrawn
  <2>5. Living
    BY <2>1 DEF Init, Living
  <2>. QED
    BY <2>2, <2>3, <2>4, <2>5 DEF IInv
<1>2. IInv /\ UNCHANGED vars => IInv'
  BY DEF IInv, TypeOK, Holding, Withdrawn, Living, Unshared, vars, task, handle, sdk, thread
<1>3. IInv /\ [Next]_vars => IInv'
  BY <1>2, ProduceStep, RunStep, CallStep, MonitorStep DEF Next
<1>. QED
  BY <1>1, <1>3, PTL DEF Spec

-----------------------------------------------------------------------------
\* TypeOK of EventQueue: of the queue, the handlers and the threads.
THEOREM TypeCorrect == Spec => []TypeOK
<1>1. IInv => TypeOK
  BY DEF IInv
<1>. QED
  BY <1>1, Inductive, PTL

\* NoDanglingTask of EventQueue: a task does not outlive the handler it
\* captured, unless a monitor thread shares the handler.
THEOREM TasksAreLive == Spec => []NoDanglingTask
<1>1. IInv => NoDanglingTask
  BY DEF IInv, Living, Unshared, NoDanglingTask
<1>. QED
  BY <1>1, Inductive, PTL

\* NoLostWakeup of EventQueue: calls of uv_async_send may coalesce, and no task
\* is left lying for it.
THEOREM WakeupsAreKept == Spec => []NoLostWakeup
<1>1. Init => NoLostWakeup
  BY DEF Init, NoLostWakeup
<1>2. TypeOK /\ NoLostWakeup /\ [Next]_vars => NoLostWakeup'
  <2>. SUFFICES ASSUME TypeOK, NoLostWakeup, [Next]_vars PROVE NoLostWakeup'
    OBVIOUS
  <2>. USE DEF NoLostWakeup, TypeOK, task, handle, sdk, thread
  <2>1. ASSUME NEW p \in Producers, Produce(p) PROVE NoLostWakeup'
    BY <2>1 DEF Produce, Move, CheckClosed, Push, Send, Raise
  <2>2. CASE Run
    BY <2>2 DEF Run, Turn, OnEventStart, RunTask, EndTask, OnEventEnd, Emit, EndEmit,
                CreateClear, CreateOpen, DropHandler, DestroyClear, DestroyClose
  <2>3. CASE Call
    BY <2>3 DEF Call, Turn, Create, Unregister, VideoSourceInitialize
  <2>4. ASSUME NEW e \in Engines, Monitor(e) PROVE NoLostWakeup'
    BY <2>4 DEF Monitor, MonitorEnd, MonitorClear, MonitorClose
  <2>5. CASE UNCHANGED vars
    BY <2>5 DEF vars
  <2>. QED
    BY <2>1, <2>2, <2>3, <2>4, <2>5 DEF Next
<1>. QED
  BY <1>1, <1>2, TypeCorrect, PTL DEF Spec
=============================================================================
