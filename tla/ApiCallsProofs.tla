--------------------------- MODULE ApiCallsProofs ---------------------------
(* Theorems about ApiCalls, for any table of methods with the rows that its   *)
(* assumptions name and any size of the pipe; AsNamed is about the table of   *)
(* ApiCallTables.                                                             *)
EXTENDS ApiCalls, ApiCallTables, SequenceTheorems, TLAPS

-----------------------------------------------------------------------------
(* The types. *)

\* What Answer needs to know: the calls left are calls.
LEMMA RestTyped ==
  ASSUME TypeOK, todo # <<>>, method # Idle, NEW n \in Int
  PROVE  Rest(n) \in Seq(SUBSET STRING)
<1>1. Tail(todo) \in Seq(SUBSET STRING)
  BY DEF TypeOK
<1>2. ASSUME method \in Listings, First
      PROVE  [i \in 1 .. n |-> todo[2]] \in Seq(SUBSET STRING)
  <2>1. method \in Methods \cap Listings
    BY <1>2 DEF TypeOK
  <2>2. Len(todo) = 2
    BY <2>1, <1>2, ListingAssumption DEF First
  <2>3. todo \in Seq(SUBSET STRING)
    BY DEF TypeOK
  <2>4. todo[2] \in SUBSET STRING
    BY <2>2, <2>3
  <2>5. CASE n >= 0
    BY <2>4, <2>5
  <2>6. CASE n < 0
    <3>1. [i \in 1 .. n |-> todo[2]] = <<>>
      BY <2>6
    <3>. QED
      BY <3>1
  <2> QED
    BY <2>5, <2>6
<1>3. <<>> \in Seq(SUBSET STRING)
  OBVIOUS
<1> QED
  BY <1>1, <1>2, <1>3 DEF Rest

LEMMA AnswerTyped ==
  ASSUME TypeOK, todo # <<>>, method # Idle, NEW n \in Int, Answer(n)
  PROVE  /\ todo' \in Seq(SUBSET STRING)
         /\ method' \in Methods \cup {Idle}
  BY RestTyped DEF Answer, TypeOK

\* Results are integers.
LEMMA Integral == Outcomes \subseteq Int /\ NotInit \in Int /\ Parameter1 \in Int /\ 0 \in Int
  BY DEF Outcomes, NotInit, Parameter1

\* A call that is due is named.
LEMMA DueTyped ==
  ASSUME TypeOK, NEW call, Due(call)
  PROVE  todo # <<>> /\ call \in STRING
<1>1. Head(todo) \in SUBSET STRING
  BY DEF TypeOK, Due
<1> QED
  BY <1>1 DEF Due

\* What the pipe carries: calls, and the farewell.
Messages == STRING \cup {"disconnect"}

\* The pipe stays a pipe.
LEMMA Pushed ==
  ASSUME TypeOK, NEW message \in Messages, Len(pipe) < MaxPipe
  PROVE  Append(pipe, message) \in Seq(Messages) /\ Len(Append(pipe, message)) <= MaxPipe
<1>1. pipe \in Seq(Messages)
  BY DEF TypeOK, Messages
<1>2. Append(pipe, message) \in Seq(Messages) /\ Len(Append(pipe, message)) = Len(pipe) + 1
  BY <1>1, AppendProperties
<1>3. Len(pipe) \in Nat /\ MaxPipe \in Nat
  BY <1>1, BoundsAssumption
<1>4. Len(pipe) + 1 <= MaxPipe
  BY <1>3
<1> QED
  BY <1>2, <1>4, Zenon

LEMMA Popped ==
  ASSUME TypeOK, pipe # <<>>
  PROVE  Tail(pipe) \in Seq(Messages) /\ Len(Tail(pipe)) <= MaxPipe
<1>1. pipe \in Seq(Messages) /\ Len(pipe) <= MaxPipe
  BY DEF TypeOK, Messages
<1>2. Tail(pipe) \in Seq(Messages) /\ Len(Tail(pipe)) = Len(pipe) - 1
  BY <1>1, HeadTailProperties
<1>3. Len(pipe) \in Nat /\ MaxPipe \in Nat
  BY <1>1, BoundsAssumption
<1> QED
  BY <1>1, <1>2, <1>3

LEMMA Emptied == <<>> \in Seq(Messages) /\ Len(<<>>) <= MaxPipe
  BY BoundsAssumption

LEMMA TypeStart == Init => TypeOK
<1>1. <<>> \in Seq(SUBSET STRING)
  OBVIOUS
<1> QED
  BY <1>1, Emptied DEF Init, TypeOK, Idle, Messages

LEMMA TypeStep == TypeOK /\ [Next]_vars => TypeOK'
<1> SUFFICES ASSUME TypeOK, [Next]_vars PROVE TypeOK'
  OBVIOUS
<1> USE Integral DEF Messages
<1>1. ASSUME NEW m \in Methods, Begin(m) PROVE TypeOK'
  <2>1. Calls[m[1]][m[2]] \in Seq(SUBSET STRING)
    BY CallsAssumption
  <2> QED
    BY <1>1, <2>1 DEF Begin, TypeOK, addon, session
<1>2. ASSUME NEW call, CallEngine(call) PROVE TypeOK'
  <2>1. todo # <<>> /\ method # Idle /\ call \in STRING
    BY <1>2, DueTyped DEF CallEngine
  <2>2. \E n \in Int : Answer(n)
    BY <1>2 DEF CallEngine, Refused
  <2>3. sdk' = <<>> \/ sdk' = <<"engine", call>>
    BY <1>2 DEF CallEngine, Refused
  <2> QED
    BY <1>2, <2>1, <2>2, <2>3, AnswerTyped DEF CallEngine, TypeOK, addon, session
<1>3. ASSUME NEW call, CallDevice(call) PROVE TypeOK'
  <2>1. todo # <<>> /\ method # Idle /\ call \in STRING
    BY <1>3, DueTyped DEF CallDevice
  <2>2. \E n \in Int : Answer(n)
    BY <1>3 DEF CallDevice, Refused
  <2>3. sdk' = <<>> \/ sdk' = <<"device", call>>
    BY <1>3 DEF CallDevice, Refused
  <2> QED
    BY <1>3, <2>1, <2>2, <2>3, AnswerTyped DEF CallDevice, TypeOK, addon, session
<1>4. ASSUME NEW call, CallChannel(call) PROVE TypeOK'
  <2>1. todo # <<>> /\ method # Idle /\ call \in STRING
    BY <1>4, DueTyped DEF CallChannel
  <2>2. \E n \in Int : Answer(n)
    BY <1>4 DEF CallChannel, Refused
  <2>3. sdk' = <<>> \/ sdk' = <<"channel", call>>
    BY <1>4 DEF CallChannel, Refused
  <2> QED
    BY <1>4, <2>1, <2>2, <2>3, AnswerTyped DEF CallChannel, TypeOK, addon, session
<1>5. ASSUME NEW call, CallSource(call) PROVE TypeOK'
  <2>1. todo # <<>> /\ method # Idle /\ call \in STRING
    BY <1>5, DueTyped DEF CallSource
  <2>2. \E n \in Int : Answer(n)
    BY <1>5 DEF CallSource, Refused
  <2>3. pipe' \in Seq(Messages) /\ Len(pipe') <= MaxPipe
    BY <1>5, <2>1, Pushed DEF CallSource, Room, TypeOK
  <2> QED
    BY <1>5, <2>1, <2>2, <2>3, AnswerTyped DEF CallSource, Refused, TypeOK, addon
<1>6. ASSUME CreateChannel PROVE TypeOK'
  <2>1. todo # <<>> /\ method # Idle
    BY <1>6, DueTyped DEF CreateChannel, Idle
  <2>2. CASE ~engine
    <3>1. todo' = <<>> /\ todo' \in Seq(SUBSET STRING)
      BY <1>6, <2>2 DEF CreateChannel
    <3> QED
      BY <1>6, <2>2, <3>1 DEF CreateChannel, TypeOK, session
  <2>3. CASE engine
    <3>1. Answer(0) /\ sdk' = <<>> /\ channel' = "open"
      BY <1>6, <2>3 DEF CreateChannel, Refused
    <3> QED
      BY <1>6, <2>1, <3>1, AnswerTyped DEF CreateChannel, TypeOK, session
  <2> QED
    BY <2>2, <2>3
<1>7. ASSUME ReleaseChannel PROVE TypeOK'
  <2>1. todo # <<>> /\ method # Idle /\ Answer(0) /\ sdk' = <<>>
    BY <1>7, DueTyped DEF ReleaseChannel, Refused
  <2> QED
    BY <1>7, <2>1, AnswerTyped DEF ReleaseChannel, TypeOK, session
<1>8. ASSUME ReleaseDevices PROVE TypeOK'
  <2>1. todo # <<>> /\ method # Idle /\ Answer(0) /\ sdk' = <<>>
    BY <1>8, DueTyped DEF ReleaseDevices, Refused, Idle
  <2> QED
    BY <1>8, <2>1, AnswerTyped DEF ReleaseDevices, TypeOK, session
<1>9. ASSUME Clear
      PROVE  /\ source' \in BOOLEAN
             /\ process' = process /\ locked' = locked /\ reached' = reached
             /\ pipe' \in Seq(Messages) /\ Len(pipe') <= MaxPipe
  <2>1. CASE source
    <3>1. pipe' = Append(pipe, "disconnect") /\ Len(pipe) < MaxPipe
      BY <1>9, <2>1 DEF Clear, Room
    <3>3. Append(pipe, "disconnect") \in Seq(Messages) /\ Len(Append(pipe, "disconnect")) <= MaxPipe
      BY <3>1, Pushed, Zenon
    <3> QED
      BY <1>9, <2>1, <3>1, <3>3, Zenon DEF Clear, TypeOK
  <2>2. CASE ~source
    BY <1>9, <2>2 DEF Clear, session, TypeOK
  <2> QED
    BY <2>1, <2>2
<1>10. ASSUME ReleaseEngine PROVE TypeOK'
  <2>1. todo # <<>> /\ method # Idle /\ Answer(0) /\ sdk' = <<>>
    BY <1>10, DueTyped DEF ReleaseEngine, Refused, Idle
  <2>2. Clear
    BY <1>10 DEF ReleaseEngine
  <2> QED
    BY <1>10, <1>9, <2>1, <2>2, AnswerTyped DEF ReleaseEngine, TypeOK
<1>11. ASSUME VideoSourceRelease PROVE TypeOK'
  <2>1. todo # <<>> /\ method # Idle
    BY <1>11, DueTyped DEF VideoSourceRelease, Idle
  <2>2. \E n \in Int : Answer(n)
    BY <1>11 DEF VideoSourceRelease, Refused
  <2>3. /\ source' \in BOOLEAN
        /\ process' = process /\ locked' = locked /\ reached' = reached
        /\ pipe' \in Seq(Messages) /\ Len(pipe') <= MaxPipe
    <3>1. CASE engine
      BY <1>11, <1>9, <3>1 DEF VideoSourceRelease, Refused
    <3>2. CASE ~engine
      BY <1>11, <3>2 DEF VideoSourceRelease, session, TypeOK
    <3> QED
      BY <3>1, <3>2
  <2>4. sdk' = <<>> /\ UNCHANGED addon
    BY <1>11 DEF VideoSourceRelease, Refused
  <2> QED
    BY <2>1, <2>2, <2>3, <2>4, AnswerTyped DEF TypeOK, addon
<1>12. ASSUME VideoSourceInitialize PROVE TypeOK'
  <2>1. todo # <<>> /\ method # Idle
    BY <1>12, DueTyped DEF VideoSourceInitialize, Idle
  <2>2. \E n \in Int : Answer(n)
    BY <1>12 DEF VideoSourceInitialize, Refused
  <2>3. /\ source' \in BOOLEAN /\ process' \in {"none", "up", "crashed"}
        /\ locked' \in BOOLEAN /\ reached' \subseteq Tracked
    BY <1>12 DEF VideoSourceInitialize, TypeOK, session
  <2>4. pipe' = pipe \/ pipe' = <<>>
    BY <1>12 DEF VideoSourceInitialize, session
  <2>5. pipe' \in Seq(Messages) /\ Len(pipe') <= MaxPipe
    BY <2>4, Emptied DEF TypeOK
  <2>6. sdk' = <<>> /\ UNCHANGED addon
    BY <1>12 DEF VideoSourceInitialize, Refused
  <2> QED
    BY <2>1, <2>2, <2>3, <2>5, <2>6, AnswerTyped DEF TypeOK, addon
<1>13. ASSUME Execute PROVE TypeOK'
  <2>1. pipe' \in Seq(Messages) /\ Len(pipe') <= MaxPipe
    BY <1>13, Popped DEF Execute
  <2>2. process' \in {"none", "up", "crashed"} /\ reached' \subseteq Tracked
    BY <1>13 DEF Execute, TypeOK
  <2>3. sdk' = <<>> /\ UNCHANGED <<addon, source, locked, method, todo>>
    BY <1>13 DEF Execute
  <2> QED
    BY <2>1, <2>2, <2>3 DEF TypeOK, addon
<1>14. ASSUME Crash PROVE TypeOK'
  BY <1>14 DEF Crash, TypeOK, addon
<1>15. ASSUME Notice PROVE TypeOK'
  <2>1. pipe' \in Seq(Messages) /\ Len(pipe') <= MaxPipe
    BY <1>15, Emptied DEF Notice
  <2>2. /\ sdk' = <<>> /\ process' = "none" /\ source' = FALSE /\ locked' = FALSE
        /\ UNCHANGED <<addon, reached, method, todo>>
    BY <1>15 DEF Notice
  <2> QED
    BY <2>1, <2>2 DEF TypeOK, addon
<1>16. ASSUME UNCHANGED vars PROVE TypeOK'
  BY <1>16 DEF vars, addon, session, TypeOK
<1> QED
  BY <1>1, <1>2, <1>3, <1>4, <1>5, <1>6, <1>7, <1>8, <1>10, <1>11, <1>12, <1>13, <1>14,
     <1>15, <1>16 DEF Next, Work

\* Every variable keeps its type, whatever the SDK answers.
THEOREM Typed == Spec => []TypeOK
  BY TypeStart, TypeStep, PTL DEF Spec

-----------------------------------------------------------------------------
(* The release: devices and engine go one after the other. *)

\* What the release of the engine has yet to call.
Last2 == <<{"ReleaseDevices"}, {"Release"}>>
Last1 == <<{"Release"}>>

ReleaseGoesOn ==
  method = <<"engine", "release">> =>
    /\ todo \in {Calls["engine"]["release"], Last2, Last1}
    /\ todo = Last1 => ~devices

\* The inductive invariant: the release has destroyed the devices when it
\* comes to the engine, so a device is no longer there without an engine.
Silence == ReleaseGoesOn /\ (~engine => ~devices) /\ ReleasedIsSilent

\* The methods whose calls follow one another without a loop.
LEMMA InTurn ==
  ASSUME NEW n, Answer(n),
         method \in {<<"engine", "release">>, <<"source", "initialize">>}
  PROVE  todo' = Tail(todo) /\ method' = IF Tail(todo) = <<>> THEN Idle ELSE method
<1>1. method \notin Listings
  BY DEF Listings
<1> QED
  BY <1>1 DEF Answer, Rest

LEMMA SameMethod ==
  ASSUME NEW n, Answer(n)
  PROVE  method' \in {method, Idle}
  BY DEF Answer

LEMMA LastTail == ASSUME NEW x PROVE Tail(<<x>>) = <<>>
<1>1. <<x>> \in Seq({x}) /\ <<x>> # <<>> /\ Len(<<x>>) = 1
  OBVIOUS
<1>2. Tail(<<x>>) \in Seq({x}) /\ Len(Tail(<<x>>)) = 0
  BY <1>1, HeadTailProperties
<1> QED
  BY <1>2, EmptySeq

\* A call that returns takes the release on.
LEMMA ReleaseMoves ==
  ASSUME ReleaseGoesOn, NEW n, Answer(n),
         devices' => devices,
         method = <<"engine", "release">> /\ todo = Last2 => ~devices'
  PROVE  ReleaseGoesOn'
<1> SUFFICES ASSUME method' = <<"engine", "release">>
             PROVE  todo' \in {Last2, Last1} /\ (todo' = Last1 => ~devices')
  BY DEF ReleaseGoesOn
<1>1. method = <<"engine", "release">>
  BY SameMethod DEF Idle
<1>2. todo' = Tail(todo) /\ Tail(todo) # <<>>
  BY <1>1, InTurn DEF Idle
<1>3. CASE todo = Calls["engine"]["release"]
  <2>1. Tail(todo) = Last2
    BY <1>3, ReleaseAssumption DEF Last2
  <2> QED
    BY <1>2, <2>1 DEF Last2, Last1
<1>4. CASE todo = Last2
  <2>1. Tail(todo) = Last1
    BY <1>4 DEF Last2, Last1
  <2> QED
    BY <1>1, <1>2, <1>4, <2>1
<1>5. todo # Last1
  <2>1. Tail(Last1) = <<>>
    BY LastTail DEF Last1
  <2> QED
    BY <1>2, <2>1
<1> QED
  BY <1>1, <1>3, <1>4, <1>5 DEF ReleaseGoesOn

\* An action of another method than the release leaves the devices as they are.
LEMMA ElsewhereMoves ==
  ASSUME ReleaseGoesOn, NEW n, Answer(n), devices' = devices,
         method # <<"engine", "release">> \/ todo # Last2
  PROVE  ReleaseGoesOn'
  BY ReleaseMoves

LEMMA SilenceStep == Silence /\ [Next]_vars => Silence'
<1> SUFFICES ASSUME Silence, [Next]_vars PROVE Silence'
  OBVIOUS
<1> USE DEF addon, session
<1>1. ASSUME NEW m \in Methods, Begin(m) PROVE Silence'
  <2>1. method' = <<"engine", "release">> => todo' = Calls["engine"]["release"]
    BY <1>1 DEF Begin
  <2>2. Calls["engine"]["release"] # Last1
    BY ReleaseAssumption DEF Last1
  <2>3. ReleaseGoesOn'
    BY <2>1, <2>2 DEF ReleaseGoesOn
  <2> QED
    BY <1>1, <2>3 DEF Begin, Silence, ReleasedIsSilent
<1>2. ASSUME NEW call, CallEngine(call) PROVE Silence'
  <2>1. \E n : Answer(n)
    BY <1>2 DEF CallEngine, Refused
  <2>2. todo # Last2 /\ UNCHANGED addon
    BY <1>2 DEF CallEngine, Due, Last2
  <2>3. ReleaseGoesOn'
    BY <2>1, <2>2, ElsewhereMoves DEF Silence
  <2>4. ~engine => sdk' = <<>>
    BY <1>2 DEF CallEngine, Refused
  <2> QED
    BY <2>2, <2>3, <2>4 DEF Silence, ReleasedIsSilent
<1>3. ASSUME NEW call, CallDevice(call) PROVE Silence'
  <2>1. \E n : Answer(n)
    BY <1>3 DEF CallDevice, Refused
  <2>2. method # <<"engine", "release">> /\ UNCHANGED addon
    BY <1>3 DEF CallDevice
  <2>3. ReleaseGoesOn'
    BY <2>1, <2>2, ElsewhereMoves DEF Silence
  <2>4. ~devices => sdk' = <<>>
    BY <1>3 DEF CallDevice, Refused
  <2> QED
    BY <2>2, <2>3, <2>4 DEF Silence, ReleasedIsSilent
<1>4. ASSUME NEW call, CallChannel(call) PROVE Silence'
  <2>1. \E n : Answer(n)
    BY <1>4 DEF CallChannel, Refused
  <2>2. (method # <<"engine", "release">> \/ todo # Last2) /\ UNCHANGED addon
    BY <1>4 DEF CallChannel, Due, Last2
  <2>3. ReleaseGoesOn'
    BY <2>1, <2>2, ElsewhereMoves DEF Silence
  <2>4. sdk' = <<>> \/ sdk' = <<"channel", call>>
    BY <1>4 DEF CallChannel, Refused
  <2> QED
    BY <2>2, <2>3, <2>4 DEF Silence, ReleasedIsSilent
<1>5. ASSUME NEW call, CallSource(call) PROVE Silence'
  <2>1. (\E n : Answer(n)) /\ sdk' = <<>>
    BY <1>5 DEF CallSource, Refused
  <2>2. method # <<"engine", "release">> /\ UNCHANGED addon
    BY <1>5 DEF CallSource
  <2>3. ReleaseGoesOn'
    BY <2>1, <2>2, ElsewhereMoves DEF Silence
  <2> QED
    BY <2>1, <2>2, <2>3 DEF Silence, ReleasedIsSilent
<1>6. ASSUME CreateChannel PROVE Silence'
  <2>1. method' # <<"engine", "release">> /\ sdk' = <<>> /\ UNCHANGED <<engine, devices>>
    BY <1>6, SameMethod DEF CreateChannel, Refused, Answer, Idle
  <2> QED
    BY <2>1 DEF Silence, ReleaseGoesOn, ReleasedIsSilent
<1>7. ASSUME ReleaseChannel PROVE Silence'
  <2>1. (\E n : Answer(n)) /\ sdk' = <<>> /\ UNCHANGED <<engine, devices>>
    BY <1>7 DEF ReleaseChannel, Refused
  <2>2. method # <<"engine", "release">>
    BY <1>7 DEF ReleaseChannel
  <2>3. ReleaseGoesOn'
    BY <2>1, <2>2, ElsewhereMoves DEF Silence
  <2> QED
    BY <2>1, <2>3 DEF Silence, ReleasedIsSilent
<1>8. ASSUME ReleaseDevices PROVE Silence'
  <2>1. (\E n : Answer(n)) /\ sdk' = <<>> /\ devices' = FALSE
    BY <1>8 DEF ReleaseDevices, Refused
  <2>2. ReleaseGoesOn'
    BY <2>1, ReleaseMoves DEF Silence
  <2> QED
    BY <2>1, <2>2 DEF Silence, ReleasedIsSilent
<1>9. ASSUME ReleaseEngine PROVE Silence'
  <2>1. (\E n : Answer(n)) /\ sdk' = <<>> /\ devices' = devices
    BY <1>9 DEF ReleaseEngine, Refused
  <2>2. method = <<"engine", "release">> /\ todo # <<>> /\ "Release" \in Head(todo)
    BY <1>9 DEF ReleaseEngine, Due
  <2>3. todo = Last1
    BY <2>2, ReleaseAssumption DEF Silence, ReleaseGoesOn, Last2
  <2>4. ~devices
    BY <2>2, <2>3 DEF Silence, ReleaseGoesOn
  <2>5. ReleaseGoesOn'
    BY <2>1, <2>4, ReleaseMoves DEF Silence
  <2> QED
    BY <2>1, <2>4, <2>5 DEF Silence, ReleasedIsSilent
<1>10. ASSUME VideoSourceRelease \/ VideoSourceInitialize PROVE Silence'
  <2>1. (\E n : Answer(n)) /\ sdk' = <<>> /\ UNCHANGED addon
    BY <1>10 DEF VideoSourceRelease, VideoSourceInitialize, Refused
  <2>2. method # <<"engine", "release">>
    BY <1>10 DEF VideoSourceRelease, VideoSourceInitialize, Refused
  <2>3. ReleaseGoesOn'
    BY <2>1, <2>2, ElsewhereMoves DEF Silence
  <2> QED
    BY <2>1, <2>3 DEF Silence, ReleasedIsSilent
<1>11. ASSUME Execute \/ Crash \/ Notice PROVE Silence'
  <2>1. sdk' = <<>> /\ UNCHANGED <<addon, method, todo>>
    BY <1>11 DEF Execute, Crash, Notice
  <2> QED
    BY <2>1 DEF Silence, ReleaseGoesOn, ReleasedIsSilent
<1>12. ASSUME UNCHANGED vars PROVE Silence'
  BY <1>12 DEF vars, Silence, ReleaseGoesOn, ReleasedIsSilent
<1> QED
  BY <1>1, <1>2, <1>3, <1>4, <1>5, <1>6, <1>7, <1>8, <1>9, <1>10, <1>11, <1>12
  DEF Next, Work

\* After the release of the engine no method of the engine or of its devices
\* reaches an SDK.
THEOREM Silent == Spec => []ReleasedIsSilent
<1>1. Init => Silence
  BY DEF Init, Idle, Silence, ReleaseGoesOn, ReleasedIsSilent
<1>2. Silence => ReleasedIsSilent
  BY DEF Silence
<1> QED
  BY <1>1, <1>2, SilenceStep, PTL DEF Spec

-----------------------------------------------------------------------------
(* The mutes of a video source come before it joins. *)

\* u has reached the SDK or is on its way there; before the n-th message is.
Sent(u) == u \in reached \/ \E j \in 1 .. Len(pipe) : pipe[j] = u
Ahead(u, n) == u \in reached \/ \E j \in 1 .. Len(pipe) : j < n /\ pipe[j] = u

Ordered ==
  \A i \in 1 .. Len(pipe) :
    pipe[i] = "joinChannel" => \A u \in Mutes : Ahead(u, i)

\* What videoSourceInitialize has yet to call.
Whole == Calls["source"]["initialize"]
Left3 == <<{"enableLocalAudio"}, {"muteAllRemoteVideoStreams"}, {"muteAllRemoteAudioStreams"}>>
Left2 == <<{"muteAllRemoteVideoStreams"}, {"muteAllRemoteAudioStreams"}>>
Left1 == <<{"muteAllRemoteAudioStreams"}>>

Initializing == method = <<"source", "initialize">>

InitializeGoesOn ==
  Initializing =>
    /\ todo \in {Whole, Left3, Left2, Left1}
    /\ source /\ todo = Left2 => Sent("enableLocalAudio")
    /\ source /\ todo = Left1 => Sent("enableLocalAudio") /\ Sent("muteAllRemoteVideoStreams")

\* Outside videoSourceInitialize a source that is initialised has its mutes
\* behind it.
MutesSent == source /\ (~Initializing \/ todo = Whole) => \A u \in Mutes : Sent(u)

\* The inductive invariant.
Muting ==
  /\ Ordered /\ MutedBeforeJoined
  /\ InitializeGoesOn /\ MutesSent
  /\ source => engine

\* Sequences of calls of different lengths differ.
LEMMA LeftDiffer ==
  /\ Whole # Left3 /\ Whole # Left2 /\ Whole # Left1
  /\ Left3 # Left2 /\ Left3 # Left1 /\ Left2 # Left1
  BY InitializeAssumption DEF Whole, Left3, Left2, Left1

LEMMA LeftTails ==
  Tail(Whole) = Left3 /\ Tail(Left3) = Left2 /\ Tail(Left2) = Left1 /\ Tail(Left1) = <<>>
<1>1. Tail(Left1) = <<>>
  BY LastTail DEF Left1
<1> QED
  BY <1>1, InitializeAssumption DEF Whole, Left3, Left2, Left1

LEMMA LeftNonempty == Left3 # <<>> /\ Left2 # <<>> /\ Left1 # <<>>
  BY DEF Left3, Left2, Left1

\* A message at the end of the pipe.
LEMMA Grown ==
  ASSUME TypeOK, NEW m \in Messages, pipe' = Append(pipe, m), reached' = reached
  PROVE  /\ \A u : Sent(u) => Sent(u)'
         /\ Sent(m)'
         /\ Ordered /\ (m = "joinChannel" => \A u \in Mutes : Sent(u)) => Ordered'
<1>1. pipe \in Seq(Messages) /\ Len(pipe) \in Nat
  BY DEF TypeOK, Messages
<1>2. /\ Len(pipe') = Len(pipe) + 1
      /\ \A i \in 1 .. Len(pipe) : pipe'[i] = pipe[i]
      /\ pipe'[Len(pipe) + 1] = m
  BY <1>1, AppendProperties
<1> HIDE DEF Messages
<1>3. \A j \in 1 .. Len(pipe) : j \in 1 .. Len(pipe') /\ pipe'[j] = pipe[j]
  BY <1>1, <1>2
<1>4. Len(pipe) + 1 \in 1 .. Len(pipe') /\ pipe'[Len(pipe) + 1] = m
  BY <1>1, <1>2
<1>5. ASSUME NEW u, Sent(u) PROVE Sent(u)'
  BY <1>3, <1>5 DEF Sent
<1>6. Sent(m)'
  BY <1>4 DEF Sent
<1>7. ASSUME Ordered, m = "joinChannel" => \A u \in Mutes : Sent(u)
      PROVE  Ordered'
  <2> SUFFICES ASSUME NEW i \in 1 .. Len(pipe'), pipe'[i] = "joinChannel",
                      NEW u \in Mutes
               PROVE  Ahead(u, i)'
    BY DEF Ordered
  <2>1. CASE i \in 1 .. Len(pipe)
    <3>1. Ahead(u, i)
      BY <1>3, <1>7, <2>1 DEF Ordered
    <3> QED
      BY <1>3, <3>1 DEF Ahead
  <2>2. CASE i = Len(pipe) + 1
    <3>1. Sent(u)
      BY <1>2, <1>7, <2>2
    <3>2. \A j \in 1 .. Len(pipe) : j < i
      BY <1>1, <2>2
    <3> QED
      BY <1>3, <3>1, <3>2 DEF Sent, Ahead
  <2> QED
    BY <1>1, <1>2, <2>1, <2>2
<1> QED
  BY <1>5, <1>6, <1>7

\* A message taken from the front of the pipe.
LEMMA Taken ==
  ASSUME TypeOK, pipe # <<>>, pipe' = Tail(pipe),
         reached \subseteq reached', Head(pipe) \in Mutes => Head(pipe) \in reached',
         "joinChannel" \in reached' => "joinChannel" \in reached \/ Head(pipe) = "joinChannel"
  PROVE  /\ \A u \in Mutes : Sent(u) => Sent(u)'
         /\ Ordered => Ordered'
         /\ Ordered /\ MutedBeforeJoined => MutedBeforeJoined'
<1>1. pipe \in Seq(Messages) /\ Len(pipe) \in Nat /\ Len(pipe) >= 1
  BY DEF TypeOK, Messages
<1>2. /\ Len(pipe') = Len(pipe) - 1
      /\ \A i \in 1 .. Len(pipe') : pipe'[i] = pipe[i + 1]
  BY <1>1, HeadTailProperties
<1>3. Head(pipe) = pipe[1]
  BY <1>1
<1>4. ASSUME NEW n \in Int, NEW u \in Mutes, NEW j \in 1 .. Len(pipe), j < n + 1, pipe[j] = u
      PROVE  Ahead(u, n)'
  <2>1. CASE j = 1
    BY <1>3, <1>4, <2>1 DEF Ahead
  <2>2. CASE j # 1
    <3>1. j - 1 \in 1 .. Len(pipe') /\ j - 1 < n /\ (j - 1) + 1 = j
      BY <1>1, <1>2, <1>4, <2>2
    <3>2. pipe'[j - 1] = u
      BY <1>2, <1>4, <3>1
    <3> QED
      BY <3>1, <3>2 DEF Ahead
  <2> QED
    BY <2>1, <2>2
<1>5. ASSUME NEW u \in Mutes, Sent(u) PROVE Sent(u)'
  <2>1. CASE u \in reached
    BY <2>1 DEF Sent
  <2>2. ASSUME NEW j \in 1 .. Len(pipe), pipe[j] = u PROVE Sent(u)'
    <3>1. j < Len(pipe) + 1
      BY <1>1
    <3>2. \A n \in Int : n = Len(pipe) => Ahead(u, n)'
      BY <1>4, <2>2, <3>1
    <3> QED
      BY <1>1, <3>2 DEF Ahead, Sent
  <2> QED
    BY <1>5, <2>1, <2>2 DEF Sent
<1>6. ASSUME Ordered PROVE Ordered'
  <2> SUFFICES ASSUME NEW i \in 1 .. Len(pipe'), pipe'[i] = "joinChannel",
                      NEW u \in Mutes
               PROVE  Ahead(u, i)'
    BY DEF Ordered
  <2>1. i + 1 \in 1 .. Len(pipe) /\ pipe[i + 1] = "joinChannel" /\ i \in Int
    BY <1>1, <1>2
  <2>2. Ahead(u, i + 1)
    BY <1>6, <2>1 DEF Ordered
  <2>3. CASE u \in reached
    BY <2>3 DEF Ahead
  <2> QED
    BY <1>4, <2>1, <2>2, <2>3 DEF Ahead
<1>7. ASSUME Ordered, MutedBeforeJoined, "joinChannel" \in reached'
      PROVE  Mutes \subseteq reached'
  <2>1. CASE "joinChannel" \in reached
    BY <1>7, <2>1 DEF MutedBeforeJoined
  <2>2. CASE pipe[1] = "joinChannel"
    <3>1. 1 \in 1 .. Len(pipe) /\ \A j \in 1 .. Len(pipe) : ~(j < 1)
      BY <1>1
    <3>2. \A u \in Mutes : Ahead(u, 1)
      BY <1>7, <2>2, <3>1 DEF Ordered
    <3>3. Mutes \subseteq reached
      BY <3>1, <3>2, Zenon DEF Ahead
    <3> QED
      BY <3>3
  <2> QED
    BY <1>3, <1>7, <2>1, <2>2
<1> QED
  BY <1>5, <1>6, <1>7 DEF MutedBeforeJoined

\* Elsewhere nothing changes.
LEMMA OtherMethods ==
  ASSUME Muting, UNCHANGED session, source => engine', ~Initializing, ~Initializing'
  PROVE  Muting'
<1>1. Ordered' /\ MutedBeforeJoined' /\ \A u : Sent(u)' <=> Sent(u)
  BY DEF Muting, session, Ordered, Ahead, MutedBeforeJoined, Sent
<1> QED
  BY <1>1 DEF Muting, session, InitializeGoesOn, MutesSent

LEMMA NotInitializing ==
  ASSUME ~Initializing, NEW n, Answer(n)
  PROVE  ~Initializing'
  BY SameMethod DEF Initializing, Idle

LEMMA MutingStep == TypeOK /\ Muting /\ [Next]_vars => Muting'
<1> SUFFICES ASSUME TypeOK, Muting, [Next]_vars PROVE Muting'
  OBVIOUS
<1>1. ASSUME NEW m \in Methods, Begin(m) PROVE Muting'
  <2>1. UNCHANGED <<addon, session>> /\ ~Initializing /\ method' = m /\ todo' = Calls[m[1]][m[2]]
    BY <1>1 DEF Begin, Initializing, Idle
  <2>2. CASE m # <<"source", "initialize">>
    BY <2>1, <2>2, OtherMethods DEF Initializing, addon, Muting
  <2>3. CASE m = <<"source", "initialize">>
    <3>1. todo' = Whole
      BY <2>1, <2>3 DEF Whole
    <3>2. Ordered' /\ MutedBeforeJoined' /\ \A u : Sent(u)' <=> Sent(u)
      BY <2>1 DEF Muting, session, Ordered, Ahead, MutedBeforeJoined, Sent
    <3>3. InitializeGoesOn'
      BY <3>1, LeftDiffer DEF InitializeGoesOn, Whole
    <3>4. MutesSent'
      BY <2>1, <3>2 DEF Muting, MutesSent, session
    <3> QED
      BY <2>1, <3>2, <3>3, <3>4 DEF Muting, addon, session
  <2> QED
    BY <2>2, <2>3, Zenon
<1>2. ASSUME NEW call, CallEngine(call) \/ CallDevice(call) PROVE Muting'
  <2>1. UNCHANGED <<addon, session>> /\ \E n : Answer(n)
    BY <1>2 DEF CallEngine, CallDevice, Refused, Answer
  <2>2. ~Initializing
    BY <1>2 DEF CallEngine, CallDevice, Initializing
  <2> QED
    BY <2>1, <2>2, NotInitializing, OtherMethods DEF addon, Muting
<1>3. ASSUME NEW call, CallChannel(call) PROVE Muting'
  <2>1. UNCHANGED <<addon, session>> /\ \E n : Answer(n)
    BY <1>3 DEF CallChannel, Refused
  <2>2. method[1] = "channel" \/ "createChannel" \in Head(todo)
    BY <1>3 DEF CallChannel, Due
  <2>3. ~Initializing
    <3>1. SUFFICES ASSUME Initializing PROVE FALSE
      OBVIOUS
    <3>2. "createChannel" \in Head(todo)
      BY <2>2, <3>1 DEF Initializing
    <3> QED
      BY <3>1, <3>2, InitializeAssumption
      DEF Muting, InitializeGoesOn, Whole, Left3, Left2, Left1
  <2> QED
    BY <2>1, <2>3, NotInitializing, OtherMethods DEF addon, Muting
<1>4. ASSUME NEW call, CallSource(call) PROVE Muting'
  <2>1. /\ Due(call) /\ call # "VideoSourceInitialize" /\ UNCHANGED <<addon, source, process, reached>>
        /\ \E n : Answer(n)
    BY <1>4 DEF CallSource, Refused
  <2>2. call \in Head(todo) /\ call \in Messages
    BY <2>1, DueTyped DEF Due, Messages
  <2>3. Initializing =>
          \/ todo = Left3 /\ call = "enableLocalAudio"
          \/ todo = Left2 /\ call = "muteAllRemoteVideoStreams"
          \/ todo = Left1 /\ call = "muteAllRemoteAudioStreams"
    BY <2>1, <2>2, InitializeAssumption
    DEF Muting, InitializeGoesOn, Whole, Left3, Left2, Left1
  <2>4. Initializing => todo' = Tail(todo) /\ method' = IF Tail(todo) = <<>> THEN Idle ELSE method
    BY <2>1, InTurn DEF Initializing
  <2>5. /\ Initializing /\ todo = Left3 => todo' = Left2
        /\ Initializing /\ todo = Left2 => todo' = Left1
        /\ Initializing /\ todo = Left1 => ~Initializing'
    <3>1. Initializing /\ todo = Left1 => method' = Idle
      BY <2>4, LeftTails, Zenon
    <3>2. Idle # <<"source", "initialize">>
      BY DEF Idle
    <3>3. Initializing /\ todo = Left1 => ~Initializing'
      BY <3>1, <3>2, Zenon DEF Initializing
    <3> QED
      BY <2>4, <3>3, LeftTails, Zenon
  <2>6. ~Initializing => ~Initializing'
    BY <2>1, NotInitializing
  <2>7. CASE ~source
    <3>1. UNCHANGED session
      BY <1>4, <2>1, <2>7 DEF CallSource, session
    <3>2. Ordered' /\ MutedBeforeJoined'
      BY <3>1 DEF Muting, session, Ordered, Ahead, MutedBeforeJoined
    <3>3. InitializeGoesOn' /\ MutesSent'
      BY <2>1, <2>3, <2>5, <2>6, <2>7 DEF InitializeGoesOn, MutesSent
    <3> QED
      BY <2>1, <2>7, <3>2, <3>3 DEF Muting
  <2>8. CASE source
    <3>1. pipe' = Append(pipe, call) /\ reached' = reached /\ source' = source /\ engine' = engine
      BY <1>4, <2>1, <2>8 DEF CallSource, Muting, addon
    <3>2. /\ \A u : Sent(u) => Sent(u)'
          /\ Sent(call)'
          /\ Ordered /\ (call = "joinChannel" => \A u \in Mutes : Sent(u)) => Ordered'
      BY <2>2, <3>1, Grown
    <3>3. MutedBeforeJoined'
      BY <3>1 DEF Muting, MutedBeforeJoined
    <3>4. Ordered'
      BY <2>3, <2>8, <3>2 DEF Muting, MutesSent
    <3>5. InitializeGoesOn'
      BY <2>3, <2>5, <2>6, <3>2, LeftDiffer, <2>8 DEF Muting, InitializeGoesOn
    <3>6. MutesSent'
      <4>1. CASE ~Initializing
        BY <2>6, <2>8, <3>2, <4>1 DEF Muting, MutesSent
      <4>2. CASE Initializing /\ todo = Left1
        BY <2>3, <2>8, <3>2, <4>2, LeftDiffer DEF Muting, InitializeGoesOn, MutesSent, Mutes
      <4>3. CASE Initializing /\ todo # Left1
        <5>1. todo' # Whole /\ Initializing'
          BY <2>3, <2>4, <2>5, <4>3, LeftDiffer, LeftTails, LeftNonempty DEF Initializing
        <5> QED
          BY <5>1 DEF MutesSent
      <4> QED
        BY <4>1, <4>2, <4>3
    <3> QED
      BY <3>1, <3>3, <3>4, <3>5, <3>6 DEF Muting
  <2> QED
    BY <2>7, <2>8
<1>5. ASSUME CreateChannel \/ ReleaseChannel \/ ReleaseDevices PROVE Muting'
  <2>1. UNCHANGED <<engine, session>> /\ ~Initializing
    BY <1>5 DEF CreateChannel, ReleaseChannel, ReleaseDevices, Initializing
  <2>2. ~Initializing'
    BY <1>5, <2>1, NotInitializing
    DEF CreateChannel, ReleaseChannel, ReleaseDevices, Refused, Answer, Initializing, Idle
  <2> QED
    BY <2>1, <2>2, OtherMethods DEF Muting
<1>6. ASSUME Clear, ~Initializing, ~Initializing' PROVE Muting'
  <2>1. CASE ~source
    <3>1. UNCHANGED session
      BY <1>6, <2>1 DEF Clear
    <3> QED
      BY <1>6, <2>1, <3>1, OtherMethods
  <2>2. CASE source
    <3>1. source' = FALSE /\ pipe' = Append(pipe, "disconnect") /\ reached' = reached
      BY <1>6, <2>2 DEF Clear
    <3>2. Ordered'
      BY <3>1, Grown DEF Muting, Messages
    <3>3. MutedBeforeJoined'
      BY <3>1 DEF Muting, MutedBeforeJoined
    <3> QED
      BY <1>6, <3>1, <3>2, <3>3 DEF Muting, InitializeGoesOn, MutesSent
  <2> QED
    BY <2>1, <2>2
<1>7. ASSUME ReleaseEngine PROVE Muting'
  <2>1. Clear /\ ~Initializing /\ \E n : Answer(n)
    BY <1>7 DEF ReleaseEngine, Initializing, Refused, Answer
  <2> QED
    BY <1>6, <2>1, NotInitializing
<1>8. ASSUME VideoSourceRelease PROVE Muting'
  <2>1. (\E n : Answer(n)) /\ ~Initializing /\ UNCHANGED addon
    BY <1>8 DEF VideoSourceRelease, Refused, Initializing
  <2>2. Clear \/ UNCHANGED session
    BY <1>8 DEF VideoSourceRelease, Refused
  <2> QED
    BY <1>6, <2>1, <2>2, NotInitializing, OtherMethods DEF Muting, addon
<1>9. ASSUME VideoSourceInitialize PROVE Muting'
  <2>1. Initializing /\ "VideoSourceInitialize" \in Head(todo) /\ UNCHANGED addon
    BY <1>9 DEF VideoSourceInitialize, Initializing, Due
  <2>2. \E n : Answer(n)
    BY <1>9 DEF VideoSourceInitialize, Refused
  <2>3. todo = Whole
    BY <2>1 DEF Muting, InitializeGoesOn, Left3, Left2, Left1
  <2>4. todo' = Left3
    BY <2>1, <2>2, <2>3, InTurn, LeftTails DEF Initializing
  <2>5. InitializeGoesOn' /\ MutesSent'
    <3>1. Initializing'
      BY <2>1, <2>2, <2>3, InTurn, LeftTails, LeftNonempty DEF Initializing
    <3> QED
      BY <2>4, <3>1, LeftDiffer DEF InitializeGoesOn, MutesSent
  <2>6. Ordered' /\ MutedBeforeJoined' /\ (source => engine)'
    <3>1. CASE UNCHANGED session
      BY <2>1, <3>1 DEF Muting, session, addon, Ordered, Ahead, MutedBeforeJoined
    <3>2. CASE engine /\ pipe' = <<>> /\ reached' = {}
      BY <2>1, <3>2 DEF addon, Ordered, MutedBeforeJoined
    <3> QED
      BY <1>9, <3>1, <3>2 DEF VideoSourceInitialize, Refused
  <2> QED
    BY <2>5, <2>6 DEF Muting
<1>10. ASSUME Execute PROVE Muting'
  <2>1. /\ pipe # <<>> /\ pipe' = Tail(pipe)
        /\ reached \subseteq reached'
        /\ Head(pipe) \in Mutes => Head(pipe) \in reached'
        /\ "joinChannel" \in reached' => "joinChannel" \in reached \/ Head(pipe) = "joinChannel"
    BY <1>10 DEF Execute, Tracked, Mutes
  <2>2. UNCHANGED <<engine, source, method, todo>>
    BY <1>10 DEF Execute, addon
  <2>3. \A u \in Mutes : Sent(u) => Sent(u)'
    BY <2>1, Taken
  <2>4. Ordered' /\ MutedBeforeJoined'
    BY <2>1, Taken DEF Muting
  <2>5. InitializeGoesOn' /\ MutesSent'
    BY <2>2, <2>3 DEF Muting, InitializeGoesOn, MutesSent, Initializing, Mutes, Whole
  <2> QED
    BY <2>2, <2>4, <2>5 DEF Muting
<1>11. ASSUME Crash PROVE Muting'
  <2>1. UNCHANGED <<engine, source, pipe, reached, method, todo>>
    BY <1>11 DEF Crash, addon
  <2>2. Ordered' /\ MutedBeforeJoined' /\ \A u : Sent(u)' <=> Sent(u)
    BY <2>1 DEF Muting, Ordered, Ahead, MutedBeforeJoined, Sent
  <2> QED
    BY <2>1, <2>2 DEF Muting, InitializeGoesOn, MutesSent, Initializing, Whole
<1>12. ASSUME Notice PROVE Muting'
  <2>1. pipe' = <<>> /\ source' = FALSE /\ UNCHANGED <<reached, method, todo>>
    BY <1>12 DEF Notice
  <2>2. Ordered' /\ MutedBeforeJoined'
    BY <2>1 DEF Muting, Ordered, MutedBeforeJoined
  <2> QED
    BY <2>1, <2>2 DEF Muting, InitializeGoesOn, MutesSent, Initializing, Whole
<1>13. ASSUME UNCHANGED vars PROVE Muting'
  <2>1. UNCHANGED <<engine, source, pipe, reached, method, todo>>
    BY <1>13 DEF vars, addon, session
  <2>2. Ordered' /\ MutedBeforeJoined' /\ \A u : Sent(u)' <=> Sent(u)
    BY <2>1 DEF Muting, Ordered, Ahead, MutedBeforeJoined, Sent
  <2> QED
    BY <2>1, <2>2 DEF Muting, InitializeGoesOn, MutesSent, Initializing, Whole
<1> QED
  BY <1>1, <1>2, <1>3, <1>4, <1>5, <1>7, <1>8, <1>9, <1>10, <1>11, <1>12, <1>13
  DEF Next, Work

\* The SDK of the video source joins no channel before it has been muted.
THEOREM Muted == Spec => []MutedBeforeJoined
<1>1. Init => TypeOK /\ Muting
  <2>1. Init => Muting
    BY DEF Init, Idle, Muting, Ordered, MutedBeforeJoined, InitializeGoesOn, MutesSent, Initializing
  <2> QED
    BY <2>1, TypeStart
<1>2. TypeOK /\ Muting /\ [Next]_vars => (TypeOK /\ Muting)'
  BY TypeStep, MutingStep
<1>3. Muting => MutedBeforeJoined
  BY DEF Muting
<1> QED
  BY <1>1, <1>2, <1>3, PTL DEF Spec

-----------------------------------------------------------------------------
(* The tables: no method makes a call of another one's name. *)

\* What a method of a family may call: the API of its name, one of those that
\* Renamed lists, or a function of the addon itself.
Addons(family) == {"Release", "createChannel"} \cup
                  IF family = "engine" THEN {"CreateChannel", "ReleaseDevices"} ELSE {}
Allowed(family, m, call) ==
  call = m \/ <<family, m, call>> \in Renamed \/ call \in Addons(family)

Named(table, family) ==
  \A m \in DOMAIN table : \A i \in DOMAIN table[m] :
    \A call \in table[m][i] : Allowed(family, m, call)

LEMMA BothNamed ==
  ASSUME NEW f, NEW g, NEW family, Named(f, family), Named(g, family)
  PROVE  Named(f @@ g, family)
<1>1. DOMAIN (f @@ g) = DOMAIN f \cup DOMAIN g
  BY DEF @@
<1>2. ASSUME NEW m \in DOMAIN f \cup DOMAIN g
      PROVE  (f @@ g)[m] = IF m \in DOMAIN f THEN f[m] ELSE g[m]
  BY DEF @@
<1>3. ASSUME NEW m \in DOMAIN (f @@ g)
      PROVE  \A i \in DOMAIN (f @@ g)[m] : \A call \in (f @@ g)[m][i] : Allowed(family, m, call)
  <2>1. CASE m \in DOMAIN f
    <3>1. (f @@ g)[m] = f[m]
      BY <1>1, <1>2, <2>1
    <3>. QED
      BY <2>1, <3>1 DEF Named
  <2>2. CASE m \notin DOMAIN f
    <3>1. m \in DOMAIN g /\ (f @@ g)[m] = g[m]
      BY <1>1, <1>2, <1>3, <2>2
    <3>. QED
      BY <3>1 DEF Named
  <2>. QED
    BY <2>1, <2>2
<1>. QED
  BY <1>3 DEF Named

LEMMA JoinedNamed ==
  ASSUME NEW tables, NEW family, \A t \in tables : Named(t, family)
  PROVE  Named(Joined(tables), family)
<1>. SUFFICES ASSUME NEW m \in UNION {DOMAIN t : t \in tables}
             PROVE  \A i \in DOMAIN Joined(tables)[m] :
                      \A call \in Joined(tables)[m][i] : Allowed(family, m, call)
  BY DEF Named, Joined
<1>1. \E t \in tables : m \in DOMAIN t
  OBVIOUS
<1>2. PICK t \in tables : m \in DOMAIN t /\ Joined(tables)[m] = t[m]
  BY <1>1 DEF Joined
<1>. QED
  BY <1>2 DEF Named

LEMMA CaseNamed ==
  ASSUME NEW m, NEW row, NEW family,
         \A i \in DOMAIN row : \A call \in row[i] : Allowed(family, m, call)
  PROVE  Named(m :> row, family)
BY DEF Named, :>

LEMMA SameNamed ==
  ASSUME NEW family, NEW methods
  PROVE  Named(Same(methods), family)
<1>1. ASSUME NEW m PROVE DOMAIN <<{m}>> = {1} /\ <<{m}>>[1] = {m}
  OBVIOUS
<1>2. DOMAIN Same(methods) = methods /\ \A m \in methods : Same(methods)[m] = <<{m}>>
  BY DEF Same
<1>. QED
  BY <1>1, <1>2 DEF Named, Allowed

LEMMA EngineNamed == Named(EngineCalls, "engine")
<1>1. /\ Named(EngineCalls3, "engine") /\ Named(EngineCalls6, "engine")
      /\ Named(EngineCalls7, "engine") /\ Named(EngineCalls8, "engine")
      /\ Named(EngineCalls9, "engine") /\ Named(EngineCalls10, "engine")
      /\ Named(EngineCalls11, "engine") /\ Named(EngineCalls12, "engine")
      /\ Named(EngineCalls13, "engine") /\ Named(EngineCalls14, "engine")
      /\ Named(EngineCalls15, "engine") /\ Named(EngineCalls16, "engine")
      /\ Named(EngineCalls17, "engine") /\ Named(EngineCalls18, "engine")
      /\ Named(EngineCalls19, "engine") /\ Named(EngineCalls20, "engine")
      /\ Named(EngineCalls21, "engine") /\ Named(EngineCalls22, "engine")
      /\ Named(EngineCalls25, "engine") /\ Named(EngineCalls26, "engine")
      /\ Named(EngineCalls27, "engine") /\ Named(EngineCalls28, "engine")
      /\ Named(EngineCalls29, "engine") /\ Named(EngineCalls30, "engine")
      /\ Named(EngineCalls31, "engine") /\ Named(EngineCalls32, "engine")
      /\ Named(EngineCalls33, "engine") /\ Named(EngineCalls34, "engine")
      /\ Named(EngineCalls35, "engine") /\ Named(EngineCalls36, "engine")
      /\ Named(EngineCalls37, "engine")
  BY SameNamed DEF EngineCalls3, EngineCalls6, EngineCalls7, EngineCalls8, EngineCalls9,
       EngineCalls10, EngineCalls11, EngineCalls12, EngineCalls13, EngineCalls14,
       EngineCalls15, EngineCalls16, EngineCalls17, EngineCalls18, EngineCalls19,
       EngineCalls20, EngineCalls21, EngineCalls22, EngineCalls25, EngineCalls26,
       EngineCalls27, EngineCalls28, EngineCalls29, EngineCalls30, EngineCalls31,
       EngineCalls32, EngineCalls33, EngineCalls34, EngineCalls35, EngineCalls36,
       EngineCalls37
<1>2. Named(EngineCalls1, "engine")
  BY SameNamed, CaseNamed, BothNamed DEF EngineCalls1, Renamed, Allowed, Addons
<1>3. Named(EngineCalls2, "engine")
  BY SameNamed, CaseNamed, BothNamed DEF EngineCalls2, Renamed, Allowed, Addons
<1>4. Named(EngineCalls4, "engine")
  BY SameNamed, CaseNamed, BothNamed DEF EngineCalls4, Renamed, Allowed, Addons
<1>5. Named(EngineCalls5, "engine")
  BY SameNamed, CaseNamed, BothNamed DEF EngineCalls5, Renamed, Allowed, Addons
<1>6. Named(EngineCalls23, "engine")
  BY SameNamed, CaseNamed, BothNamed DEF EngineCalls23, Renamed, Allowed, Addons
<1>7. Named(EngineCalls24, "engine")
  BY SameNamed, CaseNamed, BothNamed DEF EngineCalls24, Renamed, Allowed, Addons
<1>. QED
  BY <1>1, <1>2, <1>3, <1>4, <1>5, <1>6, <1>7, JoinedNamed DEF EngineCalls

LEMMA ChannelNamed == Named(ChannelCalls, "channel")
<1>1. /\ Named(ChannelCalls1, "channel") /\ Named(ChannelCalls3, "channel")
      /\ Named(ChannelCalls4, "channel") /\ Named(ChannelCalls5, "channel")
      /\ Named(ChannelCalls6, "channel") /\ Named(ChannelCalls7, "channel")
      /\ Named(ChannelCalls8, "channel") /\ Named(ChannelCalls10, "channel")
      /\ Named(ChannelCalls11, "channel")
  BY SameNamed DEF ChannelCalls1, ChannelCalls3, ChannelCalls4, ChannelCalls5,
       ChannelCalls6, ChannelCalls7, ChannelCalls8, ChannelCalls10, ChannelCalls11
<1>2. Named(ChannelCalls2, "channel")
  BY SameNamed, CaseNamed, BothNamed DEF ChannelCalls2, Renamed, Allowed, Addons
<1>3. Named(ChannelCalls9, "channel")
  BY SameNamed, CaseNamed, BothNamed DEF ChannelCalls9, Renamed, Allowed, Addons
<1>. QED
  BY <1>1, <1>2, <1>3, JoinedNamed DEF ChannelCalls

\* The calls left to the method that runs are steps of its row.
InRow == method # Idle =>
           \A i \in DOMAIN todo :
             \E j \in DOMAIN Calls[method[1]][method[2]] : todo[i] = Calls[method[1]][method[2]][j]

LEMMA AnswerInRow ==
  ASSUME TypeOK, InRow, todo # <<>>, method # Idle, NEW n \in Int, Answer(n)
  PROVE  InRow'
<1>1. /\ todo \in Seq(SUBSET STRING) /\ Len(todo) \in Nat \ {0} /\ DOMAIN todo = 1 .. Len(todo)
      /\ method \in Methods
  BY DEF TypeOK
<1>2. ASSUME todo' = Tail(todo) PROVE InRow'
  <2>1. \A i \in DOMAIN Tail(todo) : i + 1 \in DOMAIN todo /\ Tail(todo)[i] = todo[i + 1]
    BY <1>1
  <2>2. method' = method \/ method' = Idle
    BY DEF Answer
  <2>. QED
    BY <1>2, <2>1, <2>2 DEF InRow
<1>3. ASSUME method \in Listings, First, todo' = [i \in 1 .. n |-> todo[2]] PROVE InRow'
  <2>1. Len(todo) = 2
    BY <1>1, <1>3, ListingAssumption DEF First
  <2>2. 2 \in DOMAIN todo /\ \A i \in DOMAIN todo' : todo'[i] = todo[2]
    BY <1>1, <1>3, <2>1
  <2>3. method' = method \/ method' = Idle
    BY DEF Answer
  <2>. QED
    BY <2>2, <2>3 DEF InRow
<1>4. ASSUME todo' = <<>> PROVE InRow'
  <2>1. method' = Idle \/ DOMAIN todo' = {}
    BY <1>4
  <2>. QED
    BY <2>1 DEF InRow
<1>. QED
  BY <1>2, <1>3, <1>4 DEF Answer, Rest

\* A step of the method that runs is a call that returns, or ends it.
LEMMA WorkAnswers ==
  ASSUME TypeOK, Work
  PROVE  \/ todo # <<>> /\ method # Idle /\ \E n \in Int : Answer(n)
         \/ method' = Idle
<1>. USE Integral
<1>1. ASSUME NEW call, CallEngine(call) \/ CallDevice(call) \/ CallChannel(call) \/ CallSource(call)
      PROVE  todo # <<>> /\ method # Idle /\ \E n \in Int : Answer(n)
  BY <1>1 DEF CallEngine, CallDevice, CallChannel, CallSource, Due, Refused
<1>2. ASSUME CreateChannel
      PROVE  todo # <<>> /\ method # Idle /\ (method' = Idle \/ Answer(0))
  BY <1>2 DEF CreateChannel, Due, Refused, Idle
<1>3. ASSUME ReleaseChannel \/ ReleaseDevices \/ ReleaseEngine
      PROVE  todo # <<>> /\ method # Idle /\ Answer(0)
  BY <1>3 DEF ReleaseChannel, ReleaseDevices, ReleaseEngine, Due, Refused, Idle
<1>4. ASSUME VideoSourceInitialize \/ VideoSourceRelease
      PROVE  todo # <<>> /\ method # Idle /\ \E n \in Int : Answer(n)
  BY <1>4 DEF VideoSourceInitialize, VideoSourceRelease, Refused, Due, Idle
<1>. QED
  BY <1>1, <1>2, <1>3, <1>4 DEF Work

LEMMA RowStep == TypeOK /\ InRow /\ [Next]_vars => InRow'
<1>. SUFFICES ASSUME TypeOK, InRow, [Next]_vars PROVE InRow'
  OBVIOUS
<1>1. ASSUME NEW m \in Methods, Begin(m) PROVE InRow'
  BY <1>1 DEF Begin, InRow
<1>2. ASSUME Work PROVE InRow'
  <2>1. ASSUME method' = Idle PROVE InRow'
    BY <2>1 DEF InRow
  <2>. QED
    BY <1>2, <2>1, WorkAnswers, AnswerInRow
<1>3. ASSUME UNCHANGED <<method, todo>> PROVE InRow'
  BY <1>3 DEF InRow
<1>. QED
  BY <1>1, <1>2, <1>3 DEF Next, vars, Execute, Crash, Notice

\* What reaches an SDK of this process is a call that is due.
LEMMA Reaching ==
  ASSUME [Next]_vars, ~UNCHANGED vars, sdk' # <<>>, method[1] # "device"
  PROVE  \E call :
           /\ Due(call) /\ method # Idle
           /\ \/ /\ method[1] = "engine" /\ sdk' = <<"engine", call>>
                 /\ call \notin {"CreateChannel", "createChannel", "ReleaseDevices", "Release"}
              \/ /\ method[1] = "channel" /\ sdk' = <<"channel", call>> /\ call # "Release"
              \/ sdk' = <<"channel", "createChannel">>
<1>1. Work
  BY DEF Next, Begin, Execute, Crash, Notice
<1>2. PICK call : CallEngine(call) \/ CallDevice(call) \/ CallChannel(call) \/ CallSource(call)
  BY <1>1 DEF Work, CreateChannel, ReleaseChannel, ReleaseDevices, ReleaseEngine,
              VideoSourceRelease, VideoSourceInitialize, Refused
<1>3. CASE CallEngine(call)
  BY <1>3 DEF CallEngine, Refused
<1>4. ~CallDevice(call)
  BY DEF CallDevice
<1>5. CASE CallChannel(call)
  BY <1>5 DEF CallChannel, Refused
<1>6. ~CallSource(call)
  BY DEF CallSource, Refused
<1>. QED
  BY <1>2, <1>3, <1>4, <1>5, <1>6

\* What is due to a method of the engine or of a channel bears its name.
LEMMA DueNamed ==
  ASSUME Calls = AllCalls, TypeOK, InRow, NEW call, Due(call), method # Idle,
         method[1] \in {"engine", "channel"}
  PROVE  Allowed(method[1], method[2], call)
<1>. DEFINE row == Calls[method[1]][method[2]]
<1>1. PICK j \in DOMAIN row : Head(todo) = row[j]
  <2>1. todo \in Seq(SUBSET STRING) /\ todo # <<>>
    BY DEF TypeOK, Due
  <2>2. 1 \in DOMAIN todo /\ Head(todo) = todo[1]
    BY <2>1
  <2>. QED
    BY <2>2 DEF InRow
<1>2. method[2] \in DOMAIN Calls[method[1]]
  <2>1. method \in UNION {{f} \X (DOMAIN Calls[f]) : f \in DOMAIN Calls}
    BY DEF TypeOK, Methods
  <2>2. PICK f \in DOMAIN Calls : method \in {f} \X (DOMAIN Calls[f])
    BY <2>1, Zenon
  <2>. QED
    BY <2>2
<1>3. Named(Calls[method[1]], method[1])
  <2>1. Calls["engine"] = EngineCalls /\ Calls["channel"] = ChannelCalls
    BY DEF AllCalls
  <2>. QED
    BY <2>1, EngineNamed, ChannelNamed
<1>4. call \in row[j]
  BY <1>1 DEF Due
<1>. HIDE DEF row
<1>5. \A i \in DOMAIN row : \A c \in row[i] : Allowed(method[1], method[2], c)
  BY <1>2, <1>3 DEF Named, row
<1>. QED
  BY <1>1, <1>4, <1>5

\* With the methods as they are written, each of the engine and of a channel
\* brings to the SDK the API of its own name, but for those that Renamed lists.
THEOREM AsNamed ==
  ASSUME Calls = AllCalls
  PROVE  Spec => ReachedAsNamed
<1>1. Init => InRow
  BY DEF Init, InRow
<1>2. ASSUME TypeOK, InRow, [Next]_vars
      PROVE  [(sdk' # <<>> /\ method[1] # "device")
              => \/ sdk'[2] = method[2] /\ sdk'[1] = method[1]
                 \/ sdk' = <<"channel", "createChannel">>
                 \/ <<method[1], method[2], sdk'[2]>> \in Renamed]_vars
  <2>. SUFFICES ASSUME ~UNCHANGED vars, sdk' # <<>>, method[1] # "device",
                       sdk' # <<"channel", "createChannel">>
                PROVE  \/ sdk'[2] = method[2] /\ sdk'[1] = method[1]
                       \/ <<method[1], method[2], sdk'[2]>> \in Renamed
    OBVIOUS
  <2>1. PICK call :
          /\ Due(call) /\ method # Idle /\ method[1] \in {"engine", "channel"}
          /\ sdk' = <<method[1], call>>
          /\ call \notin Addons(method[1])
    BY <1>2, Reaching DEF Addons
  <2>2. Allowed(method[1], method[2], call)
    BY <1>2, <2>1, DueNamed
  <2>. QED
    BY <2>1, <2>2 DEF Allowed
<1>. QED
  BY <1>1, <1>2, RowStep, Typed, PTL DEF Spec, ReachedAsNamed
=============================================================================
