------------------------------ MODULE ApiCalls ------------------------------
(* The way of a call: a method of AgoraRtcEngine or AgoraRtcChannel          *)
(* (ts/Api/index.ts) makes its calls on the addon one after another, and the *)
(* addon's wrappers pass each on to the SDK of the main process, or to the   *)
(* process of the video source by way of a pipe, or refuse it.               *)
(*                                                                           *)
(* There is one engine, with its device manager, one AgoraRtcChannel at a    *)
(* time and one video source; how a session of the video source starts and   *)
(* ends in detail is the subject of VideoSourceSession.                      *)
EXTENDS Sequences, Integers

CONSTANTS
  Calls,   \* the calls of each method: AllCalls of ApiCallTables
  MaxPipe  \* messages that the pipe to the video source holds

Methods == UNION {{f} \X (DOMAIN Calls[f]) : f \in DOMAIN Calls}
Idle == <<>>

ASSUME CallsAssumption ==
  \A m \in Methods : Calls[m[1]][m[2]] \in Seq(SUBSET STRING)
ASSUME InitializeAssumption ==
  Calls["source"]["initialize"] =
    <<{"VideoSourceInitialize"}, {"enableLocalAudio"},
      {"muteAllRemoteVideoStreams"}, {"muteAllRemoteAudioStreams"}>>
ASSUME ReleaseAssumption ==
  Calls["engine"]["release"] = <<{"release"}, {"ReleaseDevices"}, {"Release"}>>
ASSUME BoundsAssumption == MaxPipe \in Nat \ {0}

VARIABLES
  engine,   \* _iris_engine is there
  devices,  \* _deviceManager is there
  channel,  \* the AgoraRtcChannel: "none", "open" or "released"
  source,   \* _initialized of the VideoSourceProxy
  process,  \* the process of the video source: "none", "up" or "crashed"
  pipe,     \* messages on their way to that process
  locked,   \* it crashed with the lock of the block that the next one goes to
  reached,  \* what of Tracked has reached the SDK of that process
  method,   \* the method that runs
  todo,     \* the calls it has yet to make
  sdk       \* the call that the last step has brought to an SDK of this process

addon == <<engine, devices, channel>>
session == <<source, process, pipe, locked, reached>>
vars == <<addon, session, method, todo, sdk>>

\* What videoSourceInitialize has to see to, and what must not come before it.
Mutes == {"enableLocalAudio", "muteAllRemoteVideoStreams", "muteAllRemoteAudioStreams"}
Tracked == Mutes \cup {"joinChannel"}

\* Results: success, a value, a failure of the SDK; an exception; no object.
Outcomes == {0, 2, -2, -1}
Parameter1 == -1
NotInit == -6

Listings == {<<"device", m>> : m \in
  {"getVideoDevices", "getAudioPlaybackDevices", "getPlaybackDeviceInfo",
   "getAudioRecordingDevices", "getRecordingDeviceInfo"}}

ASSUME ListingAssumption ==
  \A m \in Methods \cap Listings : Len(Calls[m[1]][m[2]]) = 2

\* The values of the variables.
TypeOK ==
  /\ engine \in BOOLEAN /\ devices \in BOOLEAN
  /\ channel \in {"none", "open", "released"}
  /\ source \in BOOLEAN
  /\ process \in {"none", "up", "crashed"}
  /\ pipe \in Seq(STRING \cup {"disconnect"}) /\ Len(pipe) <= MaxPipe
  /\ locked \in BOOLEAN
  /\ reached \subseteq Tracked
  /\ method \in Methods \cup {Idle}
  /\ todo \in Seq(SUBSET STRING)
  /\ sdk \in {<<>>} \cup ({"engine", "device", "channel"} \X STRING)

Init ==
  /\ engine = TRUE /\ devices = TRUE
  /\ channel = "none"
  /\ source = FALSE
  /\ process = "none"
  /\ pipe = <<>>
  /\ locked = FALSE
  /\ reached = {}
  /\ method = Idle
  /\ todo = <<>>
  /\ sdk = <<>>

(***************************************************************************)
(* The JavaScript thread.                                                  *)
(***************************************************************************)
\* These start at any time.  The others change nothing that outlasts them:
\* they start while the pipe is empty, which shows all they do.
Driving ==
  {<<"source", "initialize">>, <<"source", "joinChannel">>, <<"source", "release">>,
   <<"source", "startScreenCapture">>, <<"engine", "release">>}

Begin(m) ==
  /\ method = Idle
  /\ m \in Driving \/ pipe = <<>>
  /\ m[1] = "channel" => channel # "none"
  /\ method' = m
  /\ todo' = Calls[m[1]][m[2]]
  /\ sdk' = <<>>
  /\ UNCHANGED <<addon, session>>

\* What the method that runs calls next.
Due(call) == todo # <<>> /\ call \in Head(todo)
First == todo = Calls[method[1]][method[2]]

\* The calls left after one that returned n.  A listing asks for each of as
\* many devices as its first call said.  It ends with an exception when that
\* call fails, for there is no array of negative length, and when another does,
\* which leaves nothing that JSON.parse could read.
Rest(n) ==
  IF method \notin Listings THEN Tail(todo)
  ELSE IF n < 0 THEN <<>>
  ELSE IF First THEN [i \in 1 .. n |-> todo[2]]
  ELSE Tail(todo)

\* The call returns n to the method, which ends after its last.
Answer(n) ==
  /\ todo' = Rest(n)
  /\ method' = IF Rest(n) = <<>> THEN Idle ELSE method

Refused(n) == Answer(n) /\ sdk' = <<>>

(***************************************************************************)
(* The addon: CallApi and its like.                                        *)
(***************************************************************************)
\* CallApiWithBuffer of the engine has an empty case for sendMetadata.
CallEngine(call) ==
  /\ method # Idle /\ method[1] = "engine"
  /\ call \notin {"CreateChannel", "createChannel", "ReleaseDevices", "Release"}
  /\ Due(call)
  /\ IF ~engine THEN Refused(NotInit)
     ELSE IF call = "sendMetadata" THEN Refused(Parameter1)
     ELSE sdk' = <<"engine", call>> /\ \E n \in Outcomes : Answer(n)
  /\ UNCHANGED <<addon, session>>

CallDevice(call) ==
  /\ method # Idle /\ method[1] = "device"
  /\ Due(call)
  /\ IF ~devices THEN Refused(NotInit)
     ELSE sdk' = <<"device", call>> /\ \E n \in Outcomes : Answer(n)
  /\ UNCHANGED <<addon, session>>

\* Only CallApi says that the channel was released.  The pointer stays when
\* the engine is released, so the call reaches what is left of the SDK.
CallChannel(call) ==
  /\ method # Idle /\ (method[1] = "channel" \/ call = "createChannel")
  /\ call # "Release"
  /\ Due(call)
  /\ IF channel = "open"
     THEN sdk' = <<"channel", call>> /\ \E n \in Outcomes : Answer(n)
     ELSE Refused(IF call \in {"sendStreamMessage", "sendMetadata"}
                  THEN Parameter1 ELSE NotInit)
  /\ UNCHANGED <<addon, session>>

\* A message to the video source waits until the block it goes to is free.
Room == Len(pipe) < MaxPipe /\ ~locked

\* Faulty variant of CallSource: a call does not wait for room.
CallSourceAnyway(call) ==
  /\ method # Idle /\ method[1] = "source"
  /\ call \notin {"VideoSourceInitialize", "VideoSourceRelease"}
  /\ Due(call)
  /\ IF engine /\ source
     THEN /\ pipe' = Append(pipe, call)
          /\ Refused(0)
     ELSE /\ Refused(IF engine THEN Parameter1 ELSE NotInit)
          /\ UNCHANGED pipe
  /\ UNCHANGED <<addon, source, process, locked, reached>>

\* VideoSourceProxy::CallApi waits for room in the pipe and returns 0; the
\* result of the SDK stays in the other process.
CallSource(call) ==
  /\ method # Idle /\ method[1] = "source"
  /\ call \notin {"VideoSourceInitialize", "VideoSourceRelease"}
  /\ Due(call)
  /\ IF engine /\ source
     THEN /\ Room
          /\ pipe' = Append(pipe, call)
          /\ Refused(0)
     ELSE /\ Refused(IF engine THEN Parameter1 ELSE NotInit)
          /\ UNCHANGED pipe
  /\ UNCHANGED <<addon, source, process, locked, reached>>

\* Without an engine there is nothing to make an AgoraRtcChannel of: its
\* constructor, which goes on to call createChannel on it, throws.
CreateChannel ==
  /\ method = <<"engine", "createChannel">> /\ Due("CreateChannel")
  /\ IF engine THEN channel' = "open" /\ Refused(0)
     ELSE /\ method' = Idle /\ todo' = <<>> /\ sdk' = <<>>
          /\ UNCHANGED channel
  /\ UNCHANGED <<engine, devices, session>>

ReleaseChannel ==
  /\ method # Idle /\ method[1] = "channel" /\ Due("Release")
  /\ channel' = "released"
  /\ Refused(0)
  /\ UNCHANGED <<engine, devices, session>>

\* Faulty variant of ReleaseDevices: the pointer is not reset.
ReleaseDevicesNot ==
  /\ method = <<"engine", "release">> /\ Due("ReleaseDevices")
  /\ Refused(0)
  /\ UNCHANGED <<addon, session>>

ReleaseDevices ==
  /\ method = <<"engine", "release">> /\ Due("ReleaseDevices")
  /\ devices' = FALSE
  /\ Refused(0)
  /\ UNCHANGED <<engine, channel, session>>


\* Clear of the proxy says farewell to the process.
Clear ==
  IF source
  THEN /\ Room
       /\ source' = FALSE
       /\ pipe' = Append(pipe, "disconnect")
       /\ UNCHANGED <<process, locked, reached>>
  ELSE UNCHANGED session

\* The proxy goes with the engine.
ReleaseEngine ==
  /\ method = <<"engine", "release">> /\ Due("Release")
  /\ engine' = FALSE
  /\ Clear
  /\ Refused(0)
  /\ UNCHANGED <<devices, channel>>

VideoSourceRelease ==
  /\ method = <<"source", "release">> /\ Due("VideoSourceRelease")
  /\ IF engine THEN Clear /\ Refused(0)
     ELSE Refused(NotInit) /\ UNCHANGED session
  /\ UNCHANGED addon

\* A proxy that is initialised starts nothing; the process may fail to start
\* or to say that it is ready.  The methods' own calls follow in any case.  The
\* process of the session before may not be gone yet: it reads what is left in
\* a pipe of its own, and from here on the new one is followed.
VideoSourceInitialize ==
  /\ method = <<"source", "initialize">> /\ Due("VideoSourceInitialize")
  /\ \/ ~engine /\ Refused(NotInit) /\ UNCHANGED session
     \/ engine /\ source /\ Refused(0) /\ UNCHANGED session
     \/ engine /\ ~source /\ Refused(Parameter1) /\ UNCHANGED session
     \/ /\ engine /\ ~source /\ Refused(0)
        /\ source' = TRUE /\ process' = "up"
        /\ pipe' = <<>> /\ locked' = FALSE /\ reached' = {}
  /\ UNCHANGED addon

(***************************************************************************)
(* The process of the video source, and the thread that watches it.        *)
(***************************************************************************)
\* Faulty variant of Execute: the newest message is taken first.
ExecuteNewest ==
  /\ process = "up" /\ pipe # <<>>
  /\ pipe' = SubSeq(pipe, 1, Len(pipe) - 1)
  /\ IF pipe[Len(pipe)] = "disconnect"
     THEN process' = "none" /\ UNCHANGED reached
     ELSE reached' = reached \cup ({pipe[Len(pipe)]} \cap Tracked) /\ UNCHANGED process
  /\ sdk' = <<>>
  /\ UNCHANGED <<addon, source, locked, method, todo>>

\* VideoSource::OnMessage.  An exception of the SDK ends this call only.
Execute ==
  /\ process = "up" /\ pipe # <<>>
  /\ pipe' = Tail(pipe)
  /\ IF Head(pipe) = "disconnect"
     THEN process' = "none" /\ UNCHANGED reached
     ELSE reached' = reached \cup ({Head(pipe)} \cap Tracked) /\ UNCHANGED process
  /\ sdk' = <<>>
  /\ UNCHANGED <<addon, source, locked, method, todo>>

\* The lock of a block that holds a message is met only when the pipe is full.
Crash ==
  /\ process = "up"
  /\ process' = "crashed"
  /\ locked' \in {FALSE, pipe = <<>>}
  /\ sdk' = <<>>
  /\ UNCHANGED <<addon, source, pipe, reached, method, todo>>

\* OnVideoSourceExit: the farewell needs room in the pipe like any message.
Notice ==
  /\ process = "crashed"
  /\ source => Room
  /\ process' = "none"
  /\ source' = FALSE
  /\ pipe' = <<>> /\ locked' = FALSE
  /\ sdk' = <<>>
  /\ UNCHANGED <<addon, reached, method, todo>>

Work ==
  \/ \E call \in UNION {todo[i] : i \in DOMAIN todo} :
       CallEngine(call) \/ CallDevice(call) \/ CallChannel(call) \/ CallSource(call)
  \/ CreateChannel \/ ReleaseChannel \/ ReleaseDevices \/ ReleaseEngine
  \/ VideoSourceInitialize \/ VideoSourceRelease

Next ==
  \/ \E m \in Methods : Begin(m)
  \/ Work
  \/ Execute \/ Crash \/ Notice

\* A method runs on, and the process reads what is sent to it.
Spec == Init /\ [][Next]_vars /\ WF_vars(Work) /\ WF_vars(Execute)

(***************************************************************************)
(* Properties.                                                             *)
(***************************************************************************)

\* The SDK of the video source's process joins no channel before it has been
\* told to take no part in its audio and video: the mutes of
\* videoSourceInitialize come first, in every session and whatever failed or
\* crashed before.
MutedBeforeJoined == "joinChannel" \in reached => Mutes \subseteq reached

\* Once release has destroyed the engine, no method of the engine or of its
\* device manager brings a call to an SDK.  (A method of a channel does.)
ReleasedIsSilent == sdk # <<>> /\ ~engine => sdk[1] = "channel"

\* Methods that bring an API of another name to the SDK.  Deprecated names and
\* variants apart, enableLocalVideo of the video source is not what it says,
\* and neither is getCurrentAudioRecordingDevice.
Renamed ==
  {<<"engine", "initializeWithContext", "initialize">>,
   <<"engine", "setClientRoleWithOptions", "setClientRole">>,
   <<"engine", "startEchoTestWithInterval", "startEchoTest">>,
   <<"engine", "startScreenCaptureByWindow", "startScreenCaptureByWindowId">>,
   <<"engine", "startScreenCaptureByScreen", "startScreenCaptureByDisplayId">>,
   <<"engine", "startScreenCaptureByScreen", "startScreenCaptureByScreenRect">>,
   <<"engine", "startScreenCaptureByScreen", "enableLocalVideo">>,
   <<"engine", "stopScreenCapture", "enableLocalVideo">>,
   <<"channel", "setClientRoleWithOptions", "setClientRole">>}

\* A method of the engine or of a channel brings to its own part of the SDK the
\* API of its own name and no other, but for those above: none of the two hundred bodies was
\* copied from its neighbour and left as it was.
ReachedAsNamed ==
  [][(sdk' # <<>> /\ method[1] # "device")
     => \/ sdk'[2] = method[2] /\ sdk'[1] = method[1]
        \/ sdk' = <<"channel", "createChannel">>
        \/ <<method[1], method[2], sdk'[2]>> \in Renamed]_vars

=============================================================================
