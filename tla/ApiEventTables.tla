--------------------------- MODULE ApiEventTables ---------------------------
(* The switches of initEventHandler and the listeners that the interfaces of *)
(* AgoraRtcEngine and AgoraRtcChannel declare, ts/Api/index.ts.              *)
(*                                                                           *)
(* An event is named without its "on" ("warning" is onWarning).  A listener  *)
(* is a pair of a family and a name: videoSourceWarning is                   *)
(* <<"videoSource", "warning">>, a listener of an AgoraRtcChannel has the    *)
(* family "channel", every other one "engine".  Arguments are left out, and  *)
(* so is the lower-case alias that some cases fire next to a name.           *)
EXTENDS Tables

\* Most cases fire the listener with the name of the event.
Fire(family, events) == [e \in events |-> {<<family, e>>}]

(***************************************************************************)
(* What each case of the switches fires.                                   *)
(***************************************************************************)

EngineEvents1 == Fire("engine",
  {"apiError", "warning", "error", "leaveChannel", "clientRoleChanged",
   "userJoined", "lastmileQuality", "lastmileProbeResult",
   "connectionInterrupted", "connectionLost", "connectionBanned",
   "apiCallExecuted"})
  @@ "joinChannelSuccess" :> {<<"engine", "joinedChannel">>}
  @@ "rejoinChannelSuccess" :> {<<"engine", "rejoinedChannel">>}
  @@ "userOffline" :> {<<"engine", "userOffline">>, <<"engine", "removeStream">>}

EngineEvents2 == Fire("engine",
  {"requestToken", "tokenPrivilegeWillExpire", "audioQuality", "rtcStats",
   "networkQuality", "localVideoStats", "remoteVideoStats", "localAudioStats",
   "remoteAudioStats", "localAudioStateChanged", "remoteAudioStateChanged",
   "audioPublishStateChanged", "videoPublishStateChanged"})

EngineEvents3 == Fire("engine",
  {"audioSubscribeStateChanged", "videoSubscribeStateChanged",
   "activeSpeaker", "videoStopped", "firstLocalVideoFrame",
   "firstRemoteVideoFrame"})
  @@ "audioVolumeIndication" :> {<<"engine", "audioVolumeIndication">>,
                                  <<"engine", "groupAudioVolumeIndication">>}

EngineEvents4 == Fire("engine",
  {"firstLocalVideoFramePublished", "firstRemoteVideoDecoded",
   "userMuteAudio", "userMuteVideo", "userEnableVideo",
   "audioDeviceStateChanged", "audioDeviceVolumeChanged", "cameraReady",
   "cameraFocusAreaChanged", "cameraExposureAreaChanged",
   "audioMixingFinished"})

EngineEvents5 == Fire("engine",
  {"audioMixingStateChanged", "remoteAudioMixingBegin",
   "remoteAudioMixingEnd", "audioEffectFinished", "firstRemoteAudioDecoded",
   "videoDeviceStateChanged", "localVideoStateChanged", "videoSizeChanged",
   "remoteVideoStateChanged", "userEnableLocalVideo"})

EngineEvents6 == Fire("engine",
  {"streamMessageError", "mediaEngineLoadSuccess",
   "mediaEngineStartCallSuccess", "userSuperResolutionEnabled",
   "channelMediaRelayStateChanged", "channelMediaRelayEvent",
   "firstLocalAudioFrame", "firstLocalAudioFramePublished",
   "firstRemoteAudioFrame", "rtmpStreamingStateChanged", "rtmpStreamingEvent",
   "streamPublished", "streamUnpublished", "transcodingUpdated"})

EngineEvents7 == Fire("engine",
  {"streamInjectedStatus", "audioRouteChanged",
   "localPublishFallbackToAudioOnly", "remoteSubscribeFallbackToAudioOnly",
   "remoteAudioTransportStats", "remoteVideoTransportStats",
   "microphoneEnabled", "connectionStateChanged", "networkTypeChanged",
   "localUserRegistered", "userInfoUpdated"})
  @@ "videoFrameSizeChanged" :> {}

EngineBufferEvents == Fire("engine",
  {"streamMessage", "metadataReceived"})

SourceEvents1 == Fire("videoSource",
  {"apiError", "warning", "error", "rejoinChannelSuccess", "leaveChannel",
   "clientRoleChanged", "userJoined", "userOffline", "connectionInterrupted",
   "connectionLost", "connectionBanned", "apiCallExecuted", "requestToken",
   "tokenPrivilegeWillExpire"})
  @@ "joinChannelSuccess" :> {<<"videoSource", "joinChannelSuccess">>,
                               <<"videoSource", "joinedsuccess">>}

SourceEvents2 == Fire("videoSource",
  {"audioQuality", "rtcStats", "networkQuality", "localVideoStats",
   "remoteVideoStats", "localAudioStats", "remoteAudioStats",
   "localAudioStateChanged", "remoteAudioStateChanged",
   "audioPublishStateChanged", "videoPublishStateChanged"})

SourceEvents3 == Fire("videoSource",
  {"audioSubscribeStateChanged", "videoSubscribeStateChanged",
   "audioVolumeIndication", "activeSpeaker", "videoStopped",
   "firstLocalVideoFrame", "firstRemoteVideoFrame",
   "firstLocalVideoFramePublished"})
  @@ "firstRemoteVideoDecoded" :> {<<"videoSource", "firstRemoteVideoDecoded">>,
                                    <<"engine", "addStream">>}

SourceEvents4 == Fire("videoSource",
  {"userMuteAudio", "userMuteVideo", "userEnableVideo",
   "audioDeviceStateChanged", "audioDeviceVolumeChanged", "cameraReady",
   "audioMixingFinished", "remoteAudioMixingBegin", "remoteAudioMixingEnd",
   "audioEffectFinished"})
  @@ "cameraFocusAreaChanged" :> {<<"engine", "cameraFocusAreaChanged">>}
  @@ "cameraExposureAreaChanged" :> {<<"engine", "cameraExposureAreaChanged">>}
  @@ "audioMixingStateChanged" :> {<<"engine", "audioMixingStateChanged">>}
  @@ "firstRemoteAudioDecoded" :> {<<"engine", "firstRemoteAudioDecoded">>}

SourceEvents5 == Fire("videoSource",
  {"videoDeviceStateChanged", "videoSizeChanged", "userEnableLocalVideo",
   "streamMessageError", "mediaEngineLoadSuccess",
   "mediaEngineStartCallSuccess", "userSuperResolutionEnabled",
   "channelMediaRelayStateChanged", "channelMediaRelayEvent",
   "firstLocalAudioFrame"})
  @@ "localVideoStateChanged" :> {<<"engine", "localVideoStateChanged">>}
  @@ "remoteVideoStateChanged" :> {<<"engine", "remoteVideoStateChanged">>}

SourceEvents6 == Fire("videoSource",
  {"firstLocalAudioFramePublished", "firstRemoteAudioFrame",
   "rtmpStreamingStateChanged", "rtmpStreamingEvent", "streamPublished",
   "streamUnpublished", "transcodingUpdated", "streamInjectedStatus",
   "audioRouteChanged", "localPublishFallbackToAudioOnly",
   "remoteSubscribeFallbackToAudioOnly", "remoteAudioTransportStats",
   "remoteVideoTransportStats"})

\* Faulty variant of SourceEvents7: the listeners keep the engine's names.
SourceEvents7Copied == Fire("engine",
  {"microphoneEnabled", "connectionStateChanged", "networkTypeChanged",
   "localUserRegistered", "userInfoUpdated"})

SourceEvents7 == Fire("videoSource",
  {"microphoneEnabled", "connectionStateChanged", "networkTypeChanged",
   "localUserRegistered", "userInfoUpdated"})

ChannelEvents1 == Fire("channel",
  {"channelWarning", "channelError", "joinChannelSuccess",
   "rejoinChannelSuccess", "leaveChannel", "clientRoleChanged", "userJoined",
   "userOffline", "requestToken", "tokenPrivilegeWillExpire"})
  @@ "connectionLost" :> {<<"channel", "connectionlost">>}
  @@ "rtcStats" :> {<<"channel", "rtcstats">>}

ChannelEvents2 == Fire("channel",
  {"remoteVideoStats", "remoteAudioStats", "remoteAudioStateChanged",
   "audioPublishStateChanged", "videoPublishStateChanged",
   "audioSubscribeStateChanged", "videoSubscribeStateChanged",
   "activeSpeaker"})
  @@ "networkQuality" :> {<<"channel", "networkquality">>}

ChannelEvents3 == Fire("channel",
  {"videoSizeChanged", "remoteVideoStateChanged", "streamMessageError",
   "userSuperResolutionEnabled", "channelMediaRelayStateChanged",
   "channelMediaRelayEvent", "rtmpStreamingStateChanged",
   "rtmpStreamingEvent", "transcodingUpdated"})

\* Faulty variant of ChannelEvents4: one more name in lower case.
ChannelEvents4Lower == Fire("channel",
  {"streamInjectedStatus", "localPublishFallbackToAudioOnly",
   "remoteSubscribeFallbackToAudioOnly"})
  @@ "connectionStateChanged" :> {<<"channel", "connectionstatechanged">>}

ChannelEvents4 == Fire("channel",
  {"streamInjectedStatus", "localPublishFallbackToAudioOnly",
   "remoteSubscribeFallbackToAudioOnly", "connectionStateChanged"})

ChannelBufferEvents == Fire("channel",
  {"streamMessage"})

EngineEvents == Joined(
  {EngineEvents1, EngineEvents2, EngineEvents3, EngineEvents4,
   EngineEvents5, EngineEvents6, EngineEvents7})

SourceEvents == Joined(
  {SourceEvents1, SourceEvents2, SourceEvents3, SourceEvents4,
   SourceEvents5, SourceEvents6, SourceEvents7})

ChannelEvents == Joined(
  {ChannelEvents1, ChannelEvents2, ChannelEvents3, ChannelEvents4})

(***************************************************************************)
(* The declared listeners.                                                 *)
(***************************************************************************)

DeclaredEngine1 ==
  {"engine"} \X {"apiCallExecuted", "apiError", "warning", "error",
   "joinedChannel", "rejoinedChannel", "audioVolumeIndication",
   "leaveChannel", "rtcStats", "localVideoStats", "localAudioStats",
   "remoteVideoStats", "remoteAudioStats", "remoteVideoTransportStats",
   "remoteAudioTransportStats"}

DeclaredEngine2 ==
  {"engine"} \X {"audioDeviceStateChanged", "audioMixingFinished",
   "audioMixingStateChanged", "remoteAudioMixingBegin",
   "remoteAudioMixingEnd", "audioEffectFinished", "videoDeviceStateChanged",
   "networkQuality", "lastmileQuality", "lastmileProbeResult",
   "firstLocalVideoFrame", "firstRemoteVideoDecoded"}

DeclaredEngine3 ==
  {"engine"} \X {"videoSizeChanged", "firstRemoteVideoFrame",
   "firstRemoteVideoDecoded", "userJoined", "userOffline", "userMuteAudio",
   "userMuteVideo", "userEnableVideo"}

DeclaredEngine4 ==
  {"engine"} \X {"userEnableLocalVideo", "cameraReady", "videoStopped",
   "connectionLost", "connectionInterrupted", "connectionBanned",
   "streamMessage", "streamMessageError", "mediaEngineStartCallSuccess",
   "requestToken", "firstLocalAudioFrame", "firstRemoteAudioFrame",
   "firstRemoteAudioDecoded"}

DeclaredEngine5 ==
  {"engine"} \X {"activeSpeaker", "clientRoleChanged",
   "audioDeviceVolumeChanged", "remoteVideoStateChanged",
   "cameraFocusAreaChanged", "cameraExposureAreaChanged",
   "tokenPrivilegeWillExpire", "streamPublished"} \cup
  {"videoSource"} \X {"joinChannelSuccess", "requestNewToken", "leaveChannel",
   "localAudioStats", "localVideoStats", "videoSizeChanged"}

DeclaredEngine6 ==
  {"engine"} \X {"streamUnpublished", "rtmpStreamingStateChanged",
   "transcodingUpdated", "streamInjectStatus",
   "localPublishFallbackToAudioOnly", "remoteSubscribeFallbackToAudioOnly",
   "microphoneEnabled"}

DeclaredEngine7 ==
  {"engine"} \X {"connectionStateChanged", "localUserRegistered",
   "userInfoUpdated", "localVideoStateChanged", "localAudioStateChanged",
   "remoteAudioStateChanged"}

DeclaredEngine8 ==
  {"engine"} \X {"channelMediaRelayState", "channelMediaRelayEvent",
   "receiveMetadata", "sendMetadataSuccess", "firstLocalAudioFramePublished",
   "firstLocalVideoFramePublished", "rtmpStreamingEvent",
   "audioPublishStateChanged", "videoPublishStateChanged"}

DeclaredEngine9 ==
  {"engine"} \X {"audioSubscribeStateChanged", "videoSubscribeStateChanged",
   "apiCallExecuted", "apiError", "warning", "error", "joinedChannel",
   "rejoinedChannel", "audioVolumeIndication", "leaveChannel", "rtcStats",
   "localVideoStats", "localAudioStats", "remoteVideoStats"}

DeclaredEngine10 ==
  {"engine"} \X {"remoteAudioStats", "remoteVideoTransportStats",
   "remoteAudioTransportStats", "audioDeviceStateChanged",
   "audioMixingFinished", "audioMixingStateChanged", "remoteAudioMixingBegin",
   "remoteAudioMixingEnd", "audioEffectFinished", "videoDeviceStateChanged",
   "networkQuality", "lastmileQuality", "lastmileProbeResult"}

DeclaredEngine11 ==
  {"engine"} \X {"firstLocalVideoFrame", "firstRemoteVideoDecoded",
   "videoSizeChanged", "firstRemoteVideoFrame", "userJoined", "userOffline",
   "userMuteAudio"}

DeclaredEngine12 ==
  {"engine"} \X {"userMuteVideo", "userEnableVideo", "userEnableLocalVideo",
   "cameraReady", "videoStopped", "connectionLost", "connectionInterrupted",
   "connectionBanned", "streamMessage", "streamMessageError",
   "mediaEngineStartCallSuccess", "requestToken", "firstLocalAudioFrame"}

DeclaredEngine13 ==
  {"engine"} \X {"firstRemoteAudioFrame", "firstRemoteAudioDecoded",
   "activeSpeaker", "clientRoleChanged", "audioDeviceVolumeChanged",
   "remoteVideoStateChanged", "cameraFocusAreaChanged",
   "cameraExposureAreaChanged", "tokenPrivilegeWillExpire"} \cup
  {"videoSource"} \X {"requestNewToken", "leaveChannel", "localAudioStats",
   "localVideoStats", "videoSizeChanged"}

DeclaredEngine14 ==
  {"engine"} \X {"streamPublished", "streamUnpublished",
   "rtmpStreamingStateChanged", "transcodingUpdated", "streamInjectStatus",
   "localPublishFallbackToAudioOnly"}

DeclaredEngine15 ==
  {"engine"} \X {"remoteSubscribeFallbackToAudioOnly", "microphoneEnabled",
   "connectionStateChanged", "localUserRegistered", "userInfoUpdated",
   "localVideoStateChanged", "localAudioStateChanged"}

DeclaredEngine16 ==
  {"engine"} \X {"remoteAudioStateChanged", "channelMediaRelayState",
   "channelMediaRelayEvent", "receiveMetadata", "sendMetadataSuccess",
   "firstLocalAudioFramePublished", "firstLocalVideoFramePublished",
   "rtmpStreamingEvent", "audioPublishStateChanged"}

DeclaredEngine17 ==
  {"engine"} \X {"videoPublishStateChanged", "audioSubscribeStateChanged",
   "videoSubscribeStateChanged", "onFirstLocalVideoFrame",
   "onFirstRemoteVideoFrame"} \cup
  {"videoSource"} \X {"apiCallExecuted", "apiError", "warning", "error",
   "rejoinChannelSuccess", "audioVolumeIndication", "leaveChannel"}

DeclaredEngine18 ==
  {"videoSource"} \X {"rtcStats", "localVideoStats", "localAudioStats",
   "remoteVideoStats", "remoteAudioStats", "remoteVideoTransportStats",
   "remoteAudioTransportStats", "audioDeviceStateChanged",
   "audioMixingFinished", "audioMixingStateChanged", "remoteAudioMixingBegin",
   "remoteAudioMixingEnd", "audioEffectFinished", "videoDeviceStateChanged"}

DeclaredEngine19 ==
  {"videoSource"} \X {"networkQuality", "lastmileQuality",
   "lastmileProbeResult", "firstLocalVideoFrame", "firstRemoteVideoDecoded",
   "videoSizeChanged", "firstRemoteVideoFrame"}

DeclaredEngine20 ==
  {"videoSource"} \X {"userJoined", "userOffline", "userMuteAudio",
   "userMuteVideo", "userEnableVideo", "userEnableLocalVideo", "cameraReady",
   "videoStopped"}

DeclaredEngine21 ==
  {"videoSource"} \X {"connectionLost", "connectionInterrupted",
   "connectionBanned", "streamMessage", "streamMessageError",
   "mediaEngineStartCallSuccess", "requestToken", "firstLocalAudioFrame",
   "firstRemoteAudioFrame", "firstRemoteAudioDecoded", "activeSpeaker",
   "clientRoleChanged"}

DeclaredEngine22 ==
  {"videoSource"} \X {"audioDeviceVolumeChanged", "joinedSuccess",
   "requestNewToken", "leaveChannel", "localAudioStats", "localVideoStats",
   "videoSizeChanged", "remoteVideoStateChanged", "cameraFocusAreaChanged",
   "cameraExposureAreaChanged", "tokenPrivilegeWillExpire", "streamPublished",
   "streamUnpublished"}

DeclaredEngine23 ==
  {"videoSource"} \X {"rtmpStreamingStateChanged", "transcodingUpdated",
   "streamInjectStatus", "localPublishFallbackToAudioOnly",
   "remoteSubscribeFallbackToAudioOnly", "microphoneEnabled",
   "connectionStateChanged"}

DeclaredEngine24 ==
  {"videoSource"} \X {"localUserRegistered", "userInfoUpdated",
   "localVideoStateChanged", "localAudioStateChanged",
   "remoteAudioStateChanged", "channelMediaRelayState"}

DeclaredEngine25 ==
  {"videoSource"} \X {"channelMediaRelayEvent", "receiveMetadata",
   "sendMetadataSuccess", "firstLocalAudioFramePublished",
   "firstLocalVideoFramePublished", "rtmpStreamingEvent",
   "audioPublishStateChanged", "videoPublishStateChanged",
   "audioSubscribeStateChanged"}

DeclaredEngine26 ==
  {"videoSource"} \X {"videoSubscribeStateChanged"}

DeclaredChannel1 ==
  {"channel"} \X {"joinChannelSuccess", "channelWarning", "channelError",
   "rejoinChannelSuccess", "leaveChannel", "clientRoleChanged", "userJoined",
   "userOffline", "connectionLost", "requestToken"}

DeclaredChannel2 ==
  {"channel"} \X {"tokenPrivilegeWillExpire", "rtcStats", "networkQuality",
   "remoteVideoStats", "remoteAudioStats", "remoteAudioStateChanged",
   "activeSpeaker", "videoSizeChanged", "remoteVideoStateChanged"}

DeclaredChannel3 ==
  {"channel"} \X {"streamMessage", "streamMessageError",
   "channelMediaRelayState", "channelMediaRelayEvent",
   "firstRemoteAudioFrame", "rtmpStreamingStateChanged", "transcodingUpdated"}

DeclaredChannel4 ==
  {"channel"} \X {"streamInjectedStatus",
   "remoteSubscribeFallbackToAudioOnly", "connectionStateChanged",
   "audioPublishStateChanged", "videoPublishStateChanged",
   "audioSubscribeStateChanged", "videoSubscribeStateChanged"}

DeclaredEngine ==
  DeclaredEngine1 \cup DeclaredEngine2 \cup DeclaredEngine3 \cup
  DeclaredEngine4 \cup DeclaredEngine5 \cup DeclaredEngine6 \cup
  DeclaredEngine7 \cup DeclaredEngine8 \cup DeclaredEngine9 \cup
  DeclaredEngine10 \cup DeclaredEngine11 \cup DeclaredEngine12 \cup
  DeclaredEngine13 \cup DeclaredEngine14 \cup DeclaredEngine15 \cup
  DeclaredEngine16 \cup DeclaredEngine17 \cup DeclaredEngine18 \cup
  DeclaredEngine19 \cup DeclaredEngine20 \cup DeclaredEngine21 \cup
  DeclaredEngine22 \cup DeclaredEngine23 \cup DeclaredEngine24 \cup
  DeclaredEngine25 \cup DeclaredEngine26

DeclaredChannel ==
  DeclaredChannel1 \cup DeclaredChannel2 \cup DeclaredChannel3 \cup
  DeclaredChannel4

Declared == DeclaredEngine \cup DeclaredChannel
=============================================================================
