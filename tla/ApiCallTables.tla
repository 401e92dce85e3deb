--------------------------- MODULE ApiCallTables ---------------------------
(* The methods of AgoraRtcEngine and AgoraRtcChannel, ts/Api/index.ts, and    *)
(* the calls each makes on the addon, in their order.                         *)
(*                                                                            *)
(* A method of the video source is named without its "videoSource"            *)
(* (videoSourceJoin is "join"), an API without its prefix (kEngineJoinChannel *)
(* is "joinChannel"); the two names of most methods differ in letter case     *)
(* only and are written once.  A name in capitals is a function of the addon  *)
(* itself.  A step with two calls makes one of them, by platform; the second  *)
(* step of a listing is made for each device.  Arguments are left out, and so *)
(* are the methods that only drive renderers: RendererManager has them.       *)
EXTENDS Tables

\* Most methods make one call, of their own name.
Same(methods) == [m \in methods |-> <<{m}>>]

(***************************************************************************)
(* AgoraRtcEngine: CallApi and PluginCallApi of the main process.          *)
(***************************************************************************)

EngineCalls1 == Same(
  {"initialize", "getVersion", "getErrorDescription",
   "getConnectionState"})
  @@ "initializeWithContext" :> <<{"initialize"}>>
  @@ "createChannel" :> <<{"CreateChannel"}, {"createChannel"}>>

EngineCalls2 == Same({"joinChannel", "leaveChannel"})
  @@ "release" :> <<{"release"}, {"ReleaseDevices"}, {"Release"}>>

EngineCalls3 == Same({"setHighQualityAudioParameters"})

EngineCalls4 == Same({"renewToken", "setChannelProfile", "setClientRole"})
  @@ "setClientRoleWithOptions" :> <<{"setClientRole"}>>

EngineCalls5 == Same(
  {"startEchoTest", "stopEchoTest", "addVideoWatermark"})
  @@ "startEchoTestWithInterval" :> <<{"startEchoTest"}>>

EngineCalls6 == Same(
  {"clearVideoWatermarks", "enableLastmileTest", "disableLastmileTest",
   "startLastmileProbeTest", "stopLastmileProbeTest"})

\* Faulty variant of EngineCalls7: the body of startPreview was copied.
EngineCalls7Copied == Same({"enableVideo", "disableVideo", "startPreview",
  "setVideoProfile"})
  @@ "stopPreview" :> <<{"startPreview"}>>

EngineCalls7 == Same(
  {"enableVideo", "disableVideo", "startPreview", "stopPreview",
   "setVideoProfile"})

EngineCalls8 == Same(
  {"setCameraCapturerConfiguration", "setVideoEncoderConfiguration",
   "setBeautyEffectOptions"})

EngineCalls9 == Same(
  {"setRemoteUserPriority", "enableAudio", "disableAudio"})

EngineCalls10 == Same(
  {"setAudioProfile", "setVideoQualityParameters", "setEncryptionSecret"})

EngineCalls11 == Same(
  {"setEncryptionMode", "muteLocalAudioStream", "muteAllRemoteAudioStreams",
   "setDefaultMuteAllRemoteAudioStreams"})

EngineCalls12 == Same(
  {"muteRemoteAudioStream", "muteLocalVideoStream", "enableLocalVideo",
   "enableLocalAudio"})

EngineCalls13 == Same(
  {"muteAllRemoteVideoStreams", "setDefaultMuteAllRemoteVideoStreams",
   "enableAudioVolumeIndication", "muteRemoteVideoStream"})

EngineCalls14 == Same(
  {"setLogFile", "setLogFileSize", "setLogFilter", "enableDualStreamMode"})

EngineCalls15 == Same(
  {"setRemoteVideoStreamType", "setRemoteDefaultVideoStreamType",
   "enableWebSdkInteroperability", "setLocalVideoMirrorMode"})

EngineCalls16 == Same(
  {"setLocalVoicePitch", "setLocalVoiceEqualization", "setLocalVoiceReverb",
   "setLocalVoiceChanger", "setLocalVoiceReverbPreset"})

EngineCalls17 == Same(
  {"setLocalPublishFallbackOption", "setRemoteSubscribeFallbackOption"})

EngineCalls18 == Same(
  {"registerLocalUserAccount", "joinChannelWithUserAccount"})

EngineCalls19 == Same(
  {"getUserInfoByUserAccount", "getUserInfoByUid", "switchChannel"})

EngineCalls20 == Same(
  {"adjustRecordingSignalVolume", "adjustPlaybackSignalVolume",
   "adjustUserPlaybackSignalVolume"})

EngineCalls21 == Same({"startAudioRecording", "stopAudioRecording"})

EngineCalls22 == Same({"enableLoopbackRecording"})

EngineCalls23 == Same(
  {"updateScreenCaptureParameters", "setScreenCaptureContentHint"})
  @@ "startScreenCaptureByWindow" :> <<{"startScreenCaptureByWindowId"}>>
  @@ "startScreenCaptureByScreen" :>
      <<{"startScreenCaptureByDisplayId", "startScreenCaptureByScreenRect"},
       {"enableLocalVideo"}>>

EngineCalls24 == Same(
  {"updateScreenCaptureRegion", "startAudioMixing", "stopAudioMixing",
   "pauseAudioMixing", "resumeAudioMixing"})
  @@ "stopScreenCapture" :> <<{"stopScreenCapture"}, {"enableLocalVideo"}>>

EngineCalls25 == Same(
  {"adjustAudioMixingVolume", "adjustAudioMixingPlayoutVolume",
   "adjustAudioMixingPublishVolume", "getAudioMixingDuration",
   "getAudioMixingCurrentPosition", "getAudioMixingPlayoutVolume",
   "getAudioMixingPublishVolume"})

EngineCalls26 == Same(
  {"setAudioMixingPosition", "setAudioMixingPitch", "addPublishStreamUrl",
   "removePublishStreamUrl"})

EngineCalls27 == Same(
  {"setLiveTranscoding", "addInjectStreamUrl", "removeInjectStreamUrl"})

EngineCalls28 == Same(
  {"createDataStream", "sendStreamMessage", "startChannelMediaRelay"})

EngineCalls29 == Same(
  {"updateChannelMediaRelay", "stopChannelMediaRelay", "getEffectsVolume",
   "setEffectsVolume", "setVolumeOfEffect"})

EngineCalls30 == Same(
  {"playEffect", "stopEffect", "stopAllEffects", "preloadEffect"})

EngineCalls31 == Same(
  {"unloadEffect", "pauseEffect", "pauseAllEffects", "resumeEffect",
   "resumeAllEffects", "enableSoundPositionIndication"})

EngineCalls32 == Same(
  {"setRemoteVoicePosition", "getCallId", "rate", "complain",
   "setRecordingAudioFrameParameters"})

EngineCalls33 == Same(
  {"setParameters", "unregisterMediaMetadataObserver",
   "registerMediaMetadataObserver", "sendMetadata", "setMaxMetadataSize",
   "sendCustomReportMessage"})

EngineCalls34 == Same(
  {"enableEncryption", "setAudioEffectPreset", "setVoiceBeautifierPreset"})

EngineCalls35 == Same(
  {"setAudioEffectParameters", "setCloudProxy", "enableDeepLearningDenoise"})

EngineCalls36 == Same(
  {"setVoiceBeautifierParameters", "uploadLogFile", "registerPlugin",
   "unregisterPlugin", "getPlugins"})

EngineCalls37 == Same(
  {"enablePlugin", "setPluginParameter", "getPluginParameter"})

EngineCalls == Joined(
  {EngineCalls1, EngineCalls2, EngineCalls3, EngineCalls4, EngineCalls5,
   EngineCalls6, EngineCalls7, EngineCalls8, EngineCalls9, EngineCalls10,
   EngineCalls11, EngineCalls12, EngineCalls13, EngineCalls14,
   EngineCalls15, EngineCalls16, EngineCalls17, EngineCalls18,
   EngineCalls19, EngineCalls20, EngineCalls21, EngineCalls22,
   EngineCalls23, EngineCalls24, EngineCalls25, EngineCalls26,
   EngineCalls27, EngineCalls28, EngineCalls29, EngineCalls30,
   EngineCalls31, EngineCalls32, EngineCalls33, EngineCalls34,
   EngineCalls35, EngineCalls36, EngineCalls37})

(***************************************************************************)
(* AgoraRtcEngine: CallApiVideoDevice and CallApiAudioDevice.              *)
(***************************************************************************)

DeviceCalls1 == Same({"startVideoDeviceTest", "stopVideoDeviceTest"})
  @@ "getVideoDevices" :>
      <<{"getVideoDeviceCount"}, {"getVideoDeviceInfoByIndex"}>>
  @@ "setVideoDevice" :> <<{"setCurrentVideoDeviceId"}>>
  @@ "getCurrentVideoDevice" :> <<{"getCurrentVideoDeviceId"}>>
  @@ "getAudioPlaybackDevices" :>
      <<{"getAudioPlaybackDeviceCount"},
       {"getAudioPlaybackDeviceInfoByIndex"}>>

DeviceCalls2 == "setAudioPlaybackDevice" :>
      <<{"setCurrentAudioPlaybackDeviceId"}>>
  @@ "getPlaybackDeviceInfo" :>
      <<{"getAudioPlaybackDeviceCount"},
       {"getAudioPlaybackDeviceInfoByIndex"}>>
  @@ "getCurrentAudioPlaybackDevice" :> <<{"getCurrentAudioPlaybackDeviceId"}>>
  @@ "setAudioPlaybackVolume" :> <<{"setAudioPlaybackDeviceVolume"}>>
  @@ "getAudioPlaybackVolume" :> <<{"getAudioPlaybackDeviceVolume"}>>
  @@ "getAudioRecordingDevices" :>
      <<{"getAudioRecordingDeviceCount"},
       {"getAudioRecordingDeviceInfoByIndex"}>>
  @@ "setAudioRecordingDevice" :> <<{"setCurrentAudioRecordingDeviceId"}>>
  @@ "getRecordingDeviceInfo" :>
      <<{"getAudioRecordingDeviceCount"},
       {"getAudioRecordingDeviceInfoByIndex"}>>

DeviceCalls3 == Same(
  {"startAudioPlaybackDeviceTest", "stopAudioPlaybackDeviceTest",
   "startAudioDeviceLoopbackTest", "stopAudioDeviceLoopbackTest"})
  @@ "getCurrentAudioRecordingDevice" :>
      <<{"getCurrentAudioPlaybackDeviceInfo"}>>
  @@ "getAudioRecordingVolume" :> <<{"getAudioRecordingDeviceVolume"}>>
  @@ "setAudioRecordingVolume" :> <<{"setAudioRecordingDeviceVolume"}>>

DeviceCalls4 == Same(
  {"startAudioRecordingDeviceTest", "stopAudioRecordingDeviceTest",
   "getAudioPlaybackDeviceMute", "setAudioPlaybackDeviceMute",
   "getAudioRecordingDeviceMute", "setAudioRecordingDeviceMute"})

DeviceCalls == Joined(
  {DeviceCalls1, DeviceCalls2, DeviceCalls3, DeviceCalls4})

(***************************************************************************)
(* AgoraRtcEngine: the same calls with PROCESS_TYPE.SCREEN_SHARE.          *)
(***************************************************************************)

SourceCalls1 == Same({"setLogFile"})
  @@ "initialize" :>
      <<{"VideoSourceInitialize"},
       {"enableLocalAudio"},
       {"muteAllRemoteVideoStreams"},
       {"muteAllRemoteAudioStreams"}>>

SourceCalls2 == Same(
  {"enableWebSdkInteroperability", "joinChannel", "leaveChannel",
   "renewToken", "setChannelProfile"})
  @@ "join" :> <<{"joinChannel"}>>
  @@ "leave" :> <<{"leaveChannel"}>>

SourceCalls3 == Same(
  {"setVideoProfile", "enableDualStreamMode", "setParameters",
   "updateScreenCaptureRegion", "enableLoopbackRecording"})

SourceCalls4 == Same(
  {"enableAudio", "disableAudio", "enableVideo", "disableVideo",
   "enableEncryption", "setEncryptionMode"})

SourceCalls5 == Same(
  {"setEncryptionSecret", "updateScreenCaptureParameters"})
  @@ "startScreenCaptureByScreen" :>
      <<{"startScreenCaptureByDisplayId", "startScreenCaptureByScreenRect"},
       {"enableLocalAudio"}>>
  @@ "startScreenCaptureByWindow" :>
      <<{"startScreenCaptureByWindowId"}, {"enableLocalAudio"}>>

SourceCalls6 == Same(
  {"setScreenCaptureContentHint", "startPreview", "stopPreview",
   "muteAllRemoteVideoStreams"})
  @@ "startScreenCapture2" :> <<{"startScreenCapture"}, {"enableLocalAudio"}>>
  @@ "startScreenCapture" :> <<{"startScreenCapture"}, {"enableLocalAudio"}>>
  @@ "stopScreenCapture2" :> <<{"stopScreenCapture"}, {"enableLocalAudio"}>>
  @@ "stopScreenCapture" :> <<{"stopScreenCapture"}, {"enableLocalAudio"}>>
  @@ "startScreenCapturePreview" :> <<{"startPreview"}>>
  @@ "stopScreenCapturePreview" :> <<{"stopPreview"}>>
  @@ "enableLocalVideo" :> <<{"enableLocalAudio"}>>

SourceCalls7 == Same(
  {"muteAllRemoteAudioStreams", "registerPlugin", "unregisterPlugin",
   "getPlugins"})

SourceCalls8 == Same(
  {"enablePlugin", "setPluginParameter", "getPluginParameter"})
  @@ "release" :> <<{"VideoSourceRelease"}>>

SourceCalls == Joined(
  {SourceCalls1, SourceCalls2, SourceCalls3, SourceCalls4, SourceCalls5,
   SourceCalls6, SourceCalls7, SourceCalls8})

(***************************************************************************)
(* AgoraRtcChannel.                                                        *)
(***************************************************************************)

ChannelCalls1 == Same(
  {"joinChannel", "joinChannelWithUserAccount", "channelId", "getCallId"})

ChannelCalls2 == Same(
  {"setClientRole", "setRemoteUserPriority", "renewToken"})
  @@ "setClientRoleWithOptions" :> <<{"setClientRole"}>>

ChannelCalls3 == Same(
  {"setEncryptionSecret", "setEncryptionMode", "setRemoteVoicePosition"})

ChannelCalls4 == Same(
  {"setDefaultMuteAllRemoteAudioStreams",
   "setDefaultMuteAllRemoteVideoStreams", "muteAllRemoteAudioStreams",
   "muteRemoteAudioStream"})

ChannelCalls5 == Same(
  {"muteAllRemoteVideoStreams", "muteRemoteVideoStream",
   "setRemoteVideoStreamType", "setRemoteDefaultVideoStreamType"})

ChannelCalls6 == Same(
  {"createDataStream", "sendStreamMessage", "addPublishStreamUrl"})

ChannelCalls7 == Same(
  {"removePublishStreamUrl", "setLiveTranscoding", "addInjectStreamUrl"})

ChannelCalls8 == Same(
  {"removeInjectStreamUrl", "startChannelMediaRelay",
   "updateChannelMediaRelay", "stopChannelMediaRelay", "getConnectionState"})

ChannelCalls9 == Same(
  {"publish", "unpublish", "leaveChannel", "adjustUserPlaybackSignalVolume"})
  @@ "release" :> <<{"release"}, {"Release"}>>

ChannelCalls10 == Same(
  {"unRegisterMediaMetadataObserver", "registerMediaMetadataObserver",
   "sendMetadata", "setMaxMetadataSize", "enableEncryption"})

ChannelCalls11 == Same({"createChannel"})

ChannelCalls == Joined(
  {ChannelCalls1, ChannelCalls2, ChannelCalls3, ChannelCalls4,
   ChannelCalls5, ChannelCalls6, ChannelCalls7, ChannelCalls8,
   ChannelCalls9, ChannelCalls10, ChannelCalls11})

AllCalls == [engine |-> EngineCalls, device |-> DeviceCalls,
             source |-> SourceCalls, channel |-> ChannelCalls]
=============================================================================
