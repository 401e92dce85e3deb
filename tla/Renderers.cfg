\* One remote user in one channel, the local user and the video source, two views.
SPECIFICATION Spec
CONSTANTS
  Uids = {u1}
  Local = local
  VideoSource = videoSource
  Default = noName
  Channels = {c}
  Arguments = {c, noName}
  Undefined = undefined
  Views = {v1, v2}
  Fps = {10, 15}
  DefaultFps = 10
  None = none
  MaxRenderers = 2
INVARIANTS TypeOK ContainersMatch EntriesAreFed OneTimer
PROPERTY Appears
\* After release the application may stop.
CHECK_DEADLOCK FALSE
