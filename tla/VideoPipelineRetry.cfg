SPECIFICATION Spec
CONSTANTS
  Video = {v1}
  Request = {r1}
  Worker = {w1}
  NoVideo = NoVideo
  NoRequest = NoRequest
  MaxAttempts = 2
  MaxOrphans = 0
PROPERTY
  FailedOnlyIfAllRetriesFailed
