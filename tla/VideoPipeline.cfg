SPECIFICATION FairSpec
CONSTANTS
  Video = {v1}
  Request = {r1, r2}
  Worker = {w1, w2}
  NoVideo = NoVideo
  NoRequest = NoRequest
  MaxAttempts = 2
  MaxOrphans = 1
INVARIANTS
  TypeOK
  PublishedHasMedia
  NoStrandedVideo
  OneJobPerUpload
  SignalsFollowCommits
PROPERTIES
  Lifecycle
  ConfirmedResolves
