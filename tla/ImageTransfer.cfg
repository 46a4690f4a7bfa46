SPECIFICATION FairSpec
CONSTANTS
  p1 = p1
  p2 = p2
  u1 = u1
  d1 = d1
  d2 = d2
  Photo = {p1, p2}
  Upload = {u1}
  Download = {d1, d2}
  For <- TwoPhotos
  MaxRetry = 1
  None = None
  Torn = Torn
INVARIANTS
  TypeOK
  LoneUploadIsTrue
  LoneDownloadIsTrue
  DownloadsDoNotMix
PROPERTIES
  LoneArrivalIsDelivered
  TransfersDescend
  EveryTransferEnds
