CONSTANTS
  anchor = anchor
  child = child
  captions = captions
  video = video
  vtt = vtt
  mp4 = mp4
  junk = junk
  Word = {anchor, child, video, captions, vtt, mp4, junk}
  Id = {anchor, child}
  Kind = {video, captions}
  Ext = {mp4, vtt}
  allowed <- OnlyVideo
  Absent = Absent
  Expiry = 1
  Tolerance = 2
  Skew = 1
  Issuer = {here, elsewhere}
  issuer = here
  Malformed = Malformed
  Nobody = Nobody
  Server = {s1, s2}
  Key = {k1, k2}
  first = k1
  Request = {r1}
  Header <- Headers
  Url <- Urls
  MaxTime = 6
  MaxTokens = 1
SPECIFICATION Spec
INVARIANT TypeOK
INVARIANT ActsOnTheApproved
INVARIANT CreatorKeepsAccess
INVARIANT AcceptedInTime
INVARIANT LiveTokenAccepted
