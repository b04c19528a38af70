-------------------------- MODULE MCAuthorization --------------------------
(* A small instance of Authorization for TLC: a session anchor and a child.  *)
EXTENDS Authorization

CONSTANTS anchor, child, captions, vtt, mp4, junk

OnlyVideo == [k \in Kind |-> IF k = video THEN {mp4} ELSE {vtt}]

Value(w) == Text(w, FALSE)
Padded(w) == Text(w, TRUE)
Says(k, v) == Pair(k, v, TRUE)

\* How a header names the artifact: by any of the three names, by two of them in either
\* order, the first one blank or not a UUID, twice, or not at all.
Names ==
  { <<Says(k, v)>> : k \in {"artifactId", "projectid"}, v \in {Value(child), Padded(child)} }
  \cup { <<Says("artifactId", Value(anchor))>>, <<Says("artifactId", Value(junk))>>, <<>>,
         <<Says("videoid", Value(anchor)), Says("artifactId", Value(child))>>,
         <<Says("artifactId", Absent), Says("videoid", Value(child))>>,
         <<Says("artifactId", Value(junk)), Says("videoid", Value(child))>>,
         <<Says("artifactId", Value(child)), Says("artifactId", Value(anchor))>>,
         <<Pair("artifactId", Value(child), FALSE)>> }

\* What it says of the relation and the kind.
Relations ==
  { <<>>, <<Says("relatedTo", Value(anchor))>>, <<Says("relatedTo", Padded(anchor))>>,
    <<Says("relatedTo", Value(junk))>>,
    <<Says("relatedTo", Value(junk)), Says("relatedTo", Value(anchor))>> }
Kinds ==
  { <<Says("filename", Value(mp4))>>,
    <<Says("kind", Padded(captions)), Says("filename", Value(vtt))>>,
    <<Says("filename", Value(vtt)), Says("kind", Value(junk))>> }

Headers ==
  { n \o r \o <<Says("filename", Value(mp4))>> : n \in Names, r \in Relations }
  \cup { <<Says("artifactId", Value(child)), Says("relatedTo", Value(anchor))>> \o k : k \in Kinds }

Up(i) == UploadId(video, i, mp4)
Urls ==
  { <<Up(child)>>, <<Up(anchor), Empty>>, <<Up(anchor), Up(child)>>,
    <<Up(child), Empty, Empty>>, <<Up(child), Other>>, <<>>,
    <<Foreign(child, Absent)>>, <<Foreign(child, anchor)>>, <<Foreign(child, anchor), Up(child)>> }

=============================================================================
