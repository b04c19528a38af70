--------------------------- MODULE UploadMetadata ---------------------------
(***************************************************************************)
(* The Upload-Metadata header of a create request, read twice: by the core *)
(* to know whom to ask authorize about (src/core.ts), and by the tus       *)
(* server's naming function to know what to reserve                        *)
(* (src/lib/pulsevaultTus.ts, behind Metadata.parse of @tus/utils); and    *)
(* the upload URL of the later requests, read twice in the same way.       *)
(*                                                                         *)
(* A header is the sequence of its pairs.  A decoded value is a word, with *)
(* or without white space around it; letter case and the text of a word    *)
(* beyond what it is (an artifactId, a kind, a name with an extension) are *)
(* abstracted.  A URL is the sequence of its "/"-separated segments.       *)
(***************************************************************************)
EXTENDS Naturals, Sequences

CONSTANTS
  Word,           \* what decoded values say
  Id,             \* the words that are UUIDs
  Kind,           \* UPLOAD_KINDS
  video,          \* the default kind
  Ext,            \* file name extensions
  allowed,        \* allowedExtensions
  Absent          \* no value, no id, no relation

ASSUME KindAssumption == video \in Kind /\ allowed \in [Kind -> SUBSET Ext]
ASSUME WordAssumption ==
  /\ Id \cup Kind \cup Ext \subseteq Word
  /\ Absent \notin Id \cup Ext \cup [word : Word, padded : BOOLEAN]

Text(w, p) == [word |-> w, padded |-> p]
Trim(v) == IF v = Absent THEN Absent ELSE Text(v.word, FALSE)
IsUuid(v) == v # Absent /\ v.word \in Id /\ ~v.padded

\* A pair of the header: its key, its decoded value if it has one, and whether it
\* is written as Metadata.parse wants it (one space, strict base64).
Pair(k, v, tidy) == [key |-> k, value |-> v, tidy |-> tidy]
Pairs == [key : STRING, value : [word : Word, padded : BOOLEAN] \cup {Absent},
          tidy : BOOLEAN]

\* parseUploadKind
ParseKind(v) == IF v # Absent /\ v.word \in Kind THEN v.word ELSE video

\* a ?? b ?? c
FirstGiven(a, b, c) ==
  CASE a # Absent -> a
    [] a = Absent /\ b # Absent -> b
    [] OTHER -> c

-----------------------------------------------------------------------------
(* src/core.ts: pairs without a value are skipped, nothing is refused.      *)

\* Where the header gives key k a value that satisfies P.
Given(h, k) == {n \in 1..Len(h) : h[n].key = k /\ h[n].value # Absent}
Earliest(h, N) ==
  IF N = {} THEN Absent ELSE h[CHOOSE n \in N : \A m \in N : n <= m].value
Latest(h, N) ==
  IF N = {} THEN Absent ELSE h[CHOOSE n \in N : \A m \in N : n >= m].value

\* (Mistake: the name that comes first in the header wins.)
SeenIdInHeaderOrder(h) ==
  LET v == Trim(Earliest(h, Given(h, "artifactId") \cup Given(h, "videoid")
                              \cup Given(h, "projectid")))
  IN  IF IsUuid(v) THEN v.word ELSE Absent

\* The artifactId, by fixed priority of its names whatever their order.
SeenId(h) ==
  LET v == Trim(FirstGiven(Earliest(h, Given(h, "artifactId")),
                           Earliest(h, Given(h, "videoid")),
                           Earliest(h, Given(h, "projectid"))))
  IN  IF IsUuid(v) THEN v.word ELSE Absent

\* The relation: the first value that is a UUID as it stands.
SeenRelation(h) ==
  LET v == Earliest(h, {n \in Given(h, "relatedTo") : IsUuid(h[n].value)})
  IN  IF v = Absent THEN Absent ELSE v.word

\* parseUploadMetadata of the core: what authorize is asked about.
Seen(h) == [id |-> SeenId(h),
            kind |-> ParseKind(Latest(h, Given(h, "kind"))),
            rel |-> SeenRelation(h)]

-----------------------------------------------------------------------------
(* @tus/server and the naming function.                                    *)

\* Metadata.parse: strict pairs, no key twice.
WellFormed(h) ==
  /\ \A n \in 1..Len(h) : h[n].tidy
  /\ \A n, m \in 1..Len(h) : n # m => h[n].key # h[m].key

\* The value under key k of the parsed header.
ValueOf(h, k) ==
  IF \E n \in 1..Len(h) : h[n].key = k
  THEN h[CHOOSE n \in 1..Len(h) : h[n].key = k].value
  ELSE Absent

\* The checks of namingFunction and what it reserves, or a 400.
Refused == [id |-> Absent, kind |-> video, rel |-> Absent, ext |-> Absent]
NamedWith(h, rel) ==
  LET id == Trim(FirstGiven(ValueOf(h, "artifactId"), ValueOf(h, "videoid"),
                            ValueOf(h, "projectid")))
      kind == ParseKind(ValueOf(h, "kind"))
      name == ValueOf(h, "filename")
  IN  IF /\ WellFormed(h) /\ IsUuid(id)
         /\ name # Absent /\ name.word \in allowed[kind]
      THEN [id |-> id.word, kind |-> kind, ext |-> name.word, rel |-> rel]
      ELSE Refused

\* (Mistakes: the relation is forgotten, or kept as it was sent.)
NamedAlone(h) == NamedWith(h, Absent)
NamedAsSent(h) ==
  LET rel == Trim(ValueOf(h, "relatedTo"))
  IN  NamedWith(h, IF rel = Absent THEN Absent ELSE rel.word)

\* parseUploadMetadata of the naming function: the relation counts if it is a UUID.
Named(h) ==
  LET rel == Trim(ValueOf(h, "relatedTo"))
  IN  NamedWith(h, IF IsUuid(rel) THEN rel.word ELSE Absent)

-----------------------------------------------------------------------------
(* Upload URLs.  A segment is empty; or an upload id as the server makes   *)
(* them, <kind>/<id><ext>, encoded; or one it never made, which still has  *)
(* an artifactId as its second component (as a path, the whole of it names *)
(* another artifact's file, or none of theirs); or anything else.          *)

Empty == [at |-> "empty"]
Other == [at |-> "other"]
UploadId(k, i, x) == [at |-> "upload", kind |-> k, id |-> i, ext |-> x]
Foreign(i, named) == [at |-> "foreign", id |-> i, names |-> named]
Segments ==
  {Empty, Other} \cup {UploadId(k, i, x) : k \in Kind, i \in Id, x \in Ext}
    \cup {Foreign(i, named) : i \in Id, named \in Id \cup {Absent}}

\* artifactIdFromUploadId: the second component, whatever surrounds it.
ArtifactOf(segment) == IF segment.at \in {"upload", "foreign"} THEN segment.id ELSE Absent

\* tusLastUrlSegment and artifactIdFromTusUrl: at most one trailing slash is
\* dropped, then the last segment counts.
SeenTarget(url) ==
  LET u == IF Len(url) > 1 /\ url[Len(url)] = Empty THEN SubSeq(url, 1, Len(url) - 1)
           ELSE url
  IN  IF u = <<>> THEN Absent ELSE ArtifactOf(u[Len(u)])

\* getFileIdFromRequest of @tus/server, the pattern ([^/]+)\/?$: the last run of
\* characters without a slash, at the end or before one final slash.
TusTarget(url) ==
  LET ends == {n \in 1..Len(url) : url[n] # Empty
                 /\ (n = Len(url) \/ (n = Len(url) - 1 /\ url[Len(url)] = Empty))}
  IN  IF ends = {} THEN Other ELSE url[CHOOSE n \in ends : \A m \in ends : n >= m]
=============================================================================
