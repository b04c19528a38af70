------------------------------- MODULE WebReady -------------------------------
(***************************************************************************)
(* The web-playability backstop, src/lib/web-ready.ts: scanMoovPosition's  *)
(* walk over an MP4's top-level boxes, and ensureWebReady's rewrite of an  *)
(* artifact's bytes through a temporary file, while other jobs rewrite the *)
(* same artifact (the upload hook in the server, the migration script in   *)
(* another process), jobs die with their process, and artifacts are removed*)
(* and uploaded anew.                                                      *)
(*                                                                         *)
(* External: ffmpeg and ffprobe, which may fail, leave an empty output, or *)
(* be missing; the file system, where a rename replaces the target and an  *)
(* open input outlives its name.  A temporary file has a random name, so   *)
(* what a dead job leaves behind stays, and no other job meets it.  Serving,*)
(* uploading and removing are one step each here (UploadService has them). *)
(***************************************************************************)
EXTENDS Naturals, Sequences

CONSTANTS
  Path,      \* byte files of artifacts
  Upload,    \* uploads
  Job,       \* slots for ensureWebReady calls
  File,      \* the byte layouts clients upload
  Races,     \* {"remove"} if artifacts may be removed while jobs run on them
  Null

ASSUME RacesAssumption == Races \subseteq {"remove"}
ASSUME NullAssumption == Null \notin Upload \cup {"none", "remuxed", "transcoded"}

\* The boxes of a file ("free" stands for all other types), and its length; see
\* scanMoovPosition below.
Boxes == [type : {"ftyp", "moov", "mdat", "free"}, size : Nat,
          enc : {"short", "long", "rest", "huge"}]
Layout == [boxes : Seq(Boxes), size : Nat]
ASSUME FileAssumption == File \subseteq Layout

VARIABLES
  owner,     \* the upload each path's ready sidecar describes
  bytes,     \* what is in each path's file
  tmp,       \* the temporary file of each job
  job        \* the ensureWebReady call in each slot

vars == <<owner, bytes, tmp, job>>

-----------------------------------------------------------------------------
(* scanMoovPosition.  A file is the sequence of box headers that are met   *)
(* by going from each box by its size to the next, and a length, shorter   *)
(* than its boxes when it was cut off.  A box has a type and a size field: *)
(* any size in 32 or 64 bits, 0 for "the rest of the file", or a size      *)
(* beyond the safe integers.  A 64-bit size need not even cover its own    *)
(* 16-byte header; what is met then overlaps it.                           *)

HeaderSize(b) == IF b.enc \in {"long", "huge"} THEN 16 ELSE 8

\* (Mistake: the 64-bit size is not read.)
ShortSize(b, room) ==
  CASE b.enc = "rest" -> room
    [] b.enc = "short" -> b.size
    [] OTHER -> 1

\* The size a box's header gives it, room bytes from the end of the file.
BoxSize(b, room) == IF b.enc = "rest" THEN room ELSE b.size

\* The walk gives up: no header left, not an MP4, or a size it cannot use.
GivesUp(f, n, room) ==
  \/ room < 8
  \/ n = 1 /\ f.boxes[n].type # "ftyp"
  \/ f.boxes[n].enc = "huge" \/ room < HeaderSize(f.boxes[n])
  \/ BoxSize(f.boxes[n], room) < 8

\* One turn of the loop, at box n: it returns what it found, or goes on with room
\* bytes left.  A walk that has returned stays as it is.
Turn(f, walk, n) ==
  LET b == f.boxes[n]
      size == BoxSize(b, walk.room)
  IN  CASE walk.found # "none" -> walk
        [] walk.found = "none" /\ GivesUp(f, n, walk.room) ->
             [walk EXCEPT !.found = "unknown"]
        [] walk.found = "none" /\ ~GivesUp(f, n, walk.room) /\ b.type = "moov" ->
             [walk EXCEPT !.found = IF walk.sawMdat THEN "end" ELSE "front"]
        [] OTHER ->
             [walk EXCEPT !.sawMdat = @ \/ b.type = "mdat",
                          !.room = IF size > @ THEN 0 ELSE @ - size]

Scan(f) ==
  LET walk[n \in 0..Len(f.boxes)] ==
        IF n = 0 THEN [room |-> f.size, sawMdat |-> FALSE, found |-> "none"]
        ELSE Turn(f, walk[n - 1], n)
      found == walk[Len(f.boxes)].found
  IN  IF found = "none" THEN "unknown" ELSE found

-----------------------------------------------------------------------------
(* ensureWebReady and rewriteInPlace.                                      *)

NoBytes == [of |-> Null, file |-> Null, codec |-> Null, state |-> "none"]
Debris == [NoBytes EXCEPT !.state = "left"]
Idle == [path |-> Null, pc |-> "idle", transcode |-> FALSE, atEnd |-> FALSE,
         how |-> Null, input |-> NoBytes, action |-> Null]

Codec == {"h264", "hevc"}
Over == {"idle", "done", "dead"}
Running(j) == job[j].pc \notin Over

Goto(j, pc) == job' = [job EXCEPT ![j].pc = pc]
Report(j, action) == job' = [job EXCEPT ![j] =
  [Idle EXCEPT !.path = job[j].path, !.pc = "done", !.action = action]]

\* Called for a ready artifact whose bytes are there, with or without transcode.
Start(j, p, transcode) ==
  /\ job[j].pc \in {"idle", "done"} /\ owner[p] # Null /\ bytes[p] # NoBytes
  /\ job' = [job EXCEPT ![j] =
       [Idle EXCEPT !.path = p, !.pc = "scan", !.transcode = transcode]]
  /\ UNCHANGED <<owner, bytes, tmp>>

\* The moov scan; what is not an MP4, or cannot be opened, is left alone.
ScanMoov(j) ==
  LET b == bytes[job[j].path]
      moov == IF b = NoBytes THEN "unknown" ELSE Scan(b.file)
  IN  /\ job[j].pc = "scan"
      /\ \/ moov = "unknown" /\ Report(j, "skipped")
         \/ moov # "unknown" /\ job' = [job EXCEPT ![j].atEnd = (moov = "end"), ![j].pc = "probe"]
      /\ UNCHANGED <<owner, bytes, tmp>>

\* ffprobe or ffmpeg is not there.
NoBinaries(j) ==
  /\ job[j].pc = "probe" /\ Report(j, "skipped")
  /\ UNCHANGED <<owner, bytes, tmp>>

\* ffprobe's answer decides: a hostile codec is transcoded if that is allowed, a
\* moov at the end is moved, anything else is left as it is.
Probe(j) ==
  LET r == job[j]
  IN  /\ r.pc = "probe"
      /\ \E codec \in {bytes[r.path].codec, Null} :
           LET transcodes == codec \notin {Null, "h264"} /\ r.transcode
           IN  \/ /\ transcodes \/ r.atEnd
                  /\ job' = [job EXCEPT ![j].pc = "launch",
                       ![j].how = IF transcodes THEN "transcoded" ELSE "remuxed"]
               \/ ~transcodes /\ ~r.atEnd /\ Report(j, "none")
      /\ UNCHANGED <<owner, bytes, tmp>>

\* (Mistake: a name two jobs of the same millisecond share.)
SharedName(j) == CHOOSE k \in Job : TRUE

\* The temporary name is random, so each job's own.
TmpName(j) == j

\* ffmpeg opens its input and starts to write its output, or fails at once.
Launch(j) ==
  LET b == bytes[job[j].path]
  IN  /\ job[j].pc = "launch"
      /\ \/ /\ b # NoBytes
            /\ tmp' = [tmp EXCEPT ![TmpName(j)] = [b EXCEPT !.state = "partial"]]
            /\ job' = [job EXCEPT ![j].pc = "encode", ![j].input = b]
         \/ Goto(j, "cleanup") /\ UNCHANGED tmp
      /\ UNCHANGED <<owner, bytes>>

\* (Mistake: the transcode forgets +faststart.)
MoovLast(b, how) == [b EXCEPT !.codec = "h264", !.file =
  [boxes |-> <<b.file.boxes[1], [type |-> "mdat", enc |-> "short", size |-> 9],
               [type |-> "moov", enc |-> "short", size |-> 9]>>, size |-> 26]]

Faststart ==
  [boxes |-> <<[type |-> "ftyp", enc |-> "short", size |-> 9],
               [type |-> "moov", enc |-> "short", size |-> 9],
               [type |-> "mdat", enc |-> "short", size |-> 9]>>, size |-> 27]

\* What ffmpeg makes of its input: faststart, and H.264 if it transcodes.
Rewritten(b, how) == [b EXCEPT
  !.codec = IF how = "transcoded" THEN "h264" ELSE @, !.file = Faststart]

\* ffmpeg exits: 0 with its whole output or with an empty one, or not 0.
Encoded(j) ==
  LET r == job[j]
      n == TmpName(j)
  IN  /\ r.pc = "encode"
      /\ \/ Goto(j, "stat") /\ tmp' = [tmp EXCEPT ![n] = Rewritten(r.input, r.how)]
         \/ Goto(j, "stat") /\ tmp' = [tmp EXCEPT ![n] = [r.input EXCEPT !.state = "empty"]]
         \/ Goto(j, "cleanup") /\ UNCHANGED tmp
      /\ UNCHANGED <<owner, bytes>>

\* (Mistake: exit code 0 is enough.)
Unverified(j) ==
  /\ job[j].pc = "stat" /\ Goto(j, "rename")
  /\ UNCHANGED <<owner, bytes, tmp>>

\* There must be real bytes before the original is replaced.
VerifyTmp(j) ==
  /\ job[j].pc = "stat"
  /\ Goto(j, IF tmp[TmpName(j)].state \in {"none", "empty"} THEN "cleanup" ELSE "rename")
  /\ UNCHANGED <<owner, bytes, tmp>>

\* The rename puts the new bytes where the old ones are, or were.
Replace(j) ==
  LET n == TmpName(j)
  IN  /\ job[j].pc = "rename"
      /\ \/ /\ tmp[n] # NoBytes
            /\ bytes' = [bytes EXCEPT ![job[j].path] = tmp[n]]
            /\ tmp' = [tmp EXCEPT ![n] = NoBytes]
            /\ Report(j, job[j].how)
         \/ tmp[n] = NoBytes /\ Goto(j, "cleanup") /\ UNCHANGED <<bytes, tmp>>
      /\ UNCHANGED owner

\* (Mistake: a failed run leaves its output.)
Litter(j) ==
  /\ job[j].pc = "cleanup" /\ Report(j, "skipped")
  /\ UNCHANGED <<owner, bytes, tmp>>

\* A failed run removes its output; the original keeps serving.
Cleanup(j) ==
  /\ job[j].pc = "cleanup" /\ Report(j, "skipped")
  /\ tmp' = [tmp EXCEPT ![TmpName(j)] = NoBytes]
  /\ UNCHANGED <<owner, bytes>>

JobStep(j) ==
  \/ ScanMoov(j) \/ NoBinaries(j) \/ Probe(j) \/ Launch(j) \/ Encoded(j)
  \/ VerifyTmp(j) \/ Replace(j) \/ Cleanup(j)

\* The process of a job dies.  Nobody removes its temporary file: if it has one, the
\* file stays for good, whatever is in it, and the slot that names it is used up.
Crash(j) ==
  LET n == TmpName(j)
      leaves == tmp[n] # NoBytes
  IN  /\ Running(j)
      /\ job' = [job EXCEPT ![j] = [Idle EXCEPT !.pc = IF leaves THEN "dead" ELSE "idle"]]
      /\ tmp' = [tmp EXCEPT ![n] = IF leaves THEN Debris ELSE @]
      /\ UNCHANGED <<owner, bytes>>

-----------------------------------------------------------------------------
(* The artifact's life meanwhile.                                          *)

\* The adapter's remove: the bytes and the sidecar go.
Remove(p) ==
  /\ owner[p] # Null
  /\ "remove" \in Races \/ \A j \in Job : Running(j) => job[j].path # p
  /\ owner' = [owner EXCEPT ![p] = Null]
  /\ bytes' = [bytes EXCEPT ![p] = NoBytes]
  /\ UNCHANGED <<tmp, job>>

\* An upload of the artifact completes and is marked ready.
Complete(p, u, f, codec) ==
  /\ owner[p] = Null
  /\ owner' = [owner EXCEPT ![p] = u]
  /\ bytes' = [bytes EXCEPT ![p] =
       [of |-> u, file |-> f, codec |-> codec, state |-> "whole"]]
  /\ UNCHANGED <<tmp, job>>

Init ==
  /\ owner = [p \in Path |-> Null]
  /\ bytes = [p \in Path |-> NoBytes]
  /\ tmp = [j \in Job |-> NoBytes]
  /\ job = [j \in Job |-> Idle]

Next ==
  \/ \E j \in Job : \/ \E p \in Path, transcode \in BOOLEAN : Start(j, p, transcode)
                    \/ JobStep(j) \/ Crash(j)
  \/ \E p \in Path : \/ Remove(p)
                     \/ \E u \in Upload, f \in File, codec \in Codec :
                          Complete(p, u, f, codec)

Spec == Init /\ [][Next]_vars

-----------------------------------------------------------------------------
(* Properties.                                                             *)

\* The boxes of a file, by where they lie: those whose header is within the file, up
\* to the first one whose size is no size or the rest of the file.
Sized(b) == b.enc \in {"short", "long"} /\ b.size >= 8
Reachable(f) ==
  LET end[n \in 0..Len(f.boxes)] == IF n = 0 THEN 0 ELSE end[n - 1] + f.boxes[n].size
  IN  {n \in 1..Len(f.boxes) :
         /\ end[n - 1] + HeaderSize(f.boxes[n]) <= f.size
         /\ f.boxes[n].enc = "rest" \/ Sized(f.boxes[n])
         /\ \A k \in 1..n - 1 : Sized(f.boxes[k])}
At(f, type) == {n \in Reachable(f) : f.boxes[n].type = type}

\* What scanMoovPosition's comment promises: "unknown" for what does not start with
\* ftyp and for files missing either box, else whether an mdat comes before the moov.
MoovPosition(f) ==
  IF \/ 1 \notin At(f, "ftyp") \/ At(f, "moov") = {} \/ At(f, "mdat") = {}
  THEN "unknown"
  ELSE IF \E m \in At(f, "mdat") : \A n \in At(f, "moov") : m < n
       THEN "end" ELSE "front"

\* The walk keeps that promise for every file but those with a moov and no mdat: it
\* returns at the moov, without having looked for an mdat behind it, so such a file
\* is "front" to it and not "unknown".
LacksMdat(f) == 1 \in At(f, "ftyp") /\ At(f, "moov") # {} /\ At(f, "mdat") = {}
ScanIsRight ==
  \A p \in Path : bytes[p] # NoBytes =>
    LET f == bytes[p].file
    IN  Scan(f) = IF LacksMdat(f) THEN "front" ELSE MoovPosition(f)

\* The file of a ready artifact is there, whole, and its own upload's bytes or made
\* of them, however many jobs rewrite it, fail, find an empty output, or die.
ServedIsWhole ==
  \A p \in Path : owner[p] # Null =>
    bytes[p].of = owner[p] /\ bytes[p].state = "whole"

\* A temporary file exists only while its job runs ffmpeg or deals with the result, or
\* because the job's process died: whatever fails, a job that returns has cleaned up.
TmpIsTransient ==
  \A j \in Job :
    tmp[j] # NoBytes => job[j].pc \in {"encode", "stat", "rename", "cleanup", "dead"}

\* The inductive invariant behind these and the two below: types; a running job's
\* artifact is still there, what it reads, writes and is about to rename is that
\* artifact's, and a scan that found the moov at the front is still right.
Content == [of : Upload, file : File \cup {Faststart}, codec : Codec,
            state : {"whole", "partial", "empty"}]
Call == [path : Path \cup {Null}, transcode : BOOLEAN, atEnd : BOOLEAN,
         pc : {"idle", "scan", "probe", "launch", "encode", "stat", "rename",
               "cleanup", "done", "dead"},
         how : {"remuxed", "transcoded", Null}, input : Content \cup {NoBytes},
         action : {"none", "remuxed", "transcoded", "skipped", Null}]
TypeOK ==
  /\ owner \in [Path -> Upload \cup {Null}]
  /\ bytes \in [Path -> Content \cup {NoBytes}]
  /\ tmp \in [Job -> Content \cup {NoBytes, Debris}]
  /\ job \in [Job -> Call]
JobOK(j) ==
  LET r == job[j]
      t == tmp[j]
  IN  /\ r.pc \notin Over => r.path \in Path /\ owner[r.path] # Null
      /\ r.pc \in {"launch", "encode", "stat", "rename"} => r.how # Null
      /\ r.pc = "encode" => r.input.of = owner[r.path] /\ r.input.state = "whole"
      /\ r.pc \in {"encode", "stat", "rename"} => t.of = owner[r.path]
      /\ r.pc = "stat" => t.state = "empty" \/ (t.state = "whole" /\ t.file = Faststart)
      /\ r.pc = "rename" => t.state = "whole" /\ t.file = Faststart
      /\ r.pc = "probe" /\ ~r.atEnd => Scan(bytes[r.path].file) = "front"
      /\ r.pc # "done" => r.action = Null
      /\ r.pc \notin {"encode", "stat", "rename", "cleanup", "dead"} => t = NoBytes
      /\ t = Debris => r.pc = "dead"
Inv == TypeOK /\ ServedIsWhole /\ \A j \in Job : JobOK(j)

\* Once the moov is at the front, no later or concurrent rewrite of the artifact
\* moves it back, so a second run has nothing to do.
FaststartStays ==
  [][\A p \in Path :
       /\ owner[p] # Null /\ owner'[p] = owner[p] /\ Scan(bytes[p].file) = "front"
       => Scan(bytes'[p].file) = "front"]_vars

\* A job that reports that it rewrote the file, or that there was nothing to do,
\* reports the truth at that moment: the file of the artifact is faststart.
ReportIsTrue ==
  [][\A j \in Job :
       /\ Running(j) /\ job'[j].action \in {"none", "remuxed", "transcoded"}
       => Scan(bytes'[job[j].path].file) = "front"]_vars

\* remove deletes all storage of an artifact: while no upload owns the path, there
\* are no bytes at it.
RemovedStaysGone == \A p \in Path : owner[p] = Null => bytes[p] = NoBytes
=============================================================================
