------------------------------ MODULE MCWebReady ------------------------------
(* Small instances of WebReady for TLC. *)
EXTENDS WebReady, TLC

Box(type, enc, size) == [type |-> type, enc |-> enc, size |-> size]

\* The sizes a box may give itself: one more byte than its header, in 32 or 64 bits,
\* the rest of the file, no safe integer, or less than any box.
Boxed(type) ==
  {Box(type, "short", 9), Box(type, "long", 17), Box(type, "rest", 0),
   Box(type, "huge", 0), Box(type, "short", 7), Box(type, "long", 7)}
Whole(type) == {Box(type, "short", 9), Box(type, "long", 17)}

\* Two 64-bit sizes too small for their own header, and what is met in its bytes: the
\* low bytes of the size 12 are the next box's size, those of the size 8 its type.
Overlaps(type, next) ==
  {<<Box(type, "long", 12), Box(next, "short", 12)>>,
   <<Box(type, "long", 8), Box("free", "rest", 0)>>}

\* The file ends behind its last box, or within it, or within its header.
Cuts(boxes) ==
  LET start[n \in 1..Len(boxes)] ==
        IF n = 1 THEN 0 ELSE start[n - 1] + boxes[n - 1].size
      last == boxes[Len(boxes)]
  IN  {[boxes |-> boxes, size |-> start[Len(boxes)] + n] :
         n \in {8, HeaderSize(last) - 1, HeaderSize(last), HeaderSize(last) + 1}}

\* ftyp and one or two more boxes, any of which may be too small for its own header,
\* and a file that does not start with ftyp.
Type == {"moov", "mdat", "free"}
Layouts ==
  UNION (
    {Cuts(<<f, b>>) : f \in Whole("ftyp"), b \in UNION {Boxed(t) : t \in Type}}
    \cup {Cuts(<<Box("ftyp", "short", 9), b, c>>) : b \in UNION {Whole(t) : t \in Type},
            c \in UNION {Boxed(t) : t \in Type}}
    \cup {Cuts(s \o <<c>>) : s \in UNION {Overlaps("ftyp", t) : t \in Type},
                            c \in UNION {Boxed(t) : t \in Type}}
    \cup {Cuts(<<Box("ftyp", "short", 9)>> \o s) :
             s \in UNION {Overlaps(t, u) : t \in Type, u \in Type}}
    \cup {Cuts(<<Box("free", "short", 9), Box("moov", "short", 9)>>)})

\* A file with its moov at the end, one with its moov at the front, one with none.
FewLayouts == {[boxes |-> b, size |-> 27] : b \in
  {<<Box("ftyp", "short", 9), Box("mdat", "short", 9), Box("moov", "short", 9)>>,
   <<Box("ftyp", "short", 9), Box("moov", "short", 9), Box("mdat", "short", 9)>>,
   <<Box("ftyp", "short", 9), Box("mdat", "short", 9), Box("free", "short", 9)>>}}
JobsAndUploads ==
  {j @@ u : j \in Permutations(Job), u \in Permutations(Upload)}
=============================================================================
