----------------------- MODULE MCGestureSerialization -----------------------
(* Cells of 32 values: 8 fields, sizes below 16 are positive.  Every byte  *)
(* string over a few telling cells up to five after the version, two       *)
(* records of every kind, the longest blob and one that is longer, and     *)
(* events with a queue element damaged in one cell, at its end, or not.    *)
EXTENDS GestureSerialization

\* As sizes: 0, 1, 2 and a negative one; as tags and fields: a blob or int64
\* of field 0, 1 and 2, an int32 of field 0, no type, a floating-point number.
MCCells == {0, 1, 2, 8, 16, 24}

MCGestures ==
  [phase : {1, 2, 4}, motion : {1}, progress : {-5, 0, 1}, velocity_x : {0, 3}, velocity_y : {0}]
  \cup [phase : {4, 8}, motion : {2}, progress : {-1, 0}, velocity_x : {0}, velocity_y : {-1, 0}]

MCRaw == UNION {[1 .. n -> MCCells] : n \in 0 .. 5}

\* A record of each type, for two fields, and records the reader refuses.
MCRecords ==
  {<<1, 8 + f, 3>> : f \in {0, 1}} \cup {<<1, 24 + f, 4>> : f \in {0, 2}}
  \cup {<<1, 1, 5, 6>>, <<2, 24, 7, 8>>, <<2, 2, 9, 10>>, <<3, 0, 9, 10, 11>>}
  \cup {<<0, 8, 3>>, <<16, 0, 3>>, <<1, 16, 3>>, <<3, 1, 9>>}

MCElements == {SerializeElement(Generate(g)) : g \in MCGestures}

MCDamaged ==
  MCElements
  \cup {SubSeq(b, 1, Len(b) - 1) : b \in MCElements}
  \cup {Append(b, 1) : b \in MCElements}
  \cup UNION {{[b EXCEPT ![i] = c] : i \in DOMAIN b, c \in {0, 2, 5, 9}} : b \in MCElements}

MCInputs ==
  {<<2>> \o d : d \in MCRaw}
  \cup {<<2>> \o c \o d : c, d \in MCRecords}
  \cup {<<2, Len(b), IOHIDField>> \o b : b \in MCDamaged}
  \cup {<<>>, <<1>>, <<1, 1, 8, 0>>}
  \cup {<<2, n, 0>> \o [i \in 1 .. n |-> i] : n \in {15, 16}}
=============================================================================
