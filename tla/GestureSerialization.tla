------------------------ MODULE GestureSerialization ------------------------
(***************************************************************************)
(* gesture-serialization.cc: the engine reads the serialized form of the   *)
(* event it is about to post, adds the IOHID queue element the Dock wants, *)
(* and serializes it again; whoever gets an event (record-events.cc here)  *)
(* reads it back.  A byte string is a sequence of cells; a cell stands for *)
(* a byte of a payload and for a 16-bit word of a header alike, and Cell,  *)
(* its number of values, for 2^16.  A number's value in memory is its      *)
(* cells in the order of a little-endian machine.                          *)
(***************************************************************************)
EXTENDS Integers, Sequences, SequencesExt

CONSTANTS
  Cell,           \* values of a cell
  Narrow, Wide,   \* cells of an int32 or a float, of an int64 or a double
  IOHIDField,     \* 4205
  Grain,          \* steps of a double in the model to one of FixedFP1616
  Inputs,         \* external: serialized events of the OS
  Gestures,       \* external: the gesture fields of the events to post
  None            \* no value

ASSUME SerializationAssumption ==
  /\ Cell \in Nat /\ Cell % 8 = 0 /\ Cell > 0
  /\ Narrow \in Nat \ {0} /\ Wide \in Nat \ {0} /\ Narrow # Wide
  /\ IOHIDField \in 0 .. Cell \div 4 - 1 /\ Grain \in Nat \ {0}
  /\ 12 < Cell \div 2                     \* two structs and a header fit a blob
  /\ Inputs \subseteq Seq(0 .. Cell - 1)
  /\ \A g \in Gestures :                 \* fits the fields of the structs
       /\ g.phase \in 0 .. Cell - 1 /\ g.motion \in 0 .. Cell - 1
       /\ \A v \in {g.progress, g.velocity_x, g.velocity_y} :
            v \in Int /\ -Grain * (Cell \div 2) < v /\ v < Grain * (Cell \div 2)

VARIABLES
  reader,         \* "engine": AugmentCGEvent; "recorder": who gets the event
  stage,          \* how far the reader is
  data,           \* what it has not consumed
  fields,         \* CGEventData.fields
  element,        \* the recorder's IOHIDSystemQueueElementData
  input,          \* history: what the reader was given
  original,       \* history: the fields the engine read
  gesture         \* history: the gesture the engine posted

serializationVars == <<reader, stage, data, fields, element, input, original, gesture>>

NoFields == [f \in {} |-> 0]

-----------------------------------------------------------------------------
\* The fields of an event

Version == [i \in 1 .. Narrow |-> IF i = Narrow THEN 2 ELSE 0]

Drop(d, n) == SubSeq(d, n + 1, Len(d))
Put(f, field, e) == [x \in DOMAIN f \cup {field} |-> IF x = field THEN e ELSE f[x]]

\* ReadFieldHeader(): two bits of tag, the rest is the field.
Header(d) ==
  [size |-> d[1], tag |-> d[2] \div (Cell \div 4), field |-> d[2] % (Cell \div 4)]

\* The readers take the size as an int16_t.
Int16(size) == IF size >= Cell \div 2 THEN size - Cell ELSE size

\* Mutant: the size is not taken for signed.
AnnouncedUnsigned(h) ==
  CASE h.tag = 0 /\ h.size = 1 -> [type |-> "int64", cells |-> Wide]
    [] h.tag = 0 /\ h.size > 1 -> [type |-> "blob", cells |-> h.size]
    [] h.tag = 1 /\ h.size = 1 -> [type |-> "int32", cells |-> Narrow]
    [] h.tag = 3 /\ h.size = 1 -> [type |-> "float", cells |-> Narrow]
    [] h.tag = 3 /\ h.size = 2 -> [type |-> "double", cells |-> Wide]
    [] OTHER                   -> [type |-> None, cells |-> 0]

\* The type a header announces, and how many cells of payload.
Announced(h) ==
  CASE h.tag = 0 /\ Int16(h.size) = 1 -> [type |-> "int64", cells |-> Wide]
    [] h.tag = 0 /\ Int16(h.size) > 1 -> [type |-> "blob", cells |-> h.size]
    [] h.tag = 1 /\ h.size = 1        -> [type |-> "int32", cells |-> Narrow]
    [] h.tag = 3 /\ h.size = 1        -> [type |-> "float", cells |-> Narrow]
    [] h.tag = 3 /\ h.size = 2        -> [type |-> "double", cells |-> Wide]
    [] OTHER                          -> [type |-> None, cells |-> 0]

\* ReadBE() and WriteBE() swap the bytes of a number.
Swapped(type, cells) == IF type = "blob" THEN cells ELSE Reverse(cells)

\* Mutant: every number is one element.
SizeOfNumber(e) == IF e.type = "blob" THEN Len(e.value) % Cell ELSE 1

\* WriteField(): the size is counted in elements of the tag, that of a blob
\* in bytes, and cut to 16 bits.
SizeOf(e) ==
  CASE e.type = "blob" -> Len(e.value) % Cell
    [] e.type = "double" -> 2
    [] OTHER -> 1
TagOf(e) ==
  CASE e.type \in {"blob", "int64"} -> 0
    [] e.type = "int32" -> 1
    [] OTHER -> 3

WriteField(field, e) ==
  <<SizeOf(e), TagOf(e) * (Cell \div 4) + (field % (Cell \div 4))>>
    \o Swapped(e.type, e.value)

\* SerializeCGEventData(): a btree_map is written in the order of its keys.
Records(f) ==
  [i \in 1 .. Cell \div 4 |-> IF i - 1 \in DOMAIN f THEN WriteField(i - 1, f[i - 1]) ELSE <<>>]
Serialize(f) == Version \o FlattenSeq(Records(f))

-----------------------------------------------------------------------------
\* The IOHID queue element: a header that ends with the number of events, then
\* structs, each beginning with its size and its type.

HeaderSize == 3
EventCount(e) == e.header[HeaderSize]

FluidTouchGesture == 23
Velocity == 9
FluidSize == 5
VelocitySize == 4
kGestureEnded == 4

\* Mutant: a conversion that truncates.
FixedTruncated(v) ==
  IF v < 0 THEN (Cell - (-v) \div Grain) % Cell ELSE v \div Grain

\* DoubleToFixedFP1616(): never zero for a number that is not.
FixedFP1616(v) ==
  LET magnitude == (IF v < 0 THEN -v ELSE v) \div Grain
      fixed == IF magnitude = 0 /\ v # 0 THEN 1 ELSE magnitude
  IN  IF v < 0 THEN Cell - fixed ELSE fixed

\* GenerateIOHIDSystemQueueElementDataFromCGEvent()
Generate(g) ==
  LET touch == <<FluidSize, FluidTouchGesture, g.phase, g.motion, FixedFP1616(g.progress)>>
      velocity == <<VelocitySize, Velocity, FixedFP1616(g.velocity_x), FixedFP1616(g.velocity_y)>>
      events == IF g.velocity_x # 0 \/ g.velocity_y # 0 \/ g.phase = kGestureEnded
                  THEN <<touch, velocity>> ELSE <<touch>>
  IN  [header |-> <<0, 0, Len(events)>>, events |-> events]

SerializeElement(e) == e.header \o FlattenSeq(e.events)

\* ConsumeIOHIDEventData(): the size of the struct at the head of d, or 0 when
\* it is cut short, of another type, or of another size than it says.
StructAt(d) ==
  IF Len(d) < 2 THEN 0
  ELSE LET size == CASE d[2] = FluidTouchGesture -> FluidSize
                     [] d[2] = Velocity -> VelocitySize
                     [] OTHER -> Len(d) + 1
       IN  IF size <= Len(d) /\ d[1] = size THEN size ELSE 0

-----------------------------------------------------------------------------
SerializationInit ==
  /\ reader \in {"engine", "recorder"}
  /\ stage = "version"
  /\ input \in Inputs
  /\ data = input
  /\ fields = NoFields
  /\ element = None /\ original = None /\ gesture = None

\* DeserializeCGEventData(), up to its loop.
ReadVersion ==
  /\ stage = "version"
  /\ IF IsPrefix(Version, data)
       THEN stage' = "fields" /\ data' = Drop(data, Narrow)
       ELSE stage' = "failed" /\ UNCHANGED data
  /\ UNCHANGED <<reader, fields, element, input, original, gesture>>

\* An iteration of its loop.  A field that was read before is replaced.
ReadField ==
  /\ stage = "fields" /\ data # <<>>
  /\ IF Len(data) >= 2 /\ Announced(Header(data)).cells \in 1 .. Len(data) - 2
       THEN LET h == Header(data)
                a == Announced(h)
            IN  /\ fields' = Put(fields, h.field, [type |-> a.type,
                     value |-> Swapped(a.type, SubSeq(data, 3, 2 + a.cells))])
                /\ data' = Drop(data, 2 + a.cells)
                /\ UNCHANGED stage
       ELSE stage' = "failed" /\ UNCHANGED <<data, fields>>
  /\ UNCHANGED <<reader, element, input, original, gesture>>

EndOfFields ==
  /\ stage = "fields" /\ data = <<>>
  /\ stage' = "read"
  /\ UNCHANGED <<reader, data, fields, element, input, original, gesture>>

\* AugmentCGEvent(): its own fields go out with the element among them, unless
\* the OS refuses to make an event of the result; then PostEvent() drops it.
Augment(g) ==
  /\ reader = "engine" /\ stage = "read"
  /\ \/ /\ reader' = "recorder" /\ stage' = "version"
        /\ data' = Serialize(Put(fields, IOHIDField,
                     [type |-> "blob", value |-> SerializeElement(Generate(g))]))
        /\ input' = data' /\ fields' = NoFields
        /\ original' = fields /\ gesture' = g
     \/ /\ stage' = "dropped"
        /\ UNCHANGED <<reader, data, input, fields, original, gesture>>
  /\ UNCHANGED element

\* record-events: std::get<std::string>(fields[4205]) throws when the field is
\* missing (it is then an int32_t of 0) or no blob.
TakeElement ==
  /\ reader = "recorder" /\ stage = "read"
  /\ IF IOHIDField \in DOMAIN fields /\ fields[IOHIDField].type = "blob"
       THEN stage' = "header" /\ data' = fields[IOHIDField].value
       ELSE stage' = "aborted" /\ UNCHANGED data
  /\ UNCHANGED <<reader, fields, element, input, original, gesture>>

\* DeserializeIOHIDSystemQueueElementData(), up to its loop.
ReadHeader ==
  /\ stage = "header"
  /\ IF Len(data) >= HeaderSize
       THEN /\ element' = [header |-> SubSeq(data, 1, HeaderSize), events |-> <<>>]
            /\ data' = Drop(data, HeaderSize)
            /\ stage' = "events"
       ELSE stage' = "skipped" /\ UNCHANGED <<data, element>>
  /\ UNCHANGED <<reader, fields, input, original, gesture>>

\* An iteration of its loop.
ReadEvent ==
  /\ stage = "events" /\ Len(element.events) < EventCount(element)
  /\ IF StructAt(data) # 0
       THEN /\ element' = [element EXCEPT !.events = Append(@, SubSeq(data, 1, StructAt(data)))]
            /\ data' = Drop(data, StructAt(data))
            /\ UNCHANGED stage
       ELSE stage' = "skipped" /\ UNCHANGED <<data, element>>
  /\ UNCHANGED <<reader, fields, input, original, gesture>>

EndOfEvents ==
  /\ stage = "events" /\ Len(element.events) >= EventCount(element)
  /\ stage' = IF data = <<>> THEN "recorded" ELSE "skipped"
  /\ UNCHANGED <<reader, data, fields, element, input, original, gesture>>

SerializationNext ==
  \/ ReadVersion \/ ReadField \/ EndOfFields
  \/ \E g \in Gestures : Augment(g)
  \/ TakeElement \/ ReadHeader \/ ReadEvent \/ EndOfEvents

SerializationSpec == SerializationInit /\ [][SerializationNext]_serializationVars

-----------------------------------------------------------------------------
\* Properties

\* What the writer may write that the reader understands: a number of its
\* type's width, a blob whose size is neither 1 nor negative as an int16_t.
Legal(e) ==
  CASE e.type \in {"int32", "float"} -> Len(e.value) = Narrow
    [] e.type \in {"int64", "double"} -> Len(e.value) = Wide
    [] OTHER -> Len(e.value) \in 2 .. Cell \div 2 - 1

\* The field that is written as the record p; at most one.
Written(p) ==
  {w \in {[field |-> p[2] % (Cell \div 4), e |-> [type |-> t, value |-> Swapped(t, Drop(p, 2))]] :
            t \in {"int32", "int64", "float", "double", "blob"}} :
     Legal(w.e) /\ WriteField(w.field, w.e) = p}

\* Fields that hold w unless they hold another value of its field.
Before(w, f) == [x \in DOMAIN f \cup {w.field} |-> IF x \in DOMAIN f THEN f[x] ELSE w.e]

\* What the last n cells of d hold that begin with a record; from[m] is what the
\* last m hold.
FirstRecord(d, n, from) ==
  UNION {{Before(w, f) : f \in from[n - k],
                         w \in Written(SubSeq(d, Len(d) - n + 1, Len(d) - n + k))} : k \in 3 .. n}

\* The fields d holds if it is a sequence of records; the last record of a
\* field counts.  At most one map, since no record begins another.
Readings(d) ==
  LET from[n \in 0 .. Len(d)] == IF n = 0 THEN {NoFields} ELSE FirstRecord(d, n, from)
  IN  from[Len(d)]

\* The reader accepts exactly the version followed by records the writer can
\* write, and of the records of a field it keeps the last (cc:200-237 against
\* cc:150-196): truncated or damaged data is refused, never misread.
\* The same holds of a queue element: nothing of one that is accepted is left
\* over, cut short or counted wrong.
ReadsWhatIsWritten ==
  LET readings == IF IsPrefix(Version, input) THEN Readings(Drop(input, Narrow)) ELSE {}
  IN  /\ stage = "read" => fields \in readings
      /\ stage = "failed" => readings = {}
      /\ stage = "recorded" => SerializeElement(element) = fields[IOHIDField].value

\* An event the engine has augmented is read back without error, with every
\* field the engine found in it and nothing changed but the queue element.
AugmentKeepsRest ==
  original # None /\ reader = "recorder" =>
    /\ stage \notin {"failed", "aborted", "skipped"}
    /\ stage = "read" =>
         /\ DOMAIN fields = DOMAIN original \cup {IOHIDField}
         /\ \A f \in DOMAIN original \ {IOHIDField} : fields[f] = original[f]

Sign(c) == IF c = 0 THEN 0 ELSE IF Int16(c) > 0 THEN 1 ELSE -1
SignOf(v) == IF v = 0 THEN 0 ELSE IF v > 0 THEN 1 ELSE -1

\* The Dock gets the gesture the operation posted: its phase, its axis, and
\* the directions of progress and velocity, which the tiny values of a flick
\* (kEpsilon) must not lose; an ended gesture always has a velocity.
ElementTellsGesture ==
  stage = "recorded" /\ gesture # None =>
    LET touch == element.events[1] IN
    /\ touch[3] = gesture.phase /\ touch[4] = gesture.motion
    /\ Sign(touch[5]) = SignOf(gesture.progress)
    /\ IF Len(element.events) = 2
         THEN /\ Sign(element.events[2][3]) = SignOf(gesture.velocity_x)
              /\ Sign(element.events[2][4]) = SignOf(gesture.velocity_y)
         ELSE gesture.velocity_x = 0 /\ gesture.velocity_y = 0
                /\ gesture.phase # kGestureEnded
=============================================================================
