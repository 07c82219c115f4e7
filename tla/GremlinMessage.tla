---------------------------- MODULE GremlinMessage ----------------------------
(***************************************************************************)
(* What gremlinc generates for a message, from the templates of            *)
(* generators/golang (types and fields): a struct that is sized, marshalled *)
(* into a buffer of exactly that size, and a reader that remembers where   *)
(* each field is and decodes it when it is first asked for.  The program   *)
(* that reads may have been generated from another version of the message. *)
(*                                                                         *)
(* A message type has a sequence of fields, in the order of the .proto.  A *)
(* struct is a function from field numbers to values; a nil message, and   *)
(* an empty list, map or string, is Nothing.                               *)
(***************************************************************************)
EXTENDS GremlinWire, Functions

CONSTANTS
    Fields,    \* of each message type, of each version: its fields
    Depth,     \* and how deep other messages nest in it
    Messages,  \* the messages within others
    Versions,  \* which type is a message in which version, and in which other
    Exchanges  \* what is written with which version, and read with which

Types == DOMAIN Fields
MessageOf(type, struct) == [of |-> type, struct |-> struct]

Message(k) == MessageOf(Exchanges[k].writer, Exchanges[k].struct)

Nothing == <<>>
Scalar(f) == f.of \in ScalarTypes
ZeroOf(t) == IF t \in ScalarTypes \ {"bytes"} THEN 0 ELSE Nothing

(* A field has a number, a shape ("one", "packed", "list" or "map"), what  *)
(* it is of - a scalar type or a message type - the type of a map's keys,  *)
(* its default and whether it is required.                                 *)
Numbers(type) == {Fields[type][i].number : i \in DOMAIN Fields[type]}
Field(type, n) == Fields[type][CHOOSE i \in DOMAIN Fields[type] : Fields[type][i].number = n]
Unset(f) == IF f.shape = "one" THEN f.default ELSE Nothing

(* What a .proto can declare, and a struct of it can hold.                 *)
IsSeq(x) == x \in Seq(Range(x))
Holds(f, x) == IF Scalar(f) THEN x \in GoValues(f.of) ELSE MessageOf(f.of, x) \in Messages
HoldsAll(f, x) ==
    CASE f.shape = "one" -> Holds(f, x)
      [] f.shape \in {"packed", "list"} -> IsSeq(x) /\ \A i \in DOMAIN x : Holds(f, x[i])
      [] f.shape = "map" ->
            /\ IsFiniteSet(DOMAIN x) /\ x \in [DOMAIN x -> Range(x)]
            /\ \A k \in DOMAIN x : k \in GoValues(f.key) /\ Holds(f, x[k])
Declared(f, depth) ==
    /\ f.number \in FieldNumbers /\ f.shape \in {"one", "packed", "list", "map"}
    /\ Scalar(f) \/ (f.of \in Types /\ Depth[f.of] < depth)
    /\ f.shape = "packed" => Scalar(f) /\ f.of # "bytes"
    /\ f.shape = "map" => f.key \in ScalarTypes
    /\ f.shape = "one" => Holds(f, f.default) /\ (Scalar(f) \/ f.default = Nothing)
    /\ f.required => f.shape = "one"

(* What two versions of a message keep of a field that is in both.         *)
SameField(w, r) ==
    /\ r.shape = w.shape /\ Unset(r) = Unset(w)
    /\ w.shape = "map" => r.key = w.key
    /\ IF Scalar(w) THEN r.of = w.of ELSE ~Scalar(r) /\ <<w.of, r.of>> \in Versions

IsMessage(m) ==
    /\ m.of \in Types
    /\ m.struct = Nothing \/ \A n \in Numbers(m.of) : HoldsAll(Field(m.of, n), m.struct[n])

ASSUME MessageAssumption ==
    /\ {1, 2} \subseteq FieldNumbers
    /\ \A type \in Types :
          LET fields == Fields[type]
          IN /\ Depth[type] \in Nat /\ IsSeq(fields)
             /\ \A i, j \in DOMAIN fields : fields[i].number = fields[j].number => i = j
             /\ \A i \in DOMAIN fields : Declared(fields[i], Depth[type])
    /\ \A m \in Messages : IsMessage(m)
    /\ \A k \in DOMAIN Exchanges :
          LET x == Exchanges[k]
          IN /\ IsMessage(MessageOf(x.writer, x.struct)) /\ x.struct # Nothing
             /\ <<x.writer, x.reader>> \in Versions
             /\ x.unknown \in FieldNumbers \ Numbers(x.reader)

(* A number is one field in all versions, as a .proto that evolves must    *)
(* keep it; fields may come and go.                                        *)
ASSUME VersionAssumption ==
    /\ Versions \subseteq Types \X Types
    /\ \A v \in Versions : \A n \in Numbers(v[1]) \cap Numbers(v[2]) :
          SameField(Field(v[1], n), Field(v[2], n))

VARIABLES
    exchange,  \* which of the exchanges it is; it never changes
    stage,     \* "marshal", "unmarshal", "read" or "error"
    next,      \* the field of the struct that is written next
    size,      \* the capacity the buffer was made with
    buf,       \* the bytes
    starts,    \* where the fields start in them (ghost)
    scan,      \* where Unmarshal is, and where it has found which field
    data       \* the fields the program has asked for

vars == <<exchange, stage, next, size, buf, starts, scan, data>>

e == Exchanges[exchange]

(* EntryIsNotEmpty: whether a field is written at all.                     *)
IsNotEmpty(f, x) == f.required \/ x # Unset(f)

(***************************************************************************)
(* XXX_PbContentSize: EntryFullSizeWithTag of every field, with the sizes  *)
(* of the messages nested in it.                                           *)
(***************************************************************************)
Prefixed(n) == SizeVarInt(n) + n

SizeOne(sizes, f, x) ==
    SizeTag(f.number)
    + IF Scalar(f) THEN PayloadSize(f.of, x) ELSE Prefixed(sizes[MessageOf(f.of, x)])

PayloadSizes(f, x) == SumFunction([i \in DOMAIN x |-> PayloadSize(f.of, x[i])])

(* A list of one is not packed.                                            *)
SizePacked(sizes, f, x) ==
    CASE Len(x) = 0 -> 0
      [] Len(x) = 1 -> SizeOne(sizes, f, x[1])
      [] OTHER -> SizeTag(f.number) + Prefixed(PayloadSizes(f, x))

SizeList(sizes, f, x) == SumFunction([i \in DOMAIN x |-> SizeOne(sizes, f, x[i])])

KeyField(f) == [number |-> 1, of |-> f.key]
ValueField(f) == [number |-> 2, of |-> f.of]
SizeEntry(sizes, f, k, v) == SizeOne(sizes, KeyField(f), k) + SizeOne(sizes, ValueField(f), v)

SizeMap(sizes, f, x) ==
    SumFunction([k \in DOMAIN x |-> SizeTag(f.number) + Prefixed(SizeEntry(sizes, f, k, x[k]))])

SizeField(sizes, f, x) ==
    IF ~IsNotEmpty(f, x) THEN 0
    ELSE CASE f.shape = "one" -> SizeOne(sizes, f, x)
           [] f.shape = "packed" -> SizePacked(sizes, f, x)
           [] f.shape = "list" -> SizeList(sizes, f, x)
           [] f.shape = "map" -> SizeMap(sizes, f, x)

SizeFields(sizes, m) ==
    IF m.struct = Nothing THEN 0
    ELSE SumFunction([i \in DOMAIN Fields[m.of] |->
            LET f == Fields[m.of][i] IN SizeField(sizes, f, m.struct[f.number])])
ContentSize[m \in Messages] == SizeFields(ContentSize, m)

(* A size is written as one word.                                          *)
SizesFit(m) ==
    m.struct = Nothing \/ \A n \in Numbers(m.of) :
        LET f == Field(m.of, n)
            x == m.struct[n]
        IN /\ f.shape = "packed" => PayloadSizes(f, x) < WORD
           /\ f.shape = "map" => \A k \in DOMAIN x : SizeEntry(ContentSize, f, k, x[k]) < WORD

ASSUME SizeAssumption ==
    /\ \A m \in Messages : ContentSize[m] < WORD /\ SizesFit(m)
    /\ \A k \in DOMAIN Exchanges : SizesFit(Message(k))

(***************************************************************************)
(* MarshalTo: EntryWriter of every field, here the sequence of what it     *)
(* appends, one element per field on the wire.  The order of a map's       *)
(* entries is up to Go.                                                    *)
(***************************************************************************)
WriteOne(bytes, f, x) ==
    IF Scalar(f) THEN Tag(f.number, WireType(f.of)) \o Payload(f.of, x)
    ELSE LET m == MessageOf(f.of, x)
         IN Tag(f.number, BytesType) \o VarInt(ContentSize[m]) \o bytes[m]

(* A plausible bug: the number of entries for their size.                  *)
WritePackedCounted(bytes, f, x) ==
    CASE Len(x) = 0 -> <<>>
      [] Len(x) = 1 -> <<WriteOne(bytes, f, x[1])>>
      [] OTHER -> <<Tag(f.number, BytesType) \o VarInt(Len(x))
                    \o FlattenSeq([i \in DOMAIN x |-> Payload(f.of, x[i])])>>

WritePacked(bytes, f, x) ==
    CASE Len(x) = 0 -> <<>>
      [] Len(x) = 1 -> <<WriteOne(bytes, f, x[1])>>
      [] OTHER -> <<Tag(f.number, BytesType) \o VarInt(PayloadSizes(f, x))
                    \o FlattenSeq([i \in DOMAIN x |-> Payload(f.of, x[i])])>>

WriteList(bytes, f, x) == [i \in DOMAIN x |-> WriteOne(bytes, f, x[i])]

WriteEntry(bytes, f, k, v) ==
    Tag(f.number, BytesType) \o VarInt(SizeEntry(ContentSize, f, k, v))
    \o WriteOne(bytes, KeyField(f), k) \o WriteOne(bytes, ValueField(f), v)
WriteMap(bytes, f, x, order) == [i \in DOMAIN order |-> WriteEntry(bytes, f, order[i], x[order[i]])]

Orders(f, x) == IF f.shape = "map" THEN SetToSeqs(DOMAIN x) ELSE {<<>>}

WriteField(bytes, f, x, order) ==
    IF ~IsNotEmpty(f, x) THEN <<>>
    ELSE CASE f.shape = "one" -> <<WriteOne(bytes, f, x)>>
           [] f.shape = "packed" -> WritePacked(bytes, f, x)
           [] f.shape = "list" -> WriteList(bytes, f, x)
           [] f.shape = "map" -> WriteMap(bytes, f, x, order)

(* A nested message; its maps are in some order.                           *)
WriteFields(bytes, m) ==
    IF m.struct = Nothing THEN <<>>
    ELSE FlattenSeq([i \in DOMAIN Fields[m.of] |->
            LET f == Fields[m.of][i]
                x == m.struct[f.number]
            IN FlattenSeq(WriteField(bytes, f, x, CHOOSE order \in Orders(f, x) : TRUE))])
Bytes[m \in Messages] == WriteFields(Bytes, m)

(***************************************************************************)
(* Unmarshal looks only at tags and sizes, and EntryReader decodes a field *)
(* when it is asked for.                                                   *)
(***************************************************************************)
(* EntryUnmarshalSaveOffsets: a single field is where it was seen last.    *)
Save(type, known, n, at, wire) ==
    IF n \notin Numbers(type) THEN known
    ELSE [known EXCEPT ![n] =
            IF Field(type, n).shape = "one" THEN <<<<at, wire>>>> ELSE Append(@, <<at, wire>>)]

NewReader(type) == [offset |-> 0, offsets |-> [n \in Numbers(type) |-> <<>>], failed |-> FALSE]
Goes(bytes, r) == ~r.failed /\ HasNext(bytes, r.offset, 0)
Turn(type, bytes, r) ==
    LET tag == ReadTag(bytes, r.offset)
        at == r.offset + tag.size
        after == Skip(bytes, at, tag.type)
    IN IF tag.size < 0 THEN [r EXCEPT !.failed = TRUE]
       ELSE [offset |-> after, offsets |-> Save(type, r.offsets, tag.number, at, tag.type),
             failed |-> after < 0]

(* A loop after n turns.  Every turn takes a byte or more.                 *)
Loop(Step(_), start, n) ==
    LET state[k \in 0 .. n] == IF k = 0 THEN start ELSE Step(state[k - 1])
    IN state[n]

(* Unmarshal of a nested message, whose error is ignored.                  *)
Scan(type, bytes) ==
    LET Step(r) == IF Goes(bytes, r) THEN Turn(type, bytes, r) ELSE r
    IN Loop(Step, NewReader(type), Len(bytes)).offsets

(* A message is first of all its bytes.                                    *)
ReadOne(f, bytes, at) == Read(IF Scalar(f) THEN f.of ELSE "bytes", bytes, at)

(* Wherever the list was found it may be packed or not.                    *)
ReadPacked(f, bytes, at, wire) ==
    LET n == ReadVarInt(bytes, at)
        Step(r) ==
            LET one == ReadOne(f, bytes, r.at)
            IN IF r.at >= at + n.size + n.value THEN r
               ELSE [at |-> r.at + one.size, values |-> Append(r.values, one.value)]
    IN IF wire = BytesType
       THEN Loop(Step, [at |-> at + n.size, values |-> <<>>], n.value).values
       ELSE <<ReadOne(f, bytes, at).value>>

(* The key and the value of a map entry: the last of each counts.          *)
ReadEntry(f, bytes, at) ==
    LET n == ReadVarInt(bytes, at)
        Step(r) ==
            LET tag == ReadTag(bytes, r.at)
                from == r.at + tag.size
                one == ReadOne(IF tag.number = 1 THEN KeyField(f) ELSE ValueField(f), bytes, from)
            IN IF r.at >= at + n.size + n.value THEN r
               ELSE IF tag.number \in {1, 2}
               THEN [at |-> from + one.size, entry |-> [r.entry EXCEPT ![tag.number] = one.value]]
               ELSE [r EXCEPT !.at = Skip(bytes, from, tag.type)]
        start == [at |-> at + n.size, entry |-> <<ZeroOf(f.key), ZeroOf(f.of)>>]
    IN Loop(Step, start, n.value).entry

(* A later entry overwrites an earlier one with the same key.              *)
GoMap(entries) ==
    [k \in {entry[1] : entry \in Range(entries)} |->
        entries[Max({i \in DOMAIN entries : entries[i][1] = k})][2]]
ReadMap(f, bytes, known) == GoMap([i \in DOMAIN known |-> ReadEntry(f, bytes, known[i][1])])

(* A nested message without bytes is nil.                                  *)
Decode(nested, f, x) ==
    IF Scalar(f) THEN x ELSE IF x = <<>> THEN Nothing ELSE nested[f.of][x]

ReadField(nested, f, bytes, known) ==
    LET several ==
            CASE f.shape = "packed" ->
                    FlattenSeq([i \in DOMAIN known |-> ReadPacked(f, bytes, known[i][1], known[i][2])])
              [] f.shape = "list" -> [i \in DOMAIN known |-> ReadOne(f, bytes, known[i][1]).value]
              [] f.shape = "map" -> ReadMap(f, bytes, known)
        single == IF known = <<>> THEN f.default ELSE ReadOne(f, bytes, known[1][1]).value
    IN IF f.shape = "one" THEN Decode(nested, f, single)
       ELSE [i \in DOMAIN several |-> Decode(nested, f, several[i])]

ReadFields(nested, type, bytes) ==
    LET known == Scan(type, bytes)
    IN [n \in Numbers(type) |-> ReadField(nested, Field(type, n), bytes, known[n])]

(* Messages within others, of a depth less than d.                         *)
Nested[d \in Nat] ==
    IF d = 0 THEN <<>>
    ELSE [type \in Types |-> [bytes \in Seq(Byte) |-> ReadFields(Nested[d - 1], type, bytes)]]

-----------------------------------------------------------------------------

Init ==
    /\ exchange \in DOMAIN Exchanges
    /\ stage = "marshal" /\ next = 1 /\ size = SizeFields(ContentSize, Message(exchange))
    /\ buf = <<>> /\ starts = {}
    /\ scan = NewReader(e.reader) /\ data = <<>>

(* The fields appended to the buffer, each an element of pieces.           *)
AppendAll(pieces) ==
    LET until(i) == Len(FlattenSeq(SubSeq(pieces, 1, i - 1)))
    IN /\ buf' = buf \o FlattenSeq(pieces)
       /\ starts' = starts \cup {Len(buf) + until(i) : i \in DOMAIN pieces}

Marshal ==
    LET f == Fields[e.writer][next]
        x == e.struct[f.number]
    IN /\ stage = "marshal" /\ next <= Len(Fields[e.writer])
       /\ \E order \in Orders(f, x) : AppendAll(WriteField(Bytes, f, x, order))
       /\ next' = next + 1
       /\ UNCHANGED <<exchange, stage, size, scan, data>>

(* Another protobuf library, which writes a single field more than once,   *)
(* packs a list in parts or not at all, and still knows groups.            *)
Group(n) ==
    Tag(n, StartGroupType) \o Tag(n, StartGroupType) \o Tag(n, EndGroupType)
    \o Tag(1, Fixed32Type) \o FixedInt(EndGroupType, FIX32) \o Tag(n, EndGroupType)
ForeignPieces(f, x) ==
    CASE f.shape = "one" ->
            {<<WriteOne(Bytes, f, x)>>, <<WriteOne(Bytes, f, f.default), WriteOne(Bytes, f, x)>>,
             <<Group(e.unknown), WriteOne(Bytes, f, x)>>}
      [] f.shape = "packed" ->
            {WritePacked(Bytes, f, SubSeq(x, 1, k)) \o WriteList(Bytes, f, SubSeq(x, k + 1, Len(x))) :
                k \in 0 .. Len(x)}
      [] OTHER -> {WriteField(Bytes, f, x, order) : order \in Orders(f, x)}

MarshalElsewhere ==
    LET f == Fields[e.writer][next]
    IN /\ e.foreign /\ stage = "marshal" /\ next <= Len(Fields[e.writer])
       /\ \E pieces \in ForeignPieces(f, e.struct[f.number]) : AppendAll(pieces)
       /\ next' = next + 1
       /\ UNCHANGED <<exchange, stage, size, scan, data>>

Send ==
    /\ stage = "marshal" /\ next > Len(Fields[e.writer])
    /\ stage' = "unmarshal"
    /\ UNCHANGED <<exchange, next, size, buf, starts, scan, data>>

(* A turn of Unmarshal's loop.                                             *)
Unmarshal ==
    /\ stage = "unmarshal" /\ Goes(buf, scan)
    /\ scan' = Turn(e.reader, buf, scan)
    /\ UNCHANGED <<exchange, stage, next, size, buf, starts, data>>

Unmarshalled ==
    /\ stage = "unmarshal" /\ ~Goes(buf, scan)
    /\ stage' = IF scan.failed THEN "error" ELSE "read"
    /\ UNCHANGED <<exchange, next, size, buf, starts, scan, data>>

(* A getter: it decodes the field the first time, and then remembers it.   *)
Get(n) ==
    /\ stage = "read" /\ n \notin DOMAIN data
    /\ LET nested == Nested[Depth[e.reader]]
           value == ReadField(nested, Field(e.reader, n), buf, scan.offsets[n])
       IN data' = [k \in DOMAIN data \cup {n} |-> IF k = n THEN value ELSE data[k]]
    /\ UNCHANGED <<exchange, stage, next, size, buf, starts, scan>>

Next ==
    \/ Marshal \/ MarshalElsewhere \/ Send
    \/ Unmarshal \/ Unmarshalled
    \/ \E n \in Numbers(e.reader) : Get(n)

Spec == Init /\ [][Next]_vars

-----------------------------------------------------------------------------

(* The buffer is made with the size computed beforehand, and appending past *)
(* it panics: at every value and every boundary of the encodings, the bytes *)
(* written are no more than that, and in the end no less.                  *)
SizeIsExact ==
    ~e.foreign => /\ Len(buf) <= size
                  /\ stage # "marshal" => Len(buf) = size

(* Unmarshal never fails on what was written, known to the reader or not:  *)
(* it goes from the start of one field to the start of another, to the end. *)
OffsetsAreFieldStarts ==
    /\ ~scan.failed
    /\ stage = "unmarshal" => scan.offset \in starts \cup {Len(buf)}
    /\ stage = "read" => scan.offset = Len(buf)

(* What a message of the writer's version says to the reader's, by         *)
(* definition: a field both know has the value it was given, except that a *)
(* nested message that says nothing is not there; others have the default. *)
SaysNothing(m) ==
    m.struct = Nothing \/ \A n \in Numbers(m.of) : ~IsNotEmpty(Field(m.of, n), m.struct[n])
SaysOne(says, w, r, x) ==
    IF Scalar(w) THEN x
    ELSE IF SaysNothing(MessageOf(w.of, x)) THEN Nothing ELSE says[MessageOf(w.of, x)][r.of]
SaysField(says, m, r) ==
    IF r.number \notin Numbers(m.of) THEN Unset(r)
    ELSE LET w == Field(m.of, r.number)
             x == m.struct[r.number]
         IN IF r.shape = "one" THEN SaysOne(says, w, r, x)
            ELSE [i \in DOMAIN x |-> SaysOne(says, w, r, x[i])]
Says[d \in Nat] ==
    IF d = 0 THEN <<>>
    ELSE [m \in Messages |-> [type \in Types |->
            [n \in Numbers(type) |-> SaysField(Says[d - 1], m, Field(type, n))]]]

(* Whatever is read, in whatever order and by whichever version, is what   *)
(* was written.                                                            *)
ReadsWhatWasWritten ==
    LET says == Says[Depth[e.reader]]
    IN \A n \in DOMAIN data :
          data[n] = SaysField(says, Message(exchange), Field(e.reader, n))

=============================================================================
