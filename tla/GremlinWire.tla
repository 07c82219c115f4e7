----------------------------- MODULE GremlinWire -----------------------------
(***************************************************************************)
(* The wire format of the Go protobuf runtime (gremlin_go: writer.go,      *)
(* reading.go, reader.go): varints of 7-bit limbs, little-endian fixed     *)
(* numbers, length-prefixed bytes, and skipping what is not known.         *)
(*                                                                         *)
(* The widths are parameters with the code's proportions: a varint of      *)
(* LIMBS bytes holds exactly one 64-bit word, as do FIX64 bytes.  A float  *)
(* is the fixed number of its bits (except that -0.0 counts as unset), a   *)
(* string its bytes.                                                       *)
(***************************************************************************)
EXTENDS Integers, Sequences, FiniteSetsExt, SequencesExt

CONSTANTS
    LIMB,   \* the values of a limb, 128 in the code; a byte has twice as many
    LIMBS,  \* the longest varint, 10 in the code
    FIX32,  \* bytes of a 32-bit number, 4 in the code
    FIX64   \* bytes of a 64-bit number, 8 in the code

(* A number is shifted by n digits: 1 << 7 * n, 1 << 8 * n.                *)
Power(base, n) ==
    LET power[i \in Nat] == IF i = 0 THEN 1 ELSE base * power[i - 1]
    IN power[n]

BYTE == 2 * LIMB
HALF == Power(BYTE, FIX32)   \* 2^32
WORD == Power(BYTE, FIX64)   \* 2^64

ASSUME WireAssumption ==
    /\ LIMBS \in Nat \ {0} /\ \E bits \in 1 .. LIMB : LIMB = Power(2, bits)
    /\ FIX32 \in Nat \ {0} /\ FIX64 \in Nat /\ FIX32 < FIX64
    /\ WORD = 2 * Power(LIMB, LIMBS - 1)

(* A number taken apart, the lowest digit first, and put together again.   *)
Digits(v, base, n) == [i \in 1 .. n |-> (v \div Power(base, i - 1)) % base]
Joined(digits, base) ==
    LET sum[i \in 0 .. Len(digits)] ==
            IF i = 0 THEN 0 ELSE sum[i - 1] + digits[i] * Power(base, i - 1)
    IN sum[Len(digits)]

Byte == 0 .. BYTE - 1

VarIntType == 0
Fixed64Type == 1
BytesType == 2
StartGroupType == 3
EndGroupType == 4
Fixed32Type == 5

Fixed32s == {"fixed32", "sfixed32"}
Fixed64s == {"fixed64", "sfixed64"}
ZigZags == {"sint32", "sint64"}
ScalarTypes ==
    Fixed32s \cup Fixed64s \cup ZigZags
    \cup {"bool", "uint32", "uint64", "int32", "int64", "enum", "bytes"}

WireType(t) ==
    CASE t \in Fixed32s -> Fixed32Type
      [] t \in Fixed64s -> Fixed64Type
      [] t = "bytes" -> BytesType
      [] OTHER -> VarIntType

(* The numbers a Go variable of a type holds, and its strings of bytes.    *)
SignedOf(modulus) == -(modulus \div 2) .. (modulus \div 2) - 1
GoValues(t) ==
    CASE t = "bytes" -> {x \in Seq(Byte) : Len(x) < WORD}
      [] t = "bool" -> {0, 1}
      [] t \in {"uint32", "fixed32"} -> 0 .. HALF - 1
      [] t \in {"uint64", "fixed64"} -> 0 .. WORD - 1
      [] t \in {"int32", "sint32", "sfixed32", "enum"} -> SignedOf(HALF)
      [] OTHER -> SignedOf(WORD)

(* The numbers fields can have: any other is an error of ReadTagAt.        *)
FieldNumbers == 1 .. (HALF \div 2) - 1

(***************************************************************************)
(* Writing.                                                                *)
(***************************************************************************)

(* The size is asked for before anything is written: it must agree with    *)
(* what VarInt takes at every boundary.                                    *)
SizeVarInt(v) == Min({n \in 1 .. LIMBS : v < Power(LIMB, n) \/ n = LIMBS})

VarInt(v) ==
    LET n == SizeVarInt(v)
        limbs == Digits(v, LIMB, n)
    IN [i \in 1 .. n |-> limbs[i] + IF i < n THEN LIMB ELSE 0]

FixedInt(v, n) == Digits(v, BYTE, n)

Tag(number, type) == VarInt(number * 8 + type)

(* The wire type does not affect the size.                                 *)
SizeTag(number) == SizeVarInt(number * 8)

ZigZag(x) == IF x >= 0 THEN 2 * x ELSE -2 * x - 1
UnZigZag(v) == IF v % 2 = 0 THEN v \div 2 ELSE -(v \div 2) - 1

(* Append...WithoutTag.  A negative int32 is extended to 64 bits.          *)
Payload(t, x) ==
    CASE t = "bytes" -> VarInt(Len(x)) \o x
      [] t \in ZigZags -> VarInt(ZigZag(x))
      [] t \in Fixed32s -> FixedInt(x % HALF, FIX32)
      [] t \in Fixed64s -> FixedInt(x % WORD, FIX64)
      [] OTHER -> VarInt(x % WORD)

(* A plausible bug: sizing an int32 by its 32 bits.                        *)
PayloadSizeNarrow(t, x) ==
    CASE t = "bytes" -> Len(x) + SizeVarInt(Len(x))
      [] t \in ZigZags -> SizeVarInt(ZigZag(x))
      [] t \in Fixed32s -> FIX32
      [] t \in Fixed64s -> FIX64
      [] t = "bool" -> 1
      [] t \in {"int32", "enum"} -> SizeVarInt(x % HALF)
      [] OTHER -> SizeVarInt(x % WORD)

(* Size...                                                                 *)
PayloadSize(t, x) ==
    CASE t = "bytes" -> Len(x) + SizeVarInt(Len(x))
      [] t \in ZigZags -> SizeVarInt(ZigZag(x))
      [] t \in Fixed32s -> FIX32
      [] t \in Fixed64s -> FIX64
      [] t = "bool" -> 1
      [] OTHER -> SizeVarInt(x % WORD)

(***************************************************************************)
(* Reading, at an offset that counts from 0.                               *)
(***************************************************************************)
At(buf, offset) == buf[offset + 1]
HasNext(buf, offset, size) == offset + size < Len(buf)

(* The limbs to the one that ends the number, or 0.                        *)
LimbsAt(buf, offset) ==
    LET ends == {i \in 1 .. LIMBS : HasNext(buf, offset, i - 1) /\ At(buf, offset + i - 1) < LIMB}
    IN IF ends = {} THEN 0 ELSE Min(ends)

(* The number and its size, or size -1: the bytes end too soon, or the     *)
(* last limb is more than the word's last bit.                             *)
VarIntOf(buf, offset, n) ==
    LET limbs == [i \in 1 .. n |-> At(buf, offset + i - 1) % LIMB]
    IN IF n = 0 \/ (n = LIMBS /\ At(buf, offset + n - 1) >= 2) THEN [value |-> 0, size |-> -1]
       ELSE [value |-> Joined(limbs, LIMB), size |-> n]
ReadVarInt(buf, offset) == VarIntOf(buf, offset, LimbsAt(buf, offset))

ReadFixed(buf, offset, n) == Joined([i \in 1 .. n |-> At(buf, offset + i - 1)], BYTE)

Signed(v, modulus) == IF v < modulus \div 2 THEN v ELSE v - modulus

(* A plausible bug: reading an int32 without its sign.                     *)
NumberUnsigned(t, v) ==
    CASE t = "int64" -> Signed(v, WORD)
      [] t = "bool" -> IF v # 0 THEN 1 ELSE 0
      [] t \in {"int32", "enum", "uint32"} -> v % HALF
      [] t = "sint32" -> Signed(UnZigZag(v) % HALF, HALF)
      [] t = "sint64" -> UnZigZag(v)
      [] t = "sfixed32" -> Signed(v, HALF)
      [] t = "sfixed64" -> Signed(v, WORD)
      [] OTHER -> v

(* What the Go conversions make of the number that was read.               *)
Number(t, v) ==
    CASE t = "int64" -> Signed(v, WORD)
      [] t = "bool" -> IF v # 0 THEN 1 ELSE 0
      [] t \in {"int32", "enum"} -> Signed(v % HALF, HALF)
      [] t = "uint32" -> v % HALF
      [] t = "sint32" -> Signed(UnZigZag(v) % HALF, HALF)
      [] t = "sint64" -> UnZigZag(v)
      [] t = "sfixed32" -> Signed(v, HALF)
      [] t = "sfixed64" -> Signed(v, WORD)
      [] OTHER -> v

BytesOf(buf, offset, n) ==
    [value |-> SubSeq(buf, offset + n.size + 1, offset + n.size + n.value), size |-> n.size + n.value]
ReadBytes(buf, offset) == BytesOf(buf, offset, ReadVarInt(buf, offset))

ReadNumber(t, n) == [n EXCEPT !.value = Number(t, @)]

(* Read... and SizedRead...                                                *)
Read(t, buf, offset) ==
    CASE t = "bytes" -> ReadBytes(buf, offset)
      [] t \in Fixed32s -> [value |-> Number(t, ReadFixed(buf, offset, FIX32)), size |-> FIX32]
      [] t \in Fixed64s -> [value |-> Number(t, ReadFixed(buf, offset, FIX64)), size |-> FIX64]
      [] OTHER -> ReadNumber(t, ReadVarInt(buf, offset))

(* ReadTagAt; size -1 is an error.                                         *)
TagOf(n) ==
    [number |-> n.value \div 8, type |-> n.value % 8,
     size |-> IF n.size < 0 \/ n.value \div 8 > HALF \div 2 - 1 THEN -1 ELSE n.size]
ReadTag(buf, offset) == TagOf(ReadVarInt(buf, offset))

(* SkipData: the offset behind the value, or -1.  A group ends with the    *)
(* end tag of its level, and may hold anything, other groups too.          *)
Behind(offset, n) == IF n.size < 0 THEN -1 ELSE offset + n.size + n.value
AfterVarInt(buf, offset, n) ==
    IF n > 0 THEN offset + n ELSE IF HasNext(buf, offset, LIMBS - 1) THEN offset + LIMBS ELSE -1

SkipValue(buf, offset, type) ==
    CASE type = VarIntType -> AfterVarInt(buf, offset, LimbsAt(buf, offset))
      [] type = Fixed32Type -> offset + FIX32
      [] type = Fixed64Type -> offset + FIX64
      [] type = BytesType -> Behind(offset, ReadVarInt(buf, offset))
      [] OTHER -> -1

Skip(buf, from, wire) ==
    LET end[o \in Nat] ==
            LET tag == ReadTag(buf, o)
                next == IF tag.type = StartGroupType THEN end[o + tag.size]
                        ELSE SkipValue(buf, o + tag.size, tag.type)
            IN IF tag.size < 0 THEN -1
               ELSE IF tag.type = EndGroupType THEN o + tag.size
               ELSE IF next < 0 THEN -1
               ELSE end[next]
    IN IF wire = StartGroupType THEN end[from] ELSE SkipValue(buf, from, wire)

=============================================================================
