--------------------------- MODULE MCGremlinMessage ---------------------------
(***************************************************************************)
(* Small exchanges for TLC, in a wire format of one-bit limbs, where an    *)
(* "int32" has 4 bits and an "int64" 6: every value of every scalar type,  *)
(* lists around the packing limit, and messages, lists and maps of         *)
(* messages between programs of different versions.                        *)
(***************************************************************************)
EXTENDS GremlinMessage

F(number, shape, of) ==
    [number |-> number, shape |-> shape, of |-> of, key |-> "int32", required |-> FALSE,
     default |-> IF shape = "one" /\ of \in ScalarTypes THEN ZeroOf(of) ELSE Nothing]
Exchange(writer, reader, struct, foreign) ==
    [writer |-> writer, reader |-> reader, struct |-> struct, foreign |-> foreign, unknown |-> 3]

(* One field with any value: plain, required, or with a default of its own. *)
Values(t) == IF t = "bytes" THEN {0, 1} ELSE GoValues(t)
Value(t, v) == IF t = "bytes" THEN <<<<>>, <<3, 0>>>>[v + 1] ELSE v
Options == {"plain", "required", "default"}
ScalarField(t, option) ==
    [F(1, "one", t) EXCEPT !.required = option = "required",
                           !.default = IF option = "default" THEN Value(t, 1) ELSE @]
Scalars(t, v, option, foreign) ==
    Exchange(<<"scalar", t, option>>, <<"scalar", t, option>>, <<Value(t, v)>>, foreign)

(* Two lists, both or one of which the reader knows.                       *)
ListTypes == {"int32", "fixed64", "bool", "sint32", "bytes", "enum"}
ListFields(t) == <<F(1, IF t = "bytes" THEN "list" ELSE "packed", t), F(2, "packed", "sint64")>>
Entry(t, d) == Value(t, IF t \in {"bool", "bytes"} THEN d % 2 ELSE <<0, 5, -1>>[d + 1])
Digit(n, i) == (n \div 3 ^ (i - 1)) % 3
ListOf(t, len, n) == [i \in 1 .. len |-> Entry(IF t = "fixed64" THEN "bool" ELSE t, Digit(n, i))]
Lists(t, len, n, known, foreign) ==
    Exchange(<<"list", t, {1, 2}>>, <<"list", t, known>>, <<ListOf(t, len, n), <<0, -9>>>>, foreign)

(* A message, a map and a list of messages, and a map of numbers, between  *)
(* versions that differ at both levels.                                    *)
Inner == <<F(1, "one", "int32"), F(2, "packed", "bool")>>
Outer(inner) == <<F(2, "map", inner), F(1, "one", inner), F(4, "list", inner), F(5, "map", "uint32")>>
InnerValue(d) == <<Nothing, <<0, <<>>>>, <<-1, <<1, 0>>>>>>[d + 1]
Nestings(n, inner, outer) ==
    Exchange(<<"outer", {1, 2}, {1, 2, 4, 5}>>, <<"outer", inner, outer>>,
             [k \in {1, 2, 4, 5} |->
                CASE k = 1 -> InnerValue(Digit(n, 1))
                  [] k = 2 -> [i \in {0, 5} |-> InnerValue(Digit(n, IF i = 0 THEN 2 ELSE 3))]
                  [] k = 4 -> <<InnerValue(Digit(n, 1)), InnerValue(Digit(n, 3))>>
                  [] k = 5 -> [i \in {-1} |-> 9]], FALSE)

(* The types: a reader may know only some of the fields.                   *)
Known(fields, numbers) == SelectSeq(fields, LAMBDA f : f.number \in numbers)
InnerKnown == {{2}, {1, 2}}
OuterKnown == {{1}, {2, 5}, {1, 4}, {1, 2, 4, 5}}
AllFields ==
    [type \in ({"scalar"} \X ScalarTypes \X Options) \cup ({"list"} \X ListTypes \X {{2}, {1, 2}})
              \cup ({"inner"} \X InnerKnown) \cup ({"outer"} \X InnerKnown \X OuterKnown) |->
        CASE type[1] = "scalar" -> <<ScalarField(type[2], type[3])>>
          [] type[1] = "list" -> Known(ListFields(type[2]), type[3])
          [] type[1] = "inner" -> Known(Inner, type[2])
          [] type[1] = "outer" -> Known(Outer(<<"inner", type[2]>>), type[3])]
AllVersions ==
    {v \in (DOMAIN AllFields) \X (DOMAIN AllFields) :
        v[1][1] = v[2][1] /\ (v[1][1] \in {"scalar", "list"} => v[1][2] = v[2][2])
        /\ (v[1][1] = "scalar" => v[1][3] = v[2][3])}
AllDepths == [type \in DOMAIN AllFields |-> IF type[1] = "outer" THEN 1 ELSE 0]

ScalarNames ==
    UNION {{"scalar"} \X {t} \X Values(t) \X Options \X BOOLEAN : t \in ScalarTypes}
ListNames ==
    {<<"list", t, len, n, known, foreign>> : t \in ListTypes, len \in {0, 1, 3}, n \in 0 .. 26,
                                             known \in {{2}, {1, 2}}, foreign \in BOOLEAN}
MessageNames ==
    {<<"message", n, inner, outer>> : n \in 0 .. 26, inner \in InnerKnown,
                                      outer \in OuterKnown \ {{1, 2, 4, 5}}}

AllExchanges ==
    [k \in {x \in ScalarNames : x[5] => x[4] = "plain"} \cup {x \in ListNames : x[4] < 3 ^ x[3]}
           \cup MessageNames |->
        CASE k[1] = "scalar" -> Scalars(k[2], k[3], k[4], k[5])
          [] k[1] = "list" -> Lists(k[2], k[3], k[4], k[5], k[6])
          [] k[1] = "message" -> Nestings(k[2], k[3], k[4])]

(* The messages in those written, and the nil ones.                        *)
AllMessages ==
    {MessageOf(<<"inner", {1, 2}>>, InnerValue(d)) : d \in 0 .. 2}
    \cup {MessageOf(<<"inner", inner>>, Nothing) : inner \in InnerKnown}

=============================================================================
