---------------------------- MODULE MCSioPacket ----------------------------
EXTENDS SioPacket, FiniteSets

Plain == << <<"byte", "x">> >>
More  == << <<"byte", "y">> >>
Four  == << <<"digits", 4>>, <<"byte", "x">> >>    \* the first byte is "4"

Str == <<"string", "s">>
Obj(a, b) == <<"object", [k \in {"a", "b"} |-> IF k = "a" THEN a ELSE b]>>
Arr(s) == <<"array", s>>

Atoms == {<<"number", 1>>, <<"number", 8>>, Str, <<"boolean", TRUE>>, <<"null">>,
          <<"binary", Plain>>, <<"binary", More>>, Arr(<<>>)}
Pairs == {Obj(a, b) : a \in Atoms, b \in Atoms} \cup {Arr(<<a, b>>) : a \in Atoms, b \in Atoms}
Deep  == {Obj(Arr(<<<<"binary", Plain>>, Str>>), <<"binary", More>>),
          Arr(<<Obj(<<"binary", More>>, <<"null">>), <<"binary", Plain>>, <<"binary", More>>>>)}

Message(type, nsp, id, value) ==
    [frame |-> 4, type |-> type, nsp |-> nsp, id |-> id, value |-> value]

SomePackets ==
    {Message(2, Root, -1, Arr(<<Str, v>>)) : v \in Deep \cup Atoms}
    \cup {Message(2, n, i, Arr(<<Str, <<"binary", Plain>>>>)) : n \in {Root, "/n"}, i \in {-1, 7}}
    \cup {Message(3, n, 7, Arr(<<v>>)) : n \in {Root, "/n"}, v \in Atoms}
    \cup {Message(t, "/n", -1, Obj(Str, Str)) : t \in {0, 4}}
    \cup {Message(1, n, -1, NoPtr) : n \in {Root, "/n"}}

OddPackets ==
    {Message(2, Root, -1, Arr(<<Str, v>>)) : v \in {Str, <<"binary", Four>>, <<"binary", Plain>>}}
=============================================================================
