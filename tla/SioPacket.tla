----------------------------- MODULE SioPacket -----------------------------
(***************************************************************************)
(* What an event is on the wire: USIOMessageConvert (JSON values of the    *)
(* engine to sio::message and back), packet (text with placeholders, and   *)
(* attachments) and packet_manager, which puts a binary packet together    *)
(* over several payloads of a connection that may drop between them.       *)
(*                                                                         *)
(* A value is a tuple that starts with its kind.  A payload is a sequence  *)
(* of tokens, each for the characters that packet::parse looks for.  The   *)
(* server, which is external, writes what packet::accept writes, with the  *)
(* numbers of a JavaScript program.                                        *)
(***************************************************************************)
EXTENDS SioAssembly

CONSTANTS Fractions,    \* numbers that are not whole
          Wide          \* whole numbers from 2^63 to 2^64

-----------------------------------------------------------------------------
(* Values.  FJsonValue: number, string, binary, boolean, null, array,      *)
(* object.  sio::message: integer and double for the numbers, and NoPtr    *)
(* for an empty message::ptr.  JSON text: int64, uint64, double; a binary  *)
(* is an object with a placeholder.                                        *)

NoPtr == <<"ptr">>

\* The names of object members in the byte order of std::map.
KeyOrder == <<"_placeholder", "a", "b", "num">>

RECURSIVE ToSIOMessage(_), ToJsonValue(_), AcceptMessage(_, _), FromJson(_, _),
          ServerPrints(_)

\* USIOMessageConvert::ToSIOMessage.
ToSIOMessage(v) ==
    CASE v[1] = "number" -> <<"double", v[2]>>
      [] v[1] \in {"array", "object"} -> <<v[1], [k \in DOMAIN v[2] |-> ToSIOMessage(v[2][k])]>>
      [] OTHER -> v

\* USIOMessageConvert::ToJsonValue.
ToJsonValue(m) ==
    CASE m[1] \in {"integer", "double"} -> <<"number", m[2]>>
      [] m[1] \in {"array", "object"} -> <<m[1], [k \in DOMAIN m[2] |-> ToJsonValue(m[2][k])]>>
      [] m = NoPtr -> <<"null">>
      [] OTHER -> m

Placeholder(n) ==
    <<"object", [k \in {"_placeholder", "num"} |->
                    IF k = "num" THEN <<"int64", n>> ELSE <<"boolean", TRUE>>]>>

\* accept_message: the JSON text, and the buffers with those of the message
\* appended in the order of the traversal.
AcceptMessage(m, buffers) ==
    CASE m[1] = "binary" -> <<Placeholder(Len(buffers)), Append(buffers, m[2])>>
      [] m[1] = "integer" -> << <<"int64", m[2]>>, buffers >>
      [] m[1] \in {"array", "object"} ->
            LET members == IF m[1] = "array" THEN [i \in DOMAIN m[2] |-> i]
                           ELSE SelectSeq(KeyOrder, LAMBDA k : k \in DOMAIN m[2])
                done[n \in 0..Len(members)] ==
                    IF n = 0 THEN << <<>>, buffers >>
                    ELSE LET child == AcceptMessage(m[2][members[n]], done[n - 1][2])
                         IN  <<Append(done[n - 1][1], child[1]), child[2]>>
                all == done[Len(members)]
            IN  << <<m[1], [k \in DOMAIN m[2] |->
                               all[1][CHOOSE n \in DOMAIN members : members[n] = k]]>>, all[2] >>
      [] OTHER -> <<m, buffers>>

IsPlaceholder(j) ==
    j[1] = "object" /\ "_placeholder" \in DOMAIN j[2] /\ j[2]["_placeholder"] = <<"boolean", TRUE>>

\* from_json.  A number that only fits uint64_t is none of its cases.
FromJson(j, buffers) ==
    CASE j[1] = "int64" -> <<"integer", j[2]>>
      [] j[1] = "uint64" -> NoPtr
      [] IsPlaceholder(j) ->
            LET n == j[2]["num"][2]
            IN  IF n \in 0..(Len(buffers) - 1) THEN <<"binary", buffers[n + 1]>> ELSE NoPtr
      [] j[1] \in {"array", "object"} /\ ~IsPlaceholder(j) ->
            <<j[1], [k \in DOMAIN j[2] |-> FromJson(j[2][k], buffers)]>>
      [] OTHER -> j

\* JavaScript has one type of number, and prints whole ones without a point.
ServerPrints(j) ==
    CASE j[1] = "double" -> <<IF j[2] \in Fractions THEN "double"
                              ELSE IF j[2] \in Wide THEN "uint64" ELSE "int64", j[2]>>
      [] j[1] \in {"array", "object"} -> <<j[1], [k \in DOMAIN j[2] |-> ServerPrints(j[2][k])]>>
      [] OTHER -> j

-----------------------------------------------------------------------------
(* Packets and their payloads.                                             *)

Frame == [open |-> 0, close |-> 1, ping |-> 2, message |-> 4]
Type  == [connect |-> 0, disconnect |-> 1, event |-> 2, ack |-> 3, error |-> 4,
          binary_event |-> 5, binary_ack |-> 6]

Root  == "/"
Digits(n) == <<"digits", n>>
Comma == <<"char", ",">>
Dash  == <<"char", "-">>

\* packet::accept of a packet of JSON value p.value, and its attachments.
Accept(p) ==
    LET has     == p.value # NoPtr
        encoded == IF has THEN AcceptMessage(ToSIOMessage(p.value), <<>>) ELSE <<NoPtr, <<>>>>
        buffers == encoded[2]
        binary  == buffers # <<>>
        type    == CASE binary /\ p.type = Type.event -> Type.binary_event
                     [] binary /\ p.type = Type.ack -> Type.binary_ack
                     [] OTHER -> p.type
        If(c, s) == IF c THEN s ELSE <<>>
    IN  IF p.frame # Frame.message
        THEN << <<Digits(p.frame)>> \o If(has, << <<"json", encoded[1]>> >>), <<>> >>
        ELSE << <<Digits(p.frame), Digits(type)>>
                  \o If(binary, <<Digits(Len(buffers)), Dash>>)
                  \o If(p.nsp # Root, << <<"nsp", p.nsp>> >> \o If(has \/ p.id >= 0, <<Comma>>))
                  \o If(p.id >= 0, <<Digits(p.id)>>)
                  \o If(has, << <<"json", encoded[1]>> >>),
                buffers >>

\* What parse() leaves: json waits for "pending" buffers if more is set.
Parsed(frame, type, nsp, id, message) ==
    [frame |-> frame, type |-> type, nsp |-> nsp, id |-> id, message |-> message,
     more |-> FALSE, json |-> NoPtr, pending |-> 0, buffers |-> <<>>]

FirstOf(t, from, kinds) == SelectInSubSeq(t, from, Len(t), LAMBDA token : token[1] \in kinds)

\* packet::parse.
Parse(t) ==
    LET frame  == IF t = <<>> \/ t[1][1] # "digits" THEN -1 ELSE t[1][2]
        typed  == Len(t) > 1 /\ t[2][1] = "digits" /\ t[2][2] \in 0..6
        type   == IF frame = Frame.message THEN t[2][2] ELSE -1
        binary == type \in {Type.binary_event, Type.binary_ack}
        from   == IF frame # Frame.message THEN 2 ELSE IF binary THEN 5 ELSE 3
        start  == FirstOf(t, from, {"nsp", "json"})
        comma  == SelectInSeq(t, LAMBDA token : token = Comma)
        inNsp  == t[start][1] = "nsp"
        nsp    == IF inNsp THEN t[start][2] ELSE Root
        first  == IF inNsp THEN comma + 1 ELSE from
        json   == FirstOf(t, first, {"json"})
        id     == IF first < json THEN t[first][2] ELSE -1
    IN  IF frame = Frame.message /\ ~typed THEN Parsed(frame, -1, "", -1, NoPtr)
        ELSE IF start = 0 THEN Parsed(frame, type, Root, -1, NoPtr)
        ELSE IF (inNsp /\ comma = 0) \/ json = 0 THEN Parsed(frame, type, nsp, -1, NoPtr)
        ELSE IF binary
             THEN [Parsed(frame, type, nsp, id, NoPtr) EXCEPT
                      !.more = TRUE, !.json = t[json][2], !.pending = t[3][2]]
        ELSE Parsed(frame, type, nsp, id, FromJson(t[json][2], <<>>))

IsTextMessage(t) == t # <<>> /\ t[1] = Digits(Frame.message)

-----------------------------------------------------------------------------

\* on_decode passes on a message of a namespace, the handshake, a close and a ping.
Decoded(p) ==
    IF p.frame \notin {0, 1, 2, 4} \/ p.nsp = "" THEN <<>>
    ELSE << [frame |-> p.frame, type |-> p.type, nsp |-> p.nsp, id |-> p.id,
             value |-> IF p.message = NoPtr THEN NoPtr ELSE ToJsonValue(p.message)] >>

Handshake == [frame |-> Frame.open, type |-> -1, nsp |-> Root, id |-> -1,
              value |-> <<"object", [k \in {"a"} |-> <<"string", "sid">>]>>]
Ping      == [frame |-> Frame.ping, type |-> -1, nsp |-> Root, id |-> -1, value |-> NoPtr]

\* The server sends a packet: its text, and its attachments right behind it.
Payloads(p) ==
    LET accepted == Accept(p)
        text     == [i \in DOMAIN accepted[1] |->
                        IF accepted[1][i][1] = "json"
                        THEN <<"json", ServerPrints(accepted[1][i][2])>> ELSE accepted[1][i]]
    IN  <<text>> \o accepted[2]

\* The type on_decode sees: a packet with attachments has one of its own.
AsDecoded(p) == IF Accept(p)[2] = <<>> THEN p
                ELSE [p EXCEPT !.type = IF p.type = Type.event THEN Type.binary_event
                                        ELSE Type.binary_ack]

-----------------------------------------------------------------------------
(* A property of the connection of SioAssembly over this codec.            *)

\* README, Binary: "any arrays of bytes can be embedded and decoded in the chain as
\* expected".
BytesArrive ==
    up /\ wire = <<>> =>
        \A i \in DOMAIN sent :
            sent[i].type \in {Type.binary_event, Type.binary_ack} =>
                \E j \in DOMAIN got : got[j] = sent[i]
=============================================================================
