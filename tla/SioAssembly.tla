---------------------------- MODULE SioAssembly ----------------------------
(***************************************************************************)
(* packet_manager on the receiving end: a packet is a text payload, and a  *)
(* binary packet waits for its attachments, over a connection that may     *)
(* drop between them.  What is in a payload is for the constant operators, *)
(* the codec; a configuration gives them those of SioPacket.               *)
(***************************************************************************)
EXTENDS Integers, Sequences, SequencesExt

CONSTANTS
    Packets,                \* what the server may send
    CodecHandshake,         \* its first packet on a connection
    CodecPing,
    CodecPayloads(_),       \* a packet as payloads: its text, then its attachments
    CodecAsDecoded(_),      \* a packet as on_decode should see it
    CodecIsTextMessage(_),  \* packet::is_text_message
    CodecParse(_),          \* packet::parse
    CodecFromJson(_, _),    \* from_json
    CodecPassesOn(_),       \* what on_decode passes on of a parsed packet
    MaxPackets,             \* bounds the packets of a connection
    MaxConns                \* bounds the connections

VARIABLES up,       \* the transport is open
          conns,    \* connections so far
          wire,     \* payloads on their way
          sent,     \* history: what the server sent on this connection
          got,      \* history: what on_decode hands on of it
          partial   \* m_partial_packet

packetVars == <<up, conns, wire, sent, got, partial>>

\* packet::parse_buffer.
ParseBuffer(p, t) ==
    LET buffers == Append(p.buffers, t)
    IN  CASE p.pending = 0 -> [p EXCEPT !.more = FALSE]
          [] p.pending = 1 -> [p EXCEPT !.more = FALSE, !.message = CodecFromJson(p.json, buffers)]
          [] OTHER -> [p EXCEPT !.pending = p.pending - 1, !.buffers = buffers]

-----------------------------------------------------------------------------

PacketInit ==
    /\ up = FALSE /\ conns = 0
    /\ wire = <<>> /\ sent = <<>> /\ got = <<>>
    /\ partial = <<>>

\* (mutant) half a packet survives the connection.
ConnectsUnreset ==
    /\ ~up /\ conns < MaxConns
    /\ up' = TRUE /\ conns' = conns + 1
    /\ wire' = CodecPayloads(CodecHandshake)
    /\ sent' = <<CodecAsDecoded(CodecHandshake)>> /\ got' = <<>>
    /\ UNCHANGED partial

\* connect() and timeout_reconnect reset the states; the server opens with its
\* handshake.
Connects ==
    /\ ~up /\ conns < MaxConns
    /\ up' = TRUE /\ conns' = conns + 1
    /\ partial' = <<>>
    /\ wire' = CodecPayloads(CodecHandshake)
    /\ sent' = <<CodecAsDecoded(CodecHandshake)>> /\ got' = <<>>

ServerSends(p) ==
    /\ up /\ Len(sent) <= MaxPackets
    /\ wire' = wire \o CodecPayloads(p)
    /\ sent' = Append(sent, CodecAsDecoded(p))
    /\ UNCHANGED <<up, conns, got, partial>>

\* on_message and packet_manager::put_payload.
PutPayload ==
    /\ up /\ wire # <<>>
    /\ wire' = Tail(wire)
    /\ LET t == Head(wire)
           p == IF ~CodecIsTextMessage(t) /\ partial # <<>> /\ t # <<>>
                THEN ParseBuffer(partial[1], t) ELSE CodecParse(t)
       IN  /\ got' = IF p.more THEN got ELSE got \o CodecPassesOn(p)
           /\ partial' = CASE p.more -> <<p>>
                           [] ~p.more /\ ~CodecIsTextMessage(t) /\ t # <<>> -> <<>>
                           [] OTHER -> partial
    /\ UNCHANGED <<up, conns, sent>>

\* The transport drops, with whatever was on its way.
Drops ==
    /\ up
    /\ up' = FALSE /\ wire' = <<>>
    /\ UNCHANGED <<conns, sent, got, partial>>

PacketNext ==
    \/ Connects \/ PutPayload \/ Drops
    \/ \E p \in Packets \cup {CodecPing} : ServerSends(p)

PacketSpec == PacketInit /\ [][PacketNext]_packetVars

-----------------------------------------------------------------------------
(* Properties.                                                             *)

\* What the application gets is what the server sent, in order and whole: text and
\* attachments find each other again, the values survive the conversions both
\* ways, and half a packet of a dropped connection never meets the payloads of the
\* next one.
Delivered ==
    /\ IsPrefix(got, sent)
    /\ up /\ wire = <<>> => got = sent

-----------------------------------------------------------------------------
(* What Delivered asks of the codec, one packet at a time.                 *)

ParsedFields == {"frame", "type", "nsp", "id", "message", "more", "json", "pending", "buffers"}

\* A packet without attachments is parsed as what it is.
DecodesPlain(p) ==
    LET s == CodecPayloads(p)
    IN  /\ Len(s) = 1
        /\ ~CodecParse(s[1]).more
        /\ CodecPassesOn(CodecParse(s[1])) = <<CodecAsDecoded(p)>>

\* The text of one with attachments waits for all of them, none of them looks
\* like a text, and with them in order it is decoded as what it is.
DecodesBinary(p) ==
    LET s == CodecPayloads(p)
        q == CodecParse(s[1])
    IN  /\ Len(s) > 1
        /\ CodecIsTextMessage(s[1])
        /\ \A i \in 2..Len(s) : ~CodecIsTextMessage(s[i])
        /\ q = [f \in ParsedFields |-> q[f]]
        /\ q.more /\ q.pending = Len(s) - 1 /\ q.buffers = <<>>
        /\ CodecPassesOn([q EXCEPT !.more = FALSE, !.pending = 1,
                             !.buffers = SubSeq(s, 2, Len(s) - 1),
                             !.message = CodecFromJson(q.json, Tail(s))]) = <<CodecAsDecoded(p)>>

\* And no payload is empty.
Decodes(p) ==
    /\ CodecPayloads(p) \in Seq(Range(CodecPayloads(p)) \ {<<>>})
    /\ DecodesPlain(p) \/ DecodesBinary(p)

CodecDecodes == \A p \in Packets \cup {CodecHandshake, CodecPing} : Decodes(p)
=============================================================================
