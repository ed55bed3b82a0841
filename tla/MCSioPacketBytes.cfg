SPECIFICATION PacketSpec
CONSTANTS
    Packets <- OddPackets
    CodecHandshake <- Handshake
    CodecPing <- Ping
    CodecPayloads <- Payloads
    CodecAsDecoded <- AsDecoded
    CodecIsTextMessage <- IsTextMessage
    CodecParse <- Parse
    CodecFromJson <- FromJson
    CodecPassesOn <- Decoded
    Fractions = {8}
    Wide = {9}
    MaxPackets = 2
    MaxConns = 1
INVARIANTS
    BytesArrive
CHECK_DEADLOCK FALSE
