SPECIFICATION PartsSpec
CONSTANTS
    \* SioPacket
    Packets <- SomePackets
    CodecHandshake <- Handshake
    CodecPing <- Ping
    CodecPayloads <- Payloads
    CodecAsDecoded <- AsDecoded
    CodecIsTextMessage <- IsTextMessage
    CodecParse <- Parse
    CodecFromJson <- FromJson
    CodecPassesOn <- Decoded
    Fractions = {8}
    Wide = {9}
    MaxPackets = 2
    MaxConns = 2
    \* SioConvert
    Samples <- SomeSamples
    EnumNames <- Names
    \* WsNative
    Conns = {s1, s2, s3}
    NoConn = NoConn
    MaxConnects = 3
    MaxPosted = 3
    \* SioVoice
    Recordings <- SomeRecordings
    FrameSizes = {1, 2}
    Rates = {8, 16, 44}
    OpusRates = {8, 16}
    Code <- SomeCode
    Tampers = {0, 3, 255}
    MaxCalls = 2
    \* SioWav
    Sounds <- SomeSounds
    SampleRates = {16000}
    Contents <- SomeContents
    Sizes <- SomeSizes
    MaxChunks = 2
    \* SioEvents
    Namespaces = {r, s}
    EventNames = {e, f}
    Bindings = {b1, b2}
    Unbound = Unbound
    Raw = Raw
INVARIANTS
    Delivered
    StructSurvives
    StatusSettles
    VoiceArrives
    
    BindingsAgree
CHECK_DEADLOCK FALSE
