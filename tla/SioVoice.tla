------------------------------ MODULE SioVoice ------------------------------
(***************************************************************************)
(* Voice: FCUOpusCoder turns PCM into packets, and a stream of packets     *)
(* into the bytes of an event; the other end goes the way back, to the PCM *)
(* that it puts into a wav (SioWav).  libopus is external: Code names the  *)
(* packet of a frame of samples (0 is silence).                            *)
(***************************************************************************)
EXTENDS SioBytes, SequencesExt, FiniteSetsExt

CONSTANTS Recordings,  \* PCM to be encoded
          FrameSizes,
          Rates,       \* sample rates a coder is set to
          OpusRates,   \* those of them that libopus makes a coder for
          Code,        \* frames -> packets
          Tampers,     \* bytes that a damaged header may have
          MaxCalls     \* bounds the calls of EncodeStream

VARIABLES
    frameSize,   \* FrameSize, of the sender's coder and the receiver's
    rate,        \* SampleRate of the two
    stream,      \* FCUOpusMinimalStream of the sender
    said,        \* history: the frames encoded
    longest,     \* history: the longest frame encoded
    rates,       \* history: the rates they were encoded at
    calls,
    payload,     \* the serialized stream
    damaged,     \* history: it is not what was serialized
    outcome,     \* of Conv_OpusBytesToWav
    decoded      \* the PCM given to SerializeWaveFile

voiceVars == <<frameSize, rate, stream, said, longest, rates, calls, payload, damaged, outcome, decoded>>
wireVars  == <<stream, said, longest, rates, calls>>
coders    == <<frameSize, rate>>

-----------------------------------------------------------------------------
(* FCUOpusCoder.                                                           *)

Silence(n) == [i \in 1..n |-> 0]

\* The final packet is zero padded.
FramesOf(pcm, size) ==
    LET padded == pcm \o Silence((size - (Len(pcm) % size)) % size)
    IN  [i \in 1..(Len(padded) \div size) |-> SubSeq(padded, (i - 1) * size + 1, i * size)]

\* A frame is at least a sample.
ASSUME SizeAssumption   == FrameSizes \subseteq Nat \ {0} /\ MaxCalls \in Nat \ {0}

ASSUME RateAssumption   == OpusRates \subseteq Rates

ASSUME TamperAssumption == Tampers \subseteq Bytes

\* What of libopus the stream relies on: the packets of two frames differ, and one is
\* neither empty nor more than an int16 counts.
ASSUME CodeAssumption ==
    /\ DOMAIN Code \subseteq Seq(Int)
    /\ \A f \in DOMAIN Code : Code[f] \in Seq(Bytes) /\ Len(Code[f]) >= 1 /\ Len(Code[f]) <= 32767
    /\ \A f, g \in DOMAIN Code : Code[f] = Code[g] => f = g

\* It encodes every frame of a recording; and a TArray counts them in an int32.
ASSUME RecordingAssumption ==
    /\ Recordings \subseteq Seq(Int)
    /\ \A pcm \in Recordings, size \in FrameSizes :
          /\ Range(FramesOf(pcm, size)) \subseteq DOMAIN Code
          /\ MaxCalls * Len(FramesOf(pcm, size)) <= MaxCount

\* The sizes take two bytes each: those at odd places are the low ones.
SerializeMinimal(s) ==
    Bytes32(Len(s.sizes))
        \o [k \in 1..(2 * Len(s.sizes)) |-> Bytes16(s.sizes[(k + 1) \div 2])[2 - (k % 2)]]
        \o s.bytes

Refused == [ok |-> FALSE, sizes |-> <<>>, bytes |-> <<>>]

DeserializeMinimal(b) ==
    IF Len(b) < 4 THEN Refused
    ELSE LET count == Int32(b[1], b[2], b[3], b[4])
         IN  IF count < 0 \/ count > (Len(b) - 4) \div 2 THEN Refused
             ELSE [ok |-> TRUE,
                   sizes |-> [i \in 1..count |-> Int16(b[3 + 2 * i], b[4 + 2 * i])],
                   bytes |-> SubSeq(b, 5 + 2 * count, Len(b))]

\* opus_decode of bytes from offset: a packet, an error, or for bytes that are no
\* packet whatever libopus makes of them.
PcmOf(pcm) == [outcome |-> "decoded", pcm |-> pcm]
Failed == [outcome |-> "failed", pcm |-> <<>>]

OpusDecode(bytes, offset, size, room, noise) ==
    IF offset + size > Len(bytes) THEN [outcome |-> "overrun", pcm |-> <<>>]
    ELSE LET packet == SubSeq(bytes, offset + 1, offset + size)
             frames == {f \in DOMAIN Code : Code[f] = packet}
         IN  IF frames = {} THEN IF noise THEN PcmOf(Silence(room)) ELSE Failed
             ELSE LET frame == CHOOSE f \in frames : TRUE
                  IN  IF Len(frame) > room THEN Failed ELSE PcmOf(frame)

\* (mutant) the sizes are trusted.
PacketFitsTrusting(s, frame, offset) == frame \in DOMAIN s.sizes /\ s.sizes[frame] > 0

PacketFits(s, frame, offset) ==
    /\ frame \in DOMAIN s.sizes
    /\ s.sizes[frame] > 0
    /\ offset + s.sizes[frame] <= Len(s.bytes)

\* A round of the loop of DecodeStream.
DecodeRound(s, room, noise, before, frame) ==
    IF before.outcome # "decoded" \/ before.offset = Len(s.bytes) THEN before
    ELSE IF ~PacketFits(s, frame, before.offset) THEN [before EXCEPT !.outcome = "failed"]
    ELSE LET packet == OpusDecode(s.bytes, before.offset, s.sizes[frame], room, noise)
         IN  [outcome |-> packet.outcome,
              pcm     |-> before.pcm \o packet.pcm,
              offset  |-> before.offset + s.sizes[frame]]

\* In the round after the last size, bytes that are left are refused.
DecodeStream(s, room, noise) ==
    LET after[n \in 0..(Len(s.sizes) + 1)] ==
            IF n = 0 THEN [outcome |-> "decoded", pcm |-> <<>>, offset |-> 0]
            ELSE DecodeRound(s, room, noise, after[n - 1], n)
    IN  after[Len(s.sizes) + 1]

-----------------------------------------------------------------------------

\* Coders start alike: 60 ms at 16 kHz.
VoiceInit ==
    /\ frameSize \in [{"sender", "receiver"} -> FrameSizes]
    /\ \E r \in OpusRates : rate = [end \in {"sender", "receiver"} |-> r]
    /\ stream = [sizes |-> <<>>, bytes |-> <<>>]
    /\ said = <<>> /\ longest = 0 /\ rates = {} /\ calls = 0
    /\ payload = <<>> /\ damaged = FALSE
    /\ outcome = "none" /\ decoded = <<>>

\* A new rate comes with a new frame size, and the coder is made anew: of a rate that
\* libopus does not know, there is none.
SetSampleRate(end, newRate, size) ==
    /\ outcome = "none"
    /\ rate' = [rate EXCEPT ![end] = newRate]
    /\ frameSize' = [frameSize EXCEPT ![end] = size]
    /\ UNCHANGED <<wireVars, payload, damaged, outcome, decoded>>

SetFrameSizeMs(end, size) ==
    /\ outcome = "none"
    /\ frameSize' = [frameSize EXCEPT ![end] = size]
    /\ UNCHANGED <<rate, wireVars, payload, damaged, outcome, decoded>>

\* opus_encode may fail at any frame, and leaves those before it; without an encoder
\* there is none.
EncodeStream(pcm) ==
    /\ payload = <<>> /\ calls < MaxCalls
    /\ calls' = calls + 1
    /\ LET frames == FramesOf(pcm, frameSize["sender"])
       IN  \E n \in 0..Len(frames) :
            LET encoded == [i \in 1..n |-> Code[frames[i]]]
            IN  /\ n > 0 => rate["sender"] \in OpusRates
                /\ stream' = [sizes |-> stream.sizes \o [i \in 1..n |-> Len(encoded[i])],
                              bytes |-> stream.bytes \o FlattenSeq(encoded)]
                /\ said' = said \o SubSeq(frames, 1, n)
                /\ longest' = IF n = 0 THEN longest ELSE Max({longest, frameSize["sender"]})
                /\ rates' = IF n = 0 THEN rates ELSE rates \cup {rate["sender"]}
    /\ UNCHANGED <<coders, payload, damaged, outcome, decoded>>

\* Conv_WavBytesToOpus sends what was encoded, also when EncodeStream failed.
Sends ==
    /\ payload = <<>> /\ calls > 0
    /\ payload' = SerializeMinimal(stream)
    /\ UNCHANGED <<coders, wireVars, damaged, outcome, decoded>>

\* A peer that is no FCUOpusCoder: the payload is short, or its header is off.
Damage ==
    /\ payload # <<>> /\ outcome = "none" /\ ~damaged
    /\ damaged' = TRUE
    /\ \/ \E n \in 1..(Len(payload) - 1) : payload' = SubSeq(payload, 1, n)
       \/ \E i \in 1..(4 + 2 * Len(stream.sizes)), b \in Tampers :
             payload' = [payload EXCEPT ![i] = b]
    /\ UNCHANGED <<coders, wireVars, outcome, decoded>>

\* Packets of another rate are resampled to the receiver's, or do not fit its frame.
SameRate == rates \subseteq {rate["receiver"]}

DecodeResults(s, noise) ==
    IF ~s.ok \/ rate["receiver"] \notin OpusRates THEN {Failed}
    ELSE LET result == DecodeStream(s, frameSize["receiver"], noise)
         IN  {[outcome |-> result.outcome, pcm |-> result.pcm]}
                 \cup IF SameRate THEN {} ELSE {Failed, PcmOf(Silence(frameSize["receiver"]))}

\* Conv_OpusBytesToWav; there is no wav without samples.
OpusBytesToWav ==
    /\ payload # <<>> /\ outcome = "none"
    /\ \E noise \in BOOLEAN : \E result \in DecodeResults(DeserializeMinimal(payload), noise) :
          /\ outcome' = result.outcome
          /\ decoded' = IF result.outcome = "decoded" THEN result.pcm ELSE <<>>
    /\ UNCHANGED <<coders, wireVars, payload, damaged>>

VoiceNext ==
    \/ \E end \in {"sender", "receiver"}, size \in FrameSizes :
          SetFrameSizeMs(end, size) \/ \E r \in Rates : SetSampleRate(end, r, size)
    \/ \E pcm \in Recordings : EncodeStream(pcm)
    \/ Sends \/ Damage \/ OpusBytesToWav

VoiceSpec == VoiceInit /\ [][VoiceNext]_voiceVars

-----------------------------------------------------------------------------
(* Properties.                                                             *)

\* What was said is decoded: the samples of every recording of a stream in order,
\* padded to whole frames, unless a byte was damaged or a frame was encoded at
\* another rate than the receiver's (which the stream does not carry).  Decoding
\* fails only for these, for a frame longer than the receiver's, or where libopus
\* makes no decoder.  However the count and the sizes were damaged, no packet is read
\* past the bytes that came.
VoiceArrives ==
    /\ outcome # "overrun"
    /\ outcome = "decoded" => decoded = FlattenSeq(said) \/ damaged \/ ~SameRate
    /\ outcome = "failed" =>
          \/ damaged \/ ~SameRate
          \/ longest > frameSize["receiver"] \/ rate["receiver"] \notin OpusRates
=============================================================================
