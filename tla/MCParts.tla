------------------------------- MODULE MCParts -------------------------------
(***************************************************************************)
(* Parts of the plugin that share no state, checked side by side: a        *)
(* behaviour is one of one part, and the others stay where they start.     *)
(***************************************************************************)
EXTENDS MCSioPacket, MCSioConvert, WsNative, MCSioVoice, MCSioWav, SioEvents

\* What the proof about Delivered asks of the codec, of the packets used here.
ASSUME CodecAssumption == CodecDecodes

VARIABLE part

packetState == <<up, conns, wire, sent, got, partial>>
partsVars == <<part, packetState, convertVars, wsVars, voiceVars, wavVars, eventVars>>

\* One initial state stands for the parts that do not move.
PartsInit ==
    /\ part \in {"packet", "convert", "websocket", "voice", "wav", "events"}
    /\ PacketInit
    /\ IF part = "convert" THEN ConvertInit
       ELSE /\ sample = Null /\ target = Null /\ old = Null /\ json = Null
            /\ changed = <<0, "none">> /\ route = "none" /\ result = "none"
    /\ WsNativeInit
    /\ VoiceInit /\ (part # "voice" => \A e \in DOMAIN rate : frameSize[e] = 1 /\ rate[e] = 16)
    /\ WavInit
    /\ EventsInit

PartsNext ==
    /\ part' = part
    /\ \/ /\ part = "packet" /\ PacketNext
          /\ UNCHANGED <<convertVars, wsVars, voiceVars, wavVars, eventVars>>
       \/ /\ part = "convert" /\ ConvertNext
          /\ UNCHANGED <<packetState, wsVars, voiceVars, wavVars, eventVars>>
       \/ /\ part = "websocket" /\ WsNativeNext
          /\ UNCHANGED <<packetState, convertVars, voiceVars, wavVars, eventVars>>
       \/ /\ part = "voice" /\ VoiceNext
          /\ UNCHANGED <<packetState, convertVars, wsVars, wavVars, eventVars>>
       \/ /\ part = "wav" /\ WavNext
          /\ UNCHANGED <<packetState, convertVars, wsVars, voiceVars, eventVars>>
       \/ /\ part = "events" /\ EventsNext
          /\ UNCHANGED <<packetState, convertVars, wsVars, voiceVars, wavVars>>

PartsSpec == PartsInit /\ [][PartsNext]_partsVars
=============================================================================
