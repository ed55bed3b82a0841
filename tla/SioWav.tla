------------------------------- MODULE SioWav -------------------------------
(***************************************************************************)
(* Wav files: SerializeWaveFile of the engine writes one for               *)
(* Conv_OpusBytesToWav and Conv_PCMToWav, other programs edit it, and      *)
(* ConvertWavToPCM, a Blueprint node, opens what it is given.  A file is   *)
(* its bytes, and offsets are counted from 0 as in the code.               *)
(***************************************************************************)
EXTENDS SioBytes, SequencesExt, FiniteSetsExt

CONSTANTS Sounds,       \* PCM to be written
          SampleRates,
          Contents,     \* of the chunks that other programs add
          Sizes,        \* that they write for the data instead of its own
          MaxChunks     \* bounds those chunks

VARIABLES
    chunks,   \* of the file: <<name, size, content>>
    left,     \* how many bytes of it are left
    edited,   \* history: what was done to it
    written,  \* history: the rate and PCM given to SerializeWaveFile
    read,     \* the result of ConvertWavToPCM
    heard     \* OutSampleRate and OutPCMData

wavVars == <<chunks, left, edited, written, read, heard>>

-----------------------------------------------------------------------------
(* Files.                                                                  *)

Letters == [ RIFF |-> <<82, 73, 70, 70>>, WAVE |-> <<87, 65, 86, 69>>,
             fmt  |-> <<102, 109, 116, 32>>, data |-> <<100, 97, 116, 97>>,
             LIST |-> <<76, 73, 83, 84>> ]

\* 16 bit PCM of one channel.
Format(sampleRate) ==
    Bytes16(1) \o Bytes16(1) \o Bytes32(sampleRate) \o Bytes32(2 * sampleRate) \o Bytes16(2) \o Bytes16(16)

\* An odd content is padded.
ChunkBytes(chunk) ==
    Letters[chunk[1]] \o Bytes32(chunk[2]) \o chunk[3]
        \o (IF Len(chunk[3]) % 2 = 1 THEN <<0>> ELSE <<>>)

WholeFile ==
    LET body == FlattenSeq([i \in DOMAIN chunks |-> ChunkBytes(chunks[i])])
    IN  Letters.RIFF \o Bytes32(4 + Len(body)) \o Letters.WAVE \o body

File == SubSeq(WholeFile, 1, left)

Position(name) == CHOOSE i \in DOMAIN chunks : chunks[i][1] = name

Spells(bytes, name) == \E k \in 1..(Len(bytes) - 3) : SubSeq(bytes, k, k + 3) = name

\* Samples of 16 bits.
ASSUME SoundAssumption ==
    /\ Sounds \subseteq Seq(Bytes) \ {<<>>} /\ \A pcm \in Sounds : Len(pcm) % 2 = 0
    /\ Contents \subseteq Seq(Bytes)

-----------------------------------------------------------------------------
(* ConvertWavToPCM.                                                        *)


\* The search goes byte by byte, whatever chunk they are of, until eight are left, and
\* then takes those.
FindName(w, name, from) ==
    LET found == {k \in from..(Len(w) - 9) : SubSeq(w, k + 1, k + 4) = name}
    IN  IF found # {} THEN Min(found) ELSE Max({from, Len(w) - 8})

Word16(w, at) == Int16(w[at + 1], w[at + 2])
Word32(w, at) == Int32(w[at + 1], w[at + 2], w[at + 3], w[at + 4])

NoSound == [rate |-> 0, pcm |-> <<>>]

\* A negative size passes the check and goes to TArray::Append, and a large one wraps
\* around in it: what either does is undefined.
ConvertWavToPCM(w) ==
    LET fmt  == FindName(w, Letters.fmt, 12)
        data == FindName(w, Letters.data, fmt + 24)
        size == Word32(w, data + 4)
    IN  IF \/ Len(w) < 44
           \/ SubSeq(w, 1, 4) # Letters.RIFF \/ SubSeq(w, 9, 12) # Letters.WAVE
           \/ fmt + 24 > Len(w) \/ Word16(w, fmt + 8) # 1
           \/ data + 8 > Len(w)
        THEN [read |-> "refused", heard |-> NoSound]
        ELSE IF size < 0 \/ size > MaxCount - (data + 8)
        THEN [read |-> "undefined", heard |-> NoSound]
        ELSE IF data + 8 + size > Len(w)
        THEN [read |-> "refused", heard |-> NoSound]
        ELSE [read |-> "opened",
              heard |-> [rate |-> Word32(w, fmt + 12), pcm |-> SubSeq(w, data + 9, data + 8 + size)]]

-----------------------------------------------------------------------------

WavInit ==
    /\ chunks = <<>> /\ left = 0 /\ edited = {}
    /\ written = NoSound /\ read = "none" /\ heard = NoSound

\* It asserts that there are samples.
SerializeWaveFile(pcm, sampleRate) ==
    /\ chunks = <<>>
    /\ chunks' = << <<"fmt", 16, Format(sampleRate)>>, <<"data", Len(pcm), pcm>> >>
    /\ left' = 44 + Len(pcm)
    /\ written' = [rate |-> sampleRate, pcm |-> pcm]
    /\ UNCHANGED <<edited, read, heard>>

\* Another program adds a chunk.  It may spell the name that is searched for there.
AddChunk(at, content) ==
    /\ left > 0 /\ left = Len(WholeFile) /\ read = "none" /\ Len(chunks) < 2 + MaxChunks
    /\ LET chunk == <<"LIST", Len(content), content>>
           meets == IF at <= Position("fmt") THEN Letters.fmt ELSE Letters.data
       IN  /\ chunks' = InsertAt(chunks, at, chunk)
           /\ left' = left + Len(ChunkBytes(chunk))
           /\ edited' = edited \cup IF at <= Position("data") /\ Spells(ChunkBytes(chunk), meets)
                                    THEN {"spelled"} ELSE {}
    /\ UNCHANGED <<written, read, heard>>

\* It streams, and does not know the size when it writes it.
Streams(size) ==
    /\ left > 0 /\ read = "none" /\ "size" \notin edited
    /\ chunks' = [chunks EXCEPT ![Position("data")][2] = size]
    /\ edited' = edited \cup {"size"}
    /\ UNCHANGED <<left, written, read, heard>>

\* Its samples are no integers.
Reformats ==
    /\ left > 0 /\ read = "none" /\ "format" \notin edited
    /\ chunks' = [chunks EXCEPT ![Position("fmt")][3][1] = 3]
    /\ edited' = edited \cup {"format"}
    /\ UNCHANGED <<left, written, read, heard>>

Cut(n) ==
    /\ left > 0 /\ read = "none" /\ "cut" \notin edited
    /\ left' = n
    /\ edited' = edited \cup {"cut"}
    /\ UNCHANGED <<chunks, written, read, heard>>

Opens ==
    /\ left > 0 /\ read = "none"
    /\ LET result == ConvertWavToPCM(File)
       IN  read' = result.read /\ heard' = result.heard
    /\ UNCHANGED <<chunks, left, edited, written>>

WavNext ==
    \/ \E pcm \in Sounds, r \in SampleRates : SerializeWaveFile(pcm, r)
    \/ \E at \in 1..(Len(chunks) + 1), content \in Contents : AddChunk(at, content)
    \/ \E size \in Sizes : Streams(size)
    \/ Reformats
    \/ \E n \in 1..(left - 1) : Cut(n)
    \/ Opens

WavSpec == WavInit /\ [][WavNext]_wavVars

-----------------------------------------------------------------------------
(* Properties.                                                             *)

=============================================================================
