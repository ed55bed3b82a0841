---------------------------- MODULE MCSioVoice ----------------------------
EXTENDS SioVoice

SomeRecordings == {<<>>, <<1, 1, 0>>}
SomeFrames     == UNION {[1..n -> {0, 1}] : n \in 1..2}

\* Loud frames take more bytes; the first sample is in the first byte.
SomeCode ==
    [f \in SomeFrames |->
        <<10 * Len(f) + f[1]>> \o (IF f[Len(f)] = 1 THEN <<Len(f), f[1]>> ELSE <<>>)]
=============================================================================
