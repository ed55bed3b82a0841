------------------------------ MODULE MCSioWav ------------------------------
EXTENDS SioWav

\* The samples spell a name themselves.
SomeSounds == { <<100, 97, 116, 97, 0, 255>> }

\* A padded one, one that is a negative number, and two that spell a name.
SomeContents == { <<7>>, <<200, 200, 200, 200>>, <<102, 109, 116, 32, 1, 0>>, <<1, 100, 97, 116, 97, 9>> }

SomeSizes == {0, -1, MaxCount}
=============================================================================
