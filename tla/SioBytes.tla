------------------------------ MODULE SioBytes ------------------------------
(* Numbers in the bytes of a file or an event: little endian.              *)
EXTENDS Integers, Sequences

Bytes    == 0..255
MaxCount == 2147483647

\* The highest byte has the sign.
Signed(byte) == IF byte > 127 THEN byte - 256 ELSE byte
Bytes16(n)   == <<n % 256, (n \div 256) % 256>>
Bytes32(n)   == <<n % 256, (n \div 256) % 256, (n \div 65536) % 256, (n \div 16777216) % 256>>
Int16(a, b)       == a + 256 * Signed(b)
Int32(a, b, c, d) == a + 256 * (b + 256 * (c + 256 * Signed(d)))
=============================================================================
