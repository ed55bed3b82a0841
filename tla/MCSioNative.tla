---------------------------- MODULE MCSioNative ----------------------------
(* SioNative with its auths and its plain addresses interchangeable. *)
EXTENDS SioNative, TLC

Symmetry == Permutations(Auths) \cup Permutations(Urls \ TlsUrls)
=============================================================================
