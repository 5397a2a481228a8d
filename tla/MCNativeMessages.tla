------------------------- MODULE MCNativeMessages --------------------------
(* A small instance of NativeMessages: two messages in one chat and one     *)
(* dispatch at a time.                                                      *)
EXTENDS NativeMessages

CONSTANTS m1, m2, d1, d2

=============================================================================
