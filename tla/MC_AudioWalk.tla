----------------------------- MODULE MC_AudioWalk -----------------------------
(***************************************************************************)
(* Constants for checking the decoding of one SAD against every value of   *)
(* bytes 0 and 2 (which hold the format code, the extended format code,   *)
(* the channel count and the format-specific flags) and a few values of    *)
(* byte 1 that set each sample rate flag and bit 7.                        *)
(***************************************************************************)
EXTENDS AudioWalk

\* Every byte value.
AllBytes == 0..255

\* 0x00, 0x2A, 0x55 and 0xFF: every flag bit of byte 1 is set by some value
\* and clear by another; 0xFF also sets bit 7 (the L-PCM 3D channel bit).
SomeByte1Values == {0, 42, 85, 255}

=============================================================================
