------------------------------ MODULE SadDecode ------------------------------
(***************************************************************************)
(* The decoding of one Short Audio Descriptor (cta.c, parse_sad_format and *)
(* parse_sad): the three bytes of a SAD to its format and to the fields    *)
(* and sub-records of struct di_cta_sad (include/libdisplay-info/cta.h).   *)
(*                                                                         *)
(* A decoded SAD keeps its format, max_channels, the set of sample rates  *)
(* whose flag is set, max_bitrate_kbs, the set of its optional            *)
(* sub-records that are non-NULL, the two MAT flags, the MPEG-H 3D level   *)
(* and the WMA Pro profile.  The flags inside the other sub-records are   *)
(* single bit copies and are left out; the reserved-bit complaints only   *)
(* log and are left out.                                                   *)
(***************************************************************************)
EXTENDS CtaBlocks

\* The result of parse_sad_format when it returns false.
NoFormat == "none"

\* enum di_cta_audio_format for format codes 0x1..0xE (cta.c:145-187).
CodeFormat == <<"LPCM", "AC3", "MPEG1", "MP3", "MPEG2", "AAC_LC", "DTS",
                "ATRAC", "ONE_BIT_AUDIO", "ENHANCED_AC3", "DTS_HD", "MAT",
                "DST", "WMA_PRO">>

\* parse_sad_format: the format code is bits 6..3 of byte 0; code 0xF
\* selects an extended format code from bits 7..3 of byte 2.
SadFormat(b0, b2) ==
    LET code == GetBitRange(b0, 6, 3)
        ext  == GetBitRange(b2, 7, 3)
    IN  CASE code \in 1..14 -> CodeFormat[code]
          [] code = 15 ->
               CASE ext = 4  -> "MPEG4_HE_AAC"
                 [] ext = 5  -> "MPEG4_HE_AAC_V2"
                 [] ext = 6  -> "MPEG4_AAC_LC"
                 [] ext = 7  -> "DRA"
                 [] ext = 8  -> "MPEG4_HE_AAC_MPEG_SURROUND"
                 [] ext = 10 -> "MPEG4_AAC_LC_MPEG_SURROUND"
                 [] ext = 11 -> "MPEGH_3D"
                 [] ext = 12 -> "AC4"
                 [] ext = 13 -> "LPCM_3D"
                 [] OTHER    -> NoFormat
          [] OTHER -> NoFormat

Formats == {CodeFormat[c] : c \in 1..14} \cup
           {"MPEG4_HE_AAC", "MPEG4_HE_AAC_V2", "MPEG4_AAC_LC", "DRA",
            "MPEG4_HE_AAC_MPEG_SURROUND", "MPEG4_AAC_LC_MPEG_SURROUND",
            "MPEGH_3D", "AC4", "LPCM_3D"}

\* The families the switches of parse_sad group the formats into.
Classic  == {CodeFormat[c] : c \in 1..14}
MpegSurround == {"MPEG4_HE_AAC_MPEG_SURROUND", "MPEG4_AAC_LC_MPEG_SURROUND"}
Mpeg4Aac == {"MPEG4_HE_AAC", "MPEG4_HE_AAC_V2", "MPEG4_AAC_LC"}
              \cup MpegSurround

\* max_channels (cta.c:270-300): bits 2..0 of byte 0 plus one; L-PCM 3D
\* extends them with bit 7 of byte 0 and bit 7 of byte 1; MPEG-H 3D and
\* AC-4 leave it zero.
MaxChannels(f, b0, b1) ==
    CASE f \in Classic \cup Mpeg4Aac \cup {"DRA"} -> GetBitRange(b0, 2, 0) + 1
      [] f = "LPCM_3D" -> GetBitRange(b0, 2, 0) + 8 * GetBitRange(b0, 7, 7)
                            + 16 * GetBitRange(b1, 7, 7) + 1
      [] OTHER -> 0

\* The sample rate of flag bit k of byte 1 (struct di_cta_sad_sample_rates).
RateOfBit == <<"32", "44.1", "48", "88.2", "96", "176.4", "192">>

\* A plausible bug: the MPEG-4 AAC family falls into the full layout.
SampleRateBitsFull(f) ==
    CASE f \in Classic \cup {"DRA", "MPEGH_3D", "LPCM_3D"} \cup Mpeg4Aac
            -> 0..6
      [] f = "AC4" -> {1, 2, 4, 6}

\* The bits of byte 1 parse_sad reads as sample rate flags (cta.c:302-345):
\* 192 and 176.4 kHz, then the five lower rates by fallthrough, for the
\* classic formats, DRA, MPEG-H 3D and L-PCM 3D; the five lower rates only
\* for the MPEG-4 AAC family; four scattered rates for AC-4.
SampleRateBits(f) ==
    CASE f \in Classic \cup {"DRA", "MPEGH_3D", "LPCM_3D"} -> 0..6
      [] f \in Mpeg4Aac -> 0..4
      [] f = "AC4" -> {1, 2, 4, 6}

SampleRates(f, b1) ==
    {RateOfBit[k + 1] : k \in {k \in SampleRateBits(f) : HasBit(b1, k)}}

\* max_bitrate_kbs (cta.c:348-359): byte 2 times 8 for AC-3 to ATRAC.
MaxBitrate(f, b2) ==
    IF f \in {"AC3", "MPEG1", "MP3", "MPEG2", "AAC_LC", "DTS", "ATRAC"}
      THEN b2 * 8 ELSE 0

\* A plausible bug: the L-PCM sub-record is set for L-PCM only.
SubRecordsNoLpcm3d(f) ==
    {s \in {"lpcm"} : f = "LPCM"}
      \cup {s \in {"mpeg_aac"} : f \in Mpeg4Aac}
      \cup {s \in {"mpeg_aac_le"} : f = "MPEG4_AAC_LC"}
      \cup {s \in {"mpeg_surround"} : f \in MpegSurround}
      \cup {s \in {"mpegh_3d"} : f = "MPEGH_3D"}
      \cup {s \in {"enhanced_ac3"} : f = "ENHANCED_AC3"}
      \cup {s \in {"mat"} : f = "MAT"}
      \cup {s \in {"wma_pro"} : f = "WMA_PRO"}

\* The optional sub-records parse_sad points to (cta.c:361-435), one
\* switch or if per sub-record.
SubRecords(f) ==
    {s \in {"lpcm"} : f \in {"LPCM", "LPCM_3D"}}
      \cup {s \in {"mpeg_aac"} : f \in Mpeg4Aac}
      \cup {s \in {"mpeg_aac_le"} : f = "MPEG4_AAC_LC"}
      \cup {s \in {"mpeg_surround"} : f \in MpegSurround}
      \cup {s \in {"mpegh_3d"} : f = "MPEGH_3D"}
      \cup {s \in {"enhanced_ac3"} : f = "ENHANCED_AC3"}
      \cup {s \in {"mat"} : f = "MAT"}
      \cup {s \in {"wma_pro"} : f = "WMA_PRO"}

\* The MAT flags (cta.c:423-429); both stay false from calloc unless the
\* format is MAT, and requires_hash_calculation is written only when the
\* first flag is set, from the same bit.
MatFlags(f, b2) ==
    LET supports == f = "MAT" /\ HasBit(b2, 0)
    IN  [supports |-> supports,
         requires |-> IF supports THEN ~HasBit(b2, 0) ELSE FALSE]

\* The MPEG-H 3D level (cta.c:404-414): bits 2..0 of byte 0; values above
\* DI_CTA_SAD_MPEGH_3D_LEVEL_5 become LEVEL_UNSPECIFIED (0).
MpeghLevel(f, b0) ==
    IF f = "MPEGH_3D"
      THEN IF GetBitRange(b0, 2, 0) > 5 THEN 0 ELSE GetBitRange(b0, 2, 0)
      ELSE 0

\* The WMA Pro profile (cta.c:431-434): bits 2..0 of byte 2.
WmaProfile(f, b2) == IF f = "WMA_PRO" THEN GetBitRange(b2, 2, 0) ELSE 0

\* The record parse_sad stores for a SAD of known format f.
ParseSad(f, b0, b1, b2) ==
    [format       |-> f,
     max_channels |-> MaxChannels(f, b0, b1),
     rates        |-> SampleRates(f, b1),
     bitrate      |-> MaxBitrate(f, b2),
     subs         |-> SubRecords(f),
     mat          |-> MatFlags(f, b2),
     mpegh_level  |-> MpeghLevel(f, b0),
     wma_profile  |-> WmaProfile(f, b2)]

=============================================================================
