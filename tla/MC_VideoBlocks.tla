---------------------------- MODULE MC_VideoBlocks ----------------------------
(***************************************************************************)
(* Constants for the video blocks and their printer.                       *)
(***************************************************************************)
EXTENDS VideoBlocks

\* The VIC table libdisplay-info 0.1.1 generates from CTA-861-H: rows for
\* VICs 1..127 and 193..219, so _di_cta_video_formats_len is 220.
VicRowsCta861H == (1..127) \cup (193..219)

\* SVD byte values at the boundaries of parse_svd: the reserved values 0,
\* 128 and 254, the ends 127 and 129 of the non-native and native ranges,
\* and 192 and 193 where native ends.
SvdBoundaryBytes == {0, 127, 128, 129, 192, 193, 254}

\* Video, YCbCr 4:2:0 Video, Capability Map, Audio and Video Format blocks.
SomeTags == {Tag.VIDEO, Tag.YCBCR420, Tag.YCBCR420_CAP_MAP, Tag.AUDIO,
             Tag.VIDEO_FORMAT}

VideoAndMapTags == {Tag.VIDEO, Tag.YCBCR420_CAP_MAP}

=============================================================================
