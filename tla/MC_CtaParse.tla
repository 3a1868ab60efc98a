---------------------------- MODULE MC_CtaParse ----------------------------
(* Small instances of CtaParse for TLC. *)
EXTENDS CtaParse

\* parse_core: dtd_start 0 (no data), 2 and 200 (rejected), 4 (no data
\* blocks, room for six DTDs), 10 and 36 (36 = 4 + 1 + 31: one maximal
\* block fills the region exactly).
CoreDtdStarts == {0, 2, 4, 10, 36, 200}
\* sizes 0 (empty and size-0 extended blocks), 3 (one SAD, the speaker
\* allocation minimum), 5 (an InfoFrame payload with descriptors), 31 (the
\* largest size, a valid VESA transfer characteristic).
CoreSizes == {0, 3, 5, 31}
\* Video capability, VESA DDDB, HDR dynamic, YCbCr 4:2:0, InfoFrame,
\* vendor-specific video, and a reserved extended tag.
CoreExtTags == {0, 2, 7, 14, 32, 1, 99}

\* parse_capacity: the largest data block region, filled with size-0
\* blocks, and the largest DTD region.
CapDtdStarts == {4, 127}
CapSizes == {0}
CapExtTags == {0}

\* infoframe runs: one InfoFrame block of 4 payload bytes after the tag.
IfDtdStarts == {10}
IfSizes == {5}
IfExtTags == {32}

\* audio_oom: one audio block of three SADs.
AudioDtdStarts == {14}
AudioSizes == {9}
AudioExtTags == {0}
=============================================================================
