------------------------------ MODULE DecodeOnce ------------------------------
(***************************************************************************)
(* What a payload decoder of cta.c promises the dispatcher: called once on *)
(* a payload of some size, it returns, in one step, one of the outcomes    *)
(* Decoder(size) allows.  CtaBlocks gives the outcome sets; InfoFrameWalk  *)
(* and AudioWalk are the byte-by-byte loops of two decoders, shown to      *)
(* implement this specification.                                           *)
(***************************************************************************)
CONSTANTS
    Sizes,        \* the payload sizes the decoder may be called on
    Decoder(_)    \* the outcomes allowed for a payload of the given size

VARIABLES
    size,         \* the payload size of this call
    result        \* the outcome returned, or Pending while it runs

\* The result before the decoder has returned.
Pending == [res |-> "pending", allocs |-> 0, cmpl |-> {}]

Init ==
    /\ size \in Sizes
    /\ result = Pending

Decode ==
    /\ result = Pending
    /\ result' \in Decoder(size)
    /\ UNCHANGED size

\* A decoder called is a decoder that returns.
Spec == Init /\ [][Decode]_<<size, result>> /\ WF_<<size, result>>(Decode)

=============================================================================
