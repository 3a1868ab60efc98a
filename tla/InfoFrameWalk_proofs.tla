------------------------- MODULE InfoFrameWalk_proofs -------------------------
(***************************************************************************)
(* Proofs about the descriptor walk of parse_infoframe_block: the assert   *)
(* on ifb->infoframes_len never fails, and the walk implements the safety  *)
(* part of DecodeOnce with InfoFrameBlock as its outcome set, for every    *)
(* payload bound the 5-bit size field allows.                              *)
(***************************************************************************)
EXTENDS InfoFrameWalk, TLAPS

\* The inductive invariant.  Every descriptor stored used at least one byte
\* past the 2-byte header, so stored <= index - 2 while the walk is inside
\* the payload; an index past the payload is only ever set by the header,
\* before any descriptor is stored.  A returned walk's result is one of the
\* outcomes InfoFrameBlock allows.
IInv ==
    /\ TypeOK
    /\ stored <= size
    /\ pc = "start" => index = 0 /\ stored = 0 /\ cmpl = {}
    /\ pc = "loop" =>
         /\ index >= 2 /\ size >= 2 /\ cmpl = {}
         /\ index <= size => stored + 2 <= index
         /\ index > size => stored = 0
    /\ pc \in {"accept", "skip"} => WalkResult \in InfoFrameBlock(size)

LEMMA InitIInv == Init => IInv
BY WalkAssumption DEF Init, IInv, TypeOK

\* The results of the four exits of the walk are in InfoFrameBlock(n).
LEMMA ExitsAllowed ==
    ASSUME NEW n \in Nat, NEW t \in Nat
    PROVE  /\ n < 2 => Skip(0, {}) \in InfoFrameBlock(n)
           /\ n >= 2 /\ t <= n - 2 => Accept(t) \in InfoFrameBlock(n)
           /\ n >= 2 /\ t <= n - 3 => Skip(t, {}) \in InfoFrameBlock(n)
           /\ n >= 2 /\ t <= n - 3 =>
                Skip(t, {"InfoFrameOverrun"}) \in InfoFrameBlock(n)
           /\ n >= 2 => Skip(0, {"InfoFrameOverrun"}) \in InfoFrameBlock(n)
BY DEF InfoFrameBlock

LEMMA NextIInv == IInv /\ [Next]_vars => IInv'
<1> SUFFICES ASSUME IInv, [Next]_vars PROVE IInv'
  OBVIOUS
<1>0. /\ size \in 0..MaxPayload /\ index \in Nat /\ stored \in Nat
      /\ MaxPayload \in 0..30
  BY WalkAssumption DEF IInv, TypeOK
<1>1. CASE Start
  <2>1. CASE size < 2
    <3>1. pc' = "skip" /\ stored' = 0 /\ cmpl' = {} /\ index' = 0
          /\ size' = size
      BY <1>1, <2>1, <1>0 DEF Start, IInv, TypeOK
    <3>2. WalkResult' = Skip(0, {})
      BY <3>1 DEF WalkResult
    <3>3. WalkResult' \in InfoFrameBlock(size')
      BY <3>1, <3>2, <2>1, <1>0, ExitsAllowed
    <3> QED BY <3>1, <3>3, <1>0 DEF IInv, TypeOK
  <2>2. CASE size >= 2
    <3>1. PICK h \in 0..7 : index' = FirstDescriptor(h)
      BY <1>1, <2>2, <1>0 DEF Start
    <3>2. pc' = "loop" /\ stored' = 0 /\ cmpl' = {} /\ size' = size
      BY <1>1, <2>2, <1>0 DEF Start, IInv, TypeOK
    <3>3. index' \in 2..9
      BY <3>1 DEF FirstDescriptor
    <3>4. TypeOK'
      BY <3>2, <3>3, <1>0 DEF TypeOK
    <3>5a. index' >= 2 /\ size' >= 2
      BY <3>2, <3>3, <2>2, <1>0
    <3>5b. stored' + 2 <= index'
      BY <3>2, <3>3
    <3>5. /\ index' >= 2 /\ size' >= 2 /\ cmpl' = {}
          /\ index' <= size' => stored' + 2 <= index'
          /\ index' > size' => stored' = 0
      BY <3>2, <3>5a, <3>5b
    <3> QED BY <3>2, <3>4, <3>5, <1>0 DEF IInv
  <2> QED BY <2>1, <2>2, <1>0
<1>2. CASE LoopEnd
  <2>1. pc' = "accept" /\ UNCHANGED <<size, index, stored, cmpl>>
        /\ pc = "loop" /\ index = size
    BY <1>2 DEF LoopEnd
  <2>2. stored <= size - 2 /\ size >= 2
    BY <2>1, <1>0 DEF IInv
  <2>3. WalkResult' = Accept(stored)
    BY <2>1 DEF WalkResult
  <2>4. WalkResult' \in InfoFrameBlock(size')
    BY <2>1, <2>2, <2>3, <1>0, ExitsAllowed
  <2> QED BY <2>1, <2>4 DEF IInv, TypeOK
<1>3. CASE LoopOverrun
  <2>1. pc' = "skip" /\ cmpl' = {"InfoFrameOverrun"}
        /\ UNCHANGED <<size, index, stored>>
        /\ pc = "loop" /\ index > size
    BY <1>3 DEF LoopOverrun
  <2>2. stored = 0 /\ size >= 2
    BY <2>1 DEF IInv
  <2>3. WalkResult' = Skip(0, {"InfoFrameOverrun"})
    BY <2>1, <2>2 DEF WalkResult
  <2>4. WalkResult' \in InfoFrameBlock(size')
    BY <2>1, <2>2, <2>3, <1>0, ExitsAllowed
  <2> QED BY <2>1, <2>2, <2>4, <1>0 DEF IInv, TypeOK
<1>4. CASE Descriptor
  <2>0. pc = "loop" /\ index < size /\ size' = size
    BY <1>4 DEF Descriptor
  <2>1. stored + 2 <= index /\ index >= 2 /\ size >= 2 /\ cmpl = {}
    BY <2>0, <1>0 DEF IInv
  <2>2. PICK len \in 0..7, type \in 0..31 :
          \/ /\ type = 0
             /\ pc' = "skip"
             /\ UNCHANGED <<index, stored, cmpl>>
          \/ /\ type # 0
             /\ index + DescriptorLength(len, type) > size
             /\ pc' = "skip"
             /\ cmpl' = {"InfoFrameOverrun"}
             /\ UNCHANGED <<index, stored>>
          \/ /\ type # 0
             /\ index + DescriptorLength(len, type) <= size
             /\ \E made \in ParseInfoframe(type) :
                  stored' = IF made THEN stored + 1 ELSE stored
             /\ index' = index + DescriptorLength(len, type)
             /\ UNCHANGED <<pc, cmpl>>
    BY <1>4 DEF Descriptor
  <2>3. stored <= size - 3
    BY <2>0, <2>1, <1>0
  <2>4. CASE type = 0 /\ pc' = "skip" /\ UNCHANGED <<index, stored, cmpl>>
    <3>1. WalkResult' = Skip(stored, {})
      BY <2>4, <2>1 DEF WalkResult
    <3>2. WalkResult' \in InfoFrameBlock(size')
      BY <3>1, <2>0, <2>1, <2>3, <1>0, ExitsAllowed
    <3> QED BY <2>0, <2>4, <3>2, <1>0 DEF IInv, TypeOK
  <2>5. CASE type # 0 /\ pc' = "skip" /\ cmpl' = {"InfoFrameOverrun"}
             /\ UNCHANGED <<index, stored>>
    <3>1. WalkResult' = Skip(stored, {"InfoFrameOverrun"})
      BY <2>5 DEF WalkResult
    <3>2. WalkResult' \in InfoFrameBlock(size')
      BY <3>1, <2>0, <2>1, <2>3, <1>0, ExitsAllowed
    <3> QED BY <2>0, <2>5, <3>2, <1>0 DEF IInv, TypeOK
  <2>6. CASE /\ type # 0
             /\ index + DescriptorLength(len, type) <= size
             /\ \E made \in ParseInfoframe(type) :
                  stored' = IF made THEN stored + 1 ELSE stored
             /\ index' = index + DescriptorLength(len, type)
             /\ UNCHANGED <<pc, cmpl>>
    <3>1. DescriptorLength(len, type) \in 1..11
      BY DEF DescriptorLength
    <3>2. stored' \in {stored, stored + 1}
      BY <2>6 DEF ParseInfoframe
    <3>3. index' \in 3..size /\ stored' + 2 <= index'
      BY <2>6, <3>1, <3>2, <2>0, <2>1, <1>0
    <3> QED BY <2>0, <2>1, <2>6, <3>2, <3>3, <1>0 DEF IInv, TypeOK
  <2> QED BY <2>2, <2>4, <2>5, <2>6
<1>5. CASE UNCHANGED vars
  BY <1>5 DEF vars, IInv, TypeOK, WalkResult
<1> QED BY <1>1, <1>2, <1>3, <1>4, <1>5 DEF Next

LEMMA IInvFit == IInv => InfoFramesFit
BY WalkAssumption DEF IInv, TypeOK, InfoFramesFit, MaxInfoFrames

\* The assert of cta.c:1207 holds for every payload the 5-bit size field
\* allows and whether or not calloc fails: ifb->infoframes_len stays at or
\* below EDID_CTA_INFOFRAME_BLOCK_ENTRIES.
THEOREM InfoFramesNeverOverflow == Spec => []InfoFramesFit
<1>1. Spec => []IInv
  BY InitIInv, NextIInv, PTL DEF Spec
<1> QED BY <1>1, IInvFit, PTL

\* A step of the walk either leaves its result pending or returns one of
\* the outcomes InfoFrameBlock allows, once: the decoder loop of
\* parse_infoframe_block implements the abstract decoder CtaParse uses.
LEMMA StepRefines ==
    IInv /\ IInv' /\ [Next]_vars
      => [Abstract!Decode]_<<size, WalkResult>>
<1> SUFFICES ASSUME IInv, IInv', [Next]_vars
             PROVE  [Abstract!Decode]_<<size, WalkResult>>
  OBVIOUS
<1>1. size' = size
  BY DEF Next, vars, Start, LoopEnd, LoopOverrun, Descriptor
<1>2. CASE pc \in {"start", "loop"} /\ pc' \in {"accept", "skip"}
  <2>1. WalkResult = Abstract!Pending
    BY <1>2 DEF WalkResult, Abstract!Pending, Outcome
  <2>2. WalkResult' \in InfoFrameBlock(size)
    BY <1>1, <1>2 DEF IInv
  <2> QED BY <1>1, <2>1, <2>2 DEF Abstract!Decode
<1>3. CASE pc \in {"start", "loop"} /\ pc' \in {"start", "loop"}
  BY <1>1, <1>3 DEF WalkResult
<1>4. CASE pc \in {"accept", "skip"}
  BY <1>4 DEF Next, vars, Start, LoopEnd, LoopOverrun, Descriptor, WalkResult
<1> QED BY <1>2, <1>3, <1>4 DEF IInv, TypeOK

\* The walk refines the safety part of DecodeOnce: it starts pending on a
\* payload size the block allows and returns at most once, an outcome of
\* InfoFrameBlock (the liveness part, DecodeRefined, is checked by TLC).
THEOREM WalkImplementsDecode ==
    Spec => Abstract!Init /\ [][Abstract!Decode]_<<size, WalkResult>>
<1>1. Init => Abstract!Init
  BY DEF Init, Abstract!Init, WalkResult, Abstract!Pending, Outcome
<1>2. Spec => []IInv
  BY InitIInv, NextIInv, PTL DEF Spec
<1> QED BY <1>1, <1>2, StepRefines, PTL DEF Spec

=============================================================================
