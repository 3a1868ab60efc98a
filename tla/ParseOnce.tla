------------------------------ MODULE ParseOnce ------------------------------
(***************************************************************************)
(* What _di_edid_cta_parse promises its caller: it runs once and returns   *)
(* true or false.  While it runs it may store records into the result but  *)
(* never frees one; returning false leaves the result holding nothing, and *)
(* returning true leaves what was stored.  CtaParse is shown to implement  *)
(* this specification with held the presence of a live data block,         *)
(* sub-record or DTD.                                                      *)
(***************************************************************************)
VARIABLES
    status,   \* "running", or the value returned: "true" or "false"
    held      \* whether the result holds any record

Init ==
    /\ status = "running"
    /\ held = FALSE

\* A record is stored into the result.
Store ==
    /\ status = "running"
    /\ held' = TRUE
    /\ UNCHANGED status

\* The parse returns true with what it stored.
ReturnTrue ==
    /\ status = "running"
    /\ status' = "true"
    /\ UNCHANGED held

\* The parse returns false, the result released.
ReturnFalse ==
    /\ status = "running"
    /\ status' = "false"
    /\ held' = FALSE

Next == Store \/ ReturnTrue \/ ReturnFalse

\* A parse that is called returns.
Spec == Init /\ [][Next]_<<status, held>>
             /\ WF_<<status, held>>(ReturnTrue \/ ReturnFalse)

=============================================================================
