------------------------------- MODULE Query -------------------------------
(***************************************************************************)
(* What an engine promises its caller: one call, at most one answer, and   *)
(* the answer is the query's.  Every engine is checked to implement this.  *)
(***************************************************************************)
EXTENDS GroupBy

CONSTANT Inputs    \* the tables the caller may pass

VARIABLES input,   \* the table of this call
          answers  \* the answers returned so far: none or one

vars == <<input, answers>>

Init == input \in Inputs /\ answers = {}

Return ==
    /\ answers = {}
    /\ answers' = {Answer(input)}
    /\ UNCHANGED input

Spec == Init /\ [][Return]_vars

\* The call returns.
FairSpec == Spec /\ WF_vars(Return)
=============================================================================
