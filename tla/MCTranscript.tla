------------------------------ MODULE MCTranscript ------------------------------
(***************************************************************************)
(* The bounds under which TLC checks Transcript.                           *)
(***************************************************************************)
EXTENDS Transcript

\* The first reply takes three steps, the second is empty but for its end.
MCMaxSteps == <<3, 0>>
=============================================================================
