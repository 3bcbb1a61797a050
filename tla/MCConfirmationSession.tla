------------------------ MODULE MCConfirmationSession ------------------------
(* ConfirmationSession for TLC; time in units of about two minutes.           *)
EXTENDS ConfirmationSession

\* A history has previews without a lease, or crossed answers: no safety
\* property speaks of one with both.
Apart == ~(lost /\ crossed)
=============================================================================
