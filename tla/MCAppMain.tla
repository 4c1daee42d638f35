----------------------------- MODULE MCAppMain -----------------------------
(***************************************************************************)
(* AppMain for TLC.  Refused commands throw a status word, 0x6A80, or an   *)
(* exception of the SDK, 2, that is not one.                               *)
(***************************************************************************)
EXTENDS AppMain

MCExceptions == {27264, 2}

(* The reviews of the repository's own handlers. *)
OwnReviews == {"ADDRESS", "TXN", "MSG"}

=============================================================================
