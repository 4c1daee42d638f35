---------------------------- MODULE MCBuffering ----------------------------
(* Instances of Buffering for TLC. *)
EXTENDS Buffering, SequencesExt

CONSTANTS b0, b1, b2

MCByte == {b0, b1, b2}

(* Chunks of up to three bytes. *)
MCChunks == BoundedSeq({b0, b1}, 2) \cup {<<b0, b1, b2>>}

(* Flash larger than RAM by one chunk and more, equal to it, and no RAM.    *)
MCConfigs == {<<2, 4>>, <<1, 3>>, <<2, 2>>, <<0, 3>>}

=============================================================================
