----------------------------- MODULE ReviewSpec -----------------------------
(***************************************************************************)
(* What a review promises: its screens stand in a line, front screens,     *)
(* then every page of every item in order, then the screen that approves   *)
(* and (not always) the one that rejects.  The user moves one screen at a  *)
(* time and answers only on the last ones.  Where the review offers to     *)
(* skip, one press may lead to the screen that approves and back.          *)
(***************************************************************************)
EXTENDS Integers

CONSTANT Lines   (* lines of screens: [front, items, back : Nat, skip : BOOLEAN] *)

VARIABLES
    line,        (* the line under review                        *)
    place,       (* the screen shown, counted from 0; -1 when no review *)
    answer       (* the last answer                              *)

absVars == <<line, place, answer>>

Nowhere == -1

ApprovePlace == line.front + line.items

AbsInit == line \in Lines /\ place = Nowhere /\ answer = "none"

Open(l) ==
    /\ place = Nowhere
    /\ line' = l /\ place' = 0 /\ answer' = "none"

Move(step) ==
    /\ place # Nowhere
    /\ place + step \in 0 .. ApprovePlace + line.back - 1
    /\ place' = place + step
    /\ UNCHANGED <<line, answer>>

(* To the approval, and back to where reading goes on. *)
Skip ==
    /\ line.skip /\ place # Nowhere
    /\ place' \in 0 .. ApprovePlace
    /\ ApprovePlace \in {place, place'}
    /\ UNCHANGED <<line, answer>>

Close ==
    /\ place >= ApprovePlace
    /\ place' = Nowhere
    /\ answer' = IF place = ApprovePlace THEN "approved" ELSE "rejected"
    /\ UNCHANGED line

(* Without an answer: the device is unplugged, or the application fails to *)
(* show an item.                                                           *)
Abandon ==
    /\ place' = Nowhere
    /\ UNCHANGED <<line, answer>>

(* The application fails to show the first screen. *)
Refuse(l) ==
    /\ place = Nowhere
    /\ line' = l /\ answer' = "none"
    /\ UNCHANGED place

AbsNext ==
    \/ \E l \in Lines : Open(l) \/ Refuse(l)
    \/ \E step \in {-1, 1} : Move(step)
    \/ Skip
    \/ Close
    \/ Abandon

AbsSpec == AbsInit /\ [][AbsNext]_absVars

=============================================================================
