--------------------------- MODULE BufferingSpec ---------------------------
(***************************************************************************)
(* What src/buffering.c promises to its caller: ONE byte buffer of a fixed *)
(* capacity.  An append either stores the whole chunk and returns its      *)
(* length, or returns 0 and changes nothing.  That two areas (a small RAM  *)
(* one and a larger flash one) stand behind it, and that the content moves *)
(* from one to the other in the middle of a message, must not be seen.     *)
(***************************************************************************)
EXTENDS Naturals, Sequences

CONSTANTS
    Capacities,  (* the capacities the buffer may be configured with *)
    Chunks       (* the byte sequences a caller may append           *)

VARIABLES
    content,     (* the bytes stored so far                          *)
    capacity,    (* the capacity in force (0 before configuration)   *)
    ret          (* what the last append returned                    *)

absVars == <<content, capacity, ret>>

AbsInit ==
    /\ content = << >>
    /\ capacity = 0
    /\ ret = 0

Configure ==
    /\ capacity' \in Capacities
    /\ content' = << >>
    /\ UNCHANGED ret

Clear ==
    /\ content' = << >>
    /\ UNCHANGED <<capacity, ret>>

Accept(chunk) ==
    /\ Len(content) + Len(chunk) <= capacity
    /\ content' = content \o chunk
    /\ ret' = Len(chunk)
    /\ UNCHANGED capacity

Refuse(chunk) ==
    /\ Len(content) + Len(chunk) > capacity
    /\ ret' = 0
    /\ UNCHANGED <<content, capacity>>

AbsNext ==
    \/ Configure
    \/ Clear
    \/ \E chunk \in Chunks : Accept(chunk) \/ Refuse(chunk)

AbsSpec == AbsInit /\ [][AbsNext]_absVars

=============================================================================
