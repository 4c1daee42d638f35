------------------------------ MODULE RlpCalls ------------------------------
(***************************************************************************)
(* Streams of RLP, encoded ones and any bytes, read by rlp_parseStream,    *)
(* and the lists among the items read by rlp_readList, at any depth.       *)
(***************************************************************************)
EXTENDS Rlp

CONSTANTS
    Streams,     (* what the host sends: [bytes, values], where values are   *)
                 (* the strings and payloads it has encoded, if it did so    *)
    FieldCounts  (* the values of maxFields                                  *)

VARIABLE call    (* the last call: its name, its inputs and its results      *)

Unknown == <<"unknown">>

(* The call that reads a window of a stream. *)
Reading(stream, maxFields, start, len, read) ==
    [fn |-> "rlp", bytes |-> stream.bytes, values |-> stream.values, maxFields |-> maxFields,
     start |-> start, len |-> len, read |-> read]

ParseStream ==
    \E s \in Streams, n \in FieldCounts :
        call' = Reading(s, n, 0, Len(s.bytes), rlp_parseStream(Whole(s.bytes), n))

(* What a list holds is known only as one payload. *)
ReadList ==
    \E k \in DOMAIN call.read.fields, n \in FieldCounts :
        LET list == call.read.fields[k]
        IN  /\ list.kind = "LIST"
            /\ call' = Reading([bytes |-> call.bytes, values |-> Unknown], n, list.ptr, list.rlpLen,
                               rlp_readList(call.bytes, list, n))

-----------------------------------------------------------------------------
End(item) == item.ptr + item.rlpLen

(* Whatever the bytes, no item reaches outside the window it is read from, *)
(* none overlaps the one before, and the reader has gone on past the last  *)
(* one: it never goes back, and never past the end.                        *)
InsideWindow ==
    call.fn = "rlp" =>
        LET fields == call.read.fields
        IN  /\ call.read.ctx.offset \in 0 .. call.len
            /\ Len(fields) <= call.maxFields
            /\ \A k \in DOMAIN fields :
                 /\ fields[k].ptr >= IF k = 1 THEN call.start ELSE End(fields[k - 1])
                 /\ End(fields[k]) <= call.start + call.read.ctx.offset

(* What was encoded is what is read: no error, every item in its place,    *)
(* with its length at the boundaries of 55 and 255 bytes.                  *)
ReadsWhatWasEncoded ==
    call.fn = "rlp" /\ call.values # Unknown =>
        LET fields == call.read.fields
        IN  /\ call.read.err = "ok"
            /\ Len(fields) = IF Len(call.values) < call.maxFields THEN Len(call.values) ELSE call.maxFields
            /\ \A k \in DOMAIN fields : Content(call.bytes, fields[k]) = call.values[k]

(* A number is read with its value, whatever the length of its encoding:   *)
(* the same digits behind zeros.                                           *)
NumbersKeepValue ==
    call.fn = "rlp" =>
        \A k \in DOMAIN call.read.fields :
            LET item    == call.read.fields[k]
                digits  == Content(call.bytes, item)
                n       == rlp_readUInt256(call.bytes, item)
                NonZero(s) == SelectSeq(s, LAMBDA b : b # 0)
            IN  n.err = "ok" =>
                  /\ Len(n.value) = 32
                  /\ NonZero(n.value) = NonZero(digits)
                  /\ digits # << >> => Last(n.value) = Last(digits)

=============================================================================
