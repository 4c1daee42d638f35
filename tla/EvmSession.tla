----------------------------- MODULE EvmSession -----------------------------
(***************************************************************************)
(* evm/apdu_handler_evm.c: a transaction or a message arrives in several   *)
(* APDU commands and is reassembled in the transaction buffer, then shown  *)
(* for review.  Two handlers (SignEth, SignEip191) share one buffer and    *)
(* the statics tx_initialized and bytes_to_read; GetAddrEth shares the     *)
(* HD path with both.                                                      *)
(*                                                                         *)
(* The buffer is the single buffer of capacity Capacity that Buffering is  *)
(* proved to implement.  A byte is a digit of base Base (256 in the code), *)
(* U32 and U64 are the sizes of the integer types; the RLP list markers    *)
(* 0xC0 and 0xF7 are the constants ListShort and ListLong.                 *)
(*                                                                         *)
(* The host sends a command only after the reply to the one before, so     *)
(* while a review is on the screen no command arrives.                     *)
(***************************************************************************)
EXTENDS Integers, SequencesExt

CONSTANTS
    Base,          (* number of values of a byte                                *)
    ListShort,     (* RLP_MARKER_VAL_1: marker of an empty list                 *)
    ListLong,      (* RLP_MARKER_VAL_2: marker of the longest short list        *)
    PrefixLen,     (* sizeof(uint32_t), the length prefix of an EIP-191 message *)
    U32, U64,      (* 2^32 and 2^64                                             *)
    Capacity,      (* bytes the transaction buffer holds                        *)
    Eth0, Eth1,    (* HDPATH_ETH_0_DEFAULT, HDPATH_ETH_1_DEFAULT                *)
    Zero,          (* the path element 0                                        *)
    PathElem,      (* values of a path element, Eth0, Eth1 and Zero among them  *)
    Requests,      (* the APDU commands the host may send                       *)
    MaxStream,     (* bound: payload bytes the host sends in one session        *)
    ResetOnError   (* the dispatcher calls reset_evm_chunk_state on errors      *)

MinPath == 3
MaxPath == 5       (* HDPATH_LEN_DEFAULT *)

Byte == 0 .. Base - 1

(* A path on the wire: the announced number of elements, and the elements  *)
(* for which the command holds bytes.                                      *)
WirePath == [len : Nat, elems : Seq(PathElem)]

(* short: the command ends before its data (rx < OFFSET_DATA).             *)
Request == [ins : {"GetAddrEth", "SignEth", "SignEip191"},
            p1 : {"first", "more", "other"}, p2 : 0 .. 2, short : BOOLEAN,
            path : WirePath, data : Seq(Byte)]

ASSUME SizesAssumption ==
    /\ {U32, U64, PrefixLen, Capacity, MaxStream} \subseteq Nat \ {0}
    /\ 2 < ListShort /\ ListShort < ListLong /\ ListLong < Base
    /\ {Base, ListShort, ListLong} \subseteq Nat
    /\ Capacity < U32 /\ U32 < U64 /\ Base < U64
    /\ ResetOnError \in BOOLEAN

(* Places[n] numbers are written with n bytes: a length prefix is a        *)
(* uint32_t, and the longest length an RLP header announces a uint64_t.    *)
Places[n \in Nat] == IF n = 0 THEN 1 ELSE Base * Places[n - 1]

ASSUME WidthsAssumption ==
    /\ Places[PrefixLen] <= U32
    /\ Places[Base - 1 - ListLong] <= U64

ASSUME RequestsAssumption ==
    /\ {Zero, Eth0, Eth1} \subseteq PathElem
    /\ \A req \in Requests : req \in Request

VARIABLES
    tx_initialized,  (* static bool tx_initialized       *)
    bytes_to_read,   (* static uint32_t bytes_to_read    *)
    hdPathEth,       (* uint32_t hdPathEth[]             *)
    hdPathEth_len,   (* uint32_t hdPathEth_len           *)
    content,         (* the bytes of the transaction buffer *)
    review,          (* what is on the screen            *)
    reply,           (* the status word last sent        *)
    session          (* history: the commands since the last FIRST *)

code == <<tx_initialized, bytes_to_read, hdPathEth, hdPathEth_len, content>>
vars == <<code, review, reply, session>>

(* The history of a session: the handler that was used (or that handlers   *)
(* were mixed), the path of its FIRST command, the payload the host sent.  *)
NoSession == [kind |-> "none", path |-> << >>, stream |-> << >>]

Init ==
    /\ tx_initialized = FALSE
    /\ bytes_to_read = 0
    /\ hdPathEth = [i \in 1 .. MaxPath |-> Zero]
    /\ hdPathEth_len = 0
    /\ content = << >>
    /\ review = "idle"
    /\ reply = "none"
    /\ session = NoSession

-----------------------------------------------------------------------------
(* Replies, and the dispatcher around the handlers.                        *)

(* mutant: the dispatcher does not reset the session *)
ThrowKeepingSession(sw, open, remaining) ==
    /\ reply' = sw
    /\ review' = "idle"
    /\ tx_initialized' = open
    /\ bytes_to_read' = remaining

(* A handler throws a status word other than OK.  open and remaining are   *)
(* the values it leaves in the two statics; the dispatcher then clears     *)
(* them, as apdu_handler_evm.h asks.                                       *)
Throw(sw, open, remaining) ==
    /\ reply' = sw
    /\ review' = "idle"
    /\ tx_initialized' = (open /\ ~ResetOnError)
    /\ bytes_to_read' = IF ResetOnError THEN 0 ELSE remaining

(* More chunks are needed: the handler throws OK.                          *)
Continue(remaining) ==
    /\ reply' = "OK"
    /\ review' = "idle"
    /\ tx_initialized' = TRUE
    /\ bytes_to_read' = remaining

(* The handler has the whole: it closes the session, then the parser       *)
(* accepts it and a review starts, or refuses it: the reply is sent at     *)
(* once (transactions only) or, if blind signing is needed, when the user  *)
(* leaves the error screen.                                                *)
Complete(screen) ==
    /\ tx_initialized' = FALSE
    /\ bytes_to_read' = 0
    /\ \/ review' \in {screen, "error"} /\ UNCHANGED reply
       \/ screen = "txn" /\ review' = "idle" /\ reply' = "DATA_INVALID"

-----------------------------------------------------------------------------
(* extract_eth_path.                                                       *)
PathFits(path) ==
    /\ path.len \in MinPath .. MaxPath
    /\ Len(path.elems) >= path.len

Mainnet(path) == path.elems[1] = Eth0 /\ path.elems[2] = Eth1

PathError(path) ==
    IF ~PathFits(path) THEN "WRONG_LENGTH" ELSE "DATA_INVALID"

(* The elements are stored before the mainnet test, the length after it.   *)
ExtractPath(path) ==
    /\ hdPathEth' = [i \in 1 .. MaxPath |->
                       IF PathFits(path) /\ i <= path.len
                         THEN path.elems[i] ELSE hdPathEth[i]]
    /\ hdPathEth_len' = IF PathFits(path) /\ Mainnet(path)
                          THEN path.len ELSE hdPathEth_len

PathAccepted(path) == PathFits(path) /\ Mainnet(path)

(* The path a signature or an address is computed for. *)
SigningPath == SubSeq(hdPathEth, 1, hdPathEth_len)

-----------------------------------------------------------------------------
(* The arithmetic of the two reassembly schemes.                           *)

(* be_bytes_to_u64 *)
be_bytes_to_u64(bytes) == FoldLeft(LAMBDA num, b : num * Base + b, 0, bytes)

(* The SDK macro: the number in the first PrefixLen bytes. *)
U4BE(bytes) == be_bytes_to_u64(SubSeq(bytes, 1, PrefixLen))

saturating_add(a, b) == IF a + b >= U64 THEN U64 - 1 ELSE a + b

NoRlp == [ok |-> FALSE, read |-> 0, to_read |-> 0]

(* mutant: the marker byte is not counted *)
LongHeaderNoMarker(bytes, offset, num_bytes) ==
    IF Len(bytes) - offset < num_bytes THEN NoRlp
    ELSE [ok |-> TRUE, read |-> offset - 1 + num_bytes,
          to_read |-> be_bytes_to_u64(SubSeq(bytes, offset + 1, offset + num_bytes))]

(* A list of more than 55 bytes: its length follows the marker at offset.  *)
LongHeader(bytes, offset, num_bytes) ==
    IF Len(bytes) - offset < num_bytes THEN NoRlp
    ELSE [ok |-> TRUE, read |-> offset + num_bytes,
          to_read |-> be_bytes_to_u64(SubSeq(bytes, offset + 1, offset + num_bytes))]

(* The bytes of a transaction's RLP header and of the list it announces;   *)
(* a version byte 1 or 2 may come first.                                   *)
get_tx_rlp_len(bytes) ==
    LET offset == IF bytes # << >> /\ bytes[1] \in {1, 2} THEN 2 ELSE 1
        marker == bytes[offset]
    IN  IF offset > Len(bytes) \/ marker < ListShort THEN NoRlp
        ELSE IF marker <= ListLong
          THEN [ok |-> TRUE, read |-> offset, to_read |-> marker - ListShort]
        ELSE LongHeader(bytes, offset, marker - ListLong)

(* mutant: the bytes already stored are forgotten *)
RoomWhenEmpty(stored, bytes) == Len(bytes) <= Capacity

(* tx_append stores all of the bytes or none of them. *)
Room(stored, bytes) == Len(stored) + Len(bytes) <= Capacity

Least(a, b) == IF a < b THEN a ELSE b

Taken(bytes, n) == SubSeq(bytes, 1, Least(n, Len(bytes)))

(* mutant: the header is not counted as stored *)
MissingNoHeader(rlp, stored) == (rlp.to_read - Len(stored)) % U64

(* What a partial transaction still lacks, in unsigned 64-bit arithmetic.  *)
Missing(rlp, stored) == (rlp.to_read - (Len(stored) - rlp.read)) % U64

(* What the first chunk of a message leaves to be read, unsigned 32-bit.   *)
Expected(bytes) == (U4BE(bytes) - (Len(bytes) - PrefixLen)) % U32

-----------------------------------------------------------------------------
(* Tests shared by the two process_chunk functions, in their order.        *)

(* The command is refused before any state is touched. *)
HeaderError(req) ==
    \/ req.p2 # 0
    \/ req.short
    \/ req.p1 = "other"
    \/ req.p1 = "more" /\ ~tx_initialized

HeaderErrorCode(req) ==
    IF req.p2 # 0 THEN "INVALIDP1P2"
    ELSE IF req.short THEN "WRONG_LENGTH"
    ELSE IF req.p1 = "other" THEN "INVALIDP1P2" ELSE "TX_NOT_INITIALIZED"

RefuseHeader(req) ==
    /\ req.ins \in {"SignEth", "SignEip191"}
    /\ HeaderError(req)
    /\ Throw(HeaderErrorCode(req), tx_initialized, bytes_to_read)
    /\ UNCHANGED <<hdPathEth, hdPathEth_len, content, session>>

(* FIRST: the buffer is emptied and the session closed before the path is  *)
(* looked at.                                                              *)
First(req, ins) == req.ins = ins /\ ~HeaderError(req) /\ req.p1 = "first"

More(req, ins) ==
    /\ req.ins = ins /\ ~HeaderError(req) /\ req.p1 = "more"
    /\ Len(session.stream) + Len(req.data) <= MaxStream

RefusePath(req) ==
    /\ First(req, "SignEth") \/ First(req, "SignEip191")
    /\ ~PathAccepted(req.path)
    /\ ExtractPath(req.path)
    /\ content' = << >>
    /\ Throw(PathError(req.path), FALSE, bytes_to_read)
    /\ session' = NoSession

(* The history is started by FIRST and continued by MORE. *)
Started(req) == session' = [kind |-> req.ins, stream |-> req.data,
                            path |-> SubSeq(req.path.elems, 1, req.path.len)]

Continued(req) ==
    session' = [session EXCEPT !.kind = IF @ = req.ins THEN @ ELSE "mixed",
                               !.stream = @ \o req.data]

-----------------------------------------------------------------------------
(* process_chunk_eip191 and handleSignEip191.                              *)
FirstEip191(req) ==
    /\ First(req, "SignEip191")
    /\ PathAccepted(req.path)
    /\ ExtractPath(req.path)
    /\ Started(req)
    /\ LET expected == Expected(req.data)
       IN  \/ /\ Len(req.data) < PrefixLen
              /\ content' = << >>
              /\ Throw("WRONG_LENGTH", FALSE, bytes_to_read)
           \/ /\ Len(req.data) >= PrefixLen
              /\ ~Room(<< >>, req.data)
              /\ content' = << >>
              /\ Throw("OUTPUT_BUFFER_TOO_SMALL", FALSE, expected)
           \/ /\ Len(req.data) >= PrefixLen
              /\ Room(<< >>, req.data)
              /\ content' = req.data
              /\ IF expected = 0 THEN Complete("message") ELSE Continue(expected)

(* The count goes down before the append, whatever becomes of the append.  *)
MoreEip191(req) ==
    /\ More(req, "SignEip191")
    /\ Continued(req)
    /\ LET remaining == (bytes_to_read - Len(req.data)) % U32
       IN  \/ /\ ~Room(content, req.data)
              /\ Throw("OUTPUT_BUFFER_TOO_SMALL", TRUE, remaining)
              /\ UNCHANGED content
           \/ /\ Room(content, req.data)
              /\ content' = content \o req.data
              /\ IF remaining = 0 THEN Complete("message") ELSE Continue(remaining)
    /\ UNCHANGED <<hdPathEth, hdPathEth_len>>

-----------------------------------------------------------------------------
(* process_chunk_eth and handleSignEth.  bytes_to_read is not used.        *)
FirstEth(req) ==
    /\ First(req, "SignEth")
    /\ PathAccepted(req.path)
    /\ ExtractPath(req.path)
    /\ Started(req)
    /\ LET rlp   == get_tx_rlp_len(req.data)
           whole == saturating_add(rlp.read, rlp.to_read)
           kept  == Taken(req.data, whole)
       IN  \/ /\ ~rlp.ok
              /\ content' = << >>
              /\ Throw("DATA_INVALID", FALSE, bytes_to_read)
           \/ /\ rlp.ok
              /\ ~Room(<< >>, kept)
              /\ content' = << >>
              /\ Throw("OUTPUT_BUFFER_TOO_SMALL", FALSE, bytes_to_read)
           \/ /\ rlp.ok
              /\ Room(<< >>, kept)
              /\ content' = kept
              /\ IF whole = Len(req.data) THEN Complete("txn")
                                          ELSE Continue(bytes_to_read)

(* The header is read again from the buffer; a chunk that brings more than *)
(* is missing is cut, and does not count as the last one.                  *)
MoreEth(req) ==
    /\ More(req, "SignEth")
    /\ Continued(req)
    /\ LET rlp     == get_tx_rlp_len(content)
           missing == Missing(rlp, content)
           kept    == Taken(req.data, missing)
       IN  \/ /\ ~rlp.ok
              /\ Throw("DATA_INVALID", TRUE, bytes_to_read)
              /\ UNCHANGED content
           \/ /\ rlp.ok
              /\ ~Room(content, kept)
              /\ Throw("OUTPUT_BUFFER_TOO_SMALL", TRUE, bytes_to_read)
              /\ UNCHANGED content
           \/ /\ rlp.ok
              /\ Room(content, kept)
              /\ content' = content \o kept
              /\ IF missing = Len(req.data) THEN Complete("txn")
                                            ELSE Continue(bytes_to_read)
    /\ UNCHANGED <<hdPathEth, hdPathEth_len>>

-----------------------------------------------------------------------------
(* mutant: the chunking session stays open *)
AddressReplyKeepingSession(req) ==
    /\ UNCHANGED <<tx_initialized, bytes_to_read>>
    /\ IF req.p1 = "first"
         THEN reply' = "OK" /\ review' = "idle"
         ELSE review' = "address" /\ UNCHANGED reply

(* extract_eth_path has closed the chunking session; the address is shown  *)
(* or sent.                                                                *)
AddressReply(req) ==
    /\ tx_initialized' = FALSE
    /\ UNCHANGED bytes_to_read
    /\ IF req.p1 = "first"
         THEN reply' = "OK" /\ review' = "idle"
         ELSE review' = "address" /\ UNCHANGED reply

(* handleGetAddrEth: p1 other than "first" (0) asks for a confirmation; p2 *)
(* is the chain code flag; filling the address may fail in the SDK.        *)
GetAddrEth(req) ==
    /\ req.ins = "GetAddrEth"
    /\ ExtractPath(req.path)
    /\ UNCHANGED <<content, session>>
    /\ \/ /\ ~PathAccepted(req.path)
          /\ Throw(PathError(req.path), FALSE, bytes_to_read)
       \/ /\ PathAccepted(req.path)
          /\ req.p2 \notin {0, 1}
          /\ Throw("INVALIDP1P2", FALSE, bytes_to_read)
       \/ /\ PathAccepted(req.path)
          /\ req.p2 \in {0, 1}
          /\ Throw("DATA_INVALID", FALSE, bytes_to_read) \/ AddressReply(req)

-----------------------------------------------------------------------------
(* The user answers the screen: the reply is sent (app_sign_eth,           *)
(* app_sign_evm_eip191, app_reply_address, app_reject, app_reply_error).   *)
Answer ==
    /\ review # "idle"
    /\ review' = "idle"
    /\ reply' \in IF review = "error" THEN {"DATA_INVALID"}
                                      ELSE {"OK", "COMMAND_NOT_ALLOWED"}
    /\ UNCHANGED <<code, session>>

(* EXCEPTION_IO_RESET (USB unplugged): app_init shows the idle screen and  *)
(* leaves the session and the buffer as they are.                          *)
IoReset ==
    /\ review' = "idle"
    /\ reply' = "none"
    /\ UNCHANGED <<code, session>>

Command(req) ==
    /\ review = "idle"
    /\ \/ RefuseHeader(req)
       \/ RefusePath(req)
       \/ FirstEip191(req)
       \/ MoreEip191(req)
       \/ FirstEth(req)
       \/ MoreEth(req)
       \/ GetAddrEth(req)

Next ==
    \/ \E req \in Requests : Command(req)
    \/ Answer
    \/ IoReset

Spec == Init /\ [][Next]_vars

-----------------------------------------------------------------------------
(* Type invariant. *)
TypeOK ==
    /\ tx_initialized \in BOOLEAN
    /\ bytes_to_read \in 0 .. U32 - 1
    /\ hdPathEth \in [1 .. MaxPath -> PathElem]
    /\ hdPathEth_len \in {0} \cup MinPath .. MaxPath
    /\ content \in Seq(Byte) /\ Len(content) <= Capacity
    /\ review \in {"idle", "address", "txn", "message", "error"}
    /\ reply \in {"none", "OK", "WRONG_LENGTH", "DATA_INVALID", "INVALIDP1P2",
                 "TX_NOT_INITIALIZED", "OUTPUT_BUFFER_TOO_SMALL",
                 "COMMAND_NOT_ALLOWED"}
    /\ session.kind \in {"none", "SignEth", "SignEip191", "mixed"}
    /\ session.stream \in Seq(Byte)

(* A chunk can still arrive, or what was assembled is under review. *)
Live == tx_initialized \/ review \in {"txn", "message"}

(* What is reviewed and signed uses the path that came with its own FIRST  *)
(* command: no GetAddrEth and no refused command in between replaces the   *)
(* shared path (or part of it, see extract_eth_path) under an open session *)
(* or a pending review.                                                    *)
PathOfSession == Live => SigningPath = session.path

(* A transaction by its definition: an optional version byte, then one RLP *)
(* list and nothing after it.                                              *)
IsRlpList(bytes) ==
    \/ /\ bytes[1] \in ListShort .. ListLong
       /\ Len(bytes) = 1 + (bytes[1] - ListShort)
    \/ /\ bytes[1] > ListLong
       /\ LET n == bytes[1] - ListLong
          IN  /\ Len(bytes) > n
              /\ Len(bytes) = 1 + n + be_bytes_to_u64(SubSeq(bytes, 2, n + 1))

IsWholeTx(bytes) ==
    /\ bytes # << >>
    /\ IF bytes[1] \in {1, 2} THEN Len(bytes) > 1 /\ IsRlpList(Tail(bytes))
                               ELSE IsRlpList(bytes)

IsWholeMessage(bytes) ==
    Len(bytes) >= PrefixLen /\ Len(bytes) = PrefixLen + U4BE(bytes)

(* Under review is exactly one transaction, no byte short and no byte over, *)
(* whatever chunks, also of the other handler, built the buffer.            *)
EthWhole == review = "txn" => IsWholeTx(content)

(* As long as the handlers are not mixed, the buffer holds the bytes the   *)
(* host sent, in order, from the first one on and without a hole.          *)
NoHole ==
    Live /\ session.kind = "SignEth" => IsPrefix(content, session.stream)

(* An unmixed EIP-191 session: bytes_to_read counts, modulo 2^32, exactly  *)
(* the bytes the announced length still lacks in the buffer, and no byte   *)
(* the host sent is missing from it.                                       *)
Countdown ==
    Live /\ session.kind = "SignEip191" =>
      /\ content = session.stream
      /\ Len(content) >= PrefixLen
      /\ (bytes_to_read + Len(content) - PrefixLen) % U32 = U4BE(content)

(* Under review is exactly the message the host announced, provided all of *)
(* its chunks went to the EIP-191 handler: the modular count cannot reach  *)
(* 0 early or late because the buffer is smaller than 2^32 bytes.          *)
Eip191Whole ==
    review = "message" /\ session.kind = "SignEip191" => IsWholeMessage(content)

(* However the host cuts a transaction or a message into chunks, the chunk *)
(* that completes it is recognised as the last one: the session does not   *)
(* stay open once the host has sent the whole (and nothing more).          *)
NotOverdue ==
    /\ tx_initialized /\ session.kind = "SignEth" => ~IsWholeTx(session.stream)
    /\ tx_initialized /\ session.kind = "SignEip191" => ~IsWholeMessage(session.stream)

(* No byte of a session is lost, counted twice or waited for in vain.      *)
BytesAccounted == NoHole /\ Countdown /\ NotOverdue

=============================================================================
