----------------------------- MODULE Buffering -----------------------------
(***************************************************************************)
(* src/buffering.c: the transaction buffer.  Bytes go to a small RAM area  *)
(* until a chunk does not fit; then everything moves to a flash area,      *)
(* which stays in use until the buffer is reset.                           *)
(*                                                                         *)
(* An area is a record of buffer_state_t: size, in_use and the bytes data  *)
(* holds.  The field pos of the code is Len(data): the bytes beyond it are *)
(* leftovers no reader of the buffer looks at.                             *)
(***************************************************************************)
EXTENDS Integers, Sequences

CONSTANTS
    Configs,     (* the pairs <<ram_buffer_size, flash_buffer_size>> callers use *)
    Chunks,      (* the byte sequences callers append                            *)
    BufferByte   (* the values of a byte                                         *)

ASSUME ConfigsAssumption == Configs \subseteq Nat \X Nat
ASSUME ChunksAssumption  == Chunks \subseteq Seq(BufferByte)

VARIABLES
    ram,      (* buffer_state_t ram                       *)
    flash,    (* buffer_state_t flash                     *)
    ret       (* the value buffering_append last returned *)

bufferVars == <<ram, flash, ret>>

BufferState == [size : Nat, data : Seq(BufferByte), in_use : BOOLEAN]

(* An area with pos = 0, in use or not. *)
Opened(size) == [size |-> size, data |-> << >>, in_use |-> TRUE]
Closed(size) == [size |-> size, data |-> << >>, in_use |-> FALSE]

(* The globals are zeroed when the program starts: no area is in use and   *)
(* both have size 0 until buffering_init is called.                        *)
BufferInit ==
    /\ ram = Closed(0)
    /\ flash = Closed(0)
    /\ ret = 0

(* mutant: the bytes already stored are forgotten *)
FitsWhenEmpty(area, chunk) == area.size >= Len(chunk)

(* The room test of buffering_append. *)
Fits(area, chunk) == area.size - Len(area.data) >= Len(chunk)

(* The flash branch of buffering_append: a chunk that does not fit is dropped *)
(* and 0 returned.                                                             *)
FlashAppend(area, chunk) ==
    IF Fits(area, chunk) THEN [area EXCEPT !.data = @ \o chunk] ELSE area

(* mutant: a refusal is reported as -1, as other functions of the library do *)
FlashReturnNegative(area, chunk) == IF Fits(area, chunk) THEN Len(chunk) ELSE -1

FlashReturn(area, chunk) == IF Fits(area, chunk) THEN Len(chunk) ELSE 0

buffering_init(ramSize, flashSize) ==
    /\ ram' = Opened(ramSize)
    /\ flash' = Closed(flashSize)
    /\ UNCHANGED ret

buffering_reset ==
    /\ ram' = Opened(ram.size)
    /\ flash' = Closed(flash.size)
    /\ UNCHANGED ret

AppendToRam(chunk) ==
    /\ ram.in_use
    /\ Fits(ram, chunk)
    /\ ram' = [ram EXCEPT !.data = @ \o chunk]
    /\ ret' = Len(chunk)
    /\ UNCHANGED flash

(* mutant: the RAM bytes are not copied *)
FlashOnly == [flash EXCEPT !.in_use = TRUE]

(* The RAM bytes are appended to flash first and the result of that call is *)
(* ignored; then the chunk; pos of RAM is cleared last.                     *)
MovedToFlash == FlashAppend([flash EXCEPT !.in_use = TRUE], ram.data)

(* mutant: ram.pos is not cleared *)
SpillKeepingRam(chunk) ==
    /\ ram.in_use
    /\ ~Fits(ram, chunk)
    /\ ram' = [ram EXCEPT !.in_use = FALSE]
    /\ flash' = FlashAppend(MovedToFlash, chunk)
    /\ ret' = FlashReturn(MovedToFlash, chunk)

SpillToFlash(chunk) ==
    /\ ram.in_use
    /\ ~Fits(ram, chunk)
    /\ ram' = Closed(ram.size)
    /\ flash' = FlashAppend(MovedToFlash, chunk)
    /\ ret' = FlashReturn(MovedToFlash, chunk)

AppendToFlash(chunk) ==
    /\ ~ram.in_use
    /\ flash' = FlashAppend(flash, chunk)
    /\ ret' = FlashReturn(flash, chunk)
    /\ UNCHANGED ram

buffering_append(chunk) ==
    \/ AppendToRam(chunk)
    \/ SpillToFlash(chunk)
    \/ AppendToFlash(chunk)

BufferNext ==
    \/ \E c \in Configs : buffering_init(c[1], c[2])
    \/ buffering_reset
    \/ \E chunk \in Chunks : buffering_append(chunk)

BufferSpec == BufferInit /\ [][BufferNext]_bufferVars

-----------------------------------------------------------------------------
(* buffering_get_buffer: the area a reader is given. *)
buffering_get_buffer == IF ram.in_use THEN ram ELSE flash

Content == buffering_get_buffer.data

-----------------------------------------------------------------------------
(* Type invariant. *)
BufferTypeOK ==
    /\ ram \in BufferState
    /\ flash \in BufferState
    /\ ret \in Nat

(* pos never passes size in either area, in RAM or in flash, whatever the  *)
(* sequence of calls: the unsigned subtraction size - pos of the room test *)
(* (buffering.c:49,66) never wraps.                                        *)
WithinBounds ==
    /\ Len(ram.data) <= ram.size
    /\ Len(flash.data) <= flash.size

(* At most one area is in use, and an area that is not in use is empty: a  *)
(* reset or a move between areas (buffering.c:40-45,55-61) leaves no stale *)
(* bytes behind for a later append to extend.                              *)
OneActive ==
    /\ ~(ram.in_use /\ flash.in_use)
    /\ ~ram.in_use => ram.data = << >>
    /\ ~flash.in_use => flash.data = << >>

(* No area is in use only before buffering_init, when both sizes are 0: an *)
(* append made too early stores nothing.                                   *)
Unconfigured == ~ram.in_use /\ ~flash.in_use => ram.size = 0 /\ flash.size = 0

(* The inductive invariant. *)
BufferInv == BufferTypeOK /\ WithinBounds /\ OneActive /\ Unconfigured

-----------------------------------------------------------------------------
(* The flash area is never smaller than the RAM area it takes over from.   *)
FlashCoversRam == \A c \in Configs : c[2] >= c[1]

(* With a flash area at least as large as the RAM area, the two areas act  *)
(* as one buffer with the flash capacity: no call order makes the move to  *)
(* flash visible in the content, in a refusal or in a return value.        *)
OneBufferSpec == INSTANCE BufferingSpec
         WITH Capacities <- {c[2] : c \in Configs},
              content <- Content, capacity <- flash.size, ret <- ret

ImplementsOneBuffer == OneBufferSpec!AbsSpec

=============================================================================
