-------------------------------- MODULE Rlp --------------------------------
(***************************************************************************)
(* evm/rlp.c: the reader of RLP, the encoding of Ethereum transactions.  A *)
(* context is a window on the bytes received, with a read offset; every    *)
(* rlp_read takes one item from it, by its prefix.  The payload of a list  *)
(* is a window to be read in turn.                                         *)
(*                                                                         *)
(* A pointer into the bytes is the number of bytes before it.              *)
(***************************************************************************)
EXTENDS Integers, SequencesExt

Byte == 0 .. 255

(* rlp_def.h *)
RLP_KIND_BYTE_PREFIX      == 127
RLP_KIND_STRING_SHORT_MIN == 128
RLP_KIND_STRING_SHORT_MAX == 183
RLP_KIND_STRING_LONG_MAX  == 191
RLP_KIND_LIST_SHORT_MIN   == 192
RLP_KIND_LIST_SHORT_MAX   == 247

(* A window on bytes: bufferLen of them after the first start ones. *)
Context(bytes, start, len) == [bytes |-> bytes, start |-> start, bufferLen |-> len, offset |-> 0]

Whole(bytes) == Context(bytes, 0, Len(bytes))

NoItem == [kind |-> "BYTE", ptr |-> 0, rlpLen |-> 0]

Failed(err, ctx) == [err |-> err, ctx |-> ctx, item |-> NoItem]

(* The byte at the offset, and the bytes of an item. *)
Peek(ctx) == ctx.bytes[ctx.start + ctx.offset + 1]
Content(bytes, item) == SubSeq(bytes, item.ptr + 1, item.ptr + item.rlpLen)

(* mutant: one byte too many passes *)
AvailableOneMore(ctx, n) == ctx.bufferLen - ctx.offset + 1 >= n

(* readBytes, of n bytes: whether it succeeds, and the context after it. *)
Available(ctx, n) == ctx.bufferLen - ctx.offset >= n

Advance(ctx, n) == [ctx EXCEPT !.offset = @ + n]

(* A length of up to eight bytes.  It is only compared with what is left   *)
(* of the bytes, so that all lengths from Huge on are alike; its guards    *)
(* against overflow cannot fire with eight bytes.                          *)
Huge == 1048576
LengthOf(digits) ==
    LET value[k \in 0 .. Len(digits)] ==
          IF k = 0 THEN 0
          ELSE IF value[k - 1] >= Huge THEN Huge ELSE value[k - 1] * 256 + digits[k]
    IN  value[Len(digits)]

(* An item of a kind with len bytes from the offset on. *)
Take(ctx, kind, len) ==
    IF ~Available(ctx, len) THEN Failed("unexpected_buffer_end", ctx)
    ELSE [err  |-> "ok", ctx |-> Advance(ctx, len),
          item |-> [kind |-> kind, ptr |-> ctx.start + ctx.offset, rlpLen |-> len]]

(* An item whose length is in its prefix.  The empty string has no bytes,  *)
(* and its pointer stays at the prefix.                                    *)
TakeShort(ctx, kind, len) ==
    LET r == Take(Advance(ctx, 1), kind, len)
    IN  IF kind = "STRING" /\ len = 0 THEN [r EXCEPT !.item.ptr = ctx.start + ctx.offset] ELSE r

(* An item whose length is in bytesLen bytes of its own. *)
TakeLong(ctx, kind, bytesLen) ==
    IF ~Available(ctx, bytesLen) THEN Failed("unexpected_buffer_end", ctx)
    ELSE LET first == ctx.start + ctx.offset
         IN  Take(Advance(ctx, bytesLen), kind,
                  LengthOf(SubSeq(ctx.bytes, first + 1, first + bytesLen)))

rlp_read(ctx) ==
    IF ~Available(ctx, 1) THEN Failed("unexpected_buffer_end", ctx)
    ELSE LET prefix == Peek(ctx)
             rest   == Advance(ctx, 1)
         IN  IF prefix <= RLP_KIND_BYTE_PREFIX THEN Take(ctx, "BYTE", 1)
             ELSE IF prefix <= RLP_KIND_STRING_SHORT_MAX
               THEN TakeShort(ctx, "STRING", prefix - RLP_KIND_STRING_SHORT_MIN)
             ELSE IF prefix <= RLP_KIND_STRING_LONG_MAX
               THEN TakeLong(rest, "STRING", prefix - RLP_KIND_STRING_SHORT_MAX)
             ELSE IF prefix <= RLP_KIND_LIST_SHORT_MAX
               THEN Take(rest, "LIST", prefix - RLP_KIND_LIST_SHORT_MIN)
             ELSE TakeLong(rest, "LIST", prefix - RLP_KIND_LIST_SHORT_MAX)

(* rlp_parseStream: the items of a context one after the other, up to      *)
(* maxFields of them.                                                      *)
rlp_parseStream(ctx, maxFields) ==
    FoldLeft(LAMBDA s, k :
                 IF s.err # "ok" \/ s.ctx.offset >= s.ctx.bufferLen THEN s
                 ELSE LET r == rlp_read(s.ctx)
                      IN  [err |-> r.err, ctx |-> r.ctx,
                           fields |-> IF r.err = "ok" THEN Append(s.fields, r.item) ELSE s.fields],
             [err |-> "ok", ctx |-> ctx, fields |-> << >>], [k \in 1 .. maxFields |-> k])

(* rlp_readList: those of the payload of a list. *)
rlp_readList(bytes, list, maxFields) ==
    rlp_parseStream(Context(bytes, list.ptr, list.rlpLen), maxFields)

(* rlp_readUInt256: the 32 bytes of the number, most significant first. *)
rlp_readUInt256(bytes, item) ==
    IF item.kind = "LIST" THEN [err |-> "unexpected_type", value |-> << >>]
    ELSE IF item.rlpLen > 32 THEN [err |-> "value_out_of_range", value |-> << >>]
    ELSE [err   |-> "ok",
          value |-> [k \in 1 .. 32 - item.rlpLen |-> 0] \o Content(bytes, item)]

-----------------------------------------------------------------------------
(* How RLP encodes, for comparison: a string, or a list of encoded items,  *)
(* of less than 2^16 bytes.                                                *)
Digits(n) == IF n < 256 THEN <<n>> ELSE <<n \div 256, n % 256>>

Header(short, n) ==
    IF n <= 55 THEN <<short + n>>
    ELSE <<short + 55 + Len(Digits(n))>> \o Digits(n)

EncodeString(s) ==
    IF Len(s) = 1 /\ s[1] <= RLP_KIND_BYTE_PREFIX THEN s
    ELSE Header(RLP_KIND_STRING_SHORT_MIN, Len(s)) \o s

EncodeList(payload) == Header(RLP_KIND_LIST_SHORT_MIN, Len(payload)) \o payload

=============================================================================
