------------------------------ MODULE EvmItems ------------------------------
(***************************************************************************)
(* What the EVM part shows and how it is read: personal messages           *)
(* (evm_eip191.c), addresses (evm_addr.c) and the printers the             *)
(* application calls for the fields of a transaction (evm_erc20.c,         *)
(* evm_utils.c).  A reader goes through the pages of an item one after the *)
(* other; every page is asked for anew.                                    *)
(***************************************************************************)
EXTENDS Zxformat, AppMode

CONSTANTS PageLen,      \* outValLen: the bytes of a page, and one more
          Room,         \* the buffer in which an amount is put together, 100 bytes in the code
          Messages,     \* the messages asked to sign
          Paths,        \* the derivation paths of addresses
          Address,      \* the text of an address
          Amounts,      \* numbers in transactions
          Tokens        \* symbol and decimals of the tokens of the application

ASSUME ItemsAssumption ==
    /\ PageLen \in Nat /\ PageLen > 2 /\ Room \in Nat
    /\ Messages \subseteq Seq(Byte) /\ Address \in Seq(Byte)
    /\ Amounts \subseteq Nat
    \* a token leaves room for its decimals, and trimming looks for a point
    /\ \A t \in Tokens : t.decimals < Room - 1 /\ ~Contains(t.symbol, Dot)

VARIABLES
    subject,    \* what is under review
    item, page, \* displayIdx and pageIdx of the last question
    shown,      \* its answer: error, key, value and pageCount
    read,       \* the pages read of this item, by number
    hashed      \* the message last hashed to be signed, and what was shown of it

itemVars == <<subject, item, page, shown, read, hashed>>
itemsVars == <<itemVars, modeVars>>

Nobody    == [kind |-> "none"]
Unread    == << >>
NotHashed == [preimage |-> << >>, key |-> "none", read |-> << >>, whole |-> FALSE]

-----------------------------------------------------------------------------
Answer(err, key, pages) == [err |-> err, key |-> key, value |-> pages.out, pageCount |-> pages.pageCount]
NoItem == [err |-> "no_data", key |-> "?", value |-> <<32>>, pageCount |-> 1]

IS_PRINTABLE(c) == c \in 32 .. 126
Printable(message) == \A k \in DOMAIN message : IS_PRINTABLE(message[k])

(* mutant: the first character decides *)
ItemByFirst(message, displayIdx, pageIdx) ==
    CASE displayIdx = 0 -> Answer("ok", "Sign", [out |-> <<80, 77>>, pageCount |-> 1])
      [] displayIdx = 1 /\ message # << >> /\ ~IS_PRINTABLE(message[1]) ->
           Answer("ok", "Msg hex", pageStringHex(PageLen, message, pageIdx))
      [] displayIdx = 1 -> Answer("ok", "Msg", pageStringExt(PageLen, message, pageIdx))
      [] OTHER -> NoItem

(* eip191_msg_getItem: "Sign Personal Message", and the message as text or *)
(* in hex.                                                                 *)
eip191_msg_getItem(message, displayIdx, pageIdx) ==
    CASE displayIdx = 0 -> Answer("ok", "Sign", [out |-> <<80, 77>>, pageCount |-> 1])
      [] displayIdx = 1 /\ ~Printable(message) -> Answer("ok", "Msg hex", pageStringHex(PageLen, message, pageIdx))
      [] displayIdx = 1 /\ Printable(message) -> Answer("ok", "Msg", pageStringExt(PageLen, message, pageIdx))
      [] OTHER -> NoItem

(* eip191_msg_parse: whether the message may be reviewed, and              *)
(* blindsign_required after it; the setting is asked for only at a         *)
(* character that cannot be printed.                                       *)
eip191_msg_parse(message, required) ==
    IF Printable(message) THEN [ok |-> TRUE, required |-> required]
    ELSE [ok |-> N_appmode.blindsign, required |-> RequiredAfterRead(required)]

(* eip191_hash_message: the magic text, the length the message declares,   *)
(* and the message.                                                        *)
SIGN_MAGIC == <<25, 69>>
eip191_hash_message(message) == SIGN_MAGIC \o Decimal[Len(message)] \o message

(* eth_addr_getItem: the address, and in expert mode its path. *)
eth_addr_getItem(path, displayIdx, pageIdx) ==
    CASE displayIdx = 0 -> Answer("ok", "Eth Address", pageStringExt(PageLen, Address, pageIdx))
      [] displayIdx = 1 /\ N_appmode.expert -> Answer("ok", "Path", pageStringExt(PageLen, bip32_to_str(300, path), pageIdx))
      [] OTHER -> NoItem

-----------------------------------------------------------------------------
Failed(err) == [err |-> err, key |-> "?", value |-> << >>, pageCount |-> 0]
Buffer(text) == text \o Fill(Nul, Room - Len(text))

(* mutant: the symbol is put in front before the point is set *)
PrintSymbolFirst(value, token, pageIdx) ==
    LET joined == z_str3join(Buffer(Decimal[value]), Room, token.symbol, << >>)
        point  == intstr_to_fpstr_inplace(joined.b, Room, token.decimals)
        trimmed == number_inplace_trimming(Text(joined.b), 1)
    IN  IF Len(Decimal[value]) > Room - 1 THEN Failed("unexpected_error")
        ELSE IF joined.err # "ok" THEN Failed("unexpected_buffer_end")
        ELSE Answer("ok", "Amount", pageStringExt(PageLen, trimmed, pageIdx))

(* printERC20Value: the amount of a transfer with the symbol of its token. *)
printERC20Value(value, token, pageIdx) ==
    LET trimmed(joined) ==
            IF joined.err # "ok" THEN Failed("unexpected_buffer_end")
            ELSE Answer("ok", "Amount", pageStringExt(PageLen, number_inplace_trimming(Text(joined.b), 1), pageIdx))
        symbol(point) ==
            IF point.ret = 0 THEN Failed("unexpected_value")
            ELSE trimmed(z_str3join(point.b, Room, token.symbol, << >>))
    IN  IF Len(Decimal[value]) > Room - 1 THEN Failed("unexpected_error")
        ELSE symbol(intstr_to_fpstr_inplace(Buffer(Decimal[value]), Room, token.decimals))

(* printRLPNumber. *)
printRLPNumber(value, pageIdx) ==
    IF Len(Decimal[value]) > Room - 1 THEN Failed("unexpected_error")
    ELSE Answer("ok", "Number", pageStringExt(PageLen, Decimal[value], pageIdx))

(* printBigIntFixedPoint, of a number that is not too long. *)
printBigIntFixedPoint(value, decimals, pageIdx) ==
    LET trimmed(fixed) ==
            IF fixed.ret # 0 THEN Failed("unexpected_value")
            ELSE Answer("ok", "Fixed", pageStringExt(PageLen, number_inplace_trimming(fixed.out, 1), pageIdx))
    IN  trimmed(fpstr_to_str(Room, Decimal[value], decimals % 256))

(* printEVMAddress, of the bytes of an address. *)
printEVMAddress(bytes, pageIdx) ==
    Answer("ok", "To", pageStringExt(PageLen, <<Zero, 120>> \o array_to_hexstr(65, bytes), pageIdx))

-----------------------------------------------------------------------------
(* The items of a subject, and what an item says on a page. *)
NumItems(s) ==
    CASE s.kind = "message" -> 2
      [] s.kind = "address" -> IF N_appmode.expert THEN 2 ELSE 1
      [] s.kind = "transfer" -> 4

getItem(s, displayIdx, pageIdx) ==
    CASE s.kind = "message" -> eip191_msg_getItem(s.message, displayIdx, pageIdx)
      [] s.kind = "address" -> eth_addr_getItem(s.path, displayIdx, pageIdx)
      [] s.kind = "transfer" ->
           CASE displayIdx = 0 -> printERC20Value(s.value, s.token, pageIdx)
             [] displayIdx = 1 -> printRLPNumber(s.value, pageIdx)
             [] displayIdx = 2 -> printBigIntFixedPoint(s.value, s.token.decimals, pageIdx)
             [] displayIdx = 3 -> printEVMAddress(s.to, pageIdx)

ItemsInit ==
    /\ ModeInit
    /\ subject = Nobody /\ item = 0 /\ page = 0
    /\ shown = Failed("none") /\ read = Unread /\ hashed = NotHashed

(* A screen asks for a page. *)
Ask(s, displayIdx, pageIdx, before) ==
    \E answer \in {getItem(s, displayIdx, pageIdx)} :
        /\ item' = displayIdx /\ page' = pageIdx
        /\ shown' = answer
        /\ read' = [k \in DOMAIN before \cup {pageIdx} |-> IF k = pageIdx THEN answer.value ELSE before[k]]

(* Between reviews a setting is changed in the menu. *)
SetMode ==
    /\ subject = Nobody
    /\ \E b \in BOOLEAN : app_mode_set_blindsign(b) \/ app_mode_set_expert(b)
    /\ UNCHANGED itemVars

(* handleSignEip191, when the last chunk of a message has come: the        *)
(* message is refused or its review starts.                                *)
handleSignEip191(message) ==
    LET parsed == eip191_msg_parse(message, app_mode_skip_blindsign_ui(blindsign_required))
    IN  /\ subject = Nobody
        /\ blindsign_required' = parsed.required
        /\ IF parsed.ok
           THEN /\ subject' = [kind |-> "message", message |-> message]
                /\ Ask([kind |-> "message", message |-> message], 0, 0, Unread)
           ELSE UNCHANGED <<subject, item, page, shown, read>>
        /\ UNCHANGED <<hashed, N_appmode, app_mode_temporary>>

(* The review of an address, and that of a transfer, start. *)
Review(s) ==
    /\ subject = Nobody
    /\ subject' = s
    /\ Ask(s, 0, 0, Unread)
    /\ UNCHANGED <<hashed, modeVars>>

ShowAddress == \E path \in Paths : Review([kind |-> "address", path |-> path])

ShowTransfer ==
    \E value \in Amounts, token \in Tokens, to \in Messages :
        /\ Len(to) = 4
        /\ Review([kind |-> "transfer", value |-> value, token |-> token, to |-> to])

(* The next page of the item, the first page of the next item, the page    *)
(* before and the last page of the item before.                            *)
NextPage ==
    /\ subject # Nobody /\ page + 1 < shown.pageCount
    /\ Ask(subject, item, page + 1, read)
    /\ UNCHANGED <<subject, hashed, modeVars>>

AtEnd == page + 1 >= shown.pageCount

NextItem ==
    /\ subject # Nobody /\ AtEnd /\ item + 1 < NumItems(subject)
    /\ Ask(subject, item + 1, 0, Unread)
    /\ UNCHANGED <<subject, hashed, modeVars>>

PreviousPage ==
    /\ subject # Nobody /\ page > 0
    /\ Ask(subject, item, page - 1, read)
    /\ UNCHANGED <<subject, hashed, modeVars>>

PreviousItem ==
    /\ subject # Nobody /\ page = 0 /\ item > 0
    /\ Ask(subject, item - 1, Larger(getItem(subject, item - 1, 0).pageCount, 1) - 1, Unread)
    /\ UNCHANGED <<subject, hashed, modeVars>>

(* The pages read, one behind the other, and whether they are all of the   *)
(* item on the screen.                                                     *)
Together == FlattenSeq([k \in 1 .. Cardinality(DOMAIN read) |-> read[k - 1]])
AllRead  == DOMAIN read = 0 .. shown.pageCount - 1

NothingShown == item' = 0 /\ page' = 0 /\ shown' = Failed("none") /\ read' = Unread

(* The reader approves at the end: a message is hashed to be signed. *)
Approve ==
    /\ subject # Nobody /\ AtEnd /\ item + 1 = NumItems(subject)
    /\ subject' = Nobody
    /\ hashed' = IF subject.kind = "message"
                 THEN [preimage |-> eip191_hash_message(subject.message), key |-> shown.key,
                       whole |-> AllRead, read |-> IF AllRead THEN Together ELSE << >>]
                 ELSE NotHashed
    /\ NothingShown
    /\ UNCHANGED modeVars

Reject ==
    /\ subject # Nobody
    /\ subject' = Nobody
    /\ NothingShown
    /\ UNCHANGED <<hashed, modeVars>>

ItemsNext ==
    \/ SetMode
    \/ \E message \in Messages : handleSignEip191(message)
    \/ ShowAddress \/ ShowTransfer
    \/ NextPage \/ NextItem \/ PreviousPage \/ PreviousItem \/ Approve \/ Reject

ItemsSpec == ItemsInit /\ [][ItemsNext]_itemsVars

-----------------------------------------------------------------------------
(* What an item stands for, as text. *)
Shift(n, places) == IF places = 0 THEN Decimal[n]
                    ELSE Decimal[n \div 10 ^ places] \o <<Dot>>
                         \o [k \in 1 .. places |-> Zero + ((n \div 10 ^ (places - k)) % 10)]

(* Zeros at the end are no part of it, but for the first decimal place. *)
Same(text, exact) ==
    /\ \E n \in 0 .. Len(exact) : exact = text \o Fill(Zero, n)
    /\ Contains(exact, Dot) => text[Len(text) - 1] = Dot \/ (Contains(text, Dot) /\ Last(text) # Zero)

(* When all pages of an item have been read it has been read whole: the    *)
(* message, as text or in hexadecimal digits, and an address.              *)
TextsReadWhole ==
    subject # Nobody /\ shown.err = "ok" /\ AllRead =>
        CASE shown.key = "Msg"         -> Together = subject.message
          [] shown.key = "Msg hex"     -> Together = Hex(subject.message)
          [] shown.key = "Eth Address" -> Together = Address
          [] shown.key = "To"          -> Together = <<Zero, 120>> \o Hex(subject.to)
          [] OTHER -> TRUE

(* So are a path, every number and every amount with its symbol, digit by  *)
(* digit.                                                                  *)
NumbersReadWhole ==
    subject # Nobody /\ shown.err = "ok" /\ AllRead =>
        CASE shown.key = "Amount" -> Same(Together, subject.token.symbol \o Shift(subject.value, subject.token.decimals))
          [] shown.key = "Fixed"  -> Same(Together, Shift(subject.value, subject.token.decimals))
          [] shown.key = "Number" -> Together = Decimal[subject.value]
          [] shown.key = "Path"   -> Together = bip32_to_str(300, subject.path)
          [] OTHER -> TRUE

(* What is hashed is what was read, when all pages were, and its length:   *)
(* two messages that read the same are the same.                           *)
HashedWhatWasRead ==
    hashed # NotHashed /\ hashed.whole =>
        \E message \in Messages :
            /\ hashed.preimage = SIGN_MAGIC \o Decimal[Len(message)] \o message
            /\ hashed.read = IF hashed.key = "Msg" THEN message ELSE Hex(message)
            /\ hashed.key = "Msg" <=> \A k \in DOMAIN message : message[k] \in 32 .. 126

(* A message is reviewed in hex only with blind signing enabled, and       *)
(* exactly then the review carries the warning.                            *)
HexIsBlind ==
    subject # Nobody /\ subject.kind = "message" =>
        LET text == \A k \in DOMAIN subject.message : subject.message[k] \in 32 .. 126
        IN  /\ blindsign_required <=> ~text
            /\ ~text => N_appmode.blindsign

(* Everything an item promises is there: no page of a review fails, but    *)
(* for an amount too long for its buffer.                                  *)
NoItemFails ==
    subject # Nobody /\ shown.err # "ok" =>
        /\ subject.kind = "transfer" /\ shown.key = "?"
        /\ Len(subject.token.symbol) + Larger(Len(Decimal[subject.value]), subject.token.decimals + 1) + 2 > Room

(* An item can be read to its end, and then has been read whole.           *)
EveryItemReadable == TextsReadWhole /\ NumbersReadWhole /\ NoItemFails

(* The user signs what she has read, with a warning when it was hex.       *)
SignsWhatWasRead == HashedWhatWasRead /\ HexIsBlind

=============================================================================
