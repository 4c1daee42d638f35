# Formal models of ledger-zxlib

ledger-zxlib is the C library that Zondax's Ledger apps share: the APDU main
loop, the transaction buffer, an EVM component (RLP, transaction parser, APDU
handlers), the review screens of every device, and formatting and encoding
helpers. It runs on one thread. What makes it hard is not parallelism but
*protocols with state in static variables*: a host that sends commands in any
order, chunks that must be put together exactly, a user who walks through
screens in any direction, errors that jump out of the middle of a handler
(`THROW`), and a device that can be unplugged at any exchange.

Paths below are relative to the repository's root (`src/` in `PROJECT.json`).

## Inventory

| Component | State | Operations | What makes it correct |
|---|---|---|---|
| Transaction buffer, `src/buffering.c` | two areas `ram`, `flash`: size, pos, in_use, data | init, reset, append, get_buffer | positions within bounds, one area in use, nothing lost in the move to flash |
| EVM APDU handlers, `evm/apdu_handler_evm.c`, `evm/evm_utils.c` | `tx_initialized`, `bytes_to_read`, `hdPathEth`, the buffer | GetAddrEth, SignEth, SignEip191, reset of the session | what is reviewed is exactly what the host announced, with the path it announced |
| Main loop, `app/common/app_main.c` | `rx`, `tx`, `flags`, the APDU buffer | io_event, exchange, dispatch, error reply, IO reset | one reply per command, none lost behind a screen |
| Modes, `src/app_mode.c` | persistent expert/account/blindsign, temporary secret/shortcut, `blindsign_required` | set, reset, skip | the warning shown belongs to the transaction shown |
| Paging cursor, `app/ui/view.c`, `app/ui/view_nano.c` | itemIdx, pageIdx, pageCount, itemCount | init, increase, decrease, update | the cursor stands on a page that exists, every page is on the way |
| Nano X / S+ review, `app/ui/view_x.c` | cursor, `flow_inside_loop`, `ux_review_flow`, its index, the skip screen's button handler | show, left, right, double press | no approval before reading, unless the user skips |
| Nano S review, `app/ui/view_s.c` | cursor, `is_in_skip_menu`, accept and reject items | show, left, right, double press | the same |
| Inspection, `app/ui/view_nano_inspect.c`, `view_inspect_s.c`, `view_inspect_x.c` | level, trace, inner cursor | enter, leave, walk | the trace names the way back, its depth is bounded |
| Touch review, `app/ui/view_nbgl.c` | page-count cache, pair counter, intro buffers | fill pairs, choice, settings | every page becomes exactly one pair, no answer after a final one |
| EVM parser, `evm/rlp.c`, `evm/parser_*_evm.c`, `evm/evm_erc20.c`, `evm/tx_evm.c` | the parsed transaction `eth_tx_obj`, which outlives it | read, validate, get item, compute v | accepts the RLP grammar, nothing outside the buffer is read, nothing of an earlier transaction is left |
| EVM keys, `evm/crypto_evm.c`, `src/sigutils.c` | key and signature on the stack | derive, sign, convert, wipe | no key outlives its operation, no failure answers anything |
| EIP-191 messages and items, `evm/evm_eip191.c`, `evm_addr.c`, `evm_erc20.c` | the parsed message | parse, paging, hash | what is shown is what is hashed |
| Formatting, `src/zxformat.c`, `include/zxformat.h`, `src/bignum.c`, `evm/uint256.c`, `src/timeutils.c` | none | pure functions | the text denotes the number |
| Encodings, `src/base58.c`, `base64.c`, `bech32.c`, `segwit_addr.c`, `hexutils.c`, `asciify` | none | pure functions | decode is the inverse of encode |

How they interact: `app_main` exchanges an APDU and calls the app's dispatcher,
which calls an EVM handler. The handler appends chunks to the buffer, throws
`OK` to ask for more, or parses the whole and starts a review
(`view_review_init`, `view_review_show`) and sets `IO_ASYNCH_REPLY`. While the
review is open `io_exchange` only serves events; `io_event` feeds the buttons
to the screens. The user's answer calls `h_approve`, `h_reject` or
`h_error_accept`, which send the reply. The screens pull their text through
`viewfuncGetItem` from the parser, page by page. Unplugging throws
`EXCEPTION_IO_RESET` out of `io_event`, and `app_init` starts the screens again
while every static of the handlers keeps its value.

Hard behaviours, and the properties they call for, are listed one by one under
`hazards` in `PROJECT.json`. In short: sessions of two handlers over the same
statics; paths rewritten under an open session; errors between two updates of
related state; unsigned counts that pass zero; a loop made of flow steps whose
direction is a flag; a screen that replaces the flow it belongs to; items
without pages; stale state after an unplug.

## Modules

| Module | Models | Used by |
|---|---|---|
| `BufferingSpec` | the promise of the buffer: one sequence of bytes of one capacity | `Buffering` (refinement) |
| `Buffering` | `src/buffering.c` | `EvmSessionProofs`, `MCBuffering` |
| `EvmSession` | `evm/apdu_handler_evm.c` and the length arithmetic of `evm/evm_utils.c` | `MCEvmSession` |
| `NanoPaging` | the cursor of `app/ui/view.c` and `app/ui/view_nano.c`, as operators | `ReviewNanoX`, `ReviewNanoS`, `Inspect` |
| `NanoPagingProofs` | lemmas about the cursor | `ReviewNanoXProofs`, `ReviewNanoSProofs`, `InspectProofs` |
| `EvmSessionProofs` | theorems about `EvmSession` and `Buffering` | |
| `RpcSpec` | the promise to the host: one reply per command | `AppMain` (refinement) |
| `AppMode` | `src/app_mode.c` as built for a device | `AppMain` |
| `AppMain` | `app/common/app_main.c` around handlers, screens and the idle menu of a Nano X | `AppMainProofs`, `MCAppMain` |
| `AppMainProofs` | theorems about `AppMain` | |
| `ReviewSpec` | the promise of a review: a line of screens | `ReviewNanoX`, `ReviewNanoS` (refinements) |
| `ReviewNanoX` | `app/ui/view_x.c`, the review flow | `MCReviewNanoX` |
| `ReviewNanoXProofs` | theorems about `ReviewNanoX` | |
| `ReviewNanoS` | `app/ui/view_s.c` with the Nano S parts of `view_nano.c` | `MCReviewNanoS` |
| `ReviewNanoSProofs` | theorems about `ReviewNanoS` | |
| `Inspect` | `app/ui/view_nano_inspect.c`, `view_inspect_x.c` | `MCInspect` |
| `InspectProofs` | theorems about `Inspect` and `EvmItems` | |
| `ReviewNbgl` | `app/ui/view_nbgl.c`, reviews of the touch devices | `MCReviewNbgl` |
| `ReviewNbglProofs` | theorems about `ReviewNbgl` | |
| `EvmV` | `_computeV` | `EvmTx`, `EvmKeys` |
| `EvmTx` | `evm/parser_impl_evm.c`, `parser_evm.c`, `tx_evm.c`, the ERC-20 test, the second half of `handleSignEth` | `MCEvmTx` |
| `Sigutils` | `src/sigutils.c` | `EvmKeys` |
| `EvmKeys` | `evm/crypto_evm.c`, call by call | `MCEvmKeys` |
| `EvmSigningProofs` | theorems about `Rlp`, `EvmTx` and `EvmKeys` | |
| `EvmItems` | `evm/evm_eip191.c`, `evm_addr.c`, and the printers of `evm_erc20.c` and `evm_utils.c`, read page by page | `MCEvmItems` |
| `Rlp` | `evm/rlp.c`, as operators on windows of bytes | `RlpCalls`, `EvmTx` |
| `Zxformat` | `src/zxformat.c`, `include/zxformat.h` on bytes | `ZxformatCalls`, `EvmItems` |
| `Uint256` | `evm/uint256.c`, and calls of it | `MCLibrary` |
| `Bignum` | `src/bignum.c`, and calls of it | `MCLibrary` |
| `Encodings`, `Bech32`, `Texts` | `src/base58.c`, `base64.c`, `hexutils.c`; `bech32.c`, `segwit_addr.c`; `asciify` and `extractTime` | `EncodingsCalls` |
| `RlpCalls`, `ZxformatCalls`, `EncodingsCalls` | calls of these functions, and what callers rely on | `MCLibrary` |

### Buffering

`ram` and `flash` are the two `buffer_state_t`; `pos` is the length of the
recorded data. `buffering_append` is split into the three ways through the
function: `AppendToRam`, `SpillToFlash` (the recursive calls included, in their
order, with the ignored result of the first), `AppendToFlash`. `ret` is the
value returned. `buffering_init` may be called again at any time, with other
sizes.

The abstract `BufferingSpec` has one content and one capacity; `Accept` stores a
chunk and returns its length, `Refuse` leaves the content and returns 0. The
detailed module implements it if flash is never smaller than RAM
(`FlashCoversRam`), which holds for the sizes the apps configure.

### EvmSession

One action per handler and payload type: `FirstEth`, `MoreEth`, `FirstEip191`,
`MoreEip191`, `GetAddrEth`, plus the two ways a chunk is refused early
(`RefuseHeader`, `RefusePath`), the user's `Answer` and the unplugged device
(`IoReset`). Within an action the disjuncts are the code's branches in order,
and each states what the statics hold at that exit: `Throw(sw, open,
remaining)` gives the status word and the values of `tx_initialized` and
`bytes_to_read` the handler leaves behind, which the dispatcher then resets if
`ResetOnError` holds. That reset is asked for in `evm/apdu_handler_evm.h:27-29`
and done by the consuming app, so the constant covers both.

The buffer is one sequence of at most `Capacity` bytes: that is what the theorem
`OneBuffer` justifies. `session` is a history variable: which handler's chunks
make up the session, which path its first command brought, which bytes the host
sent.

Integers keep their width: `bytes_to_read` modulo `U32`, the difference
`Missing` modulo `U64`, `saturating_add` at `U64 - 1`. Both sizes, the base of a
byte and the RLP list markers are constants, so that TLC can use small ones.
`error_code` is read uninitialised when the parser refuses a transaction
(`apdu_handler_evm.c:284,294`): `Complete` allows both outcomes.

The host is taken to be in lock step: it sends the next command after the reply
to the last one, so no command arrives during a review.

### AppMode, AppMain

`AppMode` keeps the settings in flash (`N_appmode`), those in RAM
(`app_mode_temporary`) and `blindsign_required`; its setters are operators that
`AppMain` uses in its menu, and the side effect of `app_mode_blindsign()` is the
value `RequiredAfterRead`.

`AppMain` cuts the loop of `app_main` where it can be interrupted: `Exchange`
is the top of the loop up to the wait inside `io_exchange` (what `tx` counts is
sent unless `flags` say that the reply comes later), `Receive` the return of
`io_exchange` with a command, the dispatch and the catch block. Between the two,
at `pc = "wait"`, the events run: `UserAnswer` (`h_approve`, `h_reject`,
`h_error_accept` and the callbacks of the app behind them), `ReviewFails` (an
item cannot be shown), the idle menu, and `IoReset`. A handler is reduced to
what it does to `tx`, `flags`, the screen and `blindsign_required`; what it does
to the chunks is `EvmSession`, what the user sees before answering is
`ReviewNanoX`. `error_code` may be read uninitialised (`handleSignEth`,
"unreadable"). `handleApdu`, `account_enabled` and `shortcut_enabled` belong to
the consuming app: the first is taken to call the EVM handlers and to throw
anything for other commands, the other two to open a `REVIEW_UI` review whose
approval sets the mode.

The SDK drops a command that comes before the reply to the last one, so the
host is in lock step; `host = "confused"` records a reply out of turn. A review
the app opened itself leaves the host free, so commands and that review do
interleave.

### NanoPaging, ReviewNanoX

The items under review are the sequence of their page counts. The cursor is a
record; `h_paging_increase`, `h_paging_decrease` and the item loop of
`h_review_update_data` (`UpdateItem`) are operators from cursors to cursors.
The loop over items without pages is the closed form `FirstShown`: the first
item at or after the cursor with a page, or the end.

`ReviewNanoX` keeps the flow as a sequence of step names and `at` as the SDK's
index. The SDK is external: `FlowRight` and `FlowLeft` enter a neighbouring
step, and entering `start`, `inside` or `end` runs `h_review_loop_start`,
`h_review_loop_inside` or `h_review_loop_end` to completion, in one action,
as it happens in one button event. The skip screen has its own flow of one step
and its own three buttons. `shown` and `skipped` are history variables.

Left out: the scrolling of a long page inside a step, errors of `getItem` (a
hazard with a note), blind-signing reviews that can be skipped (their start
step is not in the flow, and what the SDK does then is not in this repository),
reviews that end in an item without pages.

### ReviewNanoS

On Nano S a review is one list: introduction pages (a request for review, a
blind-signing warning, "Skip fields"), the items, an item that approves, an item
that rejects. `NanoPaging` has the cursor, and `ReviewNanoS` what `view_s.c`
puts around it: `Right`, `Left`, `SkipRight`, `SkipLeft` with the branches of
`h_review_button_left` and `_right`, in and out of the skip menu of progressive
reviews with its static `is_in_skip_menu`; `Both` for `h_review_button_both`;
the error screen (`ErrorRight`), the shortcut in the idle menu
(`DisableShortcut`), the unplugged device (`IoReset`). `build` is the set of
build flags that are defined, chosen in `Init`, so one run covers several
builds. The text of the application's own introduction is one screen, whatever
it says.

Both reviews implement `ReviewSpec`: screens in a line, one at a time, an answer
only on the last ones. Where a review offers to skip, the skip screen stands for
the page it hides, and its way to the approval and back is the abstract `Skip`.
An item that cannot be shown ends the review (`Abandon`, or `Refuse` if it was
the first).

### Inspect

An item may hold a list of items, an item of which may hold another. Each list
is a flow of its own: "Go to root", the items, "BACK". `Tree` gives the lists by
their depth; `trace` is the code's array, `level` its index, and `paging` the
cursor of the lists. What the stores behind the end of `trace` hit is modelled
(`paging.itemIdx`, the next member of the struct). The review itself stays
where it is; an inspection may start from any of its pages.

### ReviewNbgl

The SDK's library asks for pairs by number: any screen of at most
`NB_MAX_DISPLAYED_PAIRS_IN_REVIEW` consecutive pairs that adjoins those seen,
forward or back, and then for the answer. `update_item_callback` finds item and
page of a number from the page counts of the items before, which are cached for
the first `MAX_CACHED_ITEMS`; the number of pairs is a byte. Slots keep their
contents from screen to screen (`FieldOfSlot`), which is how blank and stale
pairs come about. `seen` and `answers` are history variables. `intro_message`
and `approval_label` are modelled by the length of the intent against `MAX_CHARS`. Of the two status
calls of a generic choice the second is taken to replace the first. The label
and the use case of blind signing are left out.

The application opens a review or an error screen when the host sends a command,
which it does when it waits for no answer (`HostMayAsk`): over the idle screen,
over a screen that was left standing after its answer, or over a configuration,
of which the host does not know. It does not while a review it asked for is open.
`answers` records what was called for the request that is open: "approved" by
`h_approve`, "accepted" by `confirm_setting`, which calls the same callback
without the idle screen before it. Whether the callback shows one is up to the
application, so the screen stays or turns idle. As long as it stays, "Ok" may
be pressed again; `MaxAnswers` bounds how often.

### Rlp, EvmTx, EvmV

A context is a window on the bytes with an offset, as in the code; `rlp_read`
tells the kinds of prefix apart in the code's order, with its checks and the
integer widths of the lengths. `rlp_parseStream` and `rlp_readList` are the
loops around it. `RlpCalls` reads what a sender encoded, by encoders
(`EncodeString`, `EncodeList`) that are stated apart from the reader, and all
short byte strings around the prefixes.

`EvmTx` receives a request (`handleSignEth`: reset, read, validate, ERC-20 test,
the review) and answers it (`Approve`, `Reject`); `h_blindsign_toggle` is the
setting in the idle menu. `eth_tx_obj` lasts from one request to the next. A
number is its bytes without leading zeros; a chain id
keeps its bytes, because how many there are is what the code gets wrong. In
`_computeV` the chain ids whose double is not below 2^32 are cut to 31 bits
first, which differs from the code for the last 18 ids below 2^31 at most, where
the sum saturates: `Saturates` covers those. `parser_context_t`, whose widths
come from the application, is external.

### EvmKeys, Sigutils

`crypto_sign_eth` and `crypto_fillEthAddress` cut at every call of the operating
system: derivation, public key, signature, hash. Each may fail, and the code
between two calls is one action: `Derive`, `InitPrivate`, `Sign`, `Convert`,
`Wipe`, `FixV` for a signature, `InitPublic`, `Generate`, `Address` for an
address. `privateKeyData` and `cx_privateKey` are what is on the stack, so
`NothingLeftOver` says that no key is there when the operation is over,
whichever call failed. The DER signature is bytes; a byte beyond what was given is `Junk`, so
a read of it shows. The operating system is taken to answer in DER, or with a
wrong marker or length (`SignaturesAssumption`); a wrong one comes within 39
bytes, which `convertDERtoRSV` reads in any case.

### EvmItems, Zxformat, Uint256, Bignum, Encodings, MCLibrary

Buffers are sequences of bytes with the code's sizes; a text is what comes
before the first zero byte. `ZxformatCalls` fills the memory behind a buffer
with a mark, so a write outside shows. These functions keep no state: a step of
`MCLibrary` is one call, an action of a `...Calls` module with any of the
instance's inputs, and the properties compare the result with a reference that is stated in other terms (numbers, sets of digits, the
calendar). `pageStringHex` with room for one digit divides by zero; nothing in
the repository calls it so. `hexstr_to_array` is given hexadecimal digits.

`EvmItems` reads messages, addresses and amounts the way a screen does: page by
page, each asked for anew, between one request and the next. Amounts of tokens
whose symbol holds a point, or whose decimals go beyond the code's buffer of 100
bytes, are outside of `ItemsAssumption`; the trimming takes the first point it
finds (`evm_erc20.c:87`). An item has fewer than 256 pages: beyond that
`pageCount`, a byte, wraps. The theorems say so in `FewPages`; the items of the
run have a handful.

`Uint256` has words of `W` bits for the code's 64, an even number because the
code halves them. `Bignum` is double dabble bit by bit: a fold of `Turn` over
the bits of the number, which `DecimalOfBits` compares with the number after
every one of them.

Base 58 and base 64 work on values of the alphabet; the tables that map values
to characters are constants of the code and are not part of the model.
`Bech32` keeps the checksum as six words of five bits. `extractTime` takes days
and the seconds of the day apart, because TLC's integers are narrower than the
code's; `DaysAround` goes through the ends of months and years to 2599.

## Runs

| Run | Configuration | Question and bounds |
|---|---|---|
| `buffering` | `MCBuffering.cfg` | Does the pair of areas act as one buffer? RAM and flash of a few bytes with flash at least as large, chunks of length 0 to 3: every chunk fits, just fits, or does not fit, in RAM and in flash, after every fill level. |
| `session` | `MCEvmSession.cfg` | Are transactions and messages reassembled exactly? 8 byte values, list markers 3 to 7, a one-byte length prefix, a buffer of 6 bytes, at most 9 payload bytes per session (`MaxStream`). Transactions and messages come whole, short by one and by three, with a version byte, with a long header, longer than announced, longer than the buffer and broken; paths valid, foreign, short and cut. A buffer larger than the longest short list and smaller than what a long header can announce makes every branch of the arithmetic happen, and a buffer smaller than `U32` keeps the modular count as far from wrapping round as in the code. The dispatcher resets on errors (`ResetOnError = TRUE`). |
| `main` | `MCAppMain.cfg` | Is every command answered exactly once, and does the warning belong to its review? All commands and all settings in flash at start; refused commands throw a status word and an SDK exception that is none; two secret clicks. Items of the handlers' own reviews may fail (`FailingReviews`). Nothing else is bounded: the state space is finite and complete. |
| `nanox` | `MCReviewNanoX.cfg` | Is a Nano X review a line of screens, read before it is approved, with no page lost to the skip screen, and does right lead to the approval? Layouts of one to three items of one to three pages, every kind of review, with and without intent and blind-signing warning; items without pages at the front, between others, several in a row, with and without the shortcut; skip screens in front of items of one page, from the third item on. |
| `nanos` | `MCReviewNanoS.cfg` | The same of Nano S, with the whole warning in front of a blind one: five builds, skip menu, gaps, failing items, shortcut, unplug. |
| `inspect` | `MCInspect.cfg` | Do walks in and out of lists keep the way back? The deepest list the trace has room for, nested items first, last and in between, items of up to three pages beside them. |
| `nbgl` | `MCReviewNbgl.cfg` | Is every pair the one its number stands for, and does nothing of one review survive into the next? Up to four items of up to three pages, two pairs to a screen, two items cached: cached and uncached items, screens that are full and not, items that end inside a screen, items without pages; intents of no length, the longest that fits, one more. `MaxAnswers = 3`: an answer after two that left the screen standing. |
| `evm_tx` | `MCEvmTx.cfg` | Does every request that comes to review consist of its own items, and is it clear-signed only if it is a transfer? All three types, calls that are and are not transfers, chain ids of 0 to 9 bytes, fields missing, too many, of the wrong kind, bytes behind; every request after every other. |
| `evm_network` | `MCEvmTxNetwork.cfg` | Violation: see Disagreements. |
| `evm_keys` | `MCEvmKeys.cfg` | What is left and answered if any call fails? r and s of 1 to 33 bytes, with and without the sign byte, every marker and length wrong. |
| `evm_items` | `MCEvmItems.cfg` | Has a reader who is at the last page read the whole item? Pages of three characters, messages of up to four pages, printable and not, amounts around the decimals of four tokens. |
| `library` | `MCLibrary.cfg` | Do the functions without state agree with arithmetic, and does everything read back? Every pair of 33 numbers of 16 bits at the borders of words and half words; numbers of up to two bytes into one to three bytes of decimal; text buffers of 1 to 12 bytes, numbers at powers of ten and the limits; contents of up to three bytes at the edges of a byte and a digit and longer ones, every size of output up to 24, witness programs of legal and illegal lengths, code points at each change of length, the ends of months in ten years; RLP strings and lists of 0 to 2, 55, 56, 255 and 256 bytes, and all strings of up to three of 16 prefix bytes. |

The cursor of the Nanos has no other memory than the current item and page, so a
layout longer than "first, middle, last, with one to three pages or none" repeats
situations the small ones have. The same holds for the touch devices, whose
cache has a boundary as well (items past the second).

Deadlock is checked in every run.

### Safety, action properties, liveness

`Buffering`: `WithinBounds`, `OneActive`, and the refinement
`ImplementsOneBuffer`. `EvmSession`: `PathOfSession` (a path cannot be replaced
under a session), `EthWhole` (a reviewed transaction is exactly one, by a
definition of RLP independent of the reassembly), `Eip191Whole`, and
`BytesAccounted` (`NoHole` and `Countdown`: content against the stream the host
sent; `NotOverdue`: the last chunk is recognised). `AppMain`: `AnsweredOnScreen`
(while the loop waits, the screen asks for an answer exactly if a reply is
owed), `WarnsIffBlind`, and the refinement `ImplementsRpc`,
which holds a liveness property: a command is answered or the device unplugged.

The reviews: `ApprovedAfterReading` on each device (on Nano S the whole warning
included), the refinement `ImplementsLine` of the Nanos, the action properties
`RightReads` (Nano X) and `StaleSkipHarmless` (Nano S: the static that survives
a review cut short does nothing in the next). `ReviewNbgl`:
`NothingFromElsewhere` (pairs, cached counts and texts are those of this review)
and `AnswersFinal` (after a rejection, an error or an approval by `h_approve`
nothing answers the same request again; the answers of `confirm_setting` are
excepted, see Disagreements). `Inspect`: `KnowsWhereItIs` (the trace against the
path the user took, and a page that exists) and `ReturnsWhereItBegan` (the lists
are left, from any depth, to the page of the review where they were entered;
"BACK" leaves the first list and the second, and from a deeper one shows the
item it was entered through).

The EVM part: `ReviewedAsSent` (the fields against the items of the encoded
list, nothing of an earlier transaction, an allowed chain id), `ShownOrWarned`
(clear-signed is a transfer; everything else was allowed and shown as blind),
`VTellsParity`; `NothingLeftOver` and `AnswersTheSignature` of `EvmKeys`;
`EveryItemReadable` (messages and addresses in `TextsReadWhole`, amounts, numbers
and paths in `NumbersReadWhole`, and `NoItemFails`) and `SignsWhatWasRead` of
`EvmItems`. `MCLibrary` joins the
properties of the pure functions in one for each family: `BigNumbersExact`,
`FormattingExact`, `EncodingsReadBack`, `RlpExact`.

Fairness: `AppMain` assumes that the loop runs on (`Exchange`), that
`io_exchange` returns a command that has arrived (`Receive`; it polls for
nothing else), and that a user who is asked answers sometime (`UserAnswer`;
without a user a review stays open, by design). No other module assumes any.
The screens move only when the user presses a button and the handlers only when
the host sends a command, and neither has to. `RightReachesApproval` of
`ReviewNanoX`, `RightReachesEnd` of `ReviewNanoS` and `WalkEnds` of `Inspect`
therefore state their assumption: a user who from some moment on presses only
right (or only left), and goes on doing so.

## Disagreements

Where the code does not do what a line of the repository says of it. The first
is shown by a run of its own, which must find the violation; the quotation is
under `findings` in `PROJECT.json`.

- `evm_network`. Chain ids 128 to 255 are refused, although supported: `readChainID`
  takes a chain id of one byte only when the byte is its own encoding
  (`evm/parser_impl_evm.c:54`), and these come as a string of one byte.
  `parser_impl_evm.c:73`: "Check allowed values for chain id using external
  configuration".

The others came up while the models were written. The models do what the code
does; the passing runs leave the case out by the constant or the condition
named, and bringing it in shows the counterexample.

- `src/buffering.c:57`. The result of the move from RAM to flash is ignored: with
  a flash area smaller than RAM, an append drops what was there and reports
  success (`include/buffering.h:44`: "Append data to the buffer"). Left out by
  `Configs`, whose flash areas are as large as the RAM (`FlashCoversRam`);
  `<<2, 1>>` breaks `ImplementsOneBuffer`.
- `evm/apdu_handler_evm.c:124`. MORE of SignEip191 continues a session that
  SignEth opened, where `bytes_to_read` is 0: an empty chunk completes a
  "message" (line 313: "Full message assembled"). `Eip191Whole` speaks of
  sessions that are the message handler's; in the other direction nothing
  similar happens, `EthWhole` holds for mixed sessions too.
- `app/ui/view.c:118`. "Ok" on the error screen replies to the host also for a
  `REVIEW_UI` review, which belongs to no command (line 77: "Set > 0 to reply
  apdu message"). Left out by `FailingReviews`; with `"UI"` in it
  `AnsweredOnScreen` fails.
- `app/ui/view_x.c:776`. After "Press right to read" (line 112), `itemIdx++` is
  undone by `h_paging_decrease` only if `pageIdx` is 0: an item of several pages
  loses its last page and goes on with the next item at the page index of the
  one before. Left out by `Reviews`: `<<1, 1, 2, 1>>`, progressive, breaks
  `RightReads`.
- `app/ui/view_nano.c:156`. `set_accept_item` jumps to `itemCount - 1` while
  `itemCount` still is the 0xFF of `h_paging_init`: skipping out of an
  introduction of two pages and going back ends in the error screen
  (`app/ui/view_internal.h:191`: "either continue reviewing items or proceed to
  the final approval step"). `ImplementsLine` takes an error screen for the end
  of a review and holds.
- `app/ui/view_nano.c:213`. With `REVIEW_SCREEN_ENABLED` a message review has one
  introduction page by count and none by content: it opens in the error screen
  (`Refuse` of `ReviewSpec`).
- `app/ui/view_s.c:249`. The page "Skip fields" has a branch for a double press
  (line 386, "quick accept") that no double press reaches.
- `app/ui/view_inspect_x.c:98`. The guard on the depth and the size of the trace
  ("uint8_t trace[MAX_DEPTH]", `app/ui/view.h:67`) differ by one; the store
  behind it hits `paging.itemIdx`. Left out by `Tree`, which is as deep as the
  trace has room for.
- `app/ui/view_inspect_x.c:110`. A list opened from the second page of an item
  opens on the second page of its first item, which may have one
  (`view_nano.c:300`: "be sure we are not out of bounds"). Left out by `Tree`:
  lists begin with items of enough pages, and nested ones entered further on
  have one.
- `app/ui/view_inspect_x.c:127`. "BACK" leads to the item a list was entered
  through from the third list on only: `level` is 0 in the first list, and at
  level 1, the second, the code takes the way of the first, to the review ("Go
  back to root txn review", line 139). `BackLeadsUp` says which way is taken
  from which list.
- `app/ui/view_inspect_x.c:80`. `flow_inside_inspect_loop` survives an unplug,
  and the next inspection opens on "Go to root" instead of its first item. The
  walk back from there is right all the same (`KnowsWhereItIs`,
  `ReturnsWhereItBegan`).
- `app/ui/view_nbgl.c:259` and `:289`. 257 pages are one pair, by a sum in eight
  bits, and behind an item without pages every pair is blank; both are approved
  unseen ("without ever silently hiding bytes from the signer",
  `view_internal.h:55`). Left out by the condition `Numbered`.
- `app/ui/view_nbgl.c:468`. For an address review of more items than slots the
  error is shown ("Show address error", line 467), and then the slots are filled
  past their end. Left out by `Reviews`: addresses have one or two items.
- `app/ui/view_nbgl.c:210`. "Ok" on the error screen calls `viewfuncAccept`, so
  the error screen of a configuration approves it. `ApprovedAfterReading` leaves
  out reviews that have shown the error screen. After an error screen of the
  application (`view_error_show`) it is the callback of the review before,
  approved or rejected.
- `app/ui/view_nbgl.c:175`. `confirm_setting` calls `viewfuncAccept` and returns,
  where `h_approve` draws the idle screen first (`app/ui/view.c:97`). Unless the
  callback draws one, a confirmed configuration and the error screen stay, and
  "Ok" calls the callback once more, or the other button rejects what was
  accepted. `AnswersFinal` excepts what follows an answer of `confirm_setting`,
  and nothing else.
- `evm/parser_impl_evm.c:55`. The length of a chain id is cut to eight bits
  before it is checked: 257 bytes are taken for the value of their first one.
  `ChainIdAllowed` speaks of items shorter than 256 bytes.
- `evm/parser_impl_evm.c:335`. A legacy transaction without chain id gets the v
  of EIP-155 for chain 0, 35 or 36 (line 96: "Check for legacy no EIP155 which
  means no chain_id"). `VTellsParity` holds of it as of the others.
- `include/zxformat.h:42`. A negative number may take the byte of the terminator
  (`tests/macros.cpp:351`, "Buffer too small"); `:93`: the last step of a path is
  cut without an error (`tests/bip44path.cpp:35`, "ERROR"); `:248`: a number of
  exactly the size loses its last digit (`tests/macros.cpp:144`, "ERR");
  `src/zxformat.c:80`: leading zeros move the decimal point ("Trim any incorrect
  leading zeros", line 74). `NumbersReadBack` asks for the terminator of
  numbers that are not negative, `PathShown` lets the last step be cut,
  `DecimalsKeepValue` is about calls without leading zeros and with room.
- `evm/uint256.c:409`. `mul256` adds the carry of its third word to the first
  word instead of the second (`evm/uint256.h:18`: "Adapted from
  https://github.com/calccrypto/uint256_t"). Nothing calls it; `SumsCarry` is
  about `mul128`.
- `src/bech32.c:36` and `src/base64.c:32`. The bounds that are to make the output
  safe ("We set a lower bound to ensure this is safe") are one byte short for
  fewer than three bytes, and a sixth of the bytes instead of four thirds.
  `Bech32ReadsBack` speaks of the room from three bytes on, and `Base64Whole` of
  the text and not of the room.

## Theorems

`EvmSessionProofs` proves, for every set of commands, every capacity and stream,
and every width of a byte and an integer:

- `TypeCorrect` and `WholeTransaction` (`[]EthWhole`): what goes under review as a
  transaction is exactly one, whichever handlers the chunks went to, and whether
  the dispatcher resets sessions or not.
- `WholeMessage` (`[]Eip191Whole`) and `AllBytesAccounted` (`[]BytesAccounted`),
  both if `ResetOnError`: without the reset, a session goes on after an error
  that stored nothing of its chunk.
- `PathKept` (`[]PathOfSession`). `FIRST` writes path and history together
  (`PathWritten`: an accepted path is in the array as a whole, whatever a refused
  one left there), `MORE` runs only in an open session and touches no path, and
  everything else that writes the path ends with the session closed and no
  review open.

The inductive invariant is `SessionInv`: types, the path, the content as a prefix
of the stream (`EthPart`) or as the stream itself with the count of what is
missing (`MessagePart`), and `OneAtATime`: no chunk is awaited while something is
on the screen, which is what makes the content of a review the last one stored.
Counting modulo `U32` is exact because `Capacity < U32`: an announced length can
exceed the buffer, the number of bytes stored cannot, so the count reaches zero
neither early nor late. That a header of n bytes is at most `Places[n]` is the
one induction; it runs over a set of naturals, whose least element the library
gives.

The last section of `EvmSessionProofs` proves, for every set of configurations
and chunks of the buffer under the sessions (its names begin with `Buffer`, so
that one module can extend both):

- `BufferTypeCorrect`, `BoundsRespected`, `ExclusiveAreas`: `[]BufferTypeOK`,
  `[]WithinBounds`, `[]OneActive`. The inductive invariant `BufferInv` adds
  `Unconfigured`: an area is in use once sizes are set. `OneActive` is needed
  for the bounds, because a move to flash appends to an area that must be
  empty; `BufferTypeOK` gives the lengths their arithmetic. The case of
  `SpillToFlash` rests on two lemmas: `MovedProperties` (what the recursive call
  leaves) and `FlashAppendProperties` (what the flash branch does to any area
  within bounds).
- `OneBuffer`: `FlashCoversRam => (BufferSpec => ImplementsOneBuffer)`. With
  `FlashCoversRam` the invariant gains "the flash size covers the RAM size";
  then the move always succeeds, and every step of an append is an `Accept` or a
  `Refuse` of the abstract buffer, resets are `Clear`, inits `Configure`.

`AppMainProofs` proves, for every set of exceptions and every number of clicks:

- `TypeCorrect`, which includes that only status words of class 6 or 9 are sent
  whatever was thrown (`SwOfStatus`).
- `NothingLost` (`[]AnsweredOnScreen`), `NothingUnasked` (`[]RepliesToApdu`) and
  `OneReply` (the safety half of `ImplementsRpc`), all three under `UiNeverFails`
  (no `REVIEW_UI` among `FailingReviews`), without which they do not hold. `AnsweredOnScreen` speaks of a
  waiting loop only; the inductive invariant `Owed` says the same of the top of
  the loop, where the reply may still be in `tx`. The handlers enter through one
  lemma, `ReceiveHandled`: a handler leaves a reply in `tx`, or an error screen
  with `IO_ASYNCH_REPLY`, or a review with it.
- `WarningBelongs` (`[]WarnsIffBlind`), which is inductive with the types: a
  review is opened with the right warning, and while it is open no step changes
  the setting.

`NanoPagingProofs` has the lemmas about the cursor of the Nanos that both reviews
cite: what increase, decrease and `UpdateItem` make of it for any items and
pages, and how the set of pages up to the cursor grows by each of them.

`ReviewNanoXProofs` proves, for every set of reviews of up to 128 items:

- `TypeCorrect`, from the shape of the flows (`Shape`: one to three screens, the
  three of the loop, one or two that answer).
- `ReadingComesFirst` (`[]ApprovedAfterReading`), `NoEmptyPage` (every screen of
  the loop stands for a page that exists) and `ReadsWhatWasAsked` (`RightReads`).
  `WalkInv` says of each screen where the cursor is and which pages were shown:
  all up to the page on the screen, all before the page the skip screen stands
  for, all of them behind the loop.
- `LineImplemented` (`ImplementsLine`): each step is a step of `ReviewSpec` or a
  stutter. `LineInv` adds which of the two flows is open.

All but the first are under `SkipsShortItems`: in a progressive review the items
behind the second have one page, which is what `view_x.c:776` needs (see
Disagreements). `LineImplemented` also has `OneFront`: a skippable transaction
with an intent and the shortcut changes its number of front screens on the way.

`ReviewNanoSProofs` proves, for every set of builds and reviews, that the screen
always has a place in the line of introduction, pages and decisions, with all
before it read unless the user skipped (`StandsInv`), and from it:

- `ReadingComesFirst` (`[]ApprovedAfterReading`) under `WarnsAlone`: the warning
  of blind signing is in the last branch of the `#if` of
  `h_review_update_data` (`view_nano.c:213-249`), so a build with the shortcut
  does not show it (the default is `view_internal.h:131`).
- `StalePressKeepsPage` (`StaleSkipHarmless`) by `ModeInv`: a skip flag that
  outlived its menu is only ever set while the shortcut is not.
- `LineImplemented` (`ImplementsLine`), without a hypothesis.

`InspectProofs` proves, for every tree of lists that is no deeper than the trace
has places (`InsideTrace`), and every page of the review the user starts from:

- `TraceIsTheWay` (`[]TraceIsPath`) and `ReturnsToTheBeginning`
  (`ReturnsWhereItBegan`) by `WayInv`: the cursor stands at an item of the list at
  `level`, the loop flag is set exactly on the items, and trace and path agree up
  to `level`. That the way out shows the same page is `ForthAndBack`: the step
  back of the review undoes `h_paging_increase`, on the last page of the last
  item too.
- `KnowsTheWay` (`[]KnowsWhereItIs`) under `PagesFit`, which says what the code
  relies on and does not check: an item with nested items has no more pages than
  the first of them, and no fewer than the last of them unless it is of the
  review. `PageInv` adds that "BACK" comes behind the last page of a list.

`ReviewNbglProofs` proves, for every set of reviews, number of pairs on a screen
and size of the cache:

- `AnswersEndRequests` (`[]AnswersFinal`) by `Fitting`: on the screens that may
  stay after an answer (a configuration, the error screen) nothing but
  `confirm_setting` has answered, on the other screens with a button nothing has.
- `ShowsThisReview` (`[]NothingFromElsewhere`; about pairs, for reviews that are
  `Numbered`). `Truthful`, the invariant of the
  cache, is stronger than what the run checks: every count is the item's, also
  those the cache does not consider in use, because growing it brings them in
  again. `PageFound` goes with the code from the number of a pair to item and
  page, and `NumberingExists` shows that the pages have such numbers.
- `ReadingComesFirst` (`[]ApprovedAfterReading`) under `OneScreenReviews`: a
  configuration and an address review show the first page of each item in its
  slot and nothing behind the last slot (`view_nbgl.c:462-498`). `SeenInv`: all
  pairs up to the last on the screen have been seen, because the library asks
  for screens that adjoin.

The second part of `InspectProofs` proves about `EvmItems`, for every set of
messages, addresses and paths and every length of a page, under `FewPages` (a
byte counts the pages of a message and of the address):

- `SignedIsRead` (`[]SignsWhatWasRead`): what `eip191_hash_message` hashes is the
  message that the pages have shown, with a warning exactly when it was shown in
  hexadecimal digits.
- `TextsAreReadWhole` (`[]TextsReadWhole`): whoever has had all pages of a
  message, of the own address or of a recipient on the screen, in any order, has
  read all of the text.

Both rest on `SubjectInv`: a page is asked for anew each time, so every page read
has to be the one `getItem` would answer now. `PageCut` says at which places
`pageStringExt` cuts, `PagesJoin` that pieces cut at rising places join to the
text, and `HexPagesJoin` that a page of digits breaks between two bytes. The last
two are inductions over the number of pages, written as the absence of a least
counterexample. The recipient of a transfer is one of its texts, so
`TextsReadWhole` is about transfers too, though not about their amounts.

The loops of the code over items are recursive functions or folds in the model;
`TurnByTurn` and `Iterated` make one turn at a time of them.

`EvmSigningProofs` proves, for every set of requests, networks, tokens and
signatures:

- `ItemsInsideWindow`: for every window on the bytes, what `rlp_read` returns, and
  the window that is left, lie inside it. Lengths that no buffer can have
  (`Huge`) are refused by the comparison before the addition.
- `RequestReviewed` (`[]ReviewedAsSent`), `TransfersShown` (`[]ShownOrWarned`) and
  `ParityTold` (`[]VTellsParity`), from `RequestKept`: the parsed object is what
  `IsRequest` says of the bytes, item by item (`Stream`: the n-th item of a
  window; `Progress`: the fields that are read so far are the first n items),
  the validation has been passed (`Validated`), a blind signature is allowed and
  shown, and v was computed from this object. No hypotheses.
- `NumbersOfDer`: for all r and s of up to 32 bytes, `convertDERtoRSV` takes r and
  s, padded to 32 bytes, out of their DER encoding, whatever lies behind it.
- `KeysLeaveNothing` (`[]NothingLeftOver`): whichever call fails, no key is left
  and nothing is answered. `StepInv` and `AnswerInv` say which result and which
  parts of an answer there can be before each step.
- `KeysAnswerTheSignature` (`[]AnswersTheSignature`): r, s and v of the answer are
  those that were signed with. `BufferInv` follows the buffer through the three
  moves of `crypto_sign_eth`, which overlap.

`EvmKeys` names its specification `KeySpec`, so that one module of proofs can
extend both.

Assumptions on the constants, all evaluated by TLC in the runs of their modules:
`MainAssumption` (exceptions are 16-bit words), `RequestsAssumption` (commands are
well-typed), `SizesAssumption` and `WidthsAssumption` (sizes are positive, the
markers are in order, the buffer is smaller than 2^32, a length prefix fits its
integer), `ConfigsAssumption` (sizes are natural numbers), `ChunksAssumption`
(chunks are sequences of bytes), `ExtraScreensAssumption` (0 or 1),
`ReviewsAssumption` and `NanoSAssumption` (reviews are well-typed, have 1 to 128
items, on the Nanos of at most 254 pages with the last not empty; on Nano X a
blind review offers no skipping), `TreeAssumption` (lists of 1 to 128 items of
1 to 254 pages, at least one list beside the review), `TransactionsAssumption`
(requests, networks and tokens are bytes), `ItemsAssumption` (messages and
addresses are bytes, a page holds at least two of them, tokens leave room for
their decimals), `SignaturesAssumption` (see EvmKeys).

Only model-checked: `NumbersReadWhole` and `NoItemFails` of `EvmItems` (what the
printing of a number yields for every number), the formatting and the encodings,
and everything that needs fairness (the liveness half of `ImplementsRpc`,
`RightReachesApproval`, `RightReachesEnd`, `WalkEnds`), which the prover cannot
treat. `Bech32`, `Encodings` and `Texts` declare recursive operators, and what a
fold computes for every input is an induction over data: both stay with TLC.

## Not modelled

- Of the idle menu the order of its entries and the screens it shows; of
  `view_x.c` and `view_s.c` the layout of the screens, and the error flow after a
  failing item at the end of another (a hazard with a note).
- The settings page of the touch devices (`view_nbgl.c:325-432`), its message and
  spinner screens and its home screen: switches drawn by the SDK, whose setters
  are those of `AppMode`.
- What items an application shows for a transaction and how: the application's
  `getItem`. Hash functions, key derivation and signing: the operating system's.
- The layout of `printTime` and `printTimeSpecialFormat`; of the vendored
  `utf8.h` everything `asciify` does not call.
- The stack canary, the assertions and the logging (`zxmacros*`, `zxcanary`):
  checks of memory the models have no notion of.
- Build files, fuzzers, test scripts, and the swap mode and Bluetooth of the main
  loop.

Two hazards have no property: an item without pages at the end of a Nano review
(no parser of the repository makes one) and the flow index after a failing item
(what the SDK does with an index out of range is not in this repository).

## Plan

1. Done: the buffer, the EVM sessions, the main loop with modes and menu; the
   reviews of Nano X, Nano S and the touch devices, the inspection; the EVM
   parser, its keys and items; formatting, big numbers and encodings.
2. Done: every safety property of the buffer, the sessions, the main loop, the
   reviews of all devices, the inspection, the parser and the keys is a theorem,
   with the refinements of the buffer, of both lines of screens, and of the
   safety half of the protocol; so is that messages and addresses are read whole
   and signed as read. Amounts, formatting, encodings and liveness stay with TLC.
