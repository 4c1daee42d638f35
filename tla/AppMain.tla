------------------------------ MODULE AppMain ------------------------------
(***************************************************************************)
(* app/common/app_main.c: the loop that receives a command, dispatches it  *)
(* and replies, around the EVM handlers (evm/apdu_handler_evm.c) and the   *)
(* screens of a Nano X (app/ui/view.c, app/ui/view_x.c).  A command is     *)
(* answered by the loop, or, after IO_ASYNCH_REPLY, from a button callback *)
(* that runs inside a later io_exchange.                                   *)
(*                                                                         *)
(* The handlers' chunks are in EvmSession and the walk through a review in *)
(* ReviewNanoX: here a handler is what it does to the reply, the screen    *)
(* and the modes, and a review is open until the user answers it.          *)
(*                                                                         *)
(* The SDK's io_exchange ignores a command that comes before the reply to  *)
(* the last one, so the host is in lock step.                              *)
(***************************************************************************)
EXTENDS AppMode, Integers

CONSTANTS
    Exceptions,       (* what a handler may throw for a command it refuses *)
    FailingReviews,   (* kinds of review whose getItem may fail            *)
    COIN_SECRET_REQUIRED_CLICKS

Kinds == {"UI", "ADDRESS", "TXN", "MSG"}        (* review_type_e *)

Word == 0 .. 65535                              (* uint16_t *)

ASSUME MainAssumption ==
    /\ Exceptions \subseteq Word
    /\ FailingReviews \subseteq Kinds
    /\ COIN_SECRET_REQUIRED_CLICKS \in Nat

VARIABLES
    pc,       (* "exchange": before io_exchange, "wait": inside it         *)
    tx,       (* the status word to be sent, 0 if tx is 0                  *)
    flags,    (* is IO_ASYNCH_REPLY set?                                   *)
    apdu,     (* the command not yet dispatched, or NoApdu                 *)
    host,     (* "ready", "waiting", "confused" by a reply out of turn     *)
    got,      (* the last status word the host received, or 0              *)
    screen,   (* what is shown                                             *)
    secret_click_count

loop == <<pc, tx, flags>>
vars == <<loop, apdu, host, got, screen, secret_click_count, modeVars>>

OK                  == 36864   (* 0x9000 *)
COMMAND_NOT_ALLOWED == 27014   (* 0x6986 *)
DATA_INVALID        == 27012   (* 0x6984 *)
UnknownError        == 26624   (* 0x6800 *)

(* Of a status word the host can tell the class, 0x6000 or 0x9000.         *)
Class(sw) == sw \div 4096
Statuses  == {sw \in Word : Class(sw) \in {6, 9}}

(* What the commands amount to.  A transaction is clear (plain transfer or *)
(* known token), blind, not readable, or readable with an item that cannot *)
(* be shown; a message is clear if it is printable.                        *)
Apdus ==
    [ins : {"GetDeviceInfo"}, is : {"whole"}]
    \cup [ins : {"GetAddrEth"}, is : {"silent", "confirm", "refused"}]
    \cup [ins : {"SignEth"},
          is : {"part", "refused", "clear", "blind", "unreadable", "invalid"}]
    \cup [ins : {"SignEip191"}, is : {"part", "refused", "clear", "blind"}]
    \cup [ins : {"other"}, is : {"refused"}]

NoApdu == [ins |-> "none", is |-> "none"]

(* A screen.  Of a review: does its content need blind signing, does its   *)
(* flow hold the blind-signing warning, which mode does accepting it set.  *)
Screens == [kind : Kinds \cup {"idle", "error"}, blind : BOOLEAN, warn : BOOLEAN,
            sets : {"none", "account", "shortcut"}]

Plain(kind) == [kind |-> kind, blind |-> FALSE, warn |-> FALSE, sets |-> "none"]

Init ==
    /\ ModeInit
    /\ pc = "exchange" /\ tx = 0 /\ flags = FALSE
    /\ apdu = NoApdu /\ host = "ready" /\ got = 0
    /\ screen = Plain("idle")
    /\ secret_click_count = 0

-----------------------------------------------------------------------------
(* A status word goes out. *)
Deliver(sw) ==
    /\ got' = sw
    /\ host' = IF host = "waiting" THEN "ready" ELSE "confused"

HostSend ==
    /\ host = "ready"
    /\ host' = "waiting" /\ got' = 0
    /\ apdu' \in Apdus
    /\ UNCHANGED <<loop, screen, secret_click_count, modeVars>>

(* mutant: an asynchronous reply is not recognised *)
ExchangeSendingAlways ==
    /\ pc = "exchange" /\ pc' = "wait"
    /\ tx' = 0
    /\ IF tx # 0 THEN Deliver(tx) ELSE UNCHANGED <<host, got>>
    /\ UNCHANGED <<flags, apdu, screen, secret_click_count, modeVars>>

(* The top of the loop: io_exchange sends what tx counts, unless flags say *)
(* that the reply comes later, and waits.                                  *)
Exchange ==
    /\ pc = "exchange" /\ pc' = "wait"
    /\ tx' = 0
    /\ IF tx # 0 /\ ~flags THEN Deliver(tx) ELSE UNCHANGED <<host, got>>
    /\ UNCHANGED <<flags, apdu, screen, secret_click_count, modeVars>>

-----------------------------------------------------------------------------
(* The handlers, from the moment io_exchange returned a command: the loop  *)
(* has set flags and tx to 0.                                              *)

(* mutant: an exception is sent as it is *)
SwOfUnmasked(e) == e

(* The catch block makes a status word of an exception. *)
SwOf(e) == IF Class(e) \in {6, 9} THEN e ELSE UnknownError + (e % 2048)

(* A handler throws; the reply is left to the loop. *)
Throw(e) ==
    /\ tx' = SwOf(e) /\ flags' = FALSE
    /\ UNCHANGED screen

(* mutant: the handler forgets IO_ASYNCH_REPLY *)
BlindsignErrorInSync ==
    /\ tx' = SwOf(DATA_INVALID) /\ flags' = FALSE
    /\ screen' = Plain("error")

(* view_blindsign_error_show, IO_ASYNCH_REPLY, and a throw on top of it. *)
BlindsignError ==
    /\ tx' = SwOf(DATA_INVALID) /\ flags' = TRUE
    /\ screen' = Plain("error")

(* view_review_show and IO_ASYNCH_REPLY.  The warning is put in the flow   *)
(* by run_ux_review_flow.                                                  *)
Review(kind, blind) ==
    /\ tx' = 0 /\ flags' = TRUE
    /\ screen' = [Plain(kind) EXCEPT
                    !.blind = blind,
                    !.warn  = kind \in {"TXN", "MSG"} /\ blindsign_required']

(* A blind transaction or message is reviewed if the setting allows it.    *)
ReviewBlind(kind, required) ==
    /\ blindsign_required' = RequiredAfterRead(required)
    /\ IF N_appmode.blindsign THEN Review(kind, TRUE) ELSE BlindsignError

handle_generic_apdu ==
    /\ apdu.ins = "GetDeviceInfo"
    /\ Throw(OK)
    /\ UNCHANGED blindsign_required

Refuse ==
    /\ apdu.is = "refused"
    /\ \E e \in Exceptions : Throw(e)
    /\ UNCHANGED blindsign_required

handleGetAddrEth ==
    /\ apdu.ins = "GetAddrEth"
    /\ \/ apdu.is = "silent" /\ Throw(OK)
       \/ apdu.is = "confirm" /\ Review("ADDRESS", FALSE)
    /\ UNCHANGED blindsign_required

(* error_code is not set if the transaction cannot be read, so that the    *)
(* test for parser_blindsign_mode_required may go either way.              *)
handleSignEth ==
    /\ apdu.ins = "SignEth"
    /\ LET required == app_mode_skip_blindsign_ui(blindsign_required)
       IN \/ apdu.is = "part" /\ Throw(OK) /\ UNCHANGED blindsign_required
          \/ /\ apdu.is = "clear"
             /\ blindsign_required' = app_mode_skip_blindsign_ui(required)
             /\ Review("TXN", FALSE)
          \/ apdu.is = "blind" /\ ReviewBlind("TXN", required)
          \/ /\ apdu.is = "unreadable"
             /\ blindsign_required' = required
             /\ BlindsignError \/ Throw(DATA_INVALID)
          \/ /\ apdu.is = "invalid"
             /\ blindsign_required' \in {app_mode_skip_blindsign_ui(required),
                                         RequiredAfterRead(required)}
             /\ Throw(DATA_INVALID)

handleSignEip191 ==
    /\ apdu.ins = "SignEip191"
    /\ LET required == app_mode_skip_blindsign_ui(blindsign_required)
       IN \/ apdu.is = "part" /\ Throw(OK) /\ UNCHANGED blindsign_required
          \/ apdu.is = "clear" /\ blindsign_required' = required /\ Review("MSG", FALSE)
          \/ apdu.is = "blind" /\ ReviewBlind("MSG", required)

Receive ==
    /\ pc = "wait" /\ pc' = "exchange"
    /\ apdu # NoApdu /\ apdu' = NoApdu
    /\ handle_generic_apdu \/ Refuse \/ handleGetAddrEth \/ handleSignEth \/ handleSignEip191
    /\ UNCHANGED <<host, got, secret_click_count, N_appmode, app_mode_temporary>>

-----------------------------------------------------------------------------
(* Events, served inside io_exchange.                                      *)

(* The callbacks of the app that accept or reject what is shown.           *)
Reviewing == screen.kind \in Kinds

h_approve ==
    /\ Reviewing
    /\ IF screen.kind = "UI"
         THEN /\ \/ screen.sets = "account"  /\ app_mode_set_account(~N_appmode.account)
                 \/ screen.sets = "shortcut" /\ app_mode_set_shortcut(TRUE)
              /\ UNCHANGED <<host, got>>
         ELSE Deliver(OK) /\ UNCHANGED modeVars

h_reject ==
    /\ Reviewing
    /\ IF screen.kind = "UI" THEN UNCHANGED <<host, got>> ELSE Deliver(COMMAND_NOT_ALLOWED)
    /\ UNCHANGED modeVars

h_error_accept ==
    /\ screen.kind = "error"
    /\ Deliver(DATA_INVALID)
    /\ UNCHANGED modeVars

UserAnswer ==
    /\ pc = "wait"
    /\ h_approve \/ h_reject \/ h_error_accept
    /\ screen' = Plain("idle")
    /\ UNCHANGED <<loop, apdu, secret_click_count>>

(* h_review_update finds that an item cannot be shown. *)
ReviewFails ==
    /\ pc = "wait"
    /\ screen.kind \in FailingReviews
    /\ screen' = Plain("error")
    /\ UNCHANGED <<loop, apdu, host, got, secret_click_count, modeVars>>

(* The idle menu. *)
InMenu == pc = "wait" /\ screen.kind = "idle"

(* The app's account_enabled and shortcut_enabled ask the user. *)
AskMode(mode) ==
    /\ screen' = [Plain("UI") EXCEPT !.sets = mode]
    /\ UNCHANGED modeVars

h_account_toggle == N_appmode.expert /\ AskMode("account")

h_shortcut_toggle ==
    IF N_appmode.expert /\ ~app_mode_temporary.shortcut
      THEN AskMode("shortcut")
      ELSE app_mode_set_shortcut(FALSE) /\ UNCHANGED screen

Toggle ==
    /\ InMenu
    /\ \/ app_mode_set_expert(~N_appmode.expert) /\ UNCHANGED screen
       \/ app_mode_set_blindsign(~N_appmode.blindsign) /\ UNCHANGED screen
       \/ h_account_toggle
       \/ h_shortcut_toggle
    /\ UNCHANGED <<loop, apdu, host, got, secret_click_count>>

(* Walking past the "Blind sign" entry reads the setting. *)
h_blindsign_update ==
    /\ InMenu
    /\ blindsign_required' = RequiredAfterRead(blindsign_required)
    /\ UNCHANGED <<loop, apdu, host, got, screen, secret_click_count,
                   N_appmode, app_mode_temporary>>

h_secret_click ==
    /\ InMenu
    /\ COIN_SECRET_REQUIRED_CLICKS # 0
    /\ IF secret_click_count + 1 >= COIN_SECRET_REQUIRED_CLICKS
         THEN secret_click_count' = 0 /\ app_mode_set_secret(TRUE)
         ELSE secret_click_count' = secret_click_count + 1 /\ UNCHANGED modeVars
    /\ UNCHANGED <<loop, apdu, host, got, screen>>

app_init == app_mode_reset /\ screen' = Plain("idle")

(* The device is unplugged: EXCEPTION_IO_RESET leaves io_exchange before   *)
(* flags is cleared.  The host's command is lost.                          *)
IoReset ==
    /\ pc = "wait" /\ pc' = "exchange"
    /\ app_init
    /\ host' = "ready" /\ got' = 0 /\ apdu' = NoApdu
    /\ UNCHANGED <<tx, flags, secret_click_count>>

Next ==
    \/ HostSend \/ Exchange \/ Receive
    \/ UserAnswer \/ ReviewFails
    \/ Toggle \/ h_blindsign_update \/ h_secret_click
    \/ IoReset

(* The loop runs, io_exchange returns a command that has come, and a user  *)
(* who is asked answers.                                                   *)
Fairness == WF_vars(Exchange) /\ WF_vars(Receive) /\ WF_vars(UserAnswer)

Spec == Init /\ [][Next]_vars /\ Fairness

-----------------------------------------------------------------------------
(* The types of the variables. *)
TypeOK ==
    /\ N_appmode \in Persistent /\ app_mode_temporary \in Temporary
    /\ blindsign_required \in BOOLEAN
    /\ pc \in {"exchange", "wait"} /\ flags \in BOOLEAN
    /\ tx \in Statuses \cup {0} /\ got \in Statuses \cup {0}
    /\ apdu \in Apdus \cup {NoApdu}
    /\ host \in {"ready", "waiting", "confused"}
    /\ screen \in Screens
    /\ secret_click_count \in 0 .. COIN_SECRET_REQUIRED_CLICKS

(* The host never receives a reply it did not ask for: reviews the app     *)
(* opens by itself (REVIEW_UI) end without one.                            *)
RepliesToApdu == host # "confused"

(* While the loop waits, the screen asks for an answer exactly if a command *)
(* has been taken and not been replied to: no command is lost behind the    *)
(* menu, and no answer is given to a host that is gone.                     *)
AnsweredOnScreen ==
    pc = "wait" =>
      (screen.kind \in {"ADDRESS", "TXN", "MSG", "error"}
         <=> host = "waiting" /\ apdu = NoApdu)

(* A review carries the blind-signing warning exactly if what it shows      *)
(* needs blind signing, and then the user has allowed it: the requirement   *)
(* that menu and earlier reviews leave behind does not leak into it.        *)
WarnsIffBlind ==
    screen.kind \in {"TXN", "MSG"} =>
      /\ screen.warn <=> screen.blind
      /\ screen.blind => N_appmode.blindsign

(* Every command gets exactly one reply, whichever way it takes.            *)
Rpc == INSTANCE RpcSpec WITH None <- 0
ImplementsRpc == Rpc!RpcSpec

(* The part of it without the promise that a reply comes.                   *)
OneReplyEach == Rpc!RpcInit /\ [][Rpc!RpcNext]_<<host, got>>

=============================================================================
