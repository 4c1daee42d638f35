---------------------------- MODULE AppMainProofs ----------------------------
(***************************************************************************)
(* Theorems about AppMain, for every set of exceptions and every number of *)
(* secret clicks.                                                          *)
(***************************************************************************)
EXTENDS AppMain, TLAPS

(* The reviews the app opens by itself show all their items.               *)
UiNeverFails == "UI" \notin FailingReviews

Asking == screen.kind \in {"ADDRESS", "TXN", "MSG", "error"}

(* The next io_exchange will send a reply. *)
Replying == pc = "exchange" /\ tx # 0 /\ ~flags

(* A command that was taken is being replied to, or waits for the user.    *)
Owed ==
    /\ pc = "wait" => tx = 0
    /\ apdu # NoApdu => host = "waiting"
    /\ Asking <=> host = "waiting" /\ apdu = NoApdu /\ ~Replying
    /\ Replying => host = "waiting" /\ apdu = NoApdu
    /\ RepliesToApdu

-----------------------------------------------------------------------------
(* What a word is, without its range spelled out.                          *)
LEMMA WordIs ==
    \A n : n \in Word <=> n \in Int /\ 0 <= n /\ n <= 65535
<1> DEFINE last == 65535
<1>1. last \in Int
  OBVIOUS
<1>2. Word = 0 .. last
  BY DEF Word
<1> HIDE DEF last
<1>3. \A n : n \in 0 .. last <=> n \in Int /\ 0 <= n /\ n <= last
  BY <1>1
<1>4. \A n : n \in Word <=> n \in Int /\ 0 <= n /\ n <= last
  BY <1>2, <1>3
<1> QED
  BY <1>4 DEF last

(* What the catch block sends is a status word of class 6 or 9, whatever   *)
(* was thrown; and 0, which stands for no reply, is none.                  *)
LEMMA SwOfStatus ==
    ASSUME NEW e \in Word
    PROVE  SwOf(e) \in Statuses
<1>1. CASE Class(e) \in {6, 9}
  BY <1>1 DEF SwOf, Statuses
<1>2. CASE Class(e) \notin {6, 9}
  <2> DEFINE r == e % 2048
             n == UnknownError + r
  <2>1. r \in Int /\ 0 <= r /\ r < 2048
    BY WordIs
  <2>2. SwOf(e) = n
    BY <1>2 DEF SwOf
  <2> HIDE DEF r
  <2>3. n \in Int /\ 26624 <= n /\ n < 28672
    BY <2>1 DEF UnknownError
  <2> HIDE DEF n
  <2>4. n \div 4096 = 6
    BY <2>3
  <2>5. n \in Word
    BY <2>3, WordIs
  <2> QED
    BY <2>2, <2>4, <2>5 DEF Statuses, Class
<1> QED
  BY <1>1, <1>2

LEMMA StatusFacts ==
    /\ 0 \notin Statuses
    /\ {OK, COMMAND_NOT_ALLOWED, DATA_INVALID} \subseteq Statuses
    /\ {OK, DATA_INVALID} \subseteq Word
BY WordIs DEF Statuses, Class, OK, COMMAND_NOT_ALLOWED, DATA_INVALID

-----------------------------------------------------------------------------
(* What a handler leaves, seen from the loop: a reply for the loop to      *)
(* send, or the screen of an error, or a review with its warning.          *)
ReviewOpened(scr) ==
    /\ scr \in Screens
    /\ scr.kind \in {"ADDRESS", "TXN", "MSG"}
    /\ scr.kind \in {"TXN", "MSG"} => scr.warn = scr.blind
    /\ scr.blind => N_appmode.blindsign

Handled ==
    \/ tx' \in Statuses /\ flags' = FALSE /\ screen' = screen
    \/ tx' \in Statuses /\ flags' = TRUE /\ screen' = Plain("error")
    \/ tx' = 0 /\ flags' = TRUE /\ ReviewOpened(screen')

LEMMA ThrowHandled ==
    ASSUME NEW e \in Word, Throw(e)
    PROVE  Handled
BY SwOfStatus DEF Throw, Handled

LEMMA BlindsignErrorHandled ==
    ASSUME BlindsignError
    PROVE  Handled
BY SwOfStatus, StatusFacts DEF BlindsignError, Handled

LEMMA ReviewHandled ==
    ASSUME NEW kind \in {"ADDRESS", "TXN", "MSG"}, NEW blind \in BOOLEAN,
           blindsign_required' \in BOOLEAN,
           kind \in {"TXN", "MSG"} => blindsign_required' = blind,
           blind => N_appmode.blindsign,
           Review(kind, blind)
    PROVE  Handled
BY DEF Review, Handled, ReviewOpened, Plain, Screens, Kinds

LEMMA ReviewBlindHandled ==
    ASSUME NEW kind \in {"TXN", "MSG"}, TypeOK,
           ReviewBlind(kind, FALSE)
    PROVE  Handled /\ blindsign_required' \in BOOLEAN
<1>1. N_appmode.blindsign \in BOOLEAN /\ blindsign_required' = N_appmode.blindsign
  BY DEF TypeOK, Persistent, ReviewBlind, RequiredAfterRead
<1>2. CASE N_appmode.blindsign
  BY <1>1, <1>2, ReviewHandled DEF ReviewBlind
<1>3. CASE ~N_appmode.blindsign
  BY <1>1, <1>3, BlindsignErrorHandled DEF ReviewBlind
<1> QED
  BY <1>2, <1>3

LEMMA ReceiveHandled ==
    ASSUME TypeOK, Receive
    PROVE  Handled /\ blindsign_required' \in BOOLEAN
<1> USE StatusFacts
<1>1. blindsign_required \in BOOLEAN /\ N_appmode.blindsign \in BOOLEAN
  BY DEF TypeOK, Persistent
<1>2. CASE handle_generic_apdu
  BY <1>1, <1>2, ThrowHandled DEF handle_generic_apdu
<1>3. CASE Refuse
  BY <1>1, <1>3, ThrowHandled, MainAssumption DEF Refuse
<1>4. CASE handleGetAddrEth
  BY <1>1, <1>4, ThrowHandled, ReviewHandled DEF handleGetAddrEth
<1>5. CASE handleSignEth
  <2>1. CASE Throw(OK) /\ UNCHANGED blindsign_required
    BY <1>1, <2>1, ThrowHandled
  <2>2. CASE blindsign_required' = FALSE /\ Review("TXN", FALSE)
    BY <2>2, ReviewHandled
  <2>3. CASE ReviewBlind("TXN", FALSE)
    BY <2>3, ReviewBlindHandled
  <2>4. CASE blindsign_required' = FALSE /\ (BlindsignError \/ Throw(DATA_INVALID))
    BY <2>4, ThrowHandled, BlindsignErrorHandled
  <2>5. CASE /\ blindsign_required' \in {FALSE, RequiredAfterRead(FALSE)}
             /\ Throw(DATA_INVALID)
    BY <1>1, <2>5, ThrowHandled DEF RequiredAfterRead
  <2> QED
    BY <1>5, <2>1, <2>2, <2>3, <2>4, <2>5
       DEF handleSignEth, app_mode_skip_blindsign_ui
<1>6. CASE handleSignEip191
  <2>1. CASE Throw(OK) /\ UNCHANGED blindsign_required
    BY <1>1, <2>1, ThrowHandled
  <2>2. CASE blindsign_required' = FALSE /\ Review("MSG", FALSE)
    BY <2>2, ReviewHandled
  <2>3. CASE ReviewBlind("MSG", FALSE)
    BY <2>3, ReviewBlindHandled
  <2> QED
    BY <1>6, <2>1, <2>2, <2>3 DEF handleSignEip191, app_mode_skip_blindsign_ui
<1> QED
  BY <1>2, <1>3, <1>4, <1>5, <1>6 DEF Receive

-----------------------------------------------------------------------------
(* The modes: what each setter leaves is of the right type.                *)
ModeTypes ==
    /\ N_appmode \in Persistent
    /\ app_mode_temporary \in Temporary
    /\ blindsign_required \in BOOLEAN

LEMMA ModesTyped ==
    ASSUME ModeTypes
    PROVE  /\ app_mode_reset => ModeTypes'
           /\ \A val \in BOOLEAN : app_mode_set_expert(val) => ModeTypes'
           /\ \A val \in BOOLEAN : app_mode_set_account(val) => ModeTypes'
           /\ \A val \in BOOLEAN : app_mode_set_blindsign(val) => ModeTypes'
           /\ \A val \in BOOLEAN : app_mode_set_secret(val) => ModeTypes'
           /\ \A val \in BOOLEAN : app_mode_set_shortcut(val) => ModeTypes'
           /\ UNCHANGED modeVars => ModeTypes'
           /\ N_appmode.expert \in BOOLEAN /\ N_appmode.account \in BOOLEAN
           /\ N_appmode.blindsign \in BOOLEAN
<1> USE DEF ModeTypes, Persistent, Temporary
<1>1. app_mode_reset => ModeTypes'
  BY DEF app_mode_reset, NoTemporary
<1>2. \A val \in BOOLEAN : app_mode_set_expert(val) => ModeTypes'
  BY DEF app_mode_set_expert
<1>3. \A val \in BOOLEAN : app_mode_set_account(val) => ModeTypes'
  BY DEF app_mode_set_account
<1>4. \A val \in BOOLEAN : app_mode_set_blindsign(val) => ModeTypes'
  BY DEF app_mode_set_blindsign
<1>5. \A val \in BOOLEAN : app_mode_set_secret(val) => ModeTypes'
  BY DEF app_mode_set_secret
<1>6. \A val \in BOOLEAN : app_mode_set_shortcut(val) => ModeTypes'
  BY DEF app_mode_set_shortcut
<1>7. UNCHANGED modeVars => ModeTypes'
  BY DEF modeVars
<1> QED
  BY <1>1, <1>2, <1>3, <1>4, <1>5, <1>6, <1>7

LEMMA PlainTyped ==
    \A kind \in Kinds \cup {"idle", "error"} :
      /\ Plain(kind) \in Screens
      /\ Plain(kind).kind = kind
BY DEF Plain, Screens

LEMMA InitTyped == Init => TypeOK
<1> SUFFICES ASSUME Init PROVE TypeOK
  OBVIOUS
<1>1. app_mode_temporary \in Temporary
  BY DEF Init, ModeInit, Temporary, NoTemporary
<1>2. screen \in Screens
  BY PlainTyped DEF Init
<1>3. secret_click_count \in 0 .. COIN_SECRET_REQUIRED_CLICKS
  BY MainAssumption DEF Init
<1> QED
  BY <1>1, <1>2, <1>3 DEF Init, ModeInit, TypeOK

LEMMA StepTyped == TypeOK /\ [Next]_vars => TypeOK'
<1> SUFFICES ASSUME TypeOK, [Next]_vars PROVE TypeOK'
  OBVIOUS
<1> USE StatusFacts, PlainTyped
<1>0. ModeTypes
  BY DEF TypeOK, ModeTypes
<1>1. CASE HostSend
  BY <1>1 DEF HostSend, TypeOK, loop, modeVars
<1>2. CASE Exchange
  BY <1>2 DEF Exchange, Deliver, TypeOK, loop, modeVars
<1>3. CASE Receive
  <2>1. Handled /\ blindsign_required' \in BOOLEAN
    BY <1>3, ReceiveHandled
  <2>2. screen' \in Screens /\ tx' \in Statuses \cup {0} /\ flags' \in BOOLEAN
    BY <2>1 DEF Handled, ReviewOpened, TypeOK
  <2> QED
    BY <1>3, <2>1, <2>2 DEF Receive, TypeOK
<1>4. CASE UserAnswer
  <2>1. host' \in {"ready", "waiting", "confused"} /\ got' \in Statuses \cup {0}
    BY <1>4 DEF UserAnswer, h_approve, h_reject, h_error_accept, Deliver, TypeOK
  <2>2. ModeTypes'
    BY <1>0, <1>4, ModesTyped DEF UserAnswer, h_approve, h_reject, h_error_accept
  <2> QED
    BY <1>4, <2>1, <2>2 DEF UserAnswer, ModeTypes, TypeOK, loop
<1>5. CASE ReviewFails
  BY <1>5 DEF ReviewFails, TypeOK, loop, modeVars
<1>6. CASE Toggle
  <2>1. ModeTypes'
    BY <1>0, <1>6, ModesTyped
       DEF Toggle, h_account_toggle, h_shortcut_toggle, AskMode
  <2>2. \A mode \in {"account", "shortcut"} : AskMode(mode) => screen' \in Screens
    BY DEF AskMode, Plain, Screens, Kinds
  <2>3. screen' \in Screens
    BY <1>6, <2>2 DEF Toggle, h_account_toggle, h_shortcut_toggle, TypeOK
  <2> QED
    BY <1>6, <2>1, <2>3 DEF Toggle, ModeTypes, TypeOK, loop
<1>7. CASE h_blindsign_update
  BY <1>0, <1>7, ModesTyped
     DEF h_blindsign_update, RequiredAfterRead, TypeOK, loop
<1>8. CASE h_secret_click
  <2>1. ModeTypes'
    BY <1>0, <1>8, ModesTyped DEF h_secret_click
  <2>2. secret_click_count' \in 0 .. COIN_SECRET_REQUIRED_CLICKS
    <3>1. secret_click_count \in Nat /\ COIN_SECRET_REQUIRED_CLICKS \in Nat
      BY MainAssumption DEF TypeOK
    <3>2. CASE secret_click_count' = 0
      BY <3>1, <3>2
    <3>3. CASE /\ secret_click_count' = secret_click_count + 1
               /\ ~(secret_click_count + 1 >= COIN_SECRET_REQUIRED_CLICKS)
      BY <3>1, <3>3
    <3> QED
      BY <1>8, <3>2, <3>3 DEF h_secret_click
  <2> QED
    BY <1>8, <2>1, <2>2 DEF h_secret_click, ModeTypes, TypeOK, loop
<1>9. CASE IoReset
  BY <1>0, <1>9, ModesTyped DEF IoReset, app_init, ModeTypes, TypeOK
<1>10. CASE UNCHANGED vars
  BY <1>10 DEF vars, TypeOK, loop, modeVars
<1> QED
  BY <1>1, <1>2, <1>3, <1>4, <1>5, <1>6, <1>7, <1>8, <1>9, <1>10 DEF Next

(* The types are kept by every step of the loop, the handlers, the menu and *)
(* the reset.                                                               *)
THEOREM TypeCorrect == Spec => []TypeOK
BY InitTyped, StepTyped, PTL DEF Spec

-----------------------------------------------------------------------------
(* AnsweredOnScreen speaks of a loop that waits.  Owed extends it to the   *)
(* top of the loop, where the reply may be in tx, and adds that nothing is *)
(* replied twice.                                                          *)
LEMMA InitOwed == Init => Owed
BY DEF Init, Owed, Asking, Replying, RepliesToApdu, Plain

LEMMA StepOwed ==
    ASSUME UiNeverFails, TypeOK, Owed, [Next]_vars
    PROVE  Owed'
<1> USE DEF Owed, Asking, Replying, RepliesToApdu
<1>1. CASE HostSend
  <2>1. apdu' # NoApdu
    BY <1>1 DEF HostSend, Apdus, NoApdu
  <2> QED
    BY <1>1, <2>1 DEF HostSend, loop
<1>2. CASE Exchange
  BY <1>2 DEF Exchange, Deliver
<1>3. CASE Receive
  <2>1. /\ pc = "wait" /\ pc' = "exchange" /\ host' = host
        /\ apdu # NoApdu /\ apdu' = NoApdu
    BY <1>3 DEF Receive
  <2>2. host = "waiting" /\ ~Asking
    BY <2>1
  <2>3. Handled
    BY <1>3, ReceiveHandled
  <2>4. CASE tx' \in Statuses /\ flags' = FALSE /\ screen' = screen
    BY <2>1, <2>2, <2>4, StatusFacts
  <2>5. CASE tx' \in Statuses /\ flags' = TRUE /\ screen' = Plain("error")
    BY <2>1, <2>2, <2>5, PlainTyped DEF Kinds
  <2>6. CASE tx' = 0 /\ flags' = TRUE /\ ReviewOpened(screen')
    BY <2>1, <2>2, <2>6 DEF ReviewOpened
  <2> QED
    BY <2>3, <2>4, <2>5, <2>6 DEF Handled
<1>4. CASE UserAnswer
  <2>1. screen'.kind = "idle"
    BY <1>4, PlainTyped DEF UserAnswer
  <2>2. CASE screen.kind = "UI"
    BY <1>4, <2>1, <2>2 DEF UserAnswer, h_approve, h_reject, h_error_accept, loop
  <2>3. CASE screen.kind # "UI"
    BY <1>4, <2>1, <2>3
       DEF UserAnswer, h_approve, h_reject, h_error_accept, Deliver, Reviewing,
           Kinds, loop
  <2> QED
    BY <2>2, <2>3
<1>5. CASE ReviewFails
  <2>1. screen'.kind = "error" /\ Asking
    BY <1>5, PlainTyped, MainAssumption DEF ReviewFails, UiNeverFails, Kinds
  <2> QED
    BY <1>5, <2>1 DEF ReviewFails, loop
<1>6. CASE Toggle
  <2>1. screen.kind = "idle" /\ screen'.kind \in {"idle", "UI"}
    BY <1>6 DEF Toggle, InMenu, h_account_toggle, h_shortcut_toggle, AskMode, Plain
  <2> QED
    BY <1>6, <2>1 DEF Toggle, loop
<1>7. CASE h_blindsign_update
  BY <1>7 DEF h_blindsign_update, loop
<1>8. CASE h_secret_click
  BY <1>8 DEF h_secret_click, loop
<1>9. CASE IoReset
  <2>1. screen'.kind = "idle"
    BY <1>9, PlainTyped DEF IoReset, app_init
  <2> QED
    BY <1>9, <2>1 DEF IoReset
<1>10. CASE UNCHANGED vars
  BY <1>10 DEF vars, loop
<1> QED
  BY <1>1, <1>2, <1>3, <1>4, <1>5, <1>6, <1>7, <1>8, <1>9, <1>10 DEF Next

LEMMA OwedInvariant == UiNeverFails => (Spec => []Owed)
<1> SUFFICES ASSUME UiNeverFails PROVE Spec => []Owed
  OBVIOUS
<1>1. TypeOK /\ Owed /\ [Next]_vars => Owed'
  BY StepOwed
<1> QED
  BY <1>1, InitOwed, TypeCorrect, PTL DEF Spec

(* No command is lost behind the menu and no answer is asked for a host     *)
(* that is gone, if the app's own reviews can show all their items.         *)
THEOREM NothingLost == UiNeverFails => (Spec => []AnsweredOnScreen)
<1> SUFFICES ASSUME UiNeverFails PROVE Spec => []AnsweredOnScreen
  OBVIOUS
<1>1. Owed => AnsweredOnScreen
  BY DEF Owed, Asking, Replying, AnsweredOnScreen
<1> QED
  BY <1>1, OwedInvariant, PTL

(* Nothing is sent to a host that did not ask, under the same assumption.   *)
THEOREM NothingUnasked == UiNeverFails => (Spec => []RepliesToApdu)
<1> SUFFICES ASSUME UiNeverFails PROVE Spec => []RepliesToApdu
  OBVIOUS
<1>1. Owed => RepliesToApdu
  BY DEF Owed
<1> QED
  BY <1>1, OwedInvariant, PTL

-----------------------------------------------------------------------------
(* The warning: a review is opened with the right one, and while it is on   *)
(* the screen neither the setting nor the flow changes.                     *)
LEMMA InitWarns == Init => WarnsIffBlind
BY DEF Init, WarnsIffBlind, Plain

LEMMA StepWarns ==
    ASSUME TypeOK, WarnsIffBlind, [Next]_vars
    PROVE  WarnsIffBlind'
<1> USE DEF WarnsIffBlind
<1>1. CASE Receive
  <2>1. Handled /\ UNCHANGED N_appmode
    BY <1>1, ReceiveHandled DEF Receive
  <2>2. CASE screen' = screen
    BY <2>1, <2>2
  <2>3. CASE screen' = Plain("error")
    BY <2>3, PlainTyped
  <2>4. CASE ReviewOpened(screen')
    BY <2>1, <2>4 DEF ReviewOpened
  <2> QED
    BY <2>1, <2>2, <2>3, <2>4 DEF Handled
<1>2. CASE UserAnswer \/ IoReset
  BY <1>2, PlainTyped DEF UserAnswer, IoReset, app_init
<1>3. CASE ReviewFails
  BY <1>3, PlainTyped DEF ReviewFails
<1>4. CASE Toggle
  <2>1. screen'.kind \in {"idle", "UI"}
    BY <1>4 DEF Toggle, InMenu, h_account_toggle, h_shortcut_toggle, AskMode, Plain
  <2> QED
    BY <2>1
<1>5. CASE h_secret_click \/ h_blindsign_update
  BY <1>5 DEF h_secret_click, h_blindsign_update, InMenu
<1>6. CASE HostSend \/ Exchange \/ UNCHANGED vars
  BY <1>6 DEF HostSend, Exchange, vars, modeVars
<1> QED
  BY <1>1, <1>2, <1>3, <1>4, <1>5, <1>6 DEF Next

(* The warning belongs to the review it is shown with, whatever the menu    *)
(* and earlier commands left in blindsign_required.                         *)
THEOREM WarningBelongs == Spec => []WarnsIffBlind
<1>1. TypeOK /\ WarnsIffBlind /\ [Next]_vars => WarnsIffBlind'
  BY StepWarns
<1> QED
  BY <1>1, InitWarns, TypeCorrect, PTL DEF Spec

-----------------------------------------------------------------------------
(* Seen by the host, every step is a command sent, a reply to it, an       *)
(* unplugged device, or nothing.                                           *)
LEMMA DeliverIsReply ==
    ASSUME NEW sw \in Statuses, host = "waiting", Deliver(sw)
    PROVE  Rpc!Reply
BY DEF Deliver, Rpc!Reply

LEMMA StepOfRpc ==
    ASSUME UiNeverFails, TypeOK, Owed, [Next]_vars
    PROVE  [Rpc!RpcNext]_<<host, got>>
<1>1. CASE HostSend
  BY <1>1 DEF HostSend, Rpc!RpcNext, Rpc!Send
<1>2. CASE Exchange
  <2>1. CASE tx # 0 /\ ~flags
    <3>1. Replying
      BY <1>2, <2>1 DEF Exchange, Replying
    <3>2. host = "waiting" /\ tx \in Statuses
      BY <2>1, <3>1 DEF Owed, TypeOK
    <3>3. Deliver(tx)
      BY <1>2, <2>1 DEF Exchange
    <3> QED
      BY <3>2, <3>3, DeliverIsReply DEF Rpc!RpcNext
  <2>2. CASE ~(tx # 0 /\ ~flags)
    BY <1>2, <2>2 DEF Exchange
  <2> QED
    BY <2>1, <2>2
<1>3. CASE UserAnswer
  <2>1. CASE screen.kind = "UI"
    BY <1>3, <2>1 DEF UserAnswer, h_approve, h_reject, h_error_accept
  <2>2. CASE screen.kind # "UI"
    <3>1. Asking
      BY <1>3, <2>2 DEF UserAnswer, h_approve, h_reject, h_error_accept,
                        Reviewing, Kinds, Asking
    <3>2. host = "waiting"
      BY <3>1 DEF Owed
    <3>3. Deliver(OK) \/ Deliver(COMMAND_NOT_ALLOWED) \/ Deliver(DATA_INVALID)
      BY <1>3, <2>2 DEF UserAnswer, h_approve, h_reject, h_error_accept
    <3> QED
      BY <3>2, <3>3, DeliverIsReply, StatusFacts DEF Rpc!RpcNext
  <2> QED
    BY <2>1, <2>2
<1>4. CASE IoReset
  BY <1>4 DEF IoReset, Rpc!RpcNext, Rpc!Unplug
<1>5. CASE Receive \/ ReviewFails \/ Toggle \/ h_blindsign_update \/ h_secret_click
  BY <1>5 DEF Receive, ReviewFails, Toggle, h_blindsign_update, h_secret_click
<1>6. CASE UNCHANGED vars
  BY <1>6 DEF vars
<1> QED
  BY <1>1, <1>2, <1>3, <1>4, <1>5, <1>6 DEF Next

(* The safety half of the refinement: the loop, with its two ways to reply, *)
(* gives each command at most one reply and sends nothing else.             *)
THEOREM OneReply == UiNeverFails => (Spec => OneReplyEach)
<1> SUFFICES ASSUME UiNeverFails PROVE Spec => OneReplyEach
  OBVIOUS
<1>1. Init => Rpc!RpcInit
  BY DEF Init, Rpc!RpcInit
<1>2. TypeOK /\ Owed /\ [Next]_vars => [Rpc!RpcNext]_<<host, got>>
  BY StepOfRpc
<1> QED
  BY <1>1, <1>2, OwedInvariant, TypeCorrect, PTL DEF Spec, OneReplyEach

=============================================================================
