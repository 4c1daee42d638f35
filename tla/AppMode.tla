------------------------------ MODULE AppMode ------------------------------
(***************************************************************************)
(* src/app_mode.c, as built for a device: the settings in flash, the       *)
(* settings in RAM that an unplug clears, and blindsign_required, which    *)
(* says whether the review about to be shown must carry the warning.       *)
(***************************************************************************)

VARIABLES
    N_appmode,           (* app_mode_persistent_t: expert, account, blindsign *)
    app_mode_temporary,  (* app_mode_temporary_t: secret, shortcut            *)
    blindsign_required   (* uint8_t blindsign_required                        *)

modeVars == <<N_appmode, app_mode_temporary, blindsign_required>>

Persistent == [expert : BOOLEAN, account : BOOLEAN, blindsign : BOOLEAN]
Temporary  == [secret : BOOLEAN, shortcut : BOOLEAN]

NoTemporary == [secret |-> FALSE, shortcut |-> FALSE]

(* The flash holds what an earlier run of the program stored. *)
ModeInit ==
    /\ N_appmode \in Persistent
    /\ app_mode_temporary = NoTemporary
    /\ blindsign_required = FALSE

app_mode_reset ==
    /\ app_mode_temporary' = NoTemporary
    /\ UNCHANGED <<N_appmode, blindsign_required>>

app_mode_set_expert(val) ==
    /\ N_appmode' = [N_appmode EXCEPT !.expert = val]
    /\ UNCHANGED <<app_mode_temporary, blindsign_required>>

app_mode_set_account(val) ==
    /\ N_appmode' = [N_appmode EXCEPT !.account = val]
    /\ UNCHANGED <<app_mode_temporary, blindsign_required>>

app_mode_set_blindsign(val) ==
    /\ N_appmode' = [N_appmode EXCEPT !.blindsign = val]
    /\ blindsign_required' = val
    /\ UNCHANGED app_mode_temporary

app_mode_set_secret(val) ==
    /\ app_mode_temporary' = [app_mode_temporary EXCEPT !.secret = val]
    /\ UNCHANGED <<N_appmode, blindsign_required>>

app_mode_set_shortcut(val) ==
    /\ app_mode_temporary' = [app_mode_temporary EXCEPT !.shortcut = val]
    /\ UNCHANGED <<N_appmode, blindsign_required>>

(* app_mode_blindsign: asking for the setting has an effect, this is the   *)
(* value of blindsign_required after it.                                   *)
RequiredAfterRead(required) == required \/ N_appmode.blindsign

(* mutant: the requirement of an earlier review is kept *)
SkipNothing(required) == required

(* app_mode_skip_blindsign_ui: blindsign_required after it. *)
app_mode_skip_blindsign_ui(required) == FALSE

=============================================================================
