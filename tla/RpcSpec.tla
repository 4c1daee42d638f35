------------------------------ MODULE RpcSpec ------------------------------
(***************************************************************************)
(* What the host is promised: every command gets exactly one reply, unless *)
(* the device is unplugged first, and nothing is sent without a command.   *)
(***************************************************************************)

CONSTANTS
    Statuses,   (* the status words of replies *)
    None        (* no reply yet                *)

VARIABLES
    host,    (* "ready" to send, or "waiting" for a reply  *)
    got      (* the reply to the last command, or None     *)

rpcVars == <<host, got>>

RpcInit == host = "ready" /\ got = None

Send == host = "ready" /\ host' = "waiting" /\ got' = None

Reply == host = "waiting" /\ host' = "ready" /\ got' \in Statuses

Unplug == host' = "ready" /\ got' = None

RpcNext == Send \/ Reply \/ Unplug

(* A reply that is owed is sent sometime. *)
RpcSpec == RpcInit /\ [][RpcNext]_rpcVars /\ WF_rpcVars(Reply)

=============================================================================
