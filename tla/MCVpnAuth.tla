----------------------------- MODULE MCVpnAuth -----------------------------
(* One VPN endpoint that two profiles use. *)
EXTENDS VpnAuth, TLC
CONSTANTS vpn, chain
MCUses == vpn :> {vpn} @@ chain :> {vpn}
=============================================================================
