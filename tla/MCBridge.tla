------------------------------ MODULE MCBridge ------------------------------
(***************************************************************************)
(* The Proxmox bridge with two slots.                                      *)
(***************************************************************************)
EXTENDS Bridge

MCSlots == {10, 11}

=============================================================================
