--------------------------- MODULE MCPowerManager ----------------------------
(***************************************************************************)
(* PowerManager for TLC: a rail with a minimum on-time and a sequence      *)
(* delay, and one with a shorter delay and no minimum, as daemon.conf      *)
(* allows; the peer may also send a command no rail knows (PWR_NX_RESET).  *)
(***************************************************************************)
EXTENDS PowerManager

MCRails ==
  << [on_cmd |-> "PWR_NX_ON", off_cmd |-> "PWR_NX_OFF", min_on |-> 3, delay |-> 2],
     [on_cmd |-> "PWR_ARM_ON", off_cmd |-> "PWR_ARM_OFF", min_on |-> 0, delay |-> 1] >>

MCPeerCmd == {"PWR_NX_ON", "PWR_NX_OFF", "PWR_ARM_ON", "PWR_ARM_OFF",
              "PWR_NX_RESET", "PWR_ALL_OFF"}
==============================================================================
