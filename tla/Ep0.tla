--------------------------------- MODULE Ep0 ---------------------------------
(***************************************************************************)
(* Endpoint 0: the control-transfer hardware of the FX2 and the register   *)
(* writes with which src/fx2lafw.c and src/fx2lib/lib/setupdat.c answer a  *)
(* SETUP packet.                                                           *)
(*                                                                         *)
(* EP0 has one buffer for both directions.  Writing EP0BCL arms it and     *)
(* sets BUSY; the data stage clears BUSY, and so does the next SETUP.      *)
(* The status stage is NAKed from the SETUP on until the firmware writes   *)
(* HSNAK, and a STALL lasts until the next SETUP.                          *)
(***************************************************************************)
EXTENDS Command

VARIABLES
  setupdat,  \* SETUPDAT: the request of the last SETUP packet
  busy,      \* EP0CS.1
  stall,     \* EP0CS.0
  hsnak,     \* EP0CS.7: the status stage is still held off
  ep0bcl,    \* EP0BCL
  ep0buf     \* EP0BUF

ep0Vars == <<setupdat, busy, stall, hsnak, ep0bcl, ep0buf>>

Ep0TypeOK ==
  /\ setupdat \in Requests
  /\ busy \in BOOLEAN
  /\ stall \in BOOLEAN
  /\ hsnak \in BOOLEAN
  /\ ep0bcl \in 0 .. CmdSize
  /\ ep0buf \in Cmds \cup {NoCmd}

Ep0Init ==
  /\ setupdat = "UNKNOWN"
  /\ busy = FALSE
  /\ stall = FALSE
  /\ hsnak = FALSE
  /\ ep0bcl = 0
  /\ ep0buf = NoCmd

-----------------------------------------------------------------------------
(* A SETUP packet arrives: it is always accepted and ends the transfer     *)
(* before it.                                                              *)
SetupArrives(r) ==
  /\ setupdat' = r
  /\ busy' = FALSE
  /\ stall' = FALSE
  /\ hsnak' = TRUE
  /\ UNCHANGED <<ep0bcl, ep0buf>>

(* The data stage runs once the buffer is armed: OUT for START, which      *)
(* brings `len` bytes, IN otherwise.                                       *)
OutData(data, len) ==
  /\ busy
  /\ busy' = FALSE
  /\ ep0buf' = data
  /\ ep0bcl' = len
  /\ UNCHANGED <<setupdat, stall, hsnak>>

InData ==
  /\ busy
  /\ busy' = FALSE
  /\ UNCHANGED <<setupdat, stall, hsnak, ep0bcl, ep0buf>>

-----------------------------------------------------------------------------
(* EP0BCL = 0: ready to receive the command. *)
ArmOut ==
  /\ ep0bcl' = 0
  /\ busy' = TRUE
  /\ UNCHANGED <<setupdat, stall, hsnak, ep0buf>>

(* send_fw_version, send_revid_version: fill EP0BUF, EP0BCL = len. *)
SendAnswer(len) ==
  /\ ep0buf' = NoCmd
  /\ ep0bcl' = len
  /\ busy' = TRUE
  /\ UNCHANGED <<setupdat, stall, hsnak>>

(* STALLEP0() *)
StallEp0 ==
  /\ stall' = TRUE
  /\ UNCHANGED <<setupdat, busy, hsnak, ep0bcl, ep0buf>>

(* EP0CS |= bmHSNAK: lets the status stage through. *)
ClearHsnak ==
  /\ hsnak' = FALSE
  /\ UNCHANGED <<setupdat, busy, stall, ep0bcl, ep0buf>>
=============================================================================
