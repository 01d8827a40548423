------------------------------- MODULE Command -------------------------------
(***************************************************************************)
(* The vendor protocol of the logic-analyzer firmware,                     *)
(* src/include/command.h, and what gpif-acquisition.c derives from the     *)
(* fields of a START command.  A command is an opaque value: Wide, Fast    *)
(* and LongDelay are its flags and its sample delay, as far as a property  *)
(* tells commands apart.                                                   *)
(***************************************************************************)
EXTENDS Naturals

CONSTANTS
  Cmds,        \* the START commands (struct cmd_start_acquisition)
  NoCmd,       \* no command: other data, or a half-written program
  Wide,        \* the commands with CMD_START_FLAGS_SAMPLE_16BIT
  Fast,        \* the commands with CMD_START_FLAGS_CLK_48MHZ
  LongDelay    \* the commands with sample_delay_h >= 6

ASSUME CmdsAssumption ==
  /\ NoCmd \notin Cmds
  /\ Wide \subseteq Cmds
  /\ Fast \subseteq Cmds
  /\ LongDelay \subseteq Cmds

CmdSize == 3                      \* sizeof(struct cmd_start_acquisition)

\* Slip: the answer counts the request's padding.
VersionSize_padded == 4

VersionSize == 2                  \* sizeof(struct version_info)

(* EP2FIFOCFG and IFCONFIG as a START command asks for them. *)
FifoCfg(cmd) == IF cmd \in Wide THEN "wide" ELSE "auto"
IfConfig(cmd) == IF cmd \in Fast THEN "48MHz" ELSE "30MHz"

(* Kinds of control requests: the three vendor commands, SET_INTERFACE     *)
(* (which resets EP2), a request without data that succeeds and one that   *)
(* is refused.                                                             *)
Requests == {"START", "GET_FW_VERSION", "GET_REVID_VERSION",
             "SET_INTERFACE", "SET_CONFIGURATION", "UNKNOWN"}

HasDataStage(r) == r \in {"START", "GET_FW_VERSION", "GET_REVID_VERSION"}
=============================================================================
