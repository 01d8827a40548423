-------------------------------- MODULE Gpif --------------------------------
(***************************************************************************)
(* The GPIF sampling engine, the EP2 FIFO it fills, and the register       *)
(* writes of src/gpif-acquisition.c that drive them.                       *)
(*                                                                         *)
(* The module holds state and effect operators only: src/fx2lafw.c calls   *)
(* them from its main loop and from an interrupt handler, and module       *)
(* Fx2lafw says which processor context executes which effect, and when.   *)
(* The engine itself and the FIFO are hardware: Sample, GpifDone and       *)
(* PopPacket are modelled from what the firmware relies on.                *)
(***************************************************************************)
EXTENDS Command, Sequences

CONSTANT Buffers      \* packets the EP2 FIFO holds (EP2CFG: quad buffering)

ASSUME BuffersAssumption == Buffers \in Nat \ {0}

VARIABLES
  gpif_acquiring,  \* the firmware's own view of the acquisition
  gpif,            \* the engine runs a waveform: GPIFTRIG.7 (DONE) is clear
  fifo,            \* committed EP2 packets, each the program it was sampled by
  nakall,          \* FIFORESET.7: every transfer is NAKed
  fifocfg,         \* EP2FIFOCFG
  ifconfig,        \* IFCONFIG clock selection
  wave             \* the program in WAVEDATA, NoCmd while it is not whole

gpifVars == <<gpif_acquiring, gpif, fifo, nakall, fifocfg, ifconfig, wave>>

GpifStatus == {"STOPPED", "PREPARED", "RUNNING"}

GpifTypeOK ==
  /\ gpif_acquiring \in GpifStatus
  /\ gpif \in BOOLEAN
  /\ fifo \in Seq(Cmds \cup {NoCmd})
  /\ Len(fifo) <= Buffers
  /\ nakall \in BOOLEAN
  /\ fifocfg \in {"manual", "auto", "wide"}
  /\ ifconfig \in {"30MHz", "48MHz"}
  /\ wave \in Cmds \cup {NoCmd}

-----------------------------------------------------------------------------
(* Before fx2lafw_init.  A processor reset through the boot loader does    *)
(* not stop the GPIF: firmware downloaded over a sampling device (warm)    *)
(* finds the engine running.                                               *)
GpifInit(warm) ==
  /\ gpif_acquiring = "STOPPED"
  /\ gpif \in (IF warm THEN BOOLEAN ELSE {FALSE})
  /\ fifo = <<>>
  /\ nakall = FALSE
  /\ fifocfg = IF gpif THEN "auto" ELSE "manual"
  /\ ifconfig = "30MHz"
  /\ wave = NoCmd

(* The EP2 part of setup_endpoints(): RESETFIFO(0x02), then AUTOIN. *)
SetupEndpoints ==
  /\ fifo' = <<>>
  /\ fifocfg' = "auto"
  /\ UNCHANGED <<gpif_acquiring, gpif, nakall, ifconfig, wave>>

(* gpif_init_la(): 48MHz, abort the engine, clear WAVEDATA, STOPPED. *)
GpifInitLa ==
  /\ ifconfig' = "48MHz"
  /\ gpif' = FALSE
  /\ wave' = NoCmd
  /\ gpif_acquiring' = "STOPPED"
  /\ UNCHANGED <<fifo, nakall, fifocfg>>

(* FIFORESET = 0x80 and FIFORESET = 0x00. *)
SetNakAll(on) ==
  /\ nakall' = on
  /\ UNCHANGED <<gpif_acquiring, gpif, fifo, fifocfg, ifconfig, wave>>

(* FIFORESET = 0x02: every packet of EP2 is discarded. *)
FlushFifo ==
  /\ fifo' = <<>>
  /\ UNCHANGED <<gpif_acquiring, gpif, nakall, fifocfg, ifconfig, wave>>

WriteFifoCfg(mode) ==
  /\ fifocfg' = mode
  /\ UNCHANGED <<gpif_acquiring, gpif, fifo, nakall, ifconfig, wave>>

WriteIfConfig(clock) ==
  /\ ifconfig' = clock
  /\ UNCHANGED <<gpif_acquiring, gpif, fifo, nakall, fifocfg, wave>>

WriteWave(program) ==
  /\ wave' = program
  /\ UNCHANGED <<gpif_acquiring, gpif, fifo, nakall, fifocfg, ifconfig>>

SetStatus(status) ==
  /\ gpif_acquiring' = status
  /\ UNCHANGED <<gpif, fifo, nakall, fifocfg, ifconfig, wave>>

(* gpif_fifo_read(GPIF_EP2): wait until the engine is idle, then trigger. *)
GpifFifoRead ==
  /\ ~gpif
  /\ gpif' = TRUE
  /\ UNCHANGED <<gpif_acquiring, fifo, nakall, fifocfg, ifconfig, wave>>

-----------------------------------------------------------------------------
(* The engine commits one more packet (AUTOIN must be on for that).        *)
Sample ==
  /\ gpif
  /\ Len(fifo) < Buffers
  /\ fifocfg # "manual"
  /\ fifo' = Append(fifo, wave)
  /\ UNCHANGED <<gpif_acquiring, gpif, nakall, fifocfg, ifconfig, wave>>

(* The decision point of the waveform program leaves for IDLE once it      *)
(* finds the FIFO full.                                                    *)
GpifDone ==
  /\ gpif
  /\ Len(fifo) = Buffers
  /\ gpif' = FALSE
  /\ UNCHANGED <<gpif_acquiring, fifo, nakall, fifocfg, ifconfig, wave>>

(* EP2 answers an IN token with a packet, or with NAK. *)
HasPacket == fifo # <<>> /\ ~nakall

PopPacket ==
  /\ HasPacket
  /\ fifo' = Tail(fifo)
  /\ UNCHANGED <<gpif_acquiring, gpif, nakall, fifocfg, ifconfig, wave>>
=============================================================================
