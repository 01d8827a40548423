----------------------------- MODULE Acquisition -----------------------------
(***************************************************************************)
(* What the logic-analyzer firmware promises a patient host, with no main  *)
(* loop, interrupts or registers: each accepted command is honoured by     *)
(* exactly one acquisition, whose packets and no others wait in the queue; *)
(* it runs until the queue overflows, and then everything is discarded.    *)
(***************************************************************************)
EXTENDS Command, Sequences

CONSTANT Buffers      \* packets the queue holds

VARIABLES
  requested,   \* the command that was accepted and not acted on, or NoCmd
  phase,       \* of the acquisition
  config,      \* the command it samples by, NoCmd when there is none
  queue        \* sampled packets, each with the command it was sampled by

avars == <<requested, phase, config, queue>>

Phases == {"STOPPED", "PREPARED", "RUNNING", "OVERRUN"}

AInit ==
  /\ requested = NoCmd
  /\ phase = "STOPPED"
  /\ config = NoCmd
  /\ queue = <<>>

(* The host gets a command through. *)
Accept(c) ==
  /\ phase = "STOPPED"
  /\ requested = NoCmd
  /\ requested' = c
  /\ UNCHANGED <<phase, config, queue>>

(* The firmware acts on it ... *)
Arm ==
  /\ requested \in Cmds \ LongDelay
  /\ requested' = NoCmd
  /\ phase = "STOPPED"
  /\ phase' = "PREPARED"
  /\ config' = requested
  /\ UNCHANGED queue

(* ... or rejects it. *)
Reject ==
  /\ requested \in LongDelay
  /\ requested' = NoCmd
  /\ UNCHANGED <<phase, config, queue>>

(* The host began to read. *)
Start ==
  /\ phase = "PREPARED"
  /\ phase' = "RUNNING"
  /\ UNCHANGED <<requested, config, queue>>

Fill ==
  /\ phase = "RUNNING"
  /\ Len(queue) < Buffers
  /\ queue' = Append(queue, config)
  /\ UNCHANGED <<requested, phase, config>>

Overrun ==
  /\ phase = "RUNNING"
  /\ Len(queue) = Buffers
  /\ phase' = "OVERRUN"
  /\ UNCHANGED <<requested, config, queue>>

Deliver ==
  /\ queue # <<>>
  /\ queue' = Tail(queue)
  /\ UNCHANGED <<requested, phase, config>>

Discard ==
  /\ phase = "OVERRUN"
  /\ queue # <<>>
  /\ queue' = <<>>
  /\ UNCHANGED <<requested, phase, config>>

Finish ==
  /\ phase = "OVERRUN"
  /\ queue = <<>>
  /\ phase' = "STOPPED"
  /\ config' = NoCmd
  /\ UNCHANGED <<requested, queue>>

ANext ==
  \/ \E c \in Cmds : Accept(c)
  \/ Arm \/ Reject \/ Start \/ Fill \/ Overrun \/ Deliver \/ Discard \/ Finish

ASpec == AInit /\ [][ANext]_avars

(* Accepted commands are acted on, and no acquisition gets stuck. *)
AFairSpec ==
  /\ ASpec
  /\ WF_avars(Arm \/ Reject)
  /\ WF_avars(Start)
  /\ WF_avars(Discard \/ Finish)
=============================================================================
