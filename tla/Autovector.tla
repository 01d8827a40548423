------------------------------ MODULE Autovector ------------------------------
(***************************************************************************)
(* fx2lib/include/autovector.h and lib/usbav.a51: the USB interrupts,      *)
(* which share INT2.  Each has a request and an enable bit; the controller *)
(* latches a rising edge of their disjunction in EXIF.4 (USBINT), and      *)
(* makes another edge when a request is cleared while others are pending.  *)
(***************************************************************************)
EXTENDS Naturals, Sequences

VARIABLES
  usbirq,   \* the requests
  usbie,    \* those that are enabled
  usbint    \* EXIF.4

int2Vars == <<usbirq, usbie, usbint>>

(* The jump table.  The controller replaces the low byte of the vector by  *)
(* four times the number of the pending request with the lowest number.    *)
INT2JT == <<
  "sudav", "sof", "sutok", "suspend", "usbreset", "hispeed", "ep0ack",
  "spare", "ep0in", "ep0out", "ep1in", "ep1out", "ep2", "ep4", "ep6", "ep8",
  "ibn", "spare", "ep0ping", "ep1ping", "ep2ping", "ep4ping", "ep6ping",
  "ep8ping", "errlimit", "spare", "spare", "spare", "ep2isoerr",
  "ep4isoerr", "ep6isoerr", "ep8isoerr">>
INT4JT == <<
  "ep2pf", "ep4pf", "ep6pf", "ep8pf", "ep2ef", "ep4ef", "ep6ef", "ep8ef",
  "ep2ff", "ep4ff", "ep6ff", "ep8ff", "gpifdone", "gpifwf">>

(* The interrupt numbers that the handlers are declared with, from 13 on.  *)
USB_ISR == <<
  "sudav", "sof", "sutok", "suspend", "usbreset", "hispeed", "ep0ack",
  "ep0in", "ep0out", "ep1in", "ep1out", "ep2", "ep4", "ep6", "ep8", "ibn",
  "ep0ping", "ep1ping", "ep2ping", "ep4ping", "ep6ping", "ep8ping",
  "errlimit", "ep2isoerr", "ep4isoerr", "ep6isoerr", "ep8isoerr",
  "spare",
  "ep2pf", "ep4pf", "ep6pf", "ep8pf", "ep2ef", "ep4ef", "ep6ef", "ep8ef",
  "ep2ff", "ep4ff", "ep6ff", "ep8ff", "gpifdone", "gpifwf">>

(* The table and the numbers name the same handlers in the same order. *)
NotSpare(name) == name # "spare"
ASSUME JumpTableAssumption ==
  SelectSeq(INT2JT \o INT4JT, NotSpare) = SelectSeq(USB_ISR, NotSpare)

UsbRequests == {INT2JT[i] : i \in DOMAIN INT2JT} \ {"spare"}
Raised == usbirq \cap usbie

Vector ==
  INT2JT[CHOOSE i \in DOMAIN INT2JT :
           /\ INT2JT[i] \in Raised
           /\ \A j \in 1 .. i - 1 : INT2JT[j] \notin Raised]

(* ENABLE_SUDAV() and its like. *)
Enable(requests) ==
  /\ usbie' = usbie \cup requests
  /\ usbint' = (usbint \/ usbirq \cap (usbie \cup requests) # {})
  /\ UNCHANGED usbirq

CLEAR_USBINT ==
  /\ usbint' = FALSE
  /\ UNCHANGED <<usbirq, usbie>>

(* USBIRQ = bm...: the second half of CLEAR_SUDAV() and its like. *)
ClearRequest(r) ==
  /\ usbirq' = usbirq \ {r}
  /\ usbint' = (usbint \/ Raised \ {r} # {})
  /\ UNCHANGED usbie

(* A request that comes while the line is high may or may not be an edge.  *)
Raise(requests) ==
  /\ usbirq' = usbirq \cup requests
  /\ usbint' \in IF requests \cap usbie = {} THEN {usbint}
                 ELSE IF Raised = {} THEN {TRUE} ELSE {usbint, TRUE}
  /\ UNCHANGED usbie
=============================================================================
