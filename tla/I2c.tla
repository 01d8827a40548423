-------------------------------- MODULE I2c --------------------------------
(***************************************************************************)
(* src/fx2lib/lib/i2c.c: i2c_write and i2c_read, and the EEPROM functions  *)
(* that are built from them, against the I2C controller and an EEPROM.     *)
(*                                                                         *)
(* The routines poll I2CS; the controller works on one byte at a time, the *)
(* bus may fail (BERR), the EEPROM does not answer (ACK = 0) while it      *)
(* stores what it got, and an interrupt may set cancel_i2c_trans at any    *)
(* time.                                                                   *)
(***************************************************************************)
EXTENDS Naturals, Sequences

CONSTANTS
  Base,        \* values of a byte; 256
  Sizes,       \* how many bytes the EEPROM may have
  Lengths,     \* how many bytes a call is about
  MaxFaults,   \* bound: bus errors, refused bytes and cancellations
  ReadErrors,  \* bus errors may also hit the bytes that the EEPROM sends
  Prompt       \* the last I2DAT is read before the stop condition is over

ASSUME I2cAssumption ==
  /\ Base \in Nat \ {0}
  /\ \A size \in Sizes : size \in Nat \ {0} /\ size <= Base * Base
  /\ Lengths \subseteq Nat \ {0}
  /\ MaxFaults \in Nat
  /\ {ReadErrors, Prompt} \subseteq BOOLEAN

VARIABLES
  pc,                \* where the routine is
  op, status,        \* the call of the EEPROM function, and its result
  prom_byte,         \* cur_byte of eeprom_write, after cur_byte++
  buf,               \* what i2c_read has put into its buffer
  cancel_i2c_trans, retry_count, cur_byte,
  done, ack, berr, stop, lastrd,    \* bits of I2CS
  i2dat,             \* the byte written or received last
  xfer,              \* what the controller is shifting, or "none"
  owned,             \* it generated START and not yet the stop condition
  mem,               \* the EEPROM
  slave,             \* its end of the transaction
  busy,              \* it stores what it got and does not answer
  stored,            \* how many bytes of the call it has stored
  faults,            \* faults so far
  cause              \* the call met one that may end it

callVars == <<op, status, prom_byte, buf>>
driverVars == <<pc, callVars, retry_count, cur_byte>>
i2csVars == <<done, ack, berr, stop, lastrd, i2dat, xfer, owned>>
eepromVars == <<mem, slave, busy, stored>>
faultVars == <<faults, cause>>
vars ==
  <<driverVars, cancel_i2c_trans, i2csVars, eepromVars, faultVars>>

Bytes == 0 .. Base - 1

E == INSTANCE Eeprom WITH
       Values <- Bytes,
       answer <- IF status = "true" THEN buf ELSE <<>>

Deselected == [mode |-> "none", got |-> <<>>, ptr |-> slave.ptr]

-----------------------------------------------------------------------------
(* EEPROM_TWO_BYTE is what the controller found at boot.                   *)
TwoByte == Len(mem) > Base
AddrBytes(addr) == IF TwoByte THEN <<addr \div Base, addr % Base>>
                   ELSE <<addr % Base>>
AddrOf(got) == IF TwoByte THEN got[1] * Base + got[2] ELSE got[1]
AddrLen == IF TwoByte THEN 2 ELSE 1

(* What the current i2c_write sends: for eeprom_write an address and one   *)
(* byte, for eeprom_read an address.                                       *)
Buffer ==
  CASE op.kind = "write" ->
         Append(AddrBytes(op.addr + prom_byte - 1), op.values[prom_byte])
    [] op.kind = "page" -> AddrBytes(op.addr) \o op.values
    [] op.kind = "read" -> AddrBytes(op.addr)

Pcs == {"idle", "w_enter", "w_start", "w_addr", "w_acked", "w_nak",
        "w_delay", "w_data", "w_byte", "w_refused", "w_stop",
        "r_enter", "r_start", "r_addr", "r_acked", "r_first", "r_byte",
        "r_last", "r_refused", "r_stop"}

TypeOK ==
  /\ pc \in Pcs
  /\ op \in E!Ops
  /\ status \in {"calling", "true", "false"}
  /\ prom_byte \in 1 .. op.len
  /\ Len(buf) <= op.len
  /\ retry_count \in 0 .. 2
  /\ cur_byte \in 0 .. 2 + op.len
  /\ {cancel_i2c_trans, done, ack, berr, stop, lastrd, owned, busy, cause}
       \subseteq BOOLEAN
  /\ i2dat \in Bytes
  /\ xfer \in {"none", "select_w", "select_r", "send", "receive"}
  /\ \A i \in DOMAIN mem : mem[i] \in Bytes
  /\ slave.mode \in {"none", "write", "read"}
  /\ slave.ptr \in 1 .. Len(mem)
  /\ stored \in 0 .. op.len
  /\ faults \in 0 .. MaxFaults

Init ==
  /\ mem \in {[i \in 1 .. n |-> 0] : n \in Sizes} /\ stored = 0
  /\ op \in {o \in E!Ops : o.kind = "read" /\ o.addr = 0 /\ o.len = 1}
  /\ status = "true"
  /\ pc = "idle" /\ prom_byte = 1 /\ buf = <<>>
  /\ cancel_i2c_trans = FALSE /\ retry_count = 0 /\ cur_byte = 0
  /\ done = FALSE /\ ack = FALSE /\ berr = FALSE /\ stop = FALSE
  /\ lastrd = FALSE /\ i2dat = 0 /\ xfer = "none" /\ owned = FALSE
  /\ slave = [mode |-> "none", got |-> <<>>, ptr |-> 1]
  /\ busy = FALSE
  /\ faults = 0 /\ cause = FALSE

-----------------------------------------------------------------------------
(* The routines.  A step is what they do between two reads of I2CS.        *)
Step(from, to) == pc = from /\ pc' = to /\ UNCHANGED <<op, faultVars>>

OnlyDriver == UNCHANGED <<i2csVars, eepromVars, cancel_i2c_trans>>
SetStart ==
  /\ owned' = TRUE
  /\ UNCHANGED <<done, ack, berr, stop, lastrd, i2dat, xfer, eepromVars,
                 cancel_i2c_trans>>
OnlyBus == UNCHANGED <<status, prom_byte, buf, retry_count, eepromVars,
                       cancel_i2c_trans>>

Result(from, result) ==
  /\ Step(from, "idle")
  /\ status' = result
  /\ retry_count' = 0 /\ cur_byte' = 0
  /\ UNCHANGED <<prom_byte, buf>>
  /\ OnlyDriver

(* I2DAT is written: a byte, or the address with the direction. *)
Shift(kind, byte) ==
  /\ i2dat' = byte
  /\ xfer' = kind
  /\ done' = FALSE
  /\ UNCHANGED <<ack, berr, stop, lastrd, owned>>

(* I2DAT is read, which makes the controller receive one byte more, unless *)
(* it is generating a stop condition.                                      *)
ReadI2dat(kind, last) ==
  /\ xfer' = kind
  /\ done' = FALSE
  /\ lastrd' = (lastrd \/ last)
  /\ UNCHANGED <<i2dat, ack, berr, stop, owned>>

SetStop ==
  stop' = TRUE /\ UNCHANGED <<done, ack, berr, lastrd, i2dat, xfer, owned>>

(* eeprom_write, eeprom_read, or i2c_write with an address buffer and a    *)
(* data buffer.  After a cancellation the caller lets the bus finish.      *)
Call(o) ==
  /\ pc = "idle" /\ xfer = "none" /\ ~stop
  /\ E!Fits(o)
  /\ pc' = "w_enter"
  /\ op' = o /\ status' = "calling"
  /\ prom_byte' = 1 /\ buf' = <<>>
  /\ retry_count' = 0 /\ cur_byte' = 0
  /\ stored' = 0 /\ cause' = FALSE
  /\ UNCHANGED <<cancel_i2c_trans, i2csVars, mem,
                 slave, busy, faults>>

CancelPoints == {"w_start", "w_acked", "w_nak", "w_byte", "w_refused", "w_stop",
                 "r_start", "r_acked", "r_byte", "r_refused", "r_stop"}

(* CHECK_I2C_CANCEL(), and the loops that cancel_i2c_trans ends. *)
Cancelled ==
  /\ cancel_i2c_trans
  /\ \E at \in CancelPoints : Result(at, "false")

Enter(from, to, tries) ==
  /\ Step(from, to)
  /\ cancel_i2c_trans' = FALSE
  /\ retry_count' = tries
  /\ UNCHANGED <<status, prom_byte, buf, cur_byte, i2csVars, eepromVars>>

\* Slip: the counter is tested before it is used, and begins at one.
WEnter_once == Enter("w_enter", "w_start", 1)

(* i2c_write: cancel_i2c_trans = FALSE, retry_count = 2. *)
WEnter == Enter("w_enter", "w_start", 2)

\* Slip: the transfer goes on behind the byte that met the error.
WStart_resumed ==
  /\ ~cancel_i2c_trans /\ ~berr
  /\ Step("w_start", "w_addr")
  /\ UNCHANGED <<cur_byte, status, prom_byte, buf, retry_count>>
  /\ SetStart

(* step1: cur_byte = 0 and START.  While BERR is set it stays here.        *)
WStart ==
  /\ ~cancel_i2c_trans /\ ~berr
  /\ Step("w_start", "w_addr")
  /\ cur_byte' = 0
  /\ UNCHANGED <<status, prom_byte, buf, retry_count>>
  /\ SetStart

WAddr ==
  /\ Step("w_addr", "w_acked")
  /\ Shift("select_w", 0)
  /\ UNCHANGED cur_byte /\ OnlyBus

(* The waits for DONE: an error starts again, a missing ACK stops.         *)
AfterByte(from, again, on, refused) ==
  /\ done /\ ~cancel_i2c_trans
  /\ \/ berr /\ Step(from, again) /\ UNCHANGED i2csVars
     \/ ~berr /\ ack /\ Step(from, on) /\ UNCHANGED i2csVars
     \/ ~berr /\ ~ack /\ Step(from, refused) /\ SetStop
  /\ UNCHANGED cur_byte /\ OnlyBus

\* Slip: a byte without ACK ends the routine at once.
WByte_noack ==
  \/ AfterByte("w_byte", "w_start", "w_data", "w_refused") /\ ~stop'
  \/ /\ done /\ ~cancel_i2c_trans /\ ~berr /\ ~ack
     /\ Step("w_byte", "w_refused")
     /\ UNCHANGED <<i2csVars, cur_byte>> /\ OnlyBus

WAcked == AfterByte("w_acked", "w_start", "w_data", "w_nak")
WByte == AfterByte("w_byte", "w_start", "w_data", "w_refused")

(* Two tries to get the address acknowledged, delay(10) between them.      *)
WNak ==
  /\ ~stop /\ ~cancel_i2c_trans
  /\ \/ retry_count = 1 /\ Result("w_nak", "false")
     \/ /\ retry_count > 1
        /\ Step("w_nak", "w_delay")
        /\ retry_count' = retry_count - 1
        /\ UNCHANGED <<status, prom_byte, buf, cur_byte>>
        /\ OnlyDriver

(* The delay is longer than the write cycle of an EEPROM. *)
WDelay ==
  /\ Step("w_delay", "w_start")
  /\ busy' = FALSE
  /\ UNCHANGED <<status, prom_byte, buf, retry_count, cur_byte, i2csVars,
                 cancel_i2c_trans, mem, slave, stored>>

WData ==
  /\ \/ /\ cur_byte < Len(Buffer)
        /\ Step("w_data", "w_byte")
        /\ Shift("send", Buffer[cur_byte + 1])
        /\ cur_byte' = cur_byte + 1
     \/ /\ cur_byte = Len(Buffer)
        /\ Step("w_data", "w_stop")
        /\ SetStop
        /\ UNCHANGED cur_byte
  /\ OnlyBus

WRefused ==
  /\ ~stop /\ ~cancel_i2c_trans
  /\ Result("w_refused", "false")

(* i2c_write is through: eeprom_write goes on with the next byte,          *)
(* eeprom_read with i2c_read.                                              *)
WStop ==
  /\ ~stop /\ ~cancel_i2c_trans
  /\ \/ /\ op.kind = "write" /\ prom_byte < op.len
        /\ Step("w_stop", "w_enter")
        /\ prom_byte' = prom_byte + 1
        /\ UNCHANGED <<status, buf, retry_count, cur_byte>>
        /\ OnlyDriver
     \/ /\ op.kind = "read"
        /\ Step("w_stop", "r_enter")
        /\ UNCHANGED <<prom_byte, status, buf, retry_count, cur_byte>>
        /\ OnlyDriver
     \/ /\ op.kind # "read" /\ (op.kind = "write" => prom_byte = op.len)
        /\ Result("w_stop", "true")

(* i2c_read *)
REnter == Enter("r_enter", "r_start", retry_count)

RStart ==
  /\ ~cancel_i2c_trans /\ ~berr
  /\ Step("r_start", "r_addr")
  /\ cur_byte' = 0 /\ buf' = <<>>
  /\ UNCHANGED <<status, prom_byte, retry_count>>
  /\ SetStart

RAddr ==
  /\ Step("r_addr", "r_acked")
  /\ Shift("select_r", 0)
  /\ UNCHANGED cur_byte /\ OnlyBus

RAcked == AfterByte("r_acked", "r_start", "r_first", "r_refused")

RRefused ==
  /\ ~stop /\ ~cancel_i2c_trans
  /\ Result("r_refused", "false")

(* The byte read first is discarded. *)
RFirst ==
  /\ Step("r_first", "r_byte")
  /\ ReadI2dat("receive", op.len = 1)
  /\ UNCHANGED cur_byte /\ OnlyBus

\* Slip: a byte too many.
RByte_onemore ==
  /\ done /\ ~cancel_i2c_trans
  /\ \/ /\ berr /\ Step("r_byte", "r_start")
        /\ UNCHANGED <<buf, cur_byte, i2csVars>>
     \/ /\ ~berr /\ op.len > cur_byte
        /\ Step("r_byte", "r_byte")
        /\ buf' = Append(buf, i2dat)
        /\ cur_byte' = cur_byte + 1
        /\ ReadI2dat("receive", op.len = cur_byte + 1)
     \/ ~berr /\ op.len <= cur_byte /\ Step("r_byte", "r_last") /\ SetStop
          /\ UNCHANGED <<buf, cur_byte>>
  /\ UNCHANGED <<status, prom_byte, retry_count, eepromVars, cancel_i2c_trans>>

(* The loop for all bytes but the last, which LASTRD announces. *)
RByte ==
  /\ done /\ ~cancel_i2c_trans
  /\ \/ /\ berr /\ Step("r_byte", "r_start")
        /\ UNCHANGED <<buf, cur_byte, i2csVars>>
     \/ /\ ~berr /\ op.len > cur_byte + 1
        /\ Step("r_byte", "r_byte")
        /\ buf' = Append(buf, i2dat)
        /\ cur_byte' = cur_byte + 1
        /\ ReadI2dat("receive", op.len = cur_byte + 2)
     \/ ~berr /\ op.len <= cur_byte + 1 /\ Step("r_byte", "r_last") /\ SetStop
          /\ UNCHANGED <<buf, cur_byte>>
  /\ UNCHANGED <<status, prom_byte, retry_count, eepromVars, cancel_i2c_trans>>

(* The last byte is read while the stop condition is being generated. *)
RLast ==
  /\ Step("r_last", "r_stop")
  /\ buf' = Append(buf, i2dat)
  /\ ReadI2dat(IF stop THEN "none" ELSE "receive", FALSE)
  /\ UNCHANGED <<status, prom_byte, retry_count, cur_byte, eepromVars,
                 cancel_i2c_trans>>

RStop ==
  /\ ~stop /\ ~cancel_i2c_trans
  /\ Result("r_stop", "true")

Driver ==
  \/ Cancelled \/ WEnter \/ WStart \/ WAddr \/ WAcked \/ WByte \/ WNak
  \/ WDelay \/ WData \/ WRefused \/ WStop \/ REnter \/ RStart \/ RAddr
  \/ RAcked \/ RRefused \/ RFirst \/ RByte \/ RLast \/ RStop

-----------------------------------------------------------------------------
(* The controller, the bus and the EEPROM (external). *)
Bus ==
  /\ xfer # "none"
  /\ xfer' = "none" /\ done' = TRUE
  /\ UNCHANGED <<driverVars, cancel_i2c_trans, stop, lastrd, owned, mem, busy,
                 stored>>

(* START and the address.  What an unfinished write sent is forgotten.     *)
Select ==
  /\ xfer \in {"select_w", "select_r"}
  /\ Bus
  /\ ack' = ~busy /\ berr' = FALSE
  /\ slave' = IF busy THEN Deselected
              ELSE [Deselected EXCEPT !.mode = IF xfer = "select_w"
                                               THEN "write" ELSE "read"]
  /\ UNCHANGED <<i2dat, faultVars>>

Send ==
  /\ xfer = "send"
  /\ Bus
  /\ ack' = (slave.mode = "write") /\ berr' = FALSE
  /\ slave' = IF slave.mode = "write"
              THEN [slave EXCEPT !.got = Append(@, i2dat)] ELSE slave
  /\ UNCHANGED <<i2dat, faultVars>>

(* A byte that the master does not acknowledge (LASTRD) is the last one.   *)
NextPtr == (slave.ptr % Len(mem)) + 1

Receive ==
  /\ xfer = "receive"
  /\ Bus
  /\ berr' = FALSE
  /\ i2dat' = IF slave.mode = "read" THEN mem[slave.ptr] ELSE Base - 1
  /\ slave' = [mode |-> IF lastrd THEN "none" ELSE slave.mode,
               got |-> slave.got,
               ptr |-> IF slave.mode = "read" THEN NextPtr ELSE slave.ptr]
  /\ UNCHANGED <<ack, faultVars>>

Fault == faults < MaxFaults /\ faults' = faults + 1

(* The EEPROM does not take a byte, because it is write-protected, or does *)
(* not answer when it is to be read.                                       *)
RefuseByte ==
  /\ xfer \in {"send", "select_r"}
  /\ Fault /\ cause' = TRUE
  /\ Bus
  /\ ack' = FALSE /\ berr' = FALSE
  /\ slave' = Deselected
  /\ UNCHANGED i2dat

(* Something else on the bus destroys the transfer; the EEPROM may have    *)
(* counted the byte.                                                       *)
BusError ==
  /\ xfer = "receive" => ReadErrors
  /\ Fault /\ UNCHANGED cause
  /\ Bus
  /\ berr' = TRUE /\ ack' \in BOOLEAN
  /\ \/ slave' = Deselected
     \/ xfer = "receive" /\ slave' = [Deselected EXCEPT !.ptr = NextPtr]
  /\ UNCHANGED i2dat

(* START clears BERR when the bus is free again. *)
BusRecovers ==
  /\ berr /\ pc \in {"w_start", "r_start"}
  /\ berr' = FALSE
  /\ UNCHANGED <<driverVars, cancel_i2c_trans, done, ack, stop, lastrd, i2dat,
                 xfer, owned, eepromVars, faultVars>>

(* The stop condition: the EEPROM stores the bytes behind the address.     *)
StopDone ==
  /\ stop
  /\ Prompt => pc # "r_last"
  /\ stop' = FALSE /\ lastrd' = FALSE /\ owned' = FALSE
  /\ UNCHANGED <<driverVars, cancel_i2c_trans, done, ack, berr, i2dat, xfer,
                 faultVars>>
  /\ IF slave.mode = "write" /\ Len(slave.got) >= AddrLen
     THEN LET data == SubSeq(slave.got, AddrLen + 1, Len(slave.got))
              at == AddrOf(slave.got)
          IN  /\ mem' = E!Stored(mem, at, data)
              /\ slave' = [Deselected EXCEPT !.ptr =
                              ((at + Len(data)) % Len(mem)) + 1]
              /\ stored' = stored + Len(data)
              /\ busy' = (data # <<>>)
     ELSE slave' = Deselected /\ UNCHANGED <<mem, busy, stored>>

CycleEnds ==
  /\ busy
  /\ busy' = FALSE
  /\ UNCHANGED <<driverVars, cancel_i2c_trans, i2csVars, mem, slave, stored,
                 faultVars>>

(* An interrupt handler cancels. *)
Cancel ==
  /\ ~cancel_i2c_trans
  /\ Fault /\ cause' = TRUE
  /\ cancel_i2c_trans' = TRUE
  /\ UNCHANGED <<driverVars, i2csVars, eepromVars>>

Hardware ==
  Select \/ Send \/ Receive \/ BusRecovers \/ StopDone \/ CycleEnds

Next ==
  \/ \E o \in E!Ops : Call(o)
  \/ Driver
  \/ Hardware
  \/ RefuseByte \/ BusError \/ Cancel

(* The routine is the only code that runs, but for interrupt handlers, and *)
(* the bus moves on; faults stop at the bound.                             *)
Spec == Init /\ [][Next]_vars /\ WF_vars(Driver) /\ WF_vars(Hardware)
-----------------------------------------------------------------------------
(* EEPROM.  Whatever bus errors, refused bytes and cancellations come      *)
(* between, the memory changes only by the bytes of the call, in order and *)
(* at their addresses; TRUE means that all are stored, or that the buffer  *)
(* holds what is stored; and every call returns (i2c.h:55-98).             *)
ImplementsEeprom == E!Spec

(* BUS RELEASED.  A routine that was not cancelled leaves the bus free: no *)
(* byte is on its way, the stop condition is over and the EEPROM is not    *)
(* selected (i2c.c:42, "Set STOP=1. Wait for STOP = 0 before initiating    *)
(* another transfer").                                                     *)
BusReleased ==
  pc = "idle" /\ ~cancel_i2c_trans =>
    xfer = "none" /\ ~stop /\ ~lastrd /\ ~owned /\ slave.mode = "none"

(* CAUSE.  A call fails only if it was cancelled or the EEPROM refused a   *)
(* byte: an EEPROM that is still storing the byte before, and every bus    *)
(* error, is waited out (i2c.c:48, "two tries to write address").          *)
FailsForCause == status = "false" => cause
=============================================================================
