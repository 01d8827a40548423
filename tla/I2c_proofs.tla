----------------------------- MODULE I2c_proofs -----------------------------
(***************************************************************************)
(* Proofs about the I2C routines, for every size of the EEPROM, every      *)
(* length of a call and every number of faults.                            *)
(***************************************************************************)
EXTENDS I2c, TLAPS, SequenceTheorems

Stopping == {"w_nak", "w_refused", "w_stop", "r_refused", "r_stop"}
Reading == {"r_enter", "r_start", "r_addr", "r_acked", "r_first", "r_byte",
            "r_last", "r_refused", "r_stop"}
Sending == {"w_start", "w_addr", "w_acked", "w_data", "w_byte"}

-----------------------------------------------------------------------------
(* Where the controller is while the routine is at a label.  If the last   *)
(* I2DAT is read late, one byte more is received in r_stop, and goes on    *)
(* when the call has returned; the EEPROM is not selected then.            *)

Released == ~lastrd /\ ~owned /\ slave.mode = "none"

ControllerInv ==
  /\ slave = [mode |-> slave.mode, got |-> slave.got, ptr |-> slave.ptr]
  /\ done => xfer = "none"
  /\ pc \notin {"idle", "w_acked", "w_byte", "r_acked", "r_byte", "r_stop"} =>
       xfer = "none"
  /\ pc = "w_acked" => done \/ xfer = "select_w"
  /\ pc = "w_byte" => done \/ xfer = "send"
  /\ pc = "r_acked" => done \/ xfer = "select_r"
  /\ pc = "r_byte" => done \/ xfer = "receive"
  /\ stop => pc \in Stopping \cup {"idle", "r_last"}
  /\ pc = "r_stop" => xfer \in {"none", "receive"}
  /\ pc \in Stopping \cup {"r_last"} => stop \/ Released

(* If the last byte is read in time, the stop condition is not over before *)
(* and no byte is received behind it.                                      *)
PromptInv ==
  /\ pc = "r_last" => stop
  /\ pc = "r_stop" => xfer = "none"
  /\ BusReleased

LEMMA ControllerStep == ASSUME ControllerInv, [Next]_vars PROVE ControllerInv'
<1> USE DEF ControllerInv, Released, Stopping
<1>1. CASE \E o \in E!Ops : Call(o)
  BY <1>1 DEF Call, i2csVars
<1>2. CASE Cancelled
  BY <1>2 DEF Cancelled, Result, Step, CancelPoints, OnlyDriver, i2csVars,
              eepromVars
<1>3. CASE WEnter \/ REnter
  BY <1>3 DEF WEnter, REnter, Enter, Step, i2csVars, eepromVars
<1>4. CASE WStart \/ RStart
  BY <1>4 DEF WStart, RStart, Step, SetStart, eepromVars
<1>5. CASE WAddr \/ RAddr
  BY <1>5 DEF WAddr, RAddr, Step, Shift, OnlyBus, eepromVars
<1>6. CASE WAcked \/ WByte \/ RAcked
  BY <1>6 DEF WAcked, WByte, RAcked, AfterByte, Step, SetStop, OnlyBus,
              i2csVars, eepromVars
<1>7. CASE WNak \/ WRefused \/ WStop \/ RRefused \/ RStop
  BY <1>7 DEF WNak, WRefused, WStop, RRefused, RStop, Result, Step,
              OnlyDriver, i2csVars, eepromVars
<1>8. CASE WDelay
  BY <1>8 DEF WDelay, Step, i2csVars
<1>9. CASE WData
  BY <1>9 DEF WData, Step, Shift, SetStop, OnlyBus, eepromVars
<1>10. CASE RFirst
  BY <1>10 DEF RFirst, Step, ReadI2dat, OnlyBus, eepromVars
<1>11. CASE RByte
  <2>1. /\ pc = "r_byte" /\ done /\ UNCHANGED <<slave, cancel_i2c_trans>>
        /\ \/ pc' = "r_start" /\ UNCHANGED i2csVars
           \/ /\ pc' = "r_byte" /\ done' = FALSE /\ xfer' = "receive"
              /\ UNCHANGED stop
           \/ pc' = "r_last" /\ SetStop
    BY <1>11 DEF RByte, Step, ReadI2dat, eepromVars
  <2>2. CASE pc' = "r_start" /\ UNCHANGED i2csVars
    BY <2>1, <2>2 DEF i2csVars
  <2>3. CASE pc' = "r_byte" /\ done' = FALSE /\ xfer' = "receive"
             /\ UNCHANGED stop
    BY <2>1, <2>3
  <2>4. CASE pc' = "r_last" /\ SetStop
    BY <2>1, <2>4 DEF SetStop
  <2> QED
    BY <2>1, <2>2, <2>3, <2>4
<1>12. CASE RLast
  BY <1>12 DEF RLast, Step, ReadI2dat, eepromVars
<1>13. CASE Select \/ Send \/ Receive \/ RefuseByte \/ BusError
  BY <1>13 DEF Select, Send, Receive, RefuseByte, BusError, Bus, Deselected,
               driverVars, NextPtr
<1>14. CASE BusRecovers \/ CycleEnds \/ Cancel
  BY <1>14 DEF BusRecovers, CycleEnds, Cancel, driverVars, i2csVars,
               eepromVars
<1>15. CASE StopDone
  <2>1. /\ UNCHANGED <<pc, cancel_i2c_trans, done, xfer>>
        /\ stop /\ ~stop' /\ ~lastrd' /\ ~owned'
    BY <1>15 DEF StopDone, driverVars
  <2>2. slave' = [mode |-> "none", got |-> <<>>, ptr |-> slave'.ptr]
    BY <1>15 DEF StopDone, Deselected
  <2> QED
    BY <2>1, <2>2
<1>16. CASE UNCHANGED vars
  BY <1>16 DEF vars, driverVars, i2csVars, eepromVars
<1> QED
  BY <1>1, <1>2, <1>3, <1>4, <1>5, <1>6, <1>7, <1>8, <1>9, <1>10, <1>11,
     <1>12, <1>13, <1>14, <1>15, <1>16
  DEF Next, Driver, Hardware

LEMMA PromptStep ==
  ASSUME Prompt = TRUE, ControllerInv, PromptInv, [Next]_vars PROVE PromptInv'
<1> USE DEF ControllerInv, PromptInv, Released, BusReleased, Stopping
<1>1. CASE \E o \in E!Ops : Call(o)
  BY <1>1 DEF Call, i2csVars
<1>2. CASE Cancelled
  BY <1>2 DEF Cancelled, Result, Step, CancelPoints, OnlyDriver, i2csVars,
              eepromVars
<1>3. CASE WEnter \/ REnter
  BY <1>3 DEF WEnter, REnter, Enter, Step, i2csVars, eepromVars
<1>4. CASE WStart \/ RStart
  BY <1>4 DEF WStart, RStart, Step, SetStart, eepromVars
<1>5. CASE WAddr \/ RAddr
  BY <1>5 DEF WAddr, RAddr, Step, Shift, OnlyBus, eepromVars
<1>6. CASE WAcked \/ WByte \/ RAcked
  BY <1>6 DEF WAcked, WByte, RAcked, AfterByte, Step, SetStop, OnlyBus,
              i2csVars, eepromVars
<1>7. CASE WNak \/ WRefused \/ WStop \/ RRefused \/ RStop
  BY <1>7 DEF WNak, WRefused, WStop, RRefused, RStop, Result, Step,
              OnlyDriver, i2csVars, eepromVars
<1>8. CASE WDelay
  BY <1>8 DEF WDelay, Step, i2csVars
<1>9. CASE WData
  BY <1>9 DEF WData, Step, Shift, SetStop, OnlyBus, eepromVars
<1>10. CASE RFirst
  BY <1>10 DEF RFirst, Step, ReadI2dat, OnlyBus, eepromVars
<1>11. CASE RByte
  <2>1. /\ pc = "r_byte" /\ done /\ UNCHANGED <<slave, cancel_i2c_trans>>
        /\ \/ pc' = "r_start" /\ UNCHANGED i2csVars
           \/ /\ pc' = "r_byte" /\ done' = FALSE /\ xfer' = "receive"
              /\ UNCHANGED stop
           \/ pc' = "r_last" /\ SetStop
    BY <1>11 DEF RByte, Step, ReadI2dat, eepromVars
  <2>2. CASE pc' = "r_start" /\ UNCHANGED i2csVars
    BY <2>1, <2>2 DEF i2csVars
  <2>3. CASE pc' = "r_byte" /\ done' = FALSE /\ xfer' = "receive"
             /\ UNCHANGED stop
    BY <2>1, <2>3
  <2>4. CASE pc' = "r_last" /\ SetStop
    BY <2>1, <2>4 DEF SetStop
  <2> QED
    BY <2>1, <2>2, <2>3, <2>4
<1>12. CASE RLast
  BY <1>12 DEF RLast, Step, ReadI2dat, eepromVars
<1>13. CASE Select \/ Send \/ Receive \/ RefuseByte \/ BusError
  BY <1>13 DEF Select, Send, Receive, RefuseByte, BusError, Bus, Deselected,
               driverVars, NextPtr
<1>14. CASE BusRecovers \/ CycleEnds \/ Cancel
  BY <1>14 DEF BusRecovers, CycleEnds, Cancel, driverVars, i2csVars,
               eepromVars
<1>15. CASE StopDone
  <2>1. /\ UNCHANGED <<pc, cancel_i2c_trans, done, xfer>>
        /\ stop /\ pc # "r_last" /\ ~stop' /\ ~lastrd' /\ ~owned'
    BY <1>15 DEF StopDone, driverVars
  <2>2. slave' = [mode |-> "none", got |-> <<>>, ptr |-> slave'.ptr]
    BY <1>15 DEF StopDone, Deselected
  <2> QED
    BY <2>1, <2>2
<1>16. CASE UNCHANGED vars
  BY <1>16 DEF vars, driverVars, i2csVars, eepromVars
<1> QED
  BY <1>1, <1>2, <1>3, <1>4, <1>5, <1>6, <1>7, <1>8, <1>9, <1>10, <1>11,
     <1>12, <1>13, <1>14, <1>15, <1>16
  DEF Next, Driver, Hardware

-----------------------------------------------------------------------------
(* Why a call may fail. *)

(* The EEPROM does not store while it is written to, or once the second    *)
(* try has begun; so only a refused byte or a cancellation can end a call. *)
CauseInv ==
  /\ cancel_i2c_trans /\ pc # "w_enter" => cause
  /\ status = "false" => cause
  /\ slave.mode = "write" => ~busy
  /\ pc \in Sending \cup {"w_nak"} => retry_count \in {1, 2}
  /\ pc = "w_nak" => retry_count = 2
  /\ pc = "w_delay" => retry_count = 1
  /\ pc \in Sending /\ retry_count = 1 => ~busy
  /\ pc = "w_acked" /\ done /\ ~berr =>
       IF ack THEN slave.mode = "write" ELSE retry_count = 2
  /\ pc = "w_data" => slave.mode = "write"
  /\ pc = "w_byte" /\ ~done => slave.mode = "write"
  /\ pc = "w_byte" /\ done /\ ~berr =>
       IF ack THEN slave.mode = "write" ELSE cause
  /\ pc = "r_acked" /\ done /\ ~berr /\ ~ack => cause
  /\ pc \in {"w_refused", "r_refused"} => cause

\* What an address is made of.
Digits == {op.addr \div Base, op.addr % Base}

(* A read finds the EEPROM idle: what i2c_write sent before it was an      *)
(* address and nothing else.                                               *)
AddressInv ==
  /\ pc \in Reading => op.kind = "read" /\ slave.mode # "write"
  /\ op.kind = "read" /\ pc \in Reading \cup {"w_stop"} => ~busy
  /\ op.kind = "read" /\ pc = "w_data" =>
       /\ slave.got \in Seq(Digits) /\ cur_byte \in Nat
       /\ Len(slave.got) = cur_byte
  /\ op.kind = "read" /\ pc = "w_byte" /\ ~done =>
       /\ slave.got \in Seq(Digits) /\ cur_byte \in Nat /\ i2dat \in Digits
       /\ Len(slave.got) + 1 = cur_byte
  /\ op.kind = "read" /\ pc = "w_byte" /\ done /\ ~berr /\ ack =>
       /\ slave.got \in Seq(Digits) /\ cur_byte \in Nat
       /\ Len(slave.got) = cur_byte
  /\ op.kind = "read" /\ pc = "w_acked" /\ done /\ ~berr /\ ack =>
       slave.got = <<>> /\ cur_byte = 0
  /\ op.kind = "read" /\ pc = "w_acked" => cur_byte = 0
  /\ op.kind = "read" /\ pc = "w_addr" => cur_byte = 0
  /\ op.kind = "read" /\ pc = "w_stop" /\ slave.mode = "write" =>
       slave.got \in Seq(Digits) /\ Len(slave.got) = AddrLen

LEMMA AddressBytes ==
  AddrBytes(op.addr) \in Seq(Digits) /\ Len(AddrBytes(op.addr)) = AddrLen
<1> DEFINE high == op.addr \div Base
           low == op.addr % Base
<1>1. high \in Digits /\ low \in Digits
  BY DEF Digits
<1> HIDE DEF high, low
<1>2. <<high, low>> \in Seq(Digits) /\ <<low>> \in Seq(Digits)
  BY <1>1
<1>3. AddrBytes(op.addr) = IF TwoByte THEN <<high, low>> ELSE <<low>>
  BY DEF AddrBytes, high, low
<1> QED
  BY <1>2, <1>3 DEF AddrLen

LEMMA CauseStep ==
  ASSUME ControllerInv, CauseInv, AddressInv, [Next]_vars
  PROVE  CauseInv'
<1> USE DEF ControllerInv, Released, CauseInv, Stopping, Sending
<1>1. CASE \E o \in E!Ops : Call(o)
  BY <1>1 DEF Call, i2csVars
<1>2. CASE Cancelled
  BY <1>2 DEF Cancelled, Result, Step, CancelPoints, OnlyDriver, i2csVars,
              eepromVars, faultVars
<1>3. CASE WEnter \/ REnter
  BY <1>3 DEF WEnter, REnter, Enter, Step, i2csVars, eepromVars, faultVars
<1>4. CASE WStart \/ RStart
  BY <1>4 DEF WStart, RStart, Step, SetStart, eepromVars, faultVars
<1>5. CASE WAddr \/ RAddr
  BY <1>5 DEF WAddr, RAddr, Step, Shift, OnlyBus, eepromVars, faultVars
<1>6. CASE WAcked \/ WByte \/ RAcked
  BY <1>6 DEF WAcked, WByte, RAcked, AfterByte, Step, SetStop, OnlyBus,
              i2csVars, eepromVars, faultVars
<1>7. CASE WNak \/ WRefused \/ WStop \/ RRefused \/ RStop
  BY <1>7 DEF WNak, WRefused, WStop, RRefused, RStop, Result, Step,
              OnlyDriver, i2csVars, eepromVars, faultVars
<1>8. CASE WDelay
  BY <1>8 DEF WDelay, Step, i2csVars, faultVars
<1>9. CASE WData
  BY <1>9 DEF WData, Step, Shift, SetStop, OnlyBus, eepromVars, faultVars
<1>10. CASE RFirst
  BY <1>10 DEF RFirst, Step, ReadI2dat, OnlyBus, eepromVars, faultVars
<1>11. CASE RByte
  <2>1. /\ pc' \in {"r_start", "r_byte", "r_last"}
        /\ UNCHANGED <<status, cause, retry_count, slave, cancel_i2c_trans,
                       busy>>
        /\ pc = "r_byte"
    BY <1>11 DEF RByte, Step, eepromVars, faultVars
  <2> QED
    BY <2>1
<1>12. CASE RLast
  BY <1>12 DEF RLast, Step, ReadI2dat, eepromVars, faultVars
<1>13. CASE Select
  <2>1. /\ UNCHANGED <<pc, op, status, retry_count, cancel_i2c_trans, busy,
                       cause>>
        /\ xfer \in {"select_w", "select_r"} /\ done' = TRUE /\ berr' = FALSE
        /\ ack' = ~busy
    BY <1>13 DEF Select, Bus, driverVars, callVars, faultVars
  <2>2. /\ slave'.mode = "write" => ~busy
        /\ ~busy /\ xfer = "select_w" => slave'.mode = "write"
    BY <1>13 DEF Select, Deselected
  <2>3. pc \notin {"w_byte", "w_data"} /\ (pc = "w_acked" => xfer = "select_w")
    BY <2>1
  <2>4. pc = "r_acked" => ~busy
    BY DEF AddressInv, Reading
  <2> QED
    BY <2>1, <2>2, <2>3, <2>4
<1>14. CASE Send \/ Receive
  <2>1. /\ UNCHANGED <<pc, op, status, retry_count, cancel_i2c_trans, busy,
                       cause>>
        /\ xfer \in {"send", "receive"} /\ done' = TRUE /\ berr' = FALSE
        /\ xfer = "send" => ack' = (slave.mode = "write")
        /\ ~done
    BY <1>14 DEF Send, Receive, Bus, driverVars, callVars, faultVars
  <2>2. /\ slave'.mode \in {"none", slave.mode}
        /\ xfer = "send" => slave'.mode = slave.mode
    BY <1>14 DEF Send, Receive
  <2>3. /\ pc \notin {"w_acked", "r_acked", "w_data"}
        /\ pc = "w_byte" => xfer = "send"
    BY <2>1
  <2> QED
    BY <2>1, <2>2, <2>3
<1>15. CASE RefuseByte
  <2>1. /\ UNCHANGED <<pc, op, status, retry_count, cancel_i2c_trans, busy>>
        /\ xfer \in {"send", "select_r"} /\ done' = TRUE /\ cause' = TRUE
        /\ slave'.mode = "none" /\ ack' = FALSE
    BY <1>15 DEF RefuseByte, Bus, Deselected, driverVars, callVars
  <2>2. pc \notin {"w_data", "w_acked"}
    BY <2>1
  <2> QED
    BY <2>1, <2>2
<1>21. CASE BusError
  <2>1. /\ UNCHANGED <<pc, op, status, retry_count, cancel_i2c_trans, busy,
                       cause>>
        /\ xfer # "none" /\ done' = TRUE /\ berr' = TRUE
    BY <1>21 DEF BusError, Bus, driverVars, callVars
  <2>2. slave'.mode = "none"
    BY <1>21 DEF BusError, Deselected
  <2>3. pc # "w_data"
    BY <2>1
  <2> QED
    BY <2>1, <2>2, <2>3
<1>16. CASE BusRecovers
  BY <1>16 DEF BusRecovers, driverVars, callVars, eepromVars, faultVars
<1>19. CASE CycleEnds
  BY <1>19 DEF CycleEnds, driverVars, callVars, i2csVars, faultVars
<1>20. CASE Cancel
  BY <1>20 DEF Cancel, driverVars, callVars, i2csVars, eepromVars
<1>17. CASE StopDone
  <2>1. /\ UNCHANGED <<pc, op, status, retry_count, cancel_i2c_trans, done,
                       berr, ack, cause>>
        /\ pc \in Stopping \cup {"idle", "r_last"}
    BY <1>17 DEF StopDone, driverVars, callVars, faultVars
  <2>2. slave'.mode = "none"
    BY <1>17 DEF StopDone, Deselected
  <2> QED
    BY <2>1, <2>2
<1>18. CASE UNCHANGED vars
  BY <1>18 DEF vars, driverVars, callVars, i2csVars, eepromVars, faultVars
<1> QED
  BY <1>1, <1>2, <1>3, <1>4, <1>5, <1>6, <1>7, <1>8, <1>9, <1>10, <1>11,
     <1>12, <1>13, <1>14, <1>15, <1>16, <1>17, <1>18, <1>19, <1>20,
     <1>21
  DEF Next, Driver, Hardware

LEMMA AddressStep ==
  ASSUME ControllerInv, CauseInv, AddressInv, [Next]_vars
  PROVE  AddressInv'
<1> USE DEF ControllerInv, AddressInv, Reading
<1>0. AddrLen' = AddrLen \/ mem' # mem
  BY DEF AddrLen, TwoByte
<1>00. op' = op => Digits' = Digits
  BY DEF Digits
<1> USE <1>00
<1>1. CASE \E o \in E!Ops : Call(o)
  BY <1>1 DEF Call
<1>2. CASE Cancelled
  BY <1>2 DEF Cancelled, Result, Step, OnlyDriver, eepromVars
<1>3. CASE WEnter \/ REnter
  BY <1>3 DEF WEnter, REnter, Enter, Step, eepromVars
<1>4. CASE WStart \/ RStart
  BY <1>4 DEF WStart, RStart, Step, SetStart, eepromVars
<1>5. CASE WAddr \/ RAddr
  BY <1>5 DEF WAddr, RAddr, Step, Shift, OnlyBus, eepromVars
<1>6. CASE WAcked
  <2>1. <<>> \in Seq(Digits) /\ Len(<<>>) = 0 /\ 0 \in Nat
    OBVIOUS
  <2>2. /\ pc = "w_acked" /\ done
        /\ UNCHANGED <<op, slave, busy, cur_byte, mem, berr, ack>>
    BY <1>6
    DEF WAcked, AfterByte, Step, SetStop, OnlyBus, i2csVars, eepromVars
  <2>3. \/ pc' \in {"w_start", "w_nak"}
        \/ pc' = "w_data" /\ ~berr /\ ack
    BY <1>6 DEF WAcked, AfterByte, Step
  <2>4. op.kind = "read" /\ pc' = "w_data" => slave.got = <<>> /\ cur_byte = 0
    BY <2>2, <2>3
  <2>5. op.kind = "read" /\ pc' = "w_data" =>
          slave.got \in Seq(Digits) /\ cur_byte \in Nat
            /\ Len(slave.got) = cur_byte
    BY <2>1, <2>4, Zenon
  <2> QED
    BY <2>2, <2>3, <2>5
<1>61. CASE WByte
  BY <1>61 DEF WByte, AfterByte, Step, SetStop, OnlyBus, i2csVars, eepromVars
<1>62. CASE RAcked
  BY <1>62 DEF RAcked, AfterByte, Step, SetStop, OnlyBus, i2csVars, eepromVars
<1>7. CASE WNak \/ WRefused \/ RRefused \/ RStop
  BY <1>7 DEF WNak, WRefused, RRefused, RStop, Result, Step,
              OnlyDriver, eepromVars
<1>71. CASE WStop
  BY <1>71 DEF WStop, Result, Step, OnlyDriver, eepromVars, Stopping, Released
<1>8. CASE WDelay
  BY <1>8 DEF WDelay, Step, i2csVars
<1>9. CASE WData
  <2>1. /\ pc = "w_data" /\ op' = op /\ slave' = slave /\ busy' = busy
        /\ mem' = mem
    BY <1>9 DEF WData, Step, OnlyBus, eepromVars
  <2>2. op.kind = "read" =>
          Buffer \in Seq(Digits) /\ Len(Buffer) = AddrLen
    BY AddressBytes DEF Buffer
  <2>3. CASE /\ cur_byte < Len(Buffer) /\ pc' = "w_byte"
             /\ Shift("send", Buffer[cur_byte + 1])
             /\ cur_byte' = cur_byte + 1
    <3>1. op.kind = "read" => Buffer[cur_byte + 1] \in Digits
      BY <2>1, <2>2, <2>3
    <3> QED
      BY <2>1, <2>3, <3>1 DEF Shift
  <2>4. CASE /\ cur_byte = Len(Buffer) /\ pc' = "w_stop" /\ SetStop
    <3>1. ~busy
      BY <2>1 DEF CauseInv
    <3>2. op.kind = "read" =>
            slave.got \in Seq(Digits) /\ Len(slave.got) = AddrLen
      BY <2>1, <2>2, <2>4
    <3> QED
      BY <1>0, <2>1, <2>4, <3>1, <3>2
  <2> QED
    BY <1>9, <2>3, <2>4 DEF WData, Step
<1>10. CASE RFirst
  BY <1>10 DEF RFirst, Step, ReadI2dat, OnlyBus, eepromVars
<1>11. CASE RByte
  BY <1>11 DEF RByte, Step, eepromVars
<1>12. CASE RLast
  BY <1>12 DEF RLast, Step, ReadI2dat, eepromVars
<1>13. CASE Select
  <2>1. /\ UNCHANGED <<pc, op, cur_byte, busy>>
        /\ xfer \in {"select_w", "select_r"} /\ done' = TRUE
        /\ ack' = ~busy
    BY <1>13 DEF Select, Bus, driverVars, callVars
  <2>2. /\ ~busy => slave'.got = <<>>
        /\ slave'.mode = "write" => xfer = "select_w"
    BY <1>13 DEF Select, Deselected
  <2>3. /\ pc \notin {"w_byte", "w_data", "w_stop"}
        /\ pc \in Reading => xfer = "select_r"
    BY <2>1 DEF Stopping
  <2> QED
    BY <2>1, <2>2, <2>3
<1>14. CASE Send
  <2>1. /\ UNCHANGED <<pc, op, cur_byte, busy>>
        /\ xfer = "send" /\ done' = TRUE /\ ~done
        /\ slave' = IF slave.mode = "write"
                    THEN [slave EXCEPT !.got = Append(@, i2dat)] ELSE slave
    BY <1>14 DEF Send, Bus, driverVars, callVars
  <2>2. pc \in {"idle", "w_byte"}
    BY <2>1
  <2>3. CASE pc = "idle"
    BY <2>1, <2>3
  <2>4. CASE pc = "w_byte"
    <3>1. slave.mode = "write"
      BY <2>1, <2>4 DEF CauseInv
    <3>2. slave'.got = Append(slave.got, i2dat)
      BY <2>1, <3>1
    <3> QED
      BY <2>1, <2>4, <3>2
  <2> QED
    BY <2>2, <2>3, <2>4
<1>15. CASE Receive
  <2>1. /\ UNCHANGED <<pc, op, busy>>
        /\ xfer = "receive" /\ ~done
    BY <1>15 DEF Receive, Bus, driverVars, callVars
  <2>2. slave'.mode \in {"none", slave.mode}
    BY <1>15 DEF Receive
  <2>3. pc \in {"idle", "r_byte", "r_stop"}
    BY <2>1
  <2> QED
    BY <2>1, <2>2, <2>3
<1>16. CASE RefuseByte \/ BusError
  <2>1. /\ UNCHANGED <<pc, op, cur_byte, busy>>
        /\ xfer # "none" /\ done' = TRUE
    BY <1>16 DEF RefuseByte, BusError, Bus, driverVars, callVars
  <2>2. berr' = TRUE \/ (ack' = FALSE /\ xfer \in {"send", "select_r"})
    BY <1>16 DEF RefuseByte, BusError
  <2>3. slave'.mode = "none"
    BY <1>16 DEF RefuseByte, BusError, Deselected
  <2>4. pc \in {"idle", "w_acked", "w_byte", "r_acked", "r_byte", "r_stop"}
    BY <2>1
  <2> QED
    BY <2>1, <2>2, <2>3, <2>4
<1>17. CASE BusRecovers
  BY <1>17 DEF BusRecovers, driverVars, callVars, eepromVars
<1>18. CASE CycleEnds
  BY <1>0, <1>18 DEF CycleEnds, driverVars, callVars, i2csVars
<1>19. CASE Cancel
  BY <1>0, <1>19 DEF Cancel, driverVars, callVars, i2csVars, eepromVars
<1>20. CASE StopDone
  <2>1. /\ UNCHANGED <<pc, op, cur_byte, done>>
        /\ pc \in Stopping \cup {"idle", "r_last"}
    BY <1>20 DEF StopDone, driverVars, callVars
  <2>2. slave'.mode = "none"
    BY <1>20 DEF StopDone, Deselected
  <2>3. op.kind = "read" /\ pc \in Reading \cup {"w_stop"} => ~busy'
    <3>1. SUFFICES ASSUME op.kind = "read", pc \in Reading \cup {"w_stop"}
                   PROVE  ~busy'
      OBVIOUS
    <3>2. CASE slave.mode = "write"
      <4>1. slave.got \in Seq(Digits) /\ Len(slave.got) = AddrLen
        BY <3>1, <3>2
      <4>2. SubSeq(slave.got, AddrLen + 1, Len(slave.got)) = <<>>
        BY <4>1 DEF AddrLen
      <4>3. Len(slave.got) >= AddrLen
        BY <4>1 DEF AddrLen
      <4>4. busy' = (SubSeq(slave.got, AddrLen + 1, Len(slave.got)) # <<>>)
        BY <1>20, <3>2, <4>3 DEF StopDone
      <4> QED
        BY <4>2, <4>4
    <3>3. CASE slave.mode # "write"
      BY <1>20, <3>1, <3>3 DEF StopDone
    <3> QED
      BY <3>2, <3>3
  <2> QED
    BY <2>1, <2>2, <2>3 DEF Stopping
<1>21. CASE UNCHANGED vars
  BY <1>0, <1>21 DEF vars, driverVars, callVars, i2csVars, eepromVars
<1> QED
  BY <1>1, <1>2, <1>3, <1>4, <1>5, <1>6, <1>61, <1>62, <1>7, <1>71, <1>8,
     <1>9, <1>10, <1>11, <1>12, <1>13, <1>14, <1>15, <1>16, <1>17, <1>18,
     <1>19, <1>20, <1>21
  DEF Next, Driver, Hardware

-----------------------------------------------------------------------------
LEMMA InitHolds ==
  Init => ControllerInv /\ PromptInv /\ CauseInv /\ AddressInv
BY DEF Init, ControllerInv, PromptInv, BusReleased, CauseInv, AddressInv,
       Stopping, Reading, Sending

(* Whatever bus errors, refused bytes and cancellations come between: a    *)
(* routine that was not cancelled leaves the bus free, if it reads the     *)
(* last byte before the stop condition is over (i2c.c:42).                 *)
THEOREM BusIsReleased == ASSUME Prompt = TRUE PROVE Spec => []BusReleased
<1> DEFINE IInv == ControllerInv /\ PromptInv
<1>1. IInv /\ [Next]_vars => IInv'
  BY ControllerStep, PromptStep
<1>2. IInv => BusReleased
  BY DEF PromptInv
<1> QED
  BY InitHolds, <1>1, <1>2, PTL DEF Spec

(* For every EEPROM, every length of a call and every number of faults: a  *)
(* call fails only if it was cancelled or a byte was refused.  Two tries   *)
(* and the delay between them are enough for an EEPROM that is storing     *)
(* (i2c.c:48, 87-95).                                                      *)
THEOREM FailureHasCause == Spec => []FailsForCause
<1> DEFINE IInv == ControllerInv /\ CauseInv /\ AddressInv
<1>1. IInv /\ [Next]_vars => IInv'
  BY ControllerStep, CauseStep, AddressStep
<1>2. IInv => FailsForCause
  BY DEF CauseInv, FailsForCause
<1> QED
  BY InitHolds, <1>1, <1>2, PTL DEF Spec

-----------------------------------------------------------------------------
(* What the EEPROM has got of a write. *)

\* Where the bytes of the current i2c_write are not stored yet.
Unstored == Sending \cup {"w_enter", "w_nak", "w_delay", "w_refused"}

(* The call fits the EEPROM, and has returned only when it says so.        *)
CallInv ==
  /\ op \in E!Ops /\ E!Fits(op)
  /\ mem \in Seq(Bytes) /\ Len(mem) \in Sizes
  /\ prom_byte \in 1 .. op.len
  /\ op.kind # "write" => prom_byte = 1
  /\ status \in {"calling", "true", "false"}
  /\ status = "calling" <=> pc # "idle"
  /\ status = "true" => ~stop
  /\ op.kind # "read" => buf = <<>> /\ pc \notin Reading

(* What one i2c_write is to store. *)
Chunk == CASE op.kind = "write" -> <<op.values[prom_byte]>>
           [] op.kind = "page" -> op.values
           [] op.kind = "read" -> <<>>

(* The EEPROM has what the routine has sent, and stores it when all of it  *)
(* is sent; also if the call is cancelled while the stop condition is      *)
(* being generated.                                                        *)
WriteInv ==
  /\ stored \in 0 .. op.len
  /\ stop => xfer = "none"
  /\ stop /\ slave.mode = "write" =>
       /\ pc \in {"w_stop", "idle"}
       /\ slave.got = Buffer /\ stored = prom_byte - 1
  /\ pc = "w_stop" => IF stop THEN slave.mode = "write"
                              ELSE stored = prom_byte - 1 + Len(Chunk)
  /\ pc \in Unstored => stored = prom_byte - 1
  /\ pc \in {"w_acked", "w_byte"} /\ done /\ ~berr /\ ~ack =>
       slave.mode # "write"
  /\ pc \in {"w_addr", "w_acked"} => cur_byte = 0
  /\ pc = "w_acked" /\ done /\ ~berr /\ ack => slave.got = <<>>
  /\ pc \in {"w_data", "w_byte"} => cur_byte \in 0 .. Len(Buffer)
  /\ pc = "w_data" => slave.got = SubSeq(Buffer, 1, cur_byte)
  /\ pc = "w_byte" => cur_byte > 0
  /\ pc = "w_byte" /\ ~done =>
       /\ i2dat = Buffer[cur_byte]
       /\ slave.got = SubSeq(Buffer, 1, cur_byte - 1)
  /\ pc = "w_byte" /\ done /\ ~berr /\ ack =>
       slave.got = SubSeq(Buffer, 1, cur_byte)

(* What i2c_read has got of the bytes behind the address. *)
Got(n) == SubSeq(mem, op.addr + 1, op.addr + n)

ReadInv ==
  /\ pc = "w_stop" /\ ~stop /\ op.kind = "read" => slave.ptr = op.addr + 1
  /\ pc \in {"r_enter", "r_start", "r_addr", "r_acked", "r_first"} =>
       slave.ptr = op.addr + 1 /\ ~lastrd
  /\ pc = "r_acked" /\ done /\ ~berr /\ ack => slave.mode = "read"
  /\ pc = "r_first" => slave.mode = "read"
  /\ pc \in {"r_addr", "r_acked", "r_first"} => cur_byte = 0 /\ buf = <<>>
  /\ pc = "r_byte" => cur_byte \in 0 .. op.len - 1 /\ buf = Got(cur_byte)
  /\ pc = "r_byte" /\ ~done =>
       /\ slave.mode = "read" /\ slave.ptr = op.addr + cur_byte + 1
       /\ lastrd = (op.len = cur_byte + 1)
  /\ pc = "r_byte" /\ done =>
       /\ ~berr /\ i2dat = mem[op.addr + cur_byte + 1]
       /\ cur_byte + 1 < op.len =>
            /\ slave.mode = "read" /\ slave.ptr = op.addr + cur_byte + 2
            /\ ~lastrd
  /\ pc = "r_last" => buf = Got(op.len - 1) /\ i2dat = mem[op.addr + op.len]
  /\ pc = "r_stop" => buf = Got(op.len)

-----------------------------------------------------------------------------
(* What a call is about. *)

LEMMA OpFacts ==
  ASSUME NEW o \in E!Ops
  PROVE  /\ o.len \in Nat \ {0} /\ o.addr \in Nat
         /\ o.kind \in {"write", "page", "read"}
         /\ o.kind # "read" => o.values \in Seq(Bytes) /\ Len(o.values) = o.len
         /\ o.kind = "page" => o.len # 1
<1>1. Lengths \subseteq Nat \ {0}
  BY I2cAssumption
<1>2. E!Addresses \subseteq Nat
  BY I2cAssumption DEF E!Addresses
<1>3. ASSUME o \in E!Reads
      PROVE  o.kind = "read" /\ o.addr \in E!Addresses /\ o.len \in Lengths
  BY <1>3 DEF E!Reads
<1>4. ASSUME NEW n \in Lengths, o \in E!Writes(n)
      PROVE  /\ o.len = n /\ o.addr \in E!Addresses
             /\ o.kind \in {"write", "page"} /\ (o.kind = "page" => n # 1)
             /\ o.values \in Seq(Bytes) /\ Len(o.values) = n
  <2>1. n \in Nat \ {0}
    BY <1>1
  <2>2. /\ o.kind \in (IF n = 1 THEN {"write"} ELSE {"write", "page"})
        /\ o.addr \in E!Addresses
        /\ o.values \in [1 .. n -> Bytes] /\ o.len = n
    BY <1>4 DEF E!Writes
  <2> QED
    BY <2>1, <2>2
<1>5. o \in E!Reads \/ \E n \in Lengths : o \in E!Writes(n)
  BY DEF E!Ops
<1> QED
  BY <1>1, <1>2, <1>3, <1>4, <1>5

(* An address and its digits. *)
LEMMA AddrFacts ==
  ASSUME NEW a \in Nat, NEW n \in Nat, a < n, n <= Base * Base
  PROVE  /\ a \div Base \in Bytes
         /\ a % Base \in Bytes
         /\ (a \div Base) * Base + (a % Base) = a
         /\ n <= Base => a % Base = a
<1> DEFINE q == a \div Base
           r == a % Base
<1>1. Base \in Nat \ {0}
  BY I2cAssumption
<1>2. q \in Nat /\ r \in 0 .. Base - 1
  BY <1>1
<1>3. a % Base = a - Base * (a \div Base)
  BY <1>1
<1>4. a = q * Base + r
  <2> HIDE DEF q, r
  <2>1. r = a - Base * q
    BY <1>3 DEF q, r
  <2> QED
    BY <1>1, <1>2, <2>1
<1>5. q < Base
  <2> HIDE DEF q, r
  <2> SUFFICES ASSUME q >= Base PROVE FALSE
    BY <1>1, <1>2
  <2>1. q * Base >= Base * Base
    BY <1>1, <1>2
  <2> QED
    BY <1>1, <1>2, <1>4, <2>1
<1>6. n <= Base => r = a
  BY <1>1
<1>7. q \in Bytes /\ r \in Bytes
  BY <1>1, <1>2, <1>5 DEF Bytes
<1> QED
  BY <1>4, <1>6, <1>7

(* Appending the next byte of a sequence to those before it. *)
LEMMA AppendNext ==
  ASSUME NEW S, NEW s \in Seq(S), NEW m \in 1 .. Len(s), NEW n \in m .. Len(s)
  PROVE  Append(SubSeq(s, m, n - 1), s[n]) = SubSeq(s, m, n)
<1>1. s[n] \in S /\ Len(s) \in Nat
  BY ElementOfSeq, LenProperties
<1>2. \A i \in m .. n - 1 : s[i] \in S
  BY ElementOfSeq, <1>1
<1>3. SubSeq(s, m, n - 1) \in Seq(S)
  BY <1>1, <1>2, SubSeqProperties
<1> QED
  BY <1>1, <1>3, AppendIsConcat, SubSeqRecursiveSecond

(* An address goes out as AddrLen bytes, and the EEPROM gets it and what   *)
(* follows it back.                                                        *)
LEMMA BytesFacts ==
  ASSUME CallInv, NEW a \in Nat, a < Len(mem), NEW rest \in Seq(Bytes)
  PROVE  /\ AddrBytes(a) \in Seq(Bytes) /\ Len(AddrBytes(a)) = AddrLen
         /\ AddrLen \in Nat \ {0}
         /\ AddrBytes(a) \o rest \in Seq(Bytes)
         /\ Len(AddrBytes(a) \o rest) = AddrLen + Len(rest)
         /\ AddrOf(AddrBytes(a) \o rest) = a
         /\ SubSeq(AddrBytes(a) \o rest, AddrLen + 1, AddrLen + Len(rest))
              = rest
<1> DEFINE q == a \div Base
           r == a % Base
           A == AddrBytes(a)
<1>1. Len(mem) \in Nat /\ Len(mem) <= Base * Base /\ Len(rest) \in Nat
  BY I2cAssumption, LenProperties DEF CallInv
<1>2. /\ q \in Bytes /\ r \in Bytes /\ q * Base + r = a
      /\ Len(mem) <= Base => r = a
  BY <1>1, AddrFacts
<1>3. A = (IF TwoByte THEN <<q, r>> ELSE <<r>>)
  BY DEF AddrBytes
<1> HIDE DEF q, r
<1>4. A \in Seq(Bytes) /\ Len(A) = AddrLen /\ AddrLen \in {1, 2}
  BY <1>2, <1>3 DEF AddrLen
<1> HIDE DEF A
<1>5. /\ A \o rest \in Seq(Bytes)
      /\ Len(A \o rest) = AddrLen + Len(rest)
      /\ \A i \in 1 .. AddrLen : (A \o rest)[i] = A[i]
  <2>1. \A i \in 1 .. AddrLen : i \in 1 .. Len(A) + Len(rest) /\ i <= Len(A)
    BY <1>1, <1>4
  <2> QED
    BY <1>4, <2>1, ConcatProperties
<1>6. AddrOf(A \o rest) = a
  <2>1. CASE TwoByte
    BY <1>2, <1>3, <1>5, <2>1 DEF AddrOf, AddrLen
  <2>2. CASE ~TwoByte
    <3>1. r = a
      BY I2cAssumption, <1>1, <1>2, <2>2 DEF TwoByte
    <3> QED
      BY <1>3, <1>5, <2>2, <3>1 DEF AddrOf, AddrLen
  <2> QED
    BY <2>1, <2>2
<1>7. SubSeq(A \o rest, AddrLen + 1, AddrLen + Len(rest)) = rest
  <2>1. CASE rest = <<>>
    <3>1. Len(rest) = 0
      BY <2>1
    <3>2. AddrLen + Len(rest) < AddrLen + 1 /\ AddrLen + 1 \in Int
          /\ AddrLen + Len(rest) \in Int
      BY <1>4, <3>1
    <3> QED
      BY <2>1, <3>2, SubSeqEmpty, Zenon
  <2>2. CASE rest # <<>>
    <3>1. Len(rest) \in Nat \ {0}
      BY <2>2, EmptySeq
    <3>2. /\ AddrLen + 1 \in Len(A) + 1 .. Len(A) + Len(rest)
          /\ AddrLen + Len(rest) \in Len(A) + 1 .. Len(A) + Len(rest)
          /\ AddrLen + 1 - Len(A) = 1
          /\ AddrLen + Len(rest) - Len(A) = Len(rest)
      BY <1>4, <3>1
    <3>3. SubSeq(A \o rest, AddrLen + 1, AddrLen + Len(rest))
            = SubSeq(rest, 1, Len(rest))
      BY <1>4, <3>2, SubSeqOfConcat2
    <3> QED
      BY <3>3, SubSeqFull
  <2> QED
    BY <2>1, <2>2
<1> QED
  BY <1>4, <1>5, <1>6, <1>7 DEF A

LEMMA ChunkFacts ==
  ASSUME CallInv
  PROVE  /\ Chunk \in Seq(Bytes)
         /\ Len(Chunk) = (CASE op.kind = "write" -> 1
                            [] op.kind = "page" -> op.len
                            [] op.kind = "read" -> 0)
         /\ op.kind # "read" =>
              Chunk = SubSeq(op.values, prom_byte,
                             prom_byte - 1
                               + (IF op.kind = "page" THEN op.len ELSE 1))
<1>1. /\ op.len \in Nat \ {0} /\ op.kind \in {"write", "page", "read"}
      /\ op.kind # "read" =>
           op.values \in Seq(Bytes) /\ Len(op.values) = op.len
      /\ prom_byte \in 1 .. op.len /\ (op.kind # "write" => prom_byte = 1)
  BY OpFacts DEF CallInv
<1>2. CASE op.kind = "write"
  <2>1. op.values[prom_byte] \in Bytes
    BY <1>1, <1>2, ElementOfSeq
  <2>2. Append(SubSeq(op.values, prom_byte, prom_byte - 1),
               op.values[prom_byte]) = SubSeq(op.values, prom_byte, prom_byte)
    BY <1>1, <1>2, AppendNext
  <2>3. SubSeq(op.values, prom_byte, prom_byte - 1) = <<>>
    BY <1>1, SubSeqEmpty
  <2>4. /\ Append(<<>>, op.values[prom_byte]) = <<op.values[prom_byte]>>
        /\ <<op.values[prom_byte]>> \in Seq(Bytes)
        /\ Len(<<op.values[prom_byte]>>) = 1
    BY <2>1
  <2>5. prom_byte - 1 + 1 = prom_byte
    BY <1>1
  <2>6. Chunk = SubSeq(op.values, prom_byte, prom_byte)
    BY <1>2, <2>2, <2>3, <2>4 DEF Chunk
  <2>7. Chunk = <<op.values[prom_byte]>>
    BY <1>2 DEF Chunk
  <2> QED
    BY <1>2, <2>4, <2>5, <2>6, <2>7
<1>3. CASE op.kind = "page"
  <2>1. SubSeq(op.values, 1, op.len) = op.values
    BY <1>1, <1>3, SubSeqFull
  <2>2. prom_byte = 1 /\ prom_byte - 1 + op.len = op.len
    BY <1>1, <1>3
  <2> QED
    BY <1>1, <1>3, <2>1, <2>2 DEF Chunk
<1>4. CASE op.kind = "read"
  BY <1>4 DEF Chunk
<1> QED
  BY <1>1, <1>2, <1>3, <1>4

LEMMA BufferFacts ==
  ASSUME CallInv
  PROVE  /\ Buffer \in Seq(Bytes) /\ AddrLen \in Nat \ {0}
         /\ Len(Buffer) = AddrLen + Len(Chunk)
         /\ AddrOf(Buffer) = op.addr + prom_byte - 1
         /\ SubSeq(Buffer, AddrLen + 1, Len(Buffer)) = Chunk
<1> DEFINE a == op.addr + prom_byte - 1
<1>1. /\ op.len \in Nat \ {0} /\ op.addr \in Nat
      /\ op.kind \in {"write", "page", "read"}
      /\ prom_byte \in 1 .. op.len /\ (op.kind # "write" => prom_byte = 1)
      /\ op.addr + op.len <= Len(mem) /\ Len(mem) \in Nat
  BY OpFacts, LenProperties DEF CallInv, E!Fits
<1>2. a \in Nat /\ a < Len(mem) /\ (op.kind # "write" => a = op.addr)
  BY <1>1
<1> HIDE DEF a
<1>3. Chunk \in Seq(Bytes)
  BY ChunkFacts
<1>4. /\ AddrBytes(a) \in Seq(Bytes) /\ Len(AddrBytes(a)) = AddrLen
      /\ AddrLen \in Nat \ {0}
      /\ AddrBytes(a) \o Chunk \in Seq(Bytes)
      /\ Len(AddrBytes(a) \o Chunk) = AddrLen + Len(Chunk)
      /\ AddrOf(AddrBytes(a) \o Chunk) = a
      /\ SubSeq(AddrBytes(a) \o Chunk, AddrLen + 1, AddrLen + Len(Chunk))
           = Chunk
  BY <1>2, <1>3, BytesFacts
<1>5. Buffer = AddrBytes(a) \o Chunk
  <2>1. CASE op.kind = "write"
    <3>1. op.values[prom_byte] \in Bytes
      BY <1>3, <2>1, ElementOfSeq, OpFacts DEF CallInv
    <3> QED
      BY <1>4, <2>1, <3>1, AppendIsConcat DEF Buffer, Chunk, a
  <2>2. CASE op.kind = "page"
    BY <1>2, <2>2 DEF Buffer, Chunk
  <2>3. CASE op.kind = "read"
    BY <1>2, <1>4, <2>3, ConcatEmptySeq DEF Buffer, Chunk
  <2> QED
    BY <1>1, <2>1, <2>2, <2>3
<1> QED
  BY <1>4, <1>5 DEF a

(* The EEPROM after it stored something. *)
LEMMA StoredFacts ==
  ASSUME NEW m \in Seq(Bytes), NEW from \in Nat, NEW values \in Seq(Bytes)
  PROVE  /\ E!Stored(m, from, values) \in Seq(Bytes)
         /\ Len(E!Stored(m, from, values)) = Len(m)
         /\ values = <<>> => E!Stored(m, from, values) = m
<1> DEFINE s == E!Stored(m, from, values)
<1>1. Len(m) \in Nat /\ Len(values) \in Nat /\ m \in [1 .. Len(m) -> Bytes]
  BY LenProperties
<1>2. s \in [1 .. Len(m) -> Bytes]
  <2>1. \A i \in 1 .. Len(m) : i \in from + 1 .. from + Len(values) =>
          values[i - from] \in Bytes
    <3> TAKE i \in 1 .. Len(m)
    <3> HAVE i \in from + 1 .. from + Len(values)
    <3>1. i - from \in 1 .. Len(values)
      BY <1>1
    <3> QED
      BY <3>1, ElementOfSeq
  <2> QED
    BY <1>1, <2>1 DEF E!Stored
<1>3. s \in Seq(Bytes) /\ Len(s) = Len(m)
  <2> HIDE DEF s
  <2> QED
    BY <1>1, <1>2
<1>4. ASSUME values = <<>> PROVE s = m
  <2>1. from + Len(values) < from + 1
    BY <1>4
  <2>2. \A i \in 1 .. Len(m) : s[i] = m[i]
    BY <1>1, <2>1 DEF E!Stored
  <2> HIDE DEF s
  <2> QED
    BY <1>1, <1>2, <2>2
<1> QED
  BY <1>3, <1>4

(* They depend on the call and on the kind of EEPROM. *)
LEMMA SameCall ==
  ASSUME op' = op, prom_byte' = prom_byte, Len(mem') = Len(mem)
  PROVE  /\ Buffer' = Buffer /\ Chunk' = Chunk
         /\ AddrLen' = AddrLen /\ TwoByte' = TwoByte
BY DEF Buffer, Chunk, AddrLen, AddrBytes, TwoByte

-----------------------------------------------------------------------------
(* The stop condition after an i2c_write. *)

LEMMA StopFacts ==
  ASSUME ControllerInv, CallInv, WriteInv, StopDone
  PROVE  /\ mem' \in Seq(Bytes) /\ Len(mem') = Len(mem)
         /\ UNCHANGED <<op, prom_byte>>
         /\ IF slave.mode = "write"
            THEN /\ mem' = E!Stored(mem, op.addr + stored, Chunk)
                 /\ stored' = stored + Len(Chunk) /\ stored = prom_byte - 1
                 /\ op.kind = "read" => slave'.ptr = op.addr + 1
                 /\ slave'.ptr \in 1 .. Len(mem)
            ELSE UNCHANGED <<mem, stored>> /\ slave'.ptr = slave.ptr
<1>1. /\ op.addr \in Nat /\ prom_byte \in Nat \ {0} /\ op.len \in Nat \ {0}
      /\ op.kind # "write" => prom_byte = 1
      /\ op.addr + op.len <= Len(mem) /\ Len(mem) \in Nat
  BY OpFacts, LenProperties DEF CallInv, E!Fits
<1>2. UNCHANGED <<op, prom_byte>> /\ stop
  BY DEF StopDone, driverVars, callVars
<1>3. CASE slave.mode = "write"
  <2>1. slave.got = Buffer /\ stored = prom_byte - 1
    BY <1>2, <1>3 DEF WriteInv
  <2>0. Chunk \in Seq(Bytes) /\ Len(Chunk) \in Nat
    BY ChunkFacts, LenProperties
  <2>2. /\ Len(Buffer) >= AddrLen
        /\ AddrOf(Buffer) = op.addr + stored
        /\ SubSeq(Buffer, AddrLen + 1, Len(Buffer)) = Chunk
    BY <1>1, <2>0, <2>1, BufferFacts
  <2>3. /\ mem' = E!Stored(mem, op.addr + stored, Chunk)
        /\ stored' = stored + Len(Chunk)
        /\ slave' = [Deselected EXCEPT !.ptr =
                       ((op.addr + stored + Len(Chunk)) % Len(mem)) + 1]
    BY <1>3, <2>1, <2>2 DEF StopDone
  <2>4. mem' \in Seq(Bytes) /\ Len(mem') = Len(mem)
    <3>1. op.addr + stored \in Nat
      BY <1>1, <2>1
    <3>2. mem \in Seq(Bytes)
      BY DEF CallInv
    <3> QED
      BY <2>0, <2>3, <3>1, <3>2, StoredFacts
  <2>5. op.kind = "read" => slave'.ptr = op.addr + 1
    <3>1. SUFFICES ASSUME op.kind = "read" PROVE slave'.ptr = op.addr + 1
      OBVIOUS
    <3>2. Len(Chunk) = 0 /\ stored = 0
      BY <1>1, <2>1, <3>1, ChunkFacts
    <3>3. slave'.ptr = (op.addr % Len(mem)) + 1
      BY <1>1, <2>3, <3>2 DEF Deselected
    <3>4. op.addr < Len(mem)
      BY <1>1
    <3>5. op.addr % Len(mem) = op.addr
      BY <1>1, <3>4
    <3> QED
      BY <3>3, <3>5
  <2>6. slave'.ptr \in 1 .. Len(mem)
    <3> DEFINE next == op.addr + stored + Len(Chunk)
    <3>1. next \in Nat /\ Len(mem) \in Nat \ {0}
      BY <1>1, <2>0, <2>1
    <3>2. slave'.ptr = (next % Len(mem)) + 1
      BY <2>3 DEF Deselected
    <3> HIDE DEF next
    <3>3. next % Len(mem) \in 0 .. Len(mem) - 1
      BY <3>1
    <3> QED
      BY <3>1, <3>2, <3>3
  <2> QED
    BY <1>2, <1>3, <2>1, <2>3, <2>4, <2>5, <2>6
<1>4. CASE slave.mode # "write"
  BY <1>2, <1>4 DEF StopDone, Deselected, CallInv
<1> QED
  BY <1>3, <1>4

LEMMA CallStep ==
  ASSUME ControllerInv, CallInv, WriteInv, [Next]_vars
  PROVE  CallInv'
<1> USE DEF CallInv, E!Fits, Reading
<1>1. ASSUME NEW o \in E!Ops, Call(o) PROVE CallInv'
  BY <1>1, OpFacts DEF Call, i2csVars
<1>2. CASE Cancelled
  BY <1>2 DEF Cancelled, Result, Step, CancelPoints, OnlyDriver, i2csVars,
              eepromVars
<1>3. CASE WEnter \/ REnter
  BY <1>3 DEF WEnter, REnter, Enter, Step, i2csVars, eepromVars
<1>4. CASE WStart \/ RStart
  BY <1>4 DEF WStart, RStart, Step, SetStart, eepromVars
<1>5. CASE WAddr \/ RAddr
  BY <1>5 DEF WAddr, RAddr, Step, Shift, OnlyBus, eepromVars
<1>6. CASE WAcked \/ WByte \/ RAcked
  BY <1>6 DEF WAcked, WByte, RAcked, AfterByte, Step, SetStop, OnlyBus,
              i2csVars, eepromVars
<1>7. CASE WNak \/ WRefused \/ RRefused \/ RStop
  BY <1>7 DEF WNak, WRefused, RRefused, RStop, Result, Step,
              OnlyDriver, i2csVars, eepromVars
<1>71. CASE WStop
  <2>1. op.len \in Nat
    BY OpFacts
  <2> QED
    BY <1>71, <2>1 DEF WStop, Result, Step, OnlyDriver, i2csVars, eepromVars
<1>8. CASE WDelay
  BY <1>8 DEF WDelay, Step, i2csVars
<1>9. CASE WData
  BY <1>9 DEF WData, Step, Shift, SetStop, OnlyBus, eepromVars
<1>10. CASE RFirst
  BY <1>10 DEF RFirst, Step, ReadI2dat, OnlyBus, eepromVars
<1>11. CASE RByte \/ RLast
  <2>1. /\ pc \in {"r_byte", "r_last"} /\ pc' # "idle"
        /\ UNCHANGED <<op, status, prom_byte, mem>>
    BY <1>11 DEF RByte, RLast, Step, eepromVars
  <2>2. op.kind = "read"
    BY <2>1 DEF CallInv
  <2> QED
    BY <2>1, <2>2
<1>13. CASE Select \/ Send \/ Receive \/ RefuseByte \/ BusError
  BY <1>13 DEF Select, Send, Receive, RefuseByte, BusError, Bus, driverVars,
               callVars
<1>14. CASE BusRecovers \/ CycleEnds \/ Cancel
  BY <1>14 DEF BusRecovers, CycleEnds, Cancel, driverVars, callVars, i2csVars,
               eepromVars
<1>15. CASE StopDone
  BY <1>15, StopFacts DEF StopDone, driverVars, callVars
<1>16. CASE UNCHANGED vars
  BY <1>16 DEF vars, driverVars, callVars, i2csVars, eepromVars
<1> QED
  BY <1>1, <1>2, <1>3, <1>4, <1>5, <1>6, <1>7, <1>71, <1>8, <1>9, <1>10,
     <1>11, <1>13, <1>14, <1>15, <1>16
  DEF Next, Driver, Hardware

LEMMA WriteStep ==
  ASSUME ControllerInv, CauseInv, AddressInv, CallInv, WriteInv, [Next]_vars
  PROVE  WriteInv'
<1> USE DEF ControllerInv, Released, WriteInv, Unstored, Sending, Stopping
<1>0. /\ op.len \in Nat \ {0} /\ op.kind \in {"write", "page", "read"}
      /\ prom_byte \in 1 .. op.len
      /\ Buffer \in Seq(Bytes) /\ Len(Buffer) \in Nat
  BY OpFacts, BufferFacts, LenProperties DEF CallInv
<1>00. UNCHANGED <<op, prom_byte, mem>> => UNCHANGED <<Buffer, Chunk>>
  BY SameCall
<1>1. ASSUME NEW o \in E!Ops, Call(o) PROVE WriteInv'
  BY <1>1, OpFacts DEF Call, i2csVars
<1>2. CASE Cancelled
  BY <1>00, <1>2 DEF Cancelled, Result, Step, CancelPoints, OnlyDriver,
                     i2csVars, eepromVars
<1>3. CASE WEnter \/ REnter
  BY <1>00, <1>3 DEF WEnter, REnter, Enter, Step, i2csVars, eepromVars
<1>4. CASE WStart \/ RStart
  BY <1>00, <1>4 DEF WStart, RStart, Step, SetStart, eepromVars
<1>5. CASE WAddr \/ RAddr
  BY <1>00, <1>5 DEF WAddr, RAddr, Step, Shift, OnlyBus, eepromVars
<1>6. CASE WAcked
  <2>1. /\ pc = "w_acked" /\ done /\ cur_byte' = cur_byte
        /\ UNCHANGED <<op, prom_byte, mem, slave, stored, xfer, done, berr,
                       ack>>
        /\ \/ pc' = "w_start" /\ UNCHANGED stop
           \/ pc' = "w_data" /\ ~berr /\ ack /\ UNCHANGED stop
           \/ pc' = "w_nak" /\ ~berr /\ ~ack
    BY <1>6 DEF WAcked, AfterByte, Step, SetStop, OnlyBus, i2csVars, eepromVars
  <2>2. SubSeq(Buffer, 1, 0) = <<>> /\ cur_byte = 0
    BY <2>1, SubSeqEmpty
  <2>3. pc' = "w_data" => slave'.got = SubSeq(Buffer', 1, cur_byte')
    BY <1>00, <2>1, <2>2
  <2> QED
    BY <1>0, <1>00, <2>1, <2>2, <2>3
<1>61. CASE WByte
  <2>1. /\ pc = "w_byte" /\ done /\ cur_byte' = cur_byte
        /\ UNCHANGED <<op, prom_byte, mem, slave, stored, xfer, done, berr,
                       ack>>
        /\ \/ pc' = "w_start" /\ UNCHANGED stop
           \/ pc' = "w_data" /\ ~berr /\ ack /\ UNCHANGED stop
           \/ pc' = "w_refused" /\ ~berr /\ ~ack
    BY <1>61 DEF WByte, AfterByte, Step, SetStop, OnlyBus, i2csVars, eepromVars
  <2> QED
    BY <1>0, <1>00, <2>1
<1>62. CASE RAcked
  <2>1. /\ pc = "r_acked" /\ done
        /\ UNCHANGED <<op, prom_byte, mem, slave, stored, xfer>>
        /\ \/ pc' \in {"r_start", "r_first"} /\ UNCHANGED stop
           \/ pc' = "r_refused"
    BY <1>62
    DEF RAcked, AfterByte, Step, SetStop, OnlyBus, i2csVars, eepromVars
  <2>2. slave.mode # "write"
    BY <2>1 DEF AddressInv, Reading
  <2> QED
    BY <1>0, <1>00, <2>1, <2>2
<1>7. CASE WNak \/ WRefused \/ RRefused \/ RStop
  BY <1>00, <1>7 DEF WNak, WRefused, RRefused, RStop, Result, Step,
              OnlyDriver, i2csVars, eepromVars
<1>71. CASE WStop
  <2>1. /\ pc = "w_stop" /\ ~stop
        /\ UNCHANGED <<op, mem, slave, stored, xfer, stop>>
        /\ \/ pc' = "w_enter" /\ prom_byte' = prom_byte + 1
              /\ op.kind = "write"
           \/ pc' \in {"r_enter", "idle"} /\ UNCHANGED prom_byte
    BY <1>71 DEF WStop, Result, Step, OnlyDriver, i2csVars, eepromVars
  <2>2. op.kind = "write" => stored = prom_byte
    BY <1>0, <2>1, ChunkFacts
  <2> QED
    BY <1>0, <2>1, <2>2
<1>8. CASE WDelay
  BY <1>00, <1>8 DEF WDelay, Step, i2csVars
<1>9. CASE WData
  <2>1. /\ pc = "w_data" /\ xfer = "none" /\ ~stop
        /\ UNCHANGED <<op, prom_byte, mem, slave, stored, ack, berr>>
        /\ slave.mode = "write" /\ slave.got = SubSeq(Buffer, 1, cur_byte)
        /\ cur_byte \in 0 .. Len(Buffer)
    BY <1>9 DEF WData, Step, Shift, SetStop, OnlyBus, eepromVars, CauseInv
  <2>2. CASE /\ cur_byte < Len(Buffer) /\ pc' = "w_byte"
             /\ Shift("send", Buffer[cur_byte + 1])
             /\ cur_byte' = cur_byte + 1
    <3>1. cur_byte' - 1 = cur_byte /\ cur_byte' > 0
          /\ cur_byte' \in 0 .. Len(Buffer)
      BY <1>0, <2>1, <2>2
    <3> QED
      BY <1>0, <1>00, <2>1, <2>2, <3>1 DEF Shift
  <2>3. CASE /\ cur_byte = Len(Buffer) /\ pc' = "w_stop" /\ SetStop
    <3>1. slave.got = Buffer
      BY <1>0, <2>1, <2>3, SubSeqFull
    <3> QED
      BY <1>0, <1>00, <2>1, <2>3, <3>1 DEF SetStop
  <2> QED
    BY <1>9, <2>2, <2>3 DEF WData, Step
<1>10. CASE RFirst
  BY <1>00, <1>10 DEF RFirst, Step, ReadI2dat, OnlyBus, eepromVars
<1>11. CASE RByte
  <2>1. /\ pc = "r_byte" /\ done
        /\ UNCHANGED <<op, prom_byte, mem, slave, stored>>
        /\ \/ pc' \in {"r_start", "r_byte"} /\ UNCHANGED stop
           \/ pc' = "r_last" /\ UNCHANGED xfer
    BY <1>11 DEF RByte, Step, ReadI2dat, SetStop, i2csVars, eepromVars
  <2>2. slave.mode # "write"
    BY <2>1 DEF AddressInv, Reading
  <2> QED
    BY <1>0, <1>00, <2>1, <2>2
<1>12. CASE RLast
  <2>1. /\ pc = "r_last" /\ pc' = "r_stop" /\ (stop => xfer' = "none")
        /\ UNCHANGED <<op, prom_byte, mem, slave, stored, stop>>
    BY <1>12 DEF RLast, Step, ReadI2dat, eepromVars
  <2> QED
    BY <1>0, <1>00, <2>1
<1>13. CASE Select
  <2>1. /\ UNCHANGED <<pc, op, prom_byte, cur_byte, stop, mem, stored>>
        /\ xfer \in {"select_w", "select_r"} /\ xfer' = "none"
        /\ done' = TRUE /\ ack' = ~busy
        /\ slave'.got = <<>> /\ (busy => slave'.mode = "none")
    BY <1>13 DEF Select, Bus, Deselected, driverVars, callVars
  <2>2. pc \notin {"w_byte", "w_data", "w_stop"}
    BY <2>1
  <2> QED
    BY <1>0, <1>00, <2>1, <2>2
<1>14. CASE Send
  <2>1. /\ UNCHANGED <<pc, op, prom_byte, cur_byte, stop, mem, stored>>
        /\ xfer = "send" /\ xfer' = "none" /\ ~done
        /\ done' = TRUE /\ ack' = (slave.mode = "write")
        /\ slave' = IF slave.mode = "write"
                    THEN [slave EXCEPT !.got = Append(@, i2dat)] ELSE slave
    BY <1>14 DEF Send, Bus, driverVars, callVars
  <2>2. pc \in {"idle", "w_byte"} /\ ~stop
    BY <2>1
  <2>3. pc = "w_byte" /\ slave.mode = "write" =>
          slave'.got = SubSeq(Buffer, 1, cur_byte)
    <3>1. SUFFICES ASSUME pc = "w_byte", slave.mode = "write"
                   PROVE  slave'.got = SubSeq(Buffer, 1, cur_byte)
      OBVIOUS
    <3>2. slave'.got
            = Append(SubSeq(Buffer, 1, cur_byte - 1), Buffer[cur_byte])
      BY <2>1, <3>1
    <3>3. 1 \in 1 .. Len(Buffer) /\ cur_byte \in 1 .. Len(Buffer)
      BY <1>0, <3>1
    <3> QED
      BY <1>0, <3>2, <3>3, AppendNext
  <2>4. slave'.mode = slave.mode
    BY <2>1
  <2> QED
    BY <1>0, <1>00, <2>1, <2>2, <2>3, <2>4
<1>15. CASE Receive
  <2>1. /\ UNCHANGED <<pc, op, prom_byte, cur_byte, stop, mem, stored>>
        /\ xfer = "receive" /\ xfer' = "none" /\ ~done
    BY <1>15 DEF Receive, Bus, driverVars, callVars
  <2>2. pc \in {"idle", "r_byte", "r_stop"} /\ ~stop
    BY <2>1
  <2> QED
    BY <1>0, <1>00, <2>1, <2>2
<1>16. CASE RefuseByte \/ BusError
  <2>1. /\ UNCHANGED <<pc, op, prom_byte, cur_byte, stop, mem, stored>>
        /\ xfer # "none" /\ xfer' = "none" /\ done' = TRUE
    BY <1>16 DEF RefuseByte, BusError, Bus, driverVars, callVars
  <2>2. berr' \/ (~ack' /\ xfer \in {"send", "select_r"})
    BY <1>16 DEF RefuseByte, BusError
  <2>3. slave'.mode = "none"
    BY <1>16 DEF RefuseByte, BusError, Deselected
  <2>4. /\ pc \in {"idle", "w_acked", "w_byte", "r_acked", "r_byte", "r_stop"}
        /\ ~stop
    BY <2>1
  <2> QED
    BY <1>0, <1>00, <2>1, <2>2, <2>3, <2>4
<1>17. CASE BusRecovers
  BY <1>00, <1>17 DEF BusRecovers, driverVars, callVars, eepromVars
<1>18. CASE CycleEnds
  BY <1>00, <1>18 DEF CycleEnds, driverVars, callVars, i2csVars
<1>19. CASE Cancel
  BY <1>00, <1>19 DEF Cancel, driverVars, callVars, i2csVars, eepromVars
<1>20. CASE StopDone
  <2>1. /\ UNCHANGED <<pc, op, prom_byte, cur_byte, xfer>> /\ ~stop' /\ stop
        /\ pc \in Stopping \cup {"idle", "r_last"}
    BY <1>20 DEF StopDone, driverVars, callVars
  <2>2. UNCHANGED <<Buffer, Chunk>>
    BY <1>20, StopFacts, SameCall
  <2>3. /\ Len(Chunk) \in Nat /\ prom_byte - 1 + Len(Chunk) <= op.len
    BY <1>0, ChunkFacts DEF CallInv
  <2>4. IF slave.mode = "write"
        THEN stored' = stored + Len(Chunk) /\ stored = prom_byte - 1
             /\ pc \in {"w_stop", "idle"}
        ELSE UNCHANGED stored /\ pc # "w_stop"
    BY <1>20, <2>1, StopFacts
  <2> QED
    BY <1>0, <2>1, <2>2, <2>3, <2>4
<1>21. CASE UNCHANGED vars
  BY <1>00, <1>21 DEF vars, driverVars, callVars, i2csVars, eepromVars
<1> QED
  BY <1>1, <1>2, <1>3, <1>4, <1>5, <1>6, <1>61, <1>62, <1>7, <1>71, <1>8,
     <1>9, <1>10, <1>11, <1>12, <1>13, <1>14, <1>15, <1>16, <1>17, <1>18,
     <1>19, <1>20, <1>21
  DEF Next, Driver, Hardware

-----------------------------------------------------------------------------
(* The bytes that are read, one by one. *)

LEMMA GotFacts ==
  ASSUME CallInv
  PROVE  /\ Got(0) = <<>>
         /\ \A n \in 0 .. op.len - 1 :
              /\ op.addr + n + 1 \in 1 .. Len(mem)
              /\ Append(Got(n), mem[op.addr + n + 1]) = Got(n + 1)
<1>1. /\ op.addr \in Nat /\ op.len \in Nat \ {0}
      /\ op.addr + op.len <= Len(mem) /\ mem \in Seq(Bytes)
      /\ Len(mem) \in Nat
  BY OpFacts, LenProperties DEF CallInv, E!Fits
<1>2. Got(0) = <<>>
  <2>1. /\ op.addr + 1 \in Int /\ op.addr + 0 \in Int
        /\ op.addr + 0 < op.addr + 1
    BY <1>1
  <2> QED
    BY <2>1, SubSeqEmpty DEF Got
<1>3. ASSUME NEW n \in 0 .. op.len - 1
      PROVE  /\ op.addr + n + 1 \in 1 .. Len(mem)
             /\ Append(Got(n), mem[op.addr + n + 1]) = Got(n + 1)
  <2> DEFINE first == op.addr + 1
             last == op.addr + n + 1
  <2>1. /\ first \in 1 .. Len(mem) /\ last \in first .. Len(mem)
        /\ last - 1 = op.addr + n /\ op.addr + (n + 1) = last
    BY <1>1
  <2> HIDE DEF last, first
  <2>2. Append(SubSeq(mem, first, last - 1), mem[last])
          = SubSeq(mem, first, last)
    BY <1>1, <2>1, AppendNext
  <2>3. last \in 1 .. Len(mem)
    BY <1>1, <2>1
  <2> QED
    BY <2>1, <2>2, <2>3 DEF first, last, Got
<1> QED
  BY <1>2, <1>3

LEMMA ReadStep ==
  ASSUME ReadErrors = FALSE, ControllerInv, CauseInv, AddressInv, CallInv,
         WriteInv, ReadInv, [Next]_vars
  PROVE  ReadInv'
<1> USE DEF ControllerInv, Released, ReadInv, Stopping
<1>0. /\ op.len \in Nat \ {0} /\ op.kind \in {"write", "page", "read"}
      /\ op.addr \in Nat /\ Len(mem) \in Nat
      /\ op.addr + op.len <= Len(mem)
  BY OpFacts, LenProperties DEF CallInv, E!Fits
<1>00. UNCHANGED <<op, mem>> => \A n \in Nat : Got(n)' = Got(n)
  BY DEF Got
<1>000. UNCHANGED <<op, mem, cur_byte>> =>
          /\ pc = "r_byte" => Got(cur_byte)' = Got(cur_byte)
          /\ Got(op.len - 1)' = Got(op.len - 1)
          /\ Got(op.len)' = Got(op.len)
  BY DEF Got
<1>1. ASSUME NEW o \in E!Ops, Call(o) PROVE ReadInv'
  BY <1>1 DEF Call
<1>2. CASE Cancelled
  BY <1>2 DEF Cancelled, Result, Step, OnlyDriver
<1>3. CASE WEnter \/ REnter
  BY <1>3 DEF WEnter, REnter, Enter, Step, i2csVars, eepromVars
<1>4. CASE WStart \/ RStart
  BY <1>4 DEF WStart, RStart, Step, SetStart, eepromVars
<1>5. CASE WAddr \/ RAddr
  BY <1>5 DEF WAddr, RAddr, Step, Shift, OnlyBus, eepromVars
<1>6. CASE WAcked \/ WByte
  BY <1>6 DEF WAcked, WByte, AfterByte, Step
<1>62. CASE RAcked
  <2>1. /\ pc = "r_acked" /\ done
        /\ \/ pc' = "r_start" \/ pc' = "r_refused"
           \/ pc' = "r_first" /\ ~berr /\ ack
        /\ UNCHANGED <<op, mem, slave, cur_byte, buf, lastrd>>
    BY <1>62 DEF RAcked, AfterByte, Step, SetStop, OnlyBus, i2csVars,
                 eepromVars
  <2> QED
    BY <2>1
<1>7. CASE WNak \/ WRefused \/ RRefused \/ RStop
  BY <1>7 DEF WNak, WRefused, RRefused, RStop, Result, Step
<1>71. CASE WStop
  BY <1>71 DEF WStop, Result, Step, OnlyDriver, i2csVars, eepromVars
<1>8. CASE WDelay
  BY <1>8 DEF WDelay, Step
<1>9. CASE WData
  BY <1>9 DEF WData, Step, SetStop
<1>10. CASE RFirst
  <2>1. /\ pc = "r_first" /\ pc' = "r_byte" /\ done' = FALSE
        /\ UNCHANGED <<op, mem, slave, cur_byte, buf>>
        /\ lastrd' = (op.len = 1)
    BY <1>10 DEF RFirst, Step, ReadI2dat, OnlyBus, eepromVars
  <2>2. cur_byte = 0 /\ buf = <<>> /\ Got(0)' = <<>>
    BY <1>00, <2>1, GotFacts
  <2> QED
    BY <1>0, <2>1, <2>2
<1>11. CASE RByte
  <2>1. /\ pc = "r_byte" /\ done /\ ~berr
        /\ UNCHANGED <<op, mem, slave>>
        /\ \/ /\ op.len > cur_byte + 1 /\ pc' = "r_byte" /\ done' = FALSE
              /\ buf' = Append(buf, i2dat) /\ cur_byte' = cur_byte + 1
              /\ lastrd' = (lastrd \/ op.len = cur_byte + 2)
           \/ /\ op.len <= cur_byte + 1 /\ pc' = "r_last"
              /\ UNCHANGED <<buf, cur_byte, i2dat>>
    BY <1>11 DEF RByte, Step, ReadI2dat, SetStop, i2csVars, eepromVars
  <2>2. /\ cur_byte \in 0 .. op.len - 1 /\ buf = Got(cur_byte)
        /\ i2dat = mem[op.addr + cur_byte + 1]
        /\ cur_byte + 1 < op.len =>
             /\ slave.mode = "read" /\ slave.ptr = op.addr + cur_byte + 2
             /\ ~lastrd
    BY <1>0, <2>1
  <2>3. CASE op.len > cur_byte + 1
    <3>1. /\ pc' = "r_byte" /\ done' = FALSE
          /\ buf' = Append(buf, i2dat) /\ cur_byte' = cur_byte + 1
          /\ lastrd' = (op.len = cur_byte + 2)
      BY <1>0, <2>1, <2>2, <2>3
    <3>2. Append(Got(cur_byte), mem[op.addr + cur_byte + 1])
            = Got(cur_byte + 1)
      BY <2>2, GotFacts
    <3>3. Got(cur_byte)' = Got(cur_byte + 1)
      BY <2>1, <3>1 DEF Got
    <3>4. buf' = Got(cur_byte)'
      BY <2>2, <3>1, <3>2, <3>3
    <3>5. cur_byte' \in 0 .. op.len - 1 /\ op.addr + cur_byte + 2
            = op.addr + cur_byte' + 1 /\ cur_byte' + 1 = cur_byte + 2
      BY <1>0, <2>2, <2>3, <3>1
    <3> QED
      BY <2>1, <2>2, <2>3, <3>1, <3>4, <3>5
  <2>4. CASE op.len <= cur_byte + 1
    <3>1. /\ pc' = "r_last" /\ buf' = buf /\ i2dat' = i2dat
          /\ cur_byte = op.len - 1 /\ op.addr + cur_byte + 1 = op.addr + op.len
      BY <1>0, <2>1, <2>2, <2>4
    <3>2. Got(op.len - 1)' = Got(cur_byte)
      BY <2>1, <3>1 DEF Got
    <3> QED
      BY <2>1, <2>2, <3>1, <3>2
  <2> QED
    BY <1>0, <2>2, <2>3, <2>4
<1>12. CASE RLast
  <2>1. /\ pc = "r_last" /\ pc' = "r_stop" /\ UNCHANGED <<op, mem>>
        /\ buf' = Append(buf, i2dat)
    BY <1>12 DEF RLast, Step, eepromVars
  <2>2. /\ op.len - 1 \in 0 .. op.len - 1
        /\ op.addr + (op.len - 1) + 1 = op.addr + op.len
        /\ op.len - 1 + 1 = op.len
    BY <1>0
  <2>3. buf' = Got(op.len)
    BY <2>1, <2>2, GotFacts
  <2>4. Got(op.len)' = Got(op.len)
    BY <2>1 DEF Got
  <2> QED
    BY <2>1, <2>3, <2>4
<1>13. CASE Select
  <2>1. /\ UNCHANGED <<pc, op, mem, cur_byte, buf, stop, lastrd>>
        /\ xfer \in {"select_w", "select_r"} /\ ack' = ~busy
        /\ slave'.ptr = slave.ptr
        /\ ~busy /\ xfer = "select_r" => slave'.mode = "read"
    BY <1>13 DEF Select, Bus, Deselected, driverVars, callVars
  <2>2. pc \notin {"r_byte", "r_first", "r_last"}
        /\ (pc = "r_acked" => xfer = "select_r") /\ (pc = "w_stop" => stop)
    BY <2>1 DEF WriteInv
  <2>3. Got(op.len)' = Got(op.len)
    BY <2>1 DEF Got
  <2> QED
    BY <2>1, <2>2, <2>3
<1>14. CASE Send
  <2>1. /\ UNCHANGED <<pc, op, mem, cur_byte, buf, stop, lastrd>>
        /\ xfer = "send" /\ ~done
        /\ slave'.ptr = slave.ptr
    BY <1>14 DEF Send, Bus, driverVars, callVars
  <2>2. pc \in {"idle", "w_byte"}
    BY <2>1
  <2> QED
    BY <2>1, <2>2
<1>15. CASE Receive
  <2>1. /\ UNCHANGED <<pc, op, mem, cur_byte, buf, stop, lastrd>>
        /\ xfer = "receive" /\ ~done /\ done' /\ ~berr'
        /\ slave.mode = "read" =>
             i2dat' = mem[slave.ptr] /\ slave'.ptr = NextPtr
        /\ ~lastrd => slave'.mode = slave.mode
    BY <1>15 DEF Receive, Bus, driverVars, callVars
  <2>2. pc \in {"idle", "r_byte", "r_stop"}
    BY <2>1
  <2>22. CASE pc = "r_stop"
    BY <2>1, <2>22 DEF Got
  <2>3. CASE pc = "r_byte"
    <3>1. cur_byte \in 0 .. op.len - 1 /\ slave.ptr = op.addr + cur_byte + 1
          /\ slave.mode = "read"
      BY <2>1, <2>3
    <3>2. ASSUME cur_byte + 1 < op.len
          PROVE  slave'.ptr = op.addr + cur_byte + 2
      <4>1. slave.ptr \in Nat /\ slave.ptr < Len(mem)
        BY <1>0, <3>1, <3>2
      <4>2. slave.ptr % Len(mem) = slave.ptr
        BY <1>0, <4>1
      <4> QED
        BY <1>0, <2>1, <3>1, <4>2 DEF NextPtr
    <3>3. Got(cur_byte)' = Got(cur_byte) /\ buf = Got(cur_byte)
      BY <2>1, <2>3 DEF Got
    <3>4. i2dat' = mem'[op'.addr + cur_byte' + 1]
      BY <1>0, <2>1, <2>3, <3>1
    <3>5. lastrd = (op.len = cur_byte + 1)
      BY <2>1, <2>3
    <3>6. cur_byte + 1 < op.len => op.len # cur_byte + 1
      BY <1>0, <3>1
    <3>7. cur_byte + 1 < op.len => ~lastrd
      BY <3>5, <3>6, Zenon
    <3>8. cur_byte' + 1 < op'.len => slave'.mode = "read" /\ ~lastrd'
      BY <2>1, <2>3, <3>1, <3>7
    <3> QED
      BY <2>1, <2>3, <3>1, <3>2, <3>3, <3>4, <3>8
  <2> QED
    BY <2>1, <2>2, <2>22, <2>3
<1>16. CASE RefuseByte \/ BusError
  <2>1. /\ UNCHANGED <<pc, op, mem, cur_byte, buf, stop, lastrd>>
        /\ xfer # "none" /\ xfer # "receive"
    BY <1>16 DEF RefuseByte, BusError, Bus, driverVars, callVars
  <2>2. berr' \/ ~ack'
    BY <1>16 DEF RefuseByte, BusError
  <2>3. slave'.ptr = slave.ptr
    BY <1>16, <2>1 DEF RefuseByte, BusError, Deselected
  <2>4. pc \in {"idle", "w_acked", "w_byte", "r_acked"}
    BY <2>1
  <2> QED
    BY <1>0, <2>1, <2>2, <2>3, <2>4
<1>17. CASE BusRecovers
  BY <1>000, <1>17 DEF BusRecovers, driverVars, callVars, eepromVars
<1>18. CASE CycleEnds
  BY <1>000, <1>18 DEF CycleEnds, driverVars, callVars, i2csVars
<1>19. CASE Cancel
  BY <1>000, <1>19 DEF Cancel, driverVars, callVars, i2csVars, eepromVars
<1>20. CASE StopDone
  <2>1. /\ UNCHANGED <<pc, op, cur_byte, buf>> /\ ~lastrd' /\ ~stop'
        /\ UNCHANGED i2dat
        /\ pc \in Stopping \cup {"idle", "r_last"}
    BY <1>20 DEF StopDone, driverVars, callVars
  <2>2. pc = "w_stop" /\ op.kind = "read" => slave'.ptr = op.addr + 1
    BY <1>20, StopFacts DEF WriteInv, StopDone
  <2>3. pc \in {"r_last", "r_stop"} => mem' = mem
    BY <1>20, StopFacts DEF AddressInv, Reading
  <2>4. pc \in {"r_last", "r_stop"} =>
          Got(op.len)' = Got(op.len) /\ Got(op.len - 1)' = Got(op.len - 1)
    BY <2>1, <2>3 DEF Got
  <2> QED
    BY <2>1, <2>2, <2>3, <2>4
<1>21. CASE UNCHANGED vars
  BY <1>000, <1>21 DEF vars, driverVars, callVars, i2csVars, eepromVars
<1> QED
  BY <1>1, <1>2, <1>3, <1>4, <1>5, <1>6, <1>62, <1>7, <1>71, <1>8, <1>9,
     <1>10, <1>11, <1>12, <1>13, <1>14, <1>15, <1>16, <1>17, <1>18, <1>19,
     <1>20, <1>21
  DEF Next, Driver, Hardware

-----------------------------------------------------------------------------
(* What is left of the types. *)
FlagInv ==
  /\ cancel_i2c_trans \in BOOLEAN /\ done \in BOOLEAN /\ ack \in BOOLEAN
  /\ berr \in BOOLEAN /\ stop \in BOOLEAN /\ lastrd \in BOOLEAN
  /\ owned \in BOOLEAN /\ busy \in BOOLEAN /\ cause \in BOOLEAN

PlaceInv ==
  /\ pc \in Pcs
  /\ xfer \in {"none", "select_w", "select_r", "send", "receive"}
  /\ slave.mode \in {"none", "write", "read"}

RangeInv ==
  /\ buf \in Seq(Bytes) /\ Len(buf) <= op.len
  /\ pc \in {"r_addr", "r_acked", "r_first"} => cur_byte = 0 /\ buf = <<>>
  /\ pc = "r_byte" => cur_byte \in 0 .. op.len - 1 /\ Len(buf) = cur_byte
  /\ pc = "r_last" => Len(buf) = op.len - 1
  /\ retry_count \in 0 .. 2
  /\ cur_byte \in 0 .. 2 + op.len
  /\ i2dat \in Bytes
  /\ slave.ptr \in 1 .. Len(mem)
  /\ faults \in 0 .. MaxFaults

LEMMA FlagStep == ASSUME FlagInv, [Next]_vars PROVE FlagInv'
<1> USE DEF FlagInv
<1>1. ASSUME NEW o \in E!Ops, Call(o) PROVE FlagInv'
  BY <1>1 DEF Call, i2csVars
<1>2. CASE Cancelled
  BY <1>2 DEF Cancelled, Result, Step, OnlyDriver, i2csVars, eepromVars,
              faultVars
<1>3. CASE WEnter \/ REnter
  BY <1>3 DEF WEnter, REnter, Enter, Step, i2csVars, eepromVars, faultVars
<1>4. CASE WStart \/ RStart
  BY <1>4 DEF WStart, RStart, Step, SetStart, eepromVars, faultVars
<1>5. CASE WAddr \/ RAddr
  BY <1>5 DEF WAddr, RAddr, Step, Shift, OnlyBus, eepromVars, faultVars
<1>6. CASE WAcked \/ WByte \/ RAcked
  BY <1>6 DEF WAcked, WByte, RAcked, AfterByte, Step, SetStop, OnlyBus,
              i2csVars, eepromVars, faultVars
<1>7. CASE WNak \/ WRefused \/ WStop \/ RRefused \/ RStop
  BY <1>7 DEF WNak, WRefused, WStop, RRefused, RStop, Result, Step,
              OnlyDriver, i2csVars, eepromVars, faultVars
<1>8. CASE WDelay
  BY <1>8 DEF WDelay, Step, i2csVars, faultVars
<1>9. CASE WData
  BY <1>9 DEF WData, Step, Shift, SetStop, OnlyBus, eepromVars, faultVars
<1>10. CASE RFirst \/ RByte \/ RLast
  BY <1>10 DEF RFirst, RByte, RLast, Step, ReadI2dat, SetStop, OnlyBus,
               i2csVars, eepromVars, faultVars
<1>13. CASE Select \/ Send \/ Receive
  BY <1>13 DEF Select, Send, Receive, Bus, driverVars, faultVars
<1>16. CASE RefuseByte \/ BusError
  BY <1>16 DEF RefuseByte, BusError, Bus, driverVars
<1>17. CASE BusRecovers
  BY <1>17 DEF BusRecovers, driverVars, eepromVars, faultVars
<1>18. CASE CycleEnds \/ Cancel
  BY <1>18 DEF CycleEnds, Cancel, driverVars, i2csVars, eepromVars, faultVars
<1>20. CASE StopDone
  <2>1. busy' \in BOOLEAN
    BY <1>20 DEF StopDone
  <2> QED
    BY <1>20, <2>1 DEF StopDone, driverVars, faultVars
<1>21. CASE UNCHANGED vars
  BY <1>21 DEF vars, driverVars, i2csVars, eepromVars, faultVars
<1> QED
  BY <1>1, <1>2, <1>3, <1>4, <1>5, <1>6, <1>7, <1>8, <1>9, <1>10, <1>13,
     <1>16, <1>17, <1>18, <1>20, <1>21
  DEF Next, Driver, Hardware

LEMMA PlaceStep == ASSUME PlaceInv, [Next]_vars PROVE PlaceInv'
<1> USE DEF PlaceInv, Pcs
<1>1. ASSUME NEW o \in E!Ops, Call(o) PROVE PlaceInv'
  BY <1>1 DEF Call, i2csVars
<1>2. CASE Cancelled
  BY <1>2 DEF Cancelled, Result, Step, OnlyDriver, i2csVars, eepromVars
<1>3. CASE WEnter \/ REnter
  BY <1>3 DEF WEnter, REnter, Enter, Step, i2csVars, eepromVars
<1>4. CASE WStart \/ RStart
  BY <1>4 DEF WStart, RStart, Step, SetStart, eepromVars
<1>5. CASE WAddr \/ RAddr
  BY <1>5 DEF WAddr, RAddr, Step, Shift, OnlyBus, eepromVars
<1>6. CASE WAcked \/ WByte \/ RAcked
  BY <1>6 DEF WAcked, WByte, RAcked, AfterByte, Step, SetStop, OnlyBus,
              i2csVars, eepromVars
<1>7. CASE WNak \/ WRefused \/ WStop \/ RRefused \/ RStop
  BY <1>7 DEF WNak, WRefused, WStop, RRefused, RStop, Result, Step,
              OnlyDriver, i2csVars, eepromVars
<1>8. CASE WDelay
  BY <1>8 DEF WDelay, Step, i2csVars
<1>9. CASE WData
  BY <1>9 DEF WData, Step, Shift, SetStop, OnlyBus, eepromVars
<1>10. CASE RFirst \/ RByte \/ RLast
  BY <1>10 DEF RFirst, RByte, RLast, Step, ReadI2dat, SetStop, OnlyBus,
               i2csVars, eepromVars
<1>13. CASE Select \/ Receive
  BY <1>13 DEF Select, Receive, Bus, Deselected, driverVars
<1>14. CASE Send
  <2>1. slave'.mode = slave.mode
    BY <1>14 DEF Send
  <2> QED
    BY <1>14, <2>1 DEF Send, Bus, driverVars
<1>16. CASE RefuseByte \/ BusError
  BY <1>16 DEF RefuseByte, BusError, Bus, Deselected, driverVars
<1>17. CASE BusRecovers
  BY <1>17 DEF BusRecovers, driverVars, eepromVars
<1>18. CASE CycleEnds \/ Cancel
  BY <1>18 DEF CycleEnds, Cancel, driverVars, i2csVars, eepromVars
<1>20. CASE StopDone
  BY <1>20 DEF StopDone, Deselected, driverVars
<1>21. CASE UNCHANGED vars
  BY <1>21 DEF vars, driverVars, i2csVars, eepromVars
<1> QED
  BY <1>1, <1>2, <1>3, <1>4, <1>5, <1>6, <1>7, <1>8, <1>9, <1>10, <1>13,
     <1>14, <1>16, <1>17, <1>18, <1>20, <1>21
  DEF Next, Driver, Hardware

LEMMA RangeStep ==
  ASSUME ControllerInv, CauseInv, AddressInv, CallInv, WriteInv, RangeInv,
         [Next]_vars
  PROVE  RangeInv'
<1> USE DEF RangeInv
<1>0. /\ op.len \in Nat \ {0} /\ Len(mem) \in Nat /\ mem \in Seq(Bytes)
      /\ MaxFaults \in Nat /\ 0 \in Bytes /\ Base - 1 \in Bytes
      /\ op.addr \in Nat /\ op.addr + op.len <= Len(mem)
  BY I2cAssumption, OpFacts, LenProperties DEF CallInv, E!Fits, Bytes
<1>1. ASSUME NEW o \in E!Ops, Call(o) PROVE RangeInv'
  <2>1. <<>> \in Seq(Bytes) /\ Len(<<>>) = 0 /\ o.len \in Nat \ {0}
    BY OpFacts
  <2> QED
    BY <1>1, <2>1 DEF Call, i2csVars
<1>2. CASE Cancelled
  BY <1>0, <1>2 DEF Cancelled, Result, Step, OnlyDriver, i2csVars, eepromVars,
                    faultVars
<1>3. CASE WEnter \/ REnter
  BY <1>0, <1>3 DEF WEnter, REnter, Enter, Step, i2csVars, eepromVars,
                    faultVars
<1>4. CASE WStart \/ RStart
  <2>1. <<>> \in Seq(Bytes) /\ Len(<<>>) = 0
    OBVIOUS
  <2>2. /\ UNCHANGED <<op, retry_count, i2dat, slave, mem, faults>>
        /\ cur_byte' = 0
        /\ \/ pc' = "w_addr" /\ buf' = buf
           \/ pc' = "r_addr" /\ buf' = <<>>
    BY <1>4 DEF WStart, RStart, Step, SetStart, eepromVars, faultVars
  <2>3. Len(<<>>) <= op.len
    BY <1>0, <2>1
  <2>4. buf' \in Seq(Bytes) /\ Len(buf') <= op.len
    BY <2>1, <2>2, <2>3, Zenon
  <2> QED
    BY <1>0, <2>2, <2>4
<1>5. CASE WAddr \/ RAddr
  BY <1>0, <1>5 DEF WAddr, RAddr, Step, Shift, OnlyBus, eepromVars, faultVars
<1>6. CASE WAcked \/ WByte \/ RAcked
  BY <1>0, <1>6 DEF WAcked, WByte, RAcked, AfterByte, Step, SetStop, OnlyBus,
                    i2csVars, eepromVars, faultVars
<1>7. CASE WNak
  <2>1. retry_count = 2
    BY <1>7 DEF WNak, Result, Step, CauseInv
  <2> QED
    BY <1>0, <1>7, <2>1 DEF WNak, Result, Step, OnlyDriver, i2csVars,
                            eepromVars, faultVars
<1>71. CASE WRefused \/ WStop \/ RRefused \/ RStop
  BY <1>0, <1>71 DEF WRefused, WStop, RRefused, RStop, Result, Step,
                     OnlyDriver, i2csVars, eepromVars, faultVars
<1>8. CASE WDelay
  BY <1>0, <1>8 DEF WDelay, Step, i2csVars, faultVars
<1>9. CASE WData
  <2>1. /\ pc = "w_data" /\ pc' \in {"w_byte", "w_stop"}
        /\ UNCHANGED <<op, buf, retry_count, slave, mem, faults>>
        /\ \/ /\ cur_byte < Len(Buffer) /\ i2dat' = Buffer[cur_byte + 1]
              /\ cur_byte' = cur_byte + 1
           \/ UNCHANGED <<cur_byte, i2dat>>
    BY <1>9 DEF WData, Step, Shift, SetStop, OnlyBus, eepromVars, faultVars
  <2>2. /\ Buffer \in Seq(Bytes) /\ Len(Buffer) \in Nat
        /\ Len(Buffer) <= 2 + op.len
    <3>1. AddrLen \in {1, 2}
      BY DEF AddrLen
    <3>2. op.kind \in {"write", "page", "read"}
      BY OpFacts DEF CallInv
    <3>3. Len(Chunk) \in {0, 1, op.len}
      BY <3>2, ChunkFacts
    <3>4. Len(Buffer) = AddrLen + Len(Chunk) /\ Buffer \in Seq(Bytes)
      BY BufferFacts
    <3> DEFINE chunk == Len(Chunk)
    <3> HIDE DEF chunk
    <3>5. chunk \in {0, 1, op.len}
      BY <3>3 DEF chunk
    <3>6. AddrLen + chunk \in Nat /\ AddrLen + chunk <= 2 + op.len
      BY <1>0, <3>1, <3>5
    <3>7. AddrLen + Len(Chunk) \in Nat /\ AddrLen + Len(Chunk) <= 2 + op.len
      BY <3>6 DEF chunk
    <3> QED
      BY <3>4, <3>7
  <2>3. cur_byte < Len(Buffer) =>
          Buffer[cur_byte + 1] \in Bytes /\ cur_byte + 1 \in 0 .. 2 + op.len
    <3>1. cur_byte < Len(Buffer) => cur_byte + 1 \in 1 .. Len(Buffer)
      BY <1>0, <2>2
    <3> QED
      BY <1>0, <2>2, <3>1, ElementOfSeq
  <2> QED
    BY <1>0, <2>1, <2>3
<1>10. CASE RFirst
  BY <1>0, <1>10 DEF RFirst, Step, ReadI2dat, OnlyBus, eepromVars, faultVars
<1>101. /\ Append(buf, i2dat) \in Seq(Bytes)
        /\ Len(Append(buf, i2dat)) = Len(buf) + 1
  BY AppendProperties
<1>11. CASE RByte
  <2>1. /\ pc = "r_byte"
        /\ UNCHANGED <<op, retry_count, i2dat, slave, mem, faults>>
        /\ \/ pc' = "r_start" /\ UNCHANGED <<buf, cur_byte>>
           \/ /\ op.len > cur_byte + 1 /\ buf' = Append(buf, i2dat)
              /\ cur_byte' = cur_byte + 1 /\ pc' = "r_byte"
           \/ /\ op.len <= cur_byte + 1 /\ pc' = "r_last"
              /\ UNCHANGED <<buf, cur_byte>>
    BY <1>11 DEF RByte, Step, ReadI2dat, SetStop, i2csVars, eepromVars,
                 faultVars
  <2>3. Len(buf) = cur_byte /\ cur_byte \in 0 .. op.len - 1
    BY <2>1
  <2>4. op.len > cur_byte + 1 =>
          cur_byte + 1 \in 0 .. 2 + op.len /\ Len(buf) + 1 <= op.len
    BY <1>0, <2>3
  <2>5. /\ buf' \in Seq(Bytes) /\ Len(buf') <= op.len
        /\ cur_byte' \in 0 .. 2 + op.len
    BY <1>101, <2>1, <2>4
  <2>6. pc' = "r_byte" => cur_byte' \in 0 .. op.len - 1 /\ Len(buf') = cur_byte'
    BY <1>0, <1>101, <2>1, <2>3
  <2>7. pc' = "r_last" => Len(buf') = op.len - 1
    BY <1>0, <2>1, <2>3
  <2> QED
    BY <2>1, <2>5, <2>6, <2>7
<1>12. CASE RLast
  <2>1. /\ pc = "r_last" /\ pc' = "r_stop" /\ buf' = Append(buf, i2dat)
        /\ UNCHANGED <<op, retry_count, cur_byte, i2dat, slave, mem, faults>>
    BY <1>12 DEF RLast, Step, ReadI2dat, eepromVars, faultVars
  <2>3. Len(buf) = op.len - 1
    BY <2>1
  <2> QED
    BY <1>0, <1>101, <2>1, <2>3
<1>13. CASE Select
  BY <1>0, <1>13 DEF Select, Bus, Deselected, driverVars, callVars, faultVars
<1>14. CASE Send
  <2>1. slave'.ptr = slave.ptr
    BY <1>14 DEF Send
  <2> QED
    BY <1>0, <1>14, <2>1 DEF Send, Bus, driverVars, callVars, faultVars
<1>131. NextPtr \in 1 .. Len(mem)
  <2>1. Len(mem) \in Nat \ {0} /\ slave.ptr \in Nat
    BY <1>0
  <2>2. slave.ptr % Len(mem) \in 0 .. Len(mem) - 1
    BY <2>1
  <2> QED
    BY <2>1, <2>2 DEF NextPtr
<1>15. CASE Receive
  <2>1. mem[slave.ptr] \in Bytes
    BY <1>0, ElementOfSeq
  <2>2. i2dat' \in Bytes /\ slave'.ptr \in 1 .. Len(mem)
    BY <1>0, <1>131, <1>15, <2>1 DEF Receive
  <2> QED
    BY <1>0, <1>15, <2>2 DEF Receive, Bus, driverVars, callVars, faultVars
<1>16. CASE RefuseByte \/ BusError
  <2>1. /\ UNCHANGED <<pc, op, buf, retry_count, cur_byte, mem, i2dat>>
        /\ faults < MaxFaults /\ faults' = faults + 1
    BY <1>16 DEF RefuseByte, BusError, Bus, Fault, driverVars, callVars
  <2>2. slave'.ptr \in {slave.ptr, NextPtr}
    BY <1>16 DEF RefuseByte, BusError, Deselected
  <2> QED
    BY <1>0, <1>131, <2>1, <2>2
<1>17. CASE BusRecovers
  BY <1>0, <1>17 DEF BusRecovers, driverVars, callVars, eepromVars, faultVars
<1>18. CASE CycleEnds
  BY <1>0, <1>18 DEF CycleEnds, driverVars, callVars, i2csVars, faultVars
<1>19. CASE Cancel
  BY <1>0, <1>19 DEF Cancel, Fault, driverVars, callVars, i2csVars, eepromVars
<1>20. CASE StopDone
  <2>1. UNCHANGED <<pc, op, buf, retry_count, cur_byte, i2dat, faults>>
    BY <1>20 DEF StopDone, driverVars, callVars, faultVars
  <2>2. Len(mem') = Len(mem) /\ slave'.ptr \in 1 .. Len(mem)
    BY <1>20, StopFacts
  <2> QED
    BY <1>0, <2>1, <2>2
<1>21. CASE UNCHANGED vars
  BY <1>0, <1>21 DEF vars, driverVars, callVars, i2csVars, eepromVars,
                     faultVars
<1> QED
  BY <1>1, <1>2, <1>3, <1>4, <1>5, <1>6, <1>7, <1>71, <1>8, <1>9, <1>10,
     <1>11, <1>12, <1>13, <1>14, <1>15, <1>16, <1>17, <1>18, <1>19, <1>20,
     <1>21
  DEF Next, Driver, Hardware

-----------------------------------------------------------------------------
(* The inductive invariant of the routines and the EEPROM. *)
EepromInv ==
  /\ ControllerInv /\ CauseInv /\ AddressInv
  /\ CallInv /\ WriteInv
  /\ FlagInv /\ PlaceInv /\ RangeInv

LEMMA EepromInit == Init => EepromInv /\ ReadInv /\ E!Init
<1> SUFFICES ASSUME Init PROVE EepromInv /\ ReadInv /\ E!Init
  OBVIOUS
<1> USE DEF Init
<1>1. PICK n \in Sizes : mem = [i \in 1 .. n |-> 0]
  OBVIOUS
<1>2. n \in Nat \ {0} /\ 0 \in Bytes /\ MaxFaults \in Nat
  BY I2cAssumption DEF Bytes
<1>3. mem \in [1 .. n -> Bytes] /\ mem \in Seq(Bytes) /\ Len(mem) = n
  BY <1>1, <1>2
<1>4. op \in E!Ops /\ op.kind = "read" /\ op.addr = 0 /\ op.len = 1
  OBVIOUS
<1>5. E!Fits(op)
  BY <1>2, <1>3, <1>4 DEF E!Fits
<1>6. CallInv
  BY <1>3, <1>4, <1>5 DEF CallInv
<1>7. WriteInv /\ ReadInv
  BY <1>4 DEF WriteInv, ReadInv, Unstored, Sending
<1>8. FlagInv /\ PlaceInv
  BY DEF FlagInv, PlaceInv, Pcs
<1>9. <<>> \in Seq(Bytes) /\ Len(<<>>) = 0
  OBVIOUS
<1>10. RangeInv
  BY <1>2, <1>3, <1>4, <1>9 DEF RangeInv
<1>11. mem \in UNION {[1 .. size -> Bytes] : size \in Sizes}
  BY <1>3
<1>12. E!Init
  BY <1>4, <1>5, <1>11 DEF E!Init
<1> QED
  BY InitHolds, <1>6, <1>7, <1>8, <1>10, <1>12 DEF EepromInv

LEMMA EepromStep == ASSUME EepromInv, [Next]_vars PROVE EepromInv'
BY ControllerStep, CauseStep, AddressStep, CallStep, WriteStep, FlagStep,
   PlaceStep, RangeStep
DEF EepromInv

\* What the abstract EEPROM does not see.
Unseen ==
  UNCHANGED <<mem, op, status, stored>> /\ (status = "true" => buf' = buf)

LEMMA UnseenStutters == ASSUME Unseen PROVE UNCHANGED E!vars
BY DEF Unseen, E!vars

(* Every step is one of the abstract EEPROM, or none. *)
LEMMA SimulationStep ==
  ASSUME EepromInv, ReadInv, [Next]_vars PROVE [E!Next]_(E!vars)
<1> USE DEF EepromInv
<1>0. /\ op.len \in Nat \ {0} /\ op.kind \in {"write", "page", "read"}
      /\ op.addr \in Nat /\ Len(mem) \in Nat /\ mem \in Seq(Bytes)
      /\ prom_byte \in 1 .. op.len /\ (op.kind # "write" => prom_byte = 1)
      /\ Chunk \in Seq(Bytes)
  BY OpFacts, ChunkFacts, LenProperties DEF CallInv
<1>1. ASSUME NEW o \in E!Ops, Call(o) PROVE E!Next
  <2>1. status # "calling"
    BY <1>1 DEF Call, CallInv
  <2>2. UNCHANGED mem /\ op' = o /\ status' = "calling" /\ stored' = 0
        /\ E!Fits(o)
    BY <1>1 DEF Call
  <2>3. E!Call(o)
    BY <2>1, <2>2 DEF E!Call
  <2> QED
    BY <2>3 DEF E!Next
<1>2. ASSUME NEW from \in Pcs \ {"idle"}, Result(from, "false") PROVE E!Next
  <2>1. /\ status = "calling" /\ status' = "false"
        /\ UNCHANGED <<mem, op, stored>>
    BY <1>2 DEF Result, Step, OnlyDriver, eepromVars, CallInv
  <2>2. E!Return("false")
    BY <2>1 DEF E!Return
  <2> QED
    BY <2>2 DEF E!Next
<1>3. CASE Cancelled \/ WRefused \/ RRefused
  <2>1. \E from \in Pcs \ {"idle"} : Result(from, "false")
    BY <1>3 DEF Cancelled, CancelPoints, WRefused, RRefused, Pcs
  <2> QED
    BY <1>2, <2>1
<1>4. CASE WNak
  <2>1. CASE Result("w_nak", "false")
    BY <1>2, <2>1 DEF Pcs
  <2>2. CASE ~Result("w_nak", "false")
    <3>1. Unseen
      BY <1>4, <2>2 DEF WNak, Step, OnlyDriver, eepromVars, Unseen
    <3> QED
      BY <3>1, UnseenStutters
  <2> QED
    BY <2>1, <2>2
<1>5. CASE WStop
  <2>1. CASE op.kind # "read" /\ (op.kind = "write" => prom_byte = op.len)
             /\ Result("w_stop", "true")
    <3>1. /\ status = "calling" /\ status' = "true" /\ ~stop
          /\ UNCHANGED <<mem, op, stored, buf>> /\ buf = <<>>
      BY <1>5, <2>1 DEF WStop, Result, Step, OnlyDriver, eepromVars, CallInv
    <3>2. stored = prom_byte - 1 + Len(Chunk)
      BY <2>1, <3>1 DEF Result, Step, WriteInv
    <3>3. stored = op.len
      <4>1. /\ op.kind = "write" => Len(Chunk) = 1
            /\ op.kind = "page" => Len(Chunk) = op.len
        BY ChunkFacts
      <4> DEFINE chunk == Len(Chunk)
      <4> HIDE DEF chunk
      <4>2. stored = prom_byte - 1 + chunk
        BY <3>2 DEF chunk
      <4>3. \/ prom_byte = op.len /\ chunk = 1
            \/ prom_byte = 1 /\ chunk = op.len
        BY <1>0, <2>1, <4>1 DEF chunk
      <4> QED
        BY <1>0, <4>2, <4>3
    <3>4. E!Return("true")
      BY <2>1, <3>1, <3>3 DEF E!Return
    <3> QED
      BY <3>4 DEF E!Next
  <2>2. CASE Step("w_stop", "w_enter") \/ Step("w_stop", "r_enter")
    <3>1. Unseen
      BY <1>5, <2>2 DEF WStop, Result, Step, OnlyDriver, eepromVars, Unseen
    <3> QED
      BY <3>1, UnseenStutters
  <2> QED
    BY <1>5, <2>1, <2>2 DEF WStop
<1>6. CASE RStop
  <2>1. /\ status = "calling" /\ status' = "true"
        /\ UNCHANGED <<mem, op, stored, buf>> /\ op.kind = "read"
        /\ buf = Got(op.len)
    BY <1>6 DEF RStop, Result, Step, OnlyDriver, eepromVars, CallInv, ReadInv,
                AddressInv, Reading
  <2>2. E!Return("true")
    BY <2>1 DEF E!Return, Got
  <2> QED
    BY <2>2 DEF E!Next
<1>7. CASE StopDone
  <2>1. UNCHANGED <<op, status, buf>> /\ stop /\ status # "true"
    BY <1>7 DEF StopDone, driverVars, callVars, CallInv
  <2>2. CASE slave.mode # "write"
    <3>1. Unseen
      BY <1>7, <2>1, <2>2, StopFacts DEF Unseen
    <3> QED
      BY <3>1, UnseenStutters
  <2>3. CASE slave.mode = "write" /\ op.kind = "read"
    <3>1. Chunk = <<>> /\ Len(Chunk) = 0
      BY <2>3 DEF Chunk
    <3>2. /\ mem' = E!Stored(mem, op.addr + stored, Chunk)
          /\ stored' = stored + Len(Chunk) /\ stored = prom_byte - 1
      BY <1>7, <2>3, StopFacts
    <3>3. op.addr + stored \in Nat /\ stored + 0 = stored
      BY <1>0, <3>2
    <3>4. mem' = mem
      BY <1>0, <3>1, <3>2, <3>3, StoredFacts
    <3>5. Unseen
      BY <2>1, <3>1, <3>2, <3>3, <3>4 DEF Unseen
    <3> QED
      BY <3>5, UnseenStutters
  <2>4. CASE slave.mode = "write" /\ op.kind # "read"
    <3> DEFINE n == IF op.kind = "page" THEN op.len ELSE 1
    <3>1. /\ mem' = E!Stored(mem, op.addr + stored, Chunk)
          /\ stored' = stored + Len(Chunk) /\ stored = prom_byte - 1
      BY <1>7, <2>4, StopFacts
    <3>2. stored < op.len /\ stored + 1 = prom_byte
          /\ stored + n = prom_byte - 1 + n
      BY <1>0, <3>1
    <3>3. Len(Chunk) = n
      BY <1>0, <2>4, ChunkFacts
    <3>4. Chunk = SubSeq(op.values, stored + 1, stored + n)
      BY <2>4, <3>2, ChunkFacts
    <3>5. E!Store
      BY <2>1, <2>4, <3>1, <3>2, <3>3, <3>4 DEF E!Store
    <3> QED
      BY <3>5 DEF E!Next
  <2> QED
    BY <2>2, <2>3, <2>4
<1>8. CASE RStart \/ RByte \/ RLast
  <2>1. pc \in {"r_start", "r_byte", "r_last"}
        /\ UNCHANGED <<mem, op, status, stored>>
    BY <1>8 DEF RStart, RByte, RLast, SetStart, Step, eepromVars
  <2>2. Unseen
    BY <2>1 DEF CallInv, Unseen
  <2> QED
    BY <2>2, UnseenStutters
<1>9. CASE WEnter \/ REnter \/ WStart \/ WAddr \/ RAddr
  <2>1. Unseen
    BY <1>9 DEF WEnter, REnter, Enter, WStart, WAddr, RAddr, SetStart, Step,
                OnlyBus, eepromVars, Unseen
  <2> QED
    BY <2>1, UnseenStutters
<1>10. CASE WAcked \/ WByte \/ RAcked \/ WDelay \/ WData \/ RFirst
  <2>1. Unseen
    BY <1>10 DEF WAcked, WByte, RAcked, AfterByte, WDelay, WData, RFirst,
                 OnlyBus, Step, eepromVars, Unseen
  <2> QED
    BY <2>1, UnseenStutters
<1>11. CASE \/ Select \/ Send \/ Receive \/ RefuseByte \/ BusError
            \/ BusRecovers \/ CycleEnds \/ Cancel
  <2>1. Unseen
    BY <1>11 DEF Select, Send, Receive, RefuseByte, BusError, Bus,
                 BusRecovers, CycleEnds, Cancel, driverVars, callVars,
                 eepromVars, Unseen
  <2> QED
    BY <2>1, UnseenStutters
<1>12. CASE UNCHANGED vars
  <2>1. Unseen
    BY <1>12 DEF vars, driverVars, callVars, eepromVars, Unseen
  <2> QED
    BY <2>1, UnseenStutters
<1> QED
  BY <1>1, <1>3, <1>4, <1>5, <1>6, <1>7, <1>8, <1>9, <1>10, <1>11, <1>12
  DEF Next, Driver, Hardware

-----------------------------------------------------------------------------
(* Types: above all, i2c_read never puts more bytes into its buffer than   *)
(* it was asked for, cur_byte stays within the bytes to send, and the      *)
(* EEPROM keeps its size and its pointer inside it (i2c.c:61-225).         *)
THEOREM I2cTypeCorrect == Spec => []TypeOK
<1>1. EepromInv /\ [Next]_vars => EepromInv'
  BY EepromStep
<1>2. EepromInv => TypeOK
  <2> SUFFICES ASSUME EepromInv PROVE TypeOK
    OBVIOUS
  <2>1. {cancel_i2c_trans, done, ack, berr, stop, lastrd, owned, busy, cause}
          \subseteq BOOLEAN
    BY DEF EepromInv, FlagInv
  <2>2. \A i \in DOMAIN mem : mem[i] \in Bytes
    BY LenProperties, ElementOfSeq DEF EepromInv, CallInv
  <2> QED
    BY <2>1, <2>2 DEF EepromInv, CallInv, WriteInv, PlaceInv, RangeInv, TypeOK
<1> QED
  BY EepromInit, <1>1, <1>2, PTL DEF Spec

(* For every EEPROM, every length of a call and every number of bus        *)
(* errors, refused bytes and cancellations: the memory changes only by the *)
(* bytes of the call, in order and at their addresses; TRUE means that all *)
(* are stored, or that the buffer holds what is stored (i2c.h:55-98).      *)
THEOREM EepromKeepsPromise == ASSUME ReadErrors = FALSE PROVE Spec => E!Promise
<1> DEFINE IInv == EepromInv /\ ReadInv
<1>1. Init => IInv /\ E!Init
  BY EepromInit
<1>2. IInv /\ [Next]_vars => IInv' /\ [E!Next]_(E!vars)
  BY EepromStep, ReadStep, SimulationStep DEF EepromInv
<1> QED
  BY <1>1, <1>2, PTL DEF Spec, E!Promise
=============================================================================
