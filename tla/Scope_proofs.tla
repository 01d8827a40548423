----------------------------- MODULE Scope_proofs -----------------------------
(***************************************************************************)
(* Proofs about the oscilloscope firmware, for every byte size and every   *)
(* timeout whose bytes are not 0.                                          *)
(***************************************************************************)
EXTENDS ScopeProperties, TLAPS

-----------------------------------------------------------------------------
(* The decisions of the main loop. *)

LEMMA Cases ==
  ASSUME NEW r \in Requests
  PROVE  /\ CaseOf(r) \in {"select", "handshake", "stop"}
         /\ CaseOf(r) = "select" <=> r \in {"ALT0", "ALT1"}
         /\ CaseOf(r) = "stop" <=> r \in VendorWithData \cup {"UNKNOWN"}
<1> USE DEF VendorWithData, Settable
<1>1. CASE r \in {"ALT0", "ALT1"}
  BY <1>1 DEF CaseOf
<1>2. CASE r = "SET_CONFIGURATION"
  BY <1>2 DEF CaseOf
<1>3. CASE r \in VendorWithData \cup {"UNKNOWN"}
  BY <1>3 DEF CaseOf
<1>4. QED
  BY <1>1, <1>2, <1>3 DEF Requests

LEMMA Actions ==
  ASSUME NEW r \in Requests, NEW value \in Data
  PROVE  /\ ActionOf(r, value) \in {"volt_read", "apply", "reset", "handshake"}
         /\ ActionOf(r, value) = "volt_read" => value # 0
         /\ ActionOf(r, value) = "apply" => r \in Settable /\ value # 0
         /\ ActionOf(r, value) = "reset" => r = "TRIGGER" /\ value = 1
<1>1. CASE r = "SET_VOLTAGE" /\ value # 0
  BY <1>1 DEF ActionOf
<1>2. CASE r \in Settable \ {"SET_VOLTAGE"} /\ value # 0
  BY <1>2 DEF ActionOf
<1>3. CASE r = "TRIGGER" /\ value = 1
  BY <1>3 DEF ActionOf, Settable
<1>4. CASE /\ ~(r = "SET_VOLTAGE" /\ value # 0)
           /\ ~(r \in Settable \ {"SET_VOLTAGE"} /\ value # 0)
           /\ ~(r = "TRIGGER" /\ value = 1)
  BY <1>4 DEF ActionOf
<1>5. QED
  BY <1>1, <1>2, <1>3, <1>4

LEMMA Bytes ==
  /\ ByteSize \in Nat /\ ByteSize >= 2
  /\ TimeoutHigh \in 0 .. ByteSize - 1 /\ TimeoutHigh # 0
  /\ TimeoutLow \in 0 .. ByteSize - 1 /\ TimeoutLow # 0
  /\ 0 \in 0 .. ByteSize - 1 /\ ByteSize - 1 \in 0 .. ByteSize - 1
BY ScopeAssumption

-----------------------------------------------------------------------------
(* Every host: types. *)

TypeInv ==
  /\ TypeOK
  /\ busy => main = "wait"
  /\ main \in {"apply", "volt_read", "volt_write"} => ep0buf # 0
  /\ main = "apply" => cmd \in Settable

LEMMA TypeStep == TypeInv /\ [Next]_vars => TypeInv'
<1> SUFFICES ASSUME TypeInv, [Next]_vars PROVE TypeInv'
  OBVIOUS
<1> USE DEF TypeInv, TypeOK, MainPcs, ActPcs
<1>1. CASE Poll
  BY <1>1 DEF Poll, Step, OnlyCpu, ep0Vars, sampleVars, ledVars, hostVars
<1>2. CASE Dispatch
  BY <1>2, Cases DEF Dispatch, Step, OnlyCpu, ep0Vars, sampleVars,
    ledVars, hostVars
<1>3. CASE SelectInterface
  BY <1>3 DEF SelectInterface, Step, OnlySampling, ep0Vars, ledVars,
    hostVars
<1>4. CASE StopSampling
  BY <1>4 DEF StopSampling, Step, OnlySampling, ep0Vars, ledVars, hostVars
<1>5. CASE LedRed
  BY <1>5 DEF LedRed, Step, OnlyLed, ep0Vars, sampleVars, hostVars
<1>6. CASE SetTimeout
  BY <1>6, Bytes DEF SetTimeout, Step, OnlyLed, AfterTimeout, WriteHigh,
    WriteLow, ep0Vars, sampleVars, hostVars
<1>7. CASE Arm
  BY <1>7 DEF Arm, Step, OnlyEp0, sampleVars, ledVars, hostVars
<1>8. CASE Wait
  BY <1>8, Actions DEF Wait, Step, OnlyCpu, ep0Vars, sampleVars, ledVars,
    hostVars
<1>9. CASE Apply
  <2>1. /\ main = "apply" /\ main' = "handshake"
        /\ settings' = [settings EXCEPT ![cmd] = ep0buf]
        /\ UNCHANGED <<altiface, engine, fifo, irq, hostVars, cmd, dosud,
                       latched, ep0Vars, ledVars>>
    BY <1>9 DEF Apply, Step, OnlySampling
  <2>2. cmd \in Settable /\ ep0buf \in {1, 2}
    BY <2>1 DEF Data
  <2>3. settings' \in [Settable -> {1, 2}]
    BY <2>1, <2>2
  <2>4. QED
    BY <2>1, <2>3 DEF hostVars, ep0Vars, ledVars
<1>10. CASE VoltRead
  BY <1>10 DEF VoltRead, Step, OnlyCpu, ep0Vars, sampleVars, ledVars,
    hostVars
<1>11. CASE VoltWrite
  <2>1. /\ main = "volt_write" /\ main' = "handshake"
        /\ settings' = [settings EXCEPT !["SET_VOLTAGE"] = ep0buf]
        /\ led' \in {led, latched}
        /\ UNCHANGED <<altiface, engine, fifo, irq, hostVars, cmd, dosud,
                       latched, ep0Vars, hi, lo>>
    BY <1>11 DEF VoltWrite, Step
  <2>2. "SET_VOLTAGE" \in Settable /\ ep0buf \in {1, 2}
    BY <2>1 DEF Data, Settable
  <2>3. settings' \in [Settable -> {1, 2}]
    BY <2>1, <2>2
  <2>4. QED
    BY <2>1, <2>3 DEF hostVars, ep0Vars
<1>12. CASE ClearFifo
  BY <1>12 DEF ClearFifo, Step, OnlySampling, ep0Vars, ledVars, hostVars
<1>13. CASE Trigger
  <2> HIDE DEF MainPcs, ActPcs
  <2>1. engine' \in Endpoints /\ "green" \in MainPcs
    BY <1>13 DEF Trigger, Selected, EndpointOf, Endpoints, MainPcs, ActPcs
  <2>2. /\ main = "trigger" /\ main' = "green"
        /\ UNCHANGED <<cmd, dosud, irq, latched, busy, ep0buf>>
        /\ UNCHANGED <<setupdat, stall, hsnak, altiface, settings, fifo,
                       ledVars, hostVars>>
    BY <1>13 DEF Trigger, Step, OnlySampling, ep0Vars
  <2>3. TypeOK'
    BY <2>1, <2>2 DEF ledVars, hostVars
  <2>4. QED
    BY <2>2, <2>3
<1>14. CASE LedGreen
  BY <1>14 DEF LedGreen, Step, OnlyLed, ep0Vars, sampleVars, hostVars
<1>15. CASE ZeroCounter
  BY <1>15, Bytes DEF ZeroCounter, Step, OnlyLed, WriteHigh, WriteLow,
    ep0Vars, sampleVars, hostVars
<1>16. CASE Refuse
  BY <1>16 DEF Refuse, Step, OnlyEp0, sampleVars, ledVars, hostVars
<1>17. CASE Handshake
  BY <1>17 DEF Handshake, Step, OnlyEp0, sampleVars, ledVars, hostVars
<1>18. CASE SudavIsr
  <2> HIDE DEF MainPcs, ActPcs
  <2>1. /\ irq' \in BOOLEAN /\ dosud' \in BOOLEAN
        /\ UNCHANGED <<main, cmd, latched, busy, ep0buf>>
    BY <1>18 DEF SudavIsr, ep0Vars
  <2>2. UNCHANGED <<setupdat, stall, hsnak, sampleVars, ledVars, hostVars>>
    BY <1>18 DEF SudavIsr, ep0Vars
  <2>3. TypeOK'
    BY <2>1, <2>2 DEF sampleVars, ledVars, hostVars
  <2>4. QED
    BY <2>1, <2>3
<1>19. CASE Timer2Isr
  BY <1>19, Bytes DEF Timer2Isr, CountDown, Counting, Expires, cpuVars,
    ep0Vars, sampleVars, ledVars, hostVars
<1>20. CASE Sample
  <2>1. fifo' \in [Endpoints -> SUBSET [Settable -> {1, 2}]]
    BY <1>20 DEF Sample, Selected
  <2>2. QED
    BY <1>20, <2>1 DEF Sample, cpuVars, ep0Vars, ledVars, hostVars
<1>21. CASE BulkIn
  <2>1. fifo' \in [Endpoints -> SUBSET [Settable -> {1, 2}]]
    BY <1>21 DEF BulkIn
  <2>2. QED
    BY <1>21, <2>1 DEF BulkIn, cpuVars, ep0Vars, ledVars, hostVars
<1>22. CASE \E r \in Used : HostSetup(r)
  <2> HIDE DEF MainPcs, ActPcs
  <2>1. PICK r \in Used : HostSetup(r)
    BY <1>22
  <2>2. r \in Requests
    BY ScopeAssumption
  <2>3. /\ setupdat' \in Requests /\ busy' = FALSE /\ stall' = FALSE
        /\ hsnak' = TRUE /\ irq' = TRUE
        /\ ctl' \in {"idle", "data", "status"}
        /\ UNCHANGED <<main, cmd, dosud, latched, ep0buf, sampleVars,
                       ledVars, streaming>>
    BY <2>1, <2>2 DEF HostSetup
  <2>4. QED
    BY <2>3 DEF sampleVars, ledVars
<1>23. CASE \E value \in Data : HostData(value)
  BY <1>23 DEF HostData, cpuVars, sampleVars, ledVars
<1>24. CASE HostEnds
  BY <1>24 DEF HostEnds, cpuVars, ep0Vars, sampleVars, ledVars
<1>25. CASE UNCHANGED vars
  BY <1>25 DEF vars, cpuVars, ep0Vars, sampleVars, ledVars, hostVars
<1>26. QED
  BY <1>1, <1>2, <1>3, <1>4, <1>5, <1>6, <1>7, <1>8, <1>9, <1>10, <1>11,
     <1>12, <1>13, <1>14, <1>15, <1>16, <1>17, <1>18, <1>19, <1>20, <1>21,
     <1>22, <1>23, <1>24, <1>25 DEF Next, Main, Host

LEMMA InitTypes == Init => TypeInv
<1> SUFFICES ASSUME Init PROVE TypeInv
  OBVIOUS
<1>1. [r \in Settable |-> IF r = "SET_NUMCHANNELS" THEN 2 ELSE 1]
        \in [Settable -> {1, 2}]
  OBVIOUS
<1>2. [e \in Endpoints |-> {}] \in [Endpoints -> SUBSET [Settable -> {1, 2}]]
  OBVIOUS
<1>3. "poll" \in MainPcs /\ "UNKNOWN" \in Requests
  BY DEF MainPcs, ActPcs, Requests
<1>4. /\ settings \in [Settable -> {1, 2}]
      /\ fifo \in [Endpoints -> SUBSET [Settable -> {1, 2}]]
  BY <1>1, <1>2 DEF Init
<1>5. /\ main \in MainPcs /\ cmd \in Requests /\ setupdat \in Requests
      /\ ep0buf \in Data /\ ~busy
      /\ hi \in 0 .. ByteSize - 1 /\ lo \in 0 .. ByteSize - 1
  BY <1>3, Bytes DEF Init, Data
<1>6. TypeOK
  BY <1>4, <1>5 DEF Init, TypeOK
<1>7. QED
  BY <1>5, <1>6 DEF Init, TypeInv

THEOREM TypesInvariant == Spec => []TypeInv
BY InitTypes, TypeStep, PTL DEF Spec

(* TYPE, for every host. *)
THEOREM TypeCorrect == Spec => []TypeOK
<1>1. TypeInv => TypeOK
  BY DEF TypeInv
<1>2. QED
  BY <1>1, TypesInvariant, PTL

-----------------------------------------------------------------------------
(* Every host: sampling. *)

(* Between stop_sampling and trigger the engine is off. *)
AfterStop == {"red", "timeout", "timeout_hi", "timeout_lo", "arm", "wait",
              "apply", "volt_read", "volt_write", "reset", "trigger"}

SamplingInv ==
  /\ FreshSession
  /\ main \in AfterStop => engine = "off"
  /\ main = "trigger" => \A e \in Endpoints : fifo[e] = {}

LEMMA SamplingStep == TypeInv /\ SamplingInv /\ [Next]_vars => SamplingInv'
<1> SUFFICES ASSUME TypeInv, SamplingInv, [Next]_vars PROVE SamplingInv'
  OBVIOUS
<1>s. "off" \notin Endpoints /\ Selected \in Endpoints
  BY DEF Endpoints, Selected, EndpointOf
<1>t. setupdat \in Requests /\ cmd \in Requests /\ ep0buf \in Data
  BY DEF TypeInv, TypeOK
<1>c. CaseOf(setupdat) \in {"select", "handshake", "stop"}
  BY <1>t, Cases
<1>a. ActionOf(cmd, ep0buf) \in {"volt_read", "apply", "reset", "handshake"}
  BY <1>t, Actions
<1> USE DEF SamplingInv, FreshSession, AfterStop
<1>1. CASE Poll
  BY <1>1 DEF Poll, Step, OnlyCpu, ep0Vars, sampleVars, ledVars, hostVars
<1>2. CASE Dispatch
  BY <1>2, <1>c DEF Dispatch, Step, OnlyCpu, ep0Vars, sampleVars, ledVars,
    hostVars
<1>3. CASE SelectInterface
  BY <1>3 DEF SelectInterface, Step, OnlySampling, ep0Vars, ledVars,
    hostVars
<1>4. CASE StopSampling
  BY <1>4 DEF StopSampling, Step, OnlySampling, ep0Vars, ledVars, hostVars
<1>5. CASE LedRed
  BY <1>5 DEF LedRed, Step, OnlyLed, ep0Vars, sampleVars, hostVars
<1>6. CASE SetTimeout
  BY <1>6 DEF SetTimeout, Step, OnlyLed, AfterTimeout, WriteHigh,
    WriteLow, ep0Vars, sampleVars, hostVars
<1>7. CASE Arm
  BY <1>7 DEF Arm, Step, OnlyEp0, sampleVars, ledVars, hostVars
<1>8. CASE Wait
  BY <1>8, <1>a DEF Wait, Step, OnlyCpu, ep0Vars, sampleVars, ledVars,
    hostVars
<1>9. CASE Apply
  BY <1>9 DEF Apply, Step, OnlySampling, ep0Vars, ledVars, hostVars
<1>10. CASE VoltRead
  BY <1>10 DEF VoltRead, Step, OnlyCpu, ep0Vars, sampleVars, ledVars,
    hostVars
<1>11. CASE VoltWrite
  BY <1>11 DEF VoltWrite, Step, ep0Vars, hostVars
<1>12. CASE ClearFifo
  BY <1>12 DEF ClearFifo, Step, OnlySampling, ep0Vars, ledVars, hostVars
<1>13. CASE Trigger
  <2>1. /\ main' = "green" /\ engine' = Selected /\ fifo' = fifo
        /\ settings' = settings
    BY <1>13 DEF Trigger, Step
  <2>2. fifo[Selected] = {}
    BY <1>13, <1>s DEF Trigger, Step
  <2>3. QED
    BY <2>1, <2>2
<1>14. CASE LedGreen
  BY <1>14 DEF LedGreen, Step, OnlyLed, ep0Vars, sampleVars, hostVars
<1>15. CASE ZeroCounter
  BY <1>15 DEF ZeroCounter, Step, OnlyLed, WriteHigh, WriteLow, ep0Vars,
    sampleVars, hostVars
<1>16. CASE Refuse
  BY <1>16 DEF Refuse, Step, OnlyEp0, sampleVars, ledVars, hostVars
<1>17. CASE Handshake
  BY <1>17 DEF Handshake, Step, OnlyEp0, sampleVars, ledVars, hostVars
<1>18. CASE SudavIsr
  BY <1>18 DEF SudavIsr, ep0Vars, sampleVars, ledVars, hostVars
<1>19. CASE Timer2Isr
  BY <1>19 DEF Timer2Isr, CountDown, Counting, Expires, cpuVars, ep0Vars,
    sampleVars, ledVars, hostVars
<1>20. CASE Sample
  BY <1>20, <1>s DEF Sample, cpuVars, ep0Vars, ledVars, hostVars
<1>21. CASE BulkIn
  BY <1>21 DEF BulkIn, cpuVars, ep0Vars, ledVars, hostVars
<1>22. CASE \E r \in Used : HostSetup(r)
  BY <1>22 DEF HostSetup, sampleVars, ledVars
<1>23. CASE \E value \in Data : HostData(value)
  BY <1>23 DEF HostData, cpuVars, sampleVars, ledVars
<1>24. CASE HostEnds
  BY <1>24 DEF HostEnds, cpuVars, ep0Vars, sampleVars, ledVars
<1>25. CASE UNCHANGED vars
  BY <1>25 DEF vars, cpuVars, ep0Vars, sampleVars, ledVars, hostVars
<1>26. QED
  BY <1>1, <1>2, <1>3, <1>4, <1>5, <1>6, <1>7, <1>8, <1>9, <1>10, <1>11,
     <1>12, <1>13, <1>14, <1>15, <1>16, <1>17, <1>18, <1>19, <1>20, <1>21,
     <1>22, <1>23, <1>24, <1>25 DEF Next, Main, Host

THEOREM SamplingInvariant == Spec => []SamplingInv
<1>1. Init => SamplingInv
  BY DEF Init, SamplingInv, FreshSession, AfterStop
<1>2. QED
  BY <1>1, TypesInvariant, SamplingStep, PTL DEF Spec

(* FRESH SESSION, for every host and whatever it does between two          *)
(* sessions: the packets in the endpoint that the engine fills were all    *)
(* sampled with the settings in force (scope.inc:117-128).                 *)
THEOREM FreshSessionHolds == Spec => []FreshSession
<1>1. SamplingInv => FreshSession
  BY DEF SamplingInv
<1>2. QED
  BY <1>1, SamplingInvariant, PTL

-----------------------------------------------------------------------------
(* Every host: the LED. *)

LedInv ==
  /\ RedIsTimed
  /\ main \in {"zero", "zero_hi", "zero_lo"} => led # "red"

LEMMA LedStep ==
  ASSUME LedSharesPort = FALSE, TypeInv, LedInv, [Next]_vars
  PROVE  LedInv'
<1>t. setupdat \in Requests /\ cmd \in Requests /\ ep0buf \in Data
  BY DEF TypeInv, TypeOK
<1>c. CaseOf(setupdat) \in {"select", "handshake", "stop"}
  BY <1>t, Cases
<1>a. ActionOf(cmd, ep0buf) \in {"volt_read", "apply", "reset", "handshake"}
  BY <1>t, Actions
<1> USE DEF LedInv, RedIsTimed, Counting
<1>1. CASE Poll
  BY <1>1 DEF Poll, Step, OnlyCpu, ep0Vars, sampleVars, ledVars, hostVars
<1>2. CASE Dispatch
  BY <1>2, <1>c DEF Dispatch, Step, OnlyCpu, ep0Vars, sampleVars, ledVars,
    hostVars
<1>3. CASE SelectInterface
  BY <1>3 DEF SelectInterface, Step, OnlySampling, ep0Vars, ledVars,
    hostVars
<1>4. CASE StopSampling
  BY <1>4 DEF StopSampling, Step, OnlySampling, ep0Vars, ledVars, hostVars
<1>5. CASE LedRed
  BY <1>5 DEF LedRed, Step, OnlyLed, ep0Vars, sampleVars, hostVars
<1>6. CASE SetTimeout
  BY <1>6, Bytes DEF SetTimeout, Step, OnlyLed, AfterTimeout, WriteHigh,
    WriteLow, ep0Vars, sampleVars, hostVars
<1>7. CASE Arm
  BY <1>7 DEF Arm, Step, OnlyEp0, sampleVars, ledVars, hostVars
<1>8. CASE Wait
  BY <1>8, <1>a DEF Wait, Step, OnlyCpu, ep0Vars, sampleVars, ledVars,
    hostVars
<1>9. CASE Apply
  BY <1>9 DEF Apply, Step, OnlySampling, ep0Vars, ledVars, hostVars
<1>10. CASE VoltRead
  BY <1>10 DEF VoltRead, Step, OnlyCpu, ep0Vars, sampleVars, ledVars,
    hostVars
<1>11. CASE VoltWrite
  BY <1>11 DEF VoltWrite, Step, ep0Vars, hostVars
<1>12. CASE ClearFifo
  BY <1>12 DEF ClearFifo, Step, OnlySampling, ep0Vars, ledVars, hostVars
<1>13. CASE Trigger
  BY <1>13 DEF Trigger, Step, OnlySampling, ep0Vars, ledVars, hostVars
<1>14. CASE LedGreen
  BY <1>14 DEF LedGreen, Step, OnlyLed, ep0Vars, sampleVars, hostVars
<1>15. CASE ZeroCounter
  BY <1>15 DEF ZeroCounter, Step, OnlyLed, WriteHigh, WriteLow, ep0Vars,
    sampleVars, hostVars
<1>16. CASE Refuse
  BY <1>16 DEF Refuse, Step, OnlyEp0, sampleVars, ledVars, hostVars
<1>17. CASE Handshake
  BY <1>17 DEF Handshake, Step, OnlyEp0, sampleVars, ledVars, hostVars
<1>18. CASE SudavIsr
  BY <1>18 DEF SudavIsr, ep0Vars, sampleVars, ledVars, hostVars
<1>19. CASE Timer2Isr
  <2>1. hi \in 0 .. ByteSize - 1 /\ lo \in 0 .. ByteSize - 1
    BY DEF TypeInv, TypeOK
  <2>2. CASE ~Counting
    BY <1>19, <2>2 DEF Timer2Isr, CountDown, cpuVars, ledVars
  <2>3. CASE CountDown
    <3>1. led' = "red" => led = "red" /\ ~Expires
      BY <2>3 DEF CountDown
    <3>2. ~Expires => hi' # 0 \/ lo' # 0
      BY <2>1, <2>3, Bytes DEF CountDown, Expires
    <3>3. QED
      BY <1>19, <3>1, <3>2 DEF Timer2Isr, cpuVars
  <2>4. QED
    BY <1>19, <2>2, <2>3 DEF Timer2Isr
<1>20. CASE Sample
  BY <1>20 DEF Sample, cpuVars, ep0Vars, ledVars, hostVars
<1>21. CASE BulkIn
  BY <1>21 DEF BulkIn, cpuVars, ep0Vars, ledVars, hostVars
<1>22. CASE \E r \in Used : HostSetup(r)
  BY <1>22 DEF HostSetup, sampleVars, ledVars
<1>23. CASE \E value \in Data : HostData(value)
  BY <1>23 DEF HostData, cpuVars, sampleVars, ledVars
<1>24. CASE HostEnds
  BY <1>24 DEF HostEnds, cpuVars, ep0Vars, sampleVars, ledVars
<1>25. CASE UNCHANGED vars
  BY <1>25 DEF vars, cpuVars, ep0Vars, sampleVars, ledVars, hostVars
<1>26. QED
  BY <1>1, <1>2, <1>3, <1>4, <1>5, <1>6, <1>7, <1>8, <1>9, <1>10, <1>11,
     <1>12, <1>13, <1>14, <1>15, <1>16, <1>17, <1>18, <1>19, <1>20, <1>21,
     <1>22, <1>23, <1>24, <1>25 DEF Next, Main, Host

(* TIMEOUT, for every host of a device whose LED has a port of its own: a  *)
(* red LED has a timer running that will clear it, although the main loop  *)
(* writes the two bytes of ledcounter one after the other                  *)
(* (scope.inc:327-332).                                                    *)
THEOREM RedIsTimedHolds ==
  ASSUME LedSharesPort = FALSE
  PROVE  Spec => []RedIsTimed
<1>1. Init => LedInv
  BY DEF Init, LedInv, RedIsTimed
<1>2. TypeInv /\ LedInv /\ [Next]_vars => LedInv'
  BY LedStep
<1>3. LedInv => RedIsTimed
  BY DEF LedInv
<1>4. QED
  BY <1>1, <1>2, <1>3, TypesInvariant, PTL DEF Spec

-----------------------------------------------------------------------------
(* A host that ends its control transfers, and waits for the main loop     *)
(* after a refused one. *)

Orderly == Abort = FALSE /\ "UNKNOWN" \notin Hasty

Early == {"dispatch", "stop", "red", "timeout", "timeout_hi", "timeout_lo",
          "arm"}
Vendor == {"stop", "red", "timeout", "timeout_hi", "timeout_lo", "refuse"}

(* One transfer at a time: it is with the interrupt, with the flag, with   *)
(* the main loop, or through.                                              *)
ControlInv ==
  /\ irq => ~dosud
  /\ irq \/ dosud => main = "poll" /\ ctl # "idle" /\ hsnak /\ ~stall
  /\ main # "poll" => hsnak
  /\ main \notin {"poll", "dispatch"} => cmd = setupdat
  /\ main \notin {"poll", "handshake"} => ctl # "idle" /\ ~stall
  /\ ctl = "idle" => main = "poll" \/ setupdat = "UNKNOWN"
  /\ stall => setupdat = "UNKNOWN"
  /\ main \in Vendor => cmd \in VendorWithData \cup {"UNKNOWN"}
  /\ main = "refuse" => cmd \notin VendorWithData
  /\ main = "select" => cmd \in {"ALT0", "ALT1"}
  /\ main \in {"arm", "wait"} => cmd \in VendorWithData

(* The data stage comes while the command waits for it. *)
DataInv ==
  /\ busy => main = "wait" /\ ctl = "data"
  /\ main = "wait" /\ ~busy => ctl = "status"
  /\ (irq \/ dosud \/ main \in Early) /\ setupdat \in VendorWithData
       => ctl = "data"
  /\ main \in ActPcs => ctl = "status"

LEMMA ControlStep ==
  ASSUME Orderly, TypeInv, ControlInv, [Next]_vars
  PROVE  ControlInv'
<1>t. setupdat \in Requests /\ cmd \in Requests /\ ep0buf \in Data
  BY DEF TypeInv, TypeOK
<1>c. /\ CaseOf(setupdat) \in {"select", "handshake", "stop"}
      /\ CaseOf(setupdat) = "select" <=> setupdat \in {"ALT0", "ALT1"}
      /\ CaseOf(setupdat) = "stop" <=>
           setupdat \in VendorWithData \cup {"UNKNOWN"}
  BY <1>t, Cases
<1>a. /\ ActionOf(cmd, ep0buf) \in {"volt_read", "apply", "reset", "handshake"}
      /\ ActionOf(cmd, ep0buf) = "reset" => cmd = "TRIGGER" /\ ep0buf = 1
  BY <1>t, Actions
<1> USE DEF ControlInv, Vendor
<1>1. CASE Poll
  BY <1>1 DEF Poll, Step, OnlyCpu, ep0Vars, sampleVars, ledVars, hostVars
<1>2. CASE Dispatch
  BY <1>2, <1>c DEF Dispatch, Step, OnlyCpu, ep0Vars, sampleVars, ledVars,
    hostVars
<1>3. CASE SelectInterface
  BY <1>3 DEF SelectInterface, Step, OnlySampling, ep0Vars, ledVars,
    hostVars
<1>4. CASE StopSampling
  BY <1>4 DEF StopSampling, Step, OnlySampling, ep0Vars, ledVars, hostVars
<1>5. CASE LedRed
  BY <1>5 DEF LedRed, Step, OnlyLed, ep0Vars, sampleVars, hostVars
<1>6. CASE SetTimeout
  BY <1>6 DEF SetTimeout, Step, OnlyLed, AfterTimeout, WriteHigh,
    WriteLow, ep0Vars, sampleVars, hostVars
<1>7. CASE Arm
  BY <1>7 DEF Arm, Step, OnlyEp0, sampleVars, ledVars, hostVars
<1>8. CASE Wait
  BY <1>8, <1>a DEF Wait, Step, OnlyCpu, ep0Vars, sampleVars, ledVars,
    hostVars
<1>9. CASE Apply
  BY <1>9 DEF Apply, Step, OnlySampling, ep0Vars, ledVars, hostVars
<1>10. CASE VoltRead
  BY <1>10 DEF VoltRead, Step, OnlyCpu, ep0Vars, sampleVars, ledVars,
    hostVars
<1>11. CASE VoltWrite
  BY <1>11 DEF VoltWrite, Step, ep0Vars, hostVars
<1>12. CASE ClearFifo
  BY <1>12 DEF ClearFifo, Step, OnlySampling, ep0Vars, ledVars, hostVars
<1>13. CASE Trigger
  BY <1>13 DEF Trigger, Step, OnlySampling, ep0Vars, ledVars, hostVars
<1>14. CASE LedGreen
  BY <1>14 DEF LedGreen, Step, OnlyLed, ep0Vars, sampleVars, hostVars
<1>15. CASE ZeroCounter
  BY <1>15 DEF ZeroCounter, Step, OnlyLed, WriteHigh, WriteLow, ep0Vars,
    sampleVars, hostVars
<1>16. CASE Refuse
  BY <1>16 DEF Refuse, Step, OnlyEp0, sampleVars, ledVars, hostVars
<1>17. CASE Handshake
  BY <1>17 DEF Handshake, Step, OnlyEp0, sampleVars, ledVars, hostVars
<1>18. CASE SudavIsr
  BY <1>18 DEF SudavIsr, ep0Vars, sampleVars, ledVars, hostVars
<1>19. CASE Timer2Isr
  BY <1>19 DEF Timer2Isr, CountDown, Counting, Expires, cpuVars, ep0Vars,
    sampleVars, ledVars, hostVars
<1>20. CASE Sample
  BY <1>20 DEF Sample, cpuVars, ep0Vars, ledVars, hostVars
<1>21. CASE BulkIn
  BY <1>21 DEF BulkIn, cpuVars, ep0Vars, ledVars, hostVars
<1>22. CASE \E r \in Used : HostSetup(r)
  BY <1>22 DEF Orderly, HostSetup, sampleVars, ledVars
<1>23. CASE \E value \in Data : HostData(value)
  BY <1>23 DEF HostData, cpuVars, sampleVars, ledVars
<1>24. CASE HostEnds
  BY <1>24 DEF Orderly, HostEnds, cpuVars, ep0Vars, sampleVars, ledVars
<1>25. CASE UNCHANGED vars
  BY <1>25 DEF vars, cpuVars, ep0Vars, sampleVars, ledVars, hostVars
<1>26. QED
  BY <1>1, <1>2, <1>3, <1>4, <1>5, <1>6, <1>7, <1>8, <1>9, <1>10, <1>11,
     <1>12, <1>13, <1>14, <1>15, <1>16, <1>17, <1>18, <1>19, <1>20, <1>21,
     <1>22, <1>23, <1>24, <1>25 DEF Next, Main, Host

LEMMA DataStep ==
  ASSUME Orderly, TypeInv, ControlInv, DataInv, [Next]_vars
  PROVE  DataInv'
<1>t. setupdat \in Requests /\ cmd \in Requests /\ ep0buf \in Data
  BY DEF TypeInv, TypeOK
<1>c. /\ CaseOf(setupdat) \in {"select", "handshake", "stop"}
      /\ CaseOf(setupdat) = "select" <=> setupdat \in {"ALT0", "ALT1"}
      /\ CaseOf(setupdat) = "stop" <=>
           setupdat \in VendorWithData \cup {"UNKNOWN"}
  BY <1>t, Cases
<1>a. /\ ActionOf(cmd, ep0buf) \in {"volt_read", "apply", "reset", "handshake"}
      /\ ActionOf(cmd, ep0buf) = "reset" => cmd = "TRIGGER" /\ ep0buf = 1
  BY <1>t, Actions
<1> USE DEF ControlInv, Vendor, DataInv, Early, ActPcs
<1>1. CASE Poll
  BY <1>1 DEF Poll, Step, OnlyCpu, ep0Vars, sampleVars, ledVars, hostVars
<1>2. CASE Dispatch
  BY <1>2, <1>c DEF Dispatch, Step, OnlyCpu, ep0Vars, sampleVars, ledVars,
    hostVars
<1>3. CASE SelectInterface
  BY <1>3 DEF SelectInterface, Step, OnlySampling, ep0Vars, ledVars,
    hostVars
<1>4. CASE StopSampling
  BY <1>4 DEF StopSampling, Step, OnlySampling, ep0Vars, ledVars, hostVars
<1>5. CASE LedRed
  BY <1>5 DEF LedRed, Step, OnlyLed, ep0Vars, sampleVars, hostVars
<1>6. CASE SetTimeout
  BY <1>6 DEF SetTimeout, Step, OnlyLed, AfterTimeout, WriteHigh,
    WriteLow, ep0Vars, sampleVars, hostVars
<1>7. CASE Arm
  BY <1>7 DEF Arm, Step, OnlyEp0, sampleVars, ledVars, hostVars
<1>8. CASE Wait
  BY <1>8, <1>a DEF Wait, Step, OnlyCpu, ep0Vars, sampleVars, ledVars,
    hostVars
<1>9. CASE Apply
  BY <1>9 DEF Apply, Step, OnlySampling, ep0Vars, ledVars, hostVars
<1>10. CASE VoltRead
  BY <1>10 DEF VoltRead, Step, OnlyCpu, ep0Vars, sampleVars, ledVars,
    hostVars
<1>11. CASE VoltWrite
  BY <1>11 DEF VoltWrite, Step, ep0Vars, hostVars
<1>12. CASE ClearFifo
  BY <1>12 DEF ClearFifo, Step, OnlySampling, ep0Vars, ledVars, hostVars
<1>13. CASE Trigger
  BY <1>13 DEF Trigger, Step, OnlySampling, ep0Vars, ledVars, hostVars
<1>14. CASE LedGreen
  BY <1>14 DEF LedGreen, Step, OnlyLed, ep0Vars, sampleVars, hostVars
<1>15. CASE ZeroCounter
  BY <1>15 DEF ZeroCounter, Step, OnlyLed, WriteHigh, WriteLow, ep0Vars,
    sampleVars, hostVars
<1>16. CASE Refuse
  BY <1>16 DEF Refuse, Step, OnlyEp0, sampleVars, ledVars, hostVars
<1>17. CASE Handshake
  BY <1>17 DEF Handshake, Step, OnlyEp0, sampleVars, ledVars, hostVars
<1>18. CASE SudavIsr
  BY <1>18 DEF SudavIsr, ep0Vars, sampleVars, ledVars, hostVars
<1>19. CASE Timer2Isr
  BY <1>19 DEF Timer2Isr, CountDown, Counting, Expires, cpuVars, ep0Vars,
    sampleVars, ledVars, hostVars
<1>20. CASE Sample
  BY <1>20 DEF Sample, cpuVars, ep0Vars, ledVars, hostVars
<1>21. CASE BulkIn
  BY <1>21 DEF BulkIn, cpuVars, ep0Vars, ledVars, hostVars
<1>22. CASE \E r \in Used : HostSetup(r)
  BY <1>22 DEF HostSetup, sampleVars, ledVars
<1>23. CASE \E value \in Data : HostData(value)
  BY <1>23 DEF HostData, cpuVars, sampleVars, ledVars
<1>24. CASE HostEnds
  BY <1>24 DEF Orderly, HostEnds, cpuVars, ep0Vars, sampleVars, ledVars
<1>25. CASE UNCHANGED vars
  BY <1>25 DEF vars, cpuVars, ep0Vars, sampleVars, ledVars, hostVars
<1>26. QED
  BY <1>1, <1>2, <1>3, <1>4, <1>5, <1>6, <1>7, <1>8, <1>9, <1>10, <1>11,
     <1>12, <1>13, <1>14, <1>15, <1>16, <1>17, <1>18, <1>19, <1>20, <1>21,
     <1>22, <1>23, <1>24, <1>25 DEF Next, Main, Host

THEOREM ControlInvariant ==
  ASSUME Orderly
  PROVE  Spec => [](ControlInv /\ DataInv)
<1>1. Init => ControlInv /\ DataInv
  BY DEF Init, ControlInv, DataInv, Early, Vendor, ActPcs
<1>2. /\ TypeInv /\ ControlInv /\ [Next]_vars => ControlInv'
      /\ TypeInv /\ ControlInv /\ DataInv /\ [Next]_vars => DataInv'
  BY ControlStep, DataStep
<1>3. QED
  BY <1>1, <1>2, TypesInvariant, PTL DEF Spec

(* OWN DATA, for every such host: what a vendor command acts on is the     *)
(* data stage of the transfer that it came with (scope.inc:335-366).       *)
THEOREM ActsOnOwnDataHolds ==
  ASSUME Orderly
  PROVE  Spec => []ActsOnOwnData
<1>1. ControlInv /\ DataInv => ActsOnOwnData
  BY DEF ControlInv, DataInv, ActsOnOwnData, ActPcs
<1>2. QED
  BY <1>1, ControlInvariant, PTL

-----------------------------------------------------------------------------
(* An orderly host that selects an interface only while it is not sampling. *)

StreamInv ==
  /\ engine # "off" => streaming /\ engine = Selected
  /\ main \in {"reset", "trigger"} => streaming
  /\ main = "wait" /\ ~busy /\ cmd = "TRIGGER" /\ ep0buf = 1 => streaming
  /\ (irq \/ dosud \/ main \in {"dispatch", "select"})
        /\ setupdat \in {"ALT0", "ALT1"} => ~streaming

LEMMA StreamStep ==
  ASSUME Orderly, Careless = FALSE,
         TypeInv, SamplingInv, ControlInv, DataInv, StreamInv, [Next]_vars
  PROVE  StreamInv'
<1>t. setupdat \in Requests /\ cmd \in Requests /\ ep0buf \in Data
  BY DEF TypeInv, TypeOK
<1>c. /\ CaseOf(setupdat) \in {"select", "handshake", "stop"}
      /\ CaseOf(setupdat) = "select" <=> setupdat \in {"ALT0", "ALT1"}
      /\ CaseOf(setupdat) = "stop" <=>
           setupdat \in VendorWithData \cup {"UNKNOWN"}
  BY <1>t, Cases
<1>a. /\ ActionOf(cmd, ep0buf) \in {"volt_read", "apply", "reset", "handshake"}
      /\ ActionOf(cmd, ep0buf) = "reset" => cmd = "TRIGGER" /\ ep0buf = 1
  BY <1>t, Actions
<1> USE DEF StreamInv, Selected
<1>1. CASE Poll
  BY <1>1 DEF Poll, Step, OnlyCpu, ep0Vars, sampleVars, ledVars, hostVars
<1>2. CASE Dispatch
  BY <1>2, <1>c DEF Dispatch, Step, OnlyCpu, ep0Vars, sampleVars, ledVars,
    hostVars
<1>3. CASE SelectInterface
  <2>1. engine = "off"
    BY <1>3 DEF SelectInterface, Step, ControlInv
  <2>2. QED
    BY <1>3, <2>1 DEF SelectInterface, Step, OnlySampling, ep0Vars,
      ledVars, hostVars
<1>4. CASE StopSampling
  BY <1>4 DEF StopSampling, Step, OnlySampling, ep0Vars, ledVars, hostVars
<1>5. CASE LedRed
  BY <1>5 DEF LedRed, Step, OnlyLed, ep0Vars, sampleVars, hostVars
<1>6. CASE SetTimeout
  BY <1>6 DEF SetTimeout, Step, OnlyLed, AfterTimeout, WriteHigh,
    WriteLow, ep0Vars, sampleVars, hostVars
<1>7. CASE Arm
  BY <1>7 DEF Arm, Step, OnlyEp0, sampleVars, ledVars, hostVars
<1>8. CASE Wait
  BY <1>8, <1>a DEF Wait, Step, OnlyCpu, ep0Vars, sampleVars, ledVars,
    hostVars
<1>9. CASE Apply
  BY <1>9 DEF Apply, Step, OnlySampling, ep0Vars, ledVars, hostVars
<1>10. CASE VoltRead
  BY <1>10 DEF VoltRead, Step, OnlyCpu, ep0Vars, sampleVars, ledVars,
    hostVars
<1>11. CASE VoltWrite
  BY <1>11 DEF VoltWrite, Step, ep0Vars, hostVars
<1>12. CASE ClearFifo
  BY <1>12 DEF ClearFifo, Step, OnlySampling, ep0Vars, ledVars, hostVars
<1>13. CASE Trigger
  BY <1>13 DEF Trigger, Step, OnlySampling, ep0Vars, ledVars, hostVars
<1>14. CASE LedGreen
  BY <1>14 DEF LedGreen, Step, OnlyLed, ep0Vars, sampleVars, hostVars
<1>15. CASE ZeroCounter
  BY <1>15 DEF ZeroCounter, Step, OnlyLed, WriteHigh, WriteLow, ep0Vars,
    sampleVars, hostVars
<1>16. CASE Refuse
  BY <1>16 DEF Refuse, Step, OnlyEp0, sampleVars, ledVars, hostVars
<1>17. CASE Handshake
  BY <1>17 DEF Handshake, Step, OnlyEp0, sampleVars, ledVars, hostVars
<1>18. CASE SudavIsr
  BY <1>18 DEF SudavIsr, ep0Vars, sampleVars, ledVars, hostVars
<1>19. CASE Timer2Isr
  BY <1>19 DEF Timer2Isr, CountDown, Counting, Expires, cpuVars, ep0Vars,
    sampleVars, ledVars, hostVars
<1>20. CASE Sample
  BY <1>20 DEF Sample, cpuVars, ep0Vars, ledVars, hostVars
<1>21. CASE BulkIn
  BY <1>21 DEF BulkIn, cpuVars, ep0Vars, ledVars, hostVars
<1>22. CASE \E r \in Used : HostSetup(r)
  <2>1. main \in {"poll", "handshake"}
    BY <1>22 DEF HostSetup, ControlInv
  <2>2. QED
    BY <1>22, <2>1 DEF HostSetup, sampleVars, ledVars
<1>23. CASE \E value \in Data : HostData(value)
  <2>1. /\ main = "wait" /\ engine = "off" /\ cmd = setupdat
        /\ ~irq /\ ~dosud
    BY <1>23 DEF HostData, ControlInv, DataInv, SamplingInv, AfterStop
  <2>2. cmd = "TRIGGER" /\ ep0buf' = 1 => streaming'
    BY <1>23, <2>1 DEF HostData
  <2>3. QED
    BY <1>23, <2>1, <2>2 DEF HostData, cpuVars, sampleVars, ledVars
<1>24. CASE HostEnds
  BY <1>24 DEF HostEnds, cpuVars, ep0Vars, sampleVars, ledVars
<1>25. CASE UNCHANGED vars
  BY <1>25 DEF vars, cpuVars, ep0Vars, sampleVars, ledVars, hostVars
<1>26. QED
  BY <1>1, <1>2, <1>3, <1>4, <1>5, <1>6, <1>7, <1>8, <1>9, <1>10, <1>11,
     <1>12, <1>13, <1>14, <1>15, <1>16, <1>17, <1>18, <1>19, <1>20, <1>21,
     <1>22, <1>23, <1>24, <1>25 DEF Next, Main, Host

(* ENDPOINT, for every such host: the engine never fills an endpoint that  *)
(* is switched off (scope.inc:134, 154).                                   *)
THEOREM EngineFeedsSelectedHolds ==
  ASSUME Orderly, Careless = FALSE
  PROVE  Spec => []EngineFeedsSelected
<1>1. Init => StreamInv
  BY DEF Init, StreamInv
<1>2. TypeInv /\ SamplingInv /\ ControlInv /\ DataInv /\ StreamInv
        /\ [Next]_vars => StreamInv'
  BY StreamStep
<1>3. StreamInv => EngineFeedsSelected
  BY DEF StreamInv, EngineFeedsSelected
<1>4. QED
  BY <1>1, <1>2, <1>3, TypesInvariant, SamplingInvariant, ControlInvariant,
     PTL DEF Spec
=============================================================================
