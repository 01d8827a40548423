--------------------------- MODULE Setupdat_proofs ---------------------------
(***************************************************************************)
(* Proofs about the standard requests, for every set of requests that the  *)
(* host makes and with bus resets and speed changes at any time.           *)
(***************************************************************************)
EXTENDS Setupdat, TLAPS

-----------------------------------------------------------------------------
(* The registers of EP0 and EP2. *)

LEMMA EndpointZero == Register(0) = 0 /\ Register(128) = 0
BY DEF Register

LEMMA Ep2In == Register(128 + Bulk) = Bulk
BY DEF Register, Bulk

(* Only the two directions of EP2 share its register. *)
LEMMA Ep2Only ==
  ASSUME NEW i \in 0 .. 254, Register(i) = Bulk PROVE i \in {Bulk, 128 + Bulk}
<1>1. CASE i < 128
  <2>1. i % 128 = i
    BY <1>1
  <2> QED
    BY <2>1 DEF Register, Bulk, NULL
<1>2. CASE i >= 128
  <2>1. i % 128 = i - 128
    BY <1>2
  <2> QED
    BY <1>2, <2>1 DEF Register, Bulk, NULL
<1> QED
  BY <1>1, <1>2

-----------------------------------------------------------------------------
(* A request and the host's transfer. *)

\* The request in SETUPDAT has not been acted on.
Before == "sudav" \in irq \/ (got_sud /\ main \in {"poll", "dispatch"})

StageInv ==
  /\ setupdat \in Requests
  /\ believed \in Picture
  /\ toggle \in {0, 1} /\ stall \in BOOLEAN
  /\ main \in {"poll", "dispatch", "low", "handshake", "clear_sud"}
  /\ main # "poll" => got_sud
  /\ "sudav" \in irq => ~got_sud
  /\ ctl # "idle" /\ Before => hsnak /\ ~stall

LEMMA Asking == ASSUME NEW r \in Asked PROVE r \in Requests
  BY SetupdatAssumption

(* The requests by their codes. *)
LEMMA RequestTypes ==
  ASSUME NEW r \in Requests, r.code \in {"CLEAR_FEATURE", "SET_FEATURE"}
  PROVE  r.index \in Indices /\ r.value \in 0 .. 2
<1>1. r \in [code : {"CLEAR_FEATURE", "SET_FEATURE"}, to : Recipients,
             value : 0 .. 2, index : Indices]
  <2> HIDE DEF Recipients
  <2> QED
    BY DEF Requests
<1> QED
  BY <1>1

LEMMA LearnsType ==
  ASSUME believed \in Picture, NEW r \in Requests PROVE Learns(r) \in Picture
<1> USE DEF Picture, Learns
<1>1. CASE r.code = "SET_FEATURE" /\ r.to = "endpoint" /\ r.value = 0
  <2>1. r.index \in Indices
    BY <1>1, RequestTypes
  <2>2. Register(r.index) \in {Register(i) : i \in Indices}
    BY <2>1
  <2>3. believed.halted \cup {Register(r.index)}
          \in SUBSET {Register(i) : i \in Indices}
    BY <2>2
  <2>4. Learns(r) = [believed EXCEPT !.halted = @ \cup {Register(r.index)}]
    BY <1>1
  <2> QED
    BY <2>3, <2>4
<1>2. CASE r.code = "CLEAR_FEATURE" /\ r.to = "endpoint" /\ r.value = 0
  <2>1. believed.halted \ {Register(r.index)}
          \in SUBSET {Register(i) : i \in Indices}
    OBVIOUS
  <2>2. (IF r.index = 128 + Bulk THEN 0 ELSE believed.toggle) \in {0, 1}
    OBVIOUS
  <2>3. Learns(r) =
          [believed EXCEPT !.halted = @ \ {Register(r.index)},
             !.toggle = IF r.index = 128 + Bulk THEN 0 ELSE @]
    BY <1>2
  <2> QED
    BY <2>1, <2>2, <2>3
<1>3. CASE ~(r.code \in {"SET_FEATURE", "CLEAR_FEATURE"}
             /\ r.to = "endpoint" /\ r.value = 0)
  BY <1>3
<1> QED
  BY <1>1, <1>2, <1>3

LEMMA StageStep == ASSUME StageInv, [Next]_vars PROVE StageInv'
<1> USE DEF StageInv, Before
<1>1. CASE Poll \/ GetDescriptor \/ SendDescriptor \/ Handshake \/ ClearSud
  BY <1>1
  DEF Poll, GetDescriptor, SendDescriptor, Handshake, ClearSud, Step, ep0Vars,
      deviceVars, configVars, hostVars
<1>2. CASE Dispatch
  <2>1. /\ main = "dispatch" /\ main' = "handshake"
        /\ UNCHANGED <<irq, got_sud, believed, ctl>>
    BY <1>2 DEF Dispatch, Step, hostVars
  <2>2. /\ setupdat' = setupdat
        /\ toggle' \in {0, toggle}
    BY <1>2
    DEF Dispatch, GetStatus, SetFeature, SetTestMode, ClearFeature,
        GetConfiguration, SetConfiguration, GetInterface, SetInterface, Refuse,
        Reply, SetDeviceFeature, Halt, Unhalt, ep0Vars, deviceVars
  <2>3. stall' \in BOOLEAN
    BY <1>2
    DEF Dispatch, GetStatus, SetFeature, SetTestMode, ClearFeature,
        GetConfiguration, SetConfiguration, GetInterface, SetInterface, Refuse,
        Reply, SetDeviceFeature, Halt, Unhalt, ep0Vars
  <2> QED
    BY <2>1, <2>2, <2>3
<1>3. CASE SudavIsr
  <2>1. /\ UNCHANGED <<main, setupdat, believed, toggle, stall, ctl, hsnak>>
        /\ got_sud' = TRUE
    BY <1>3
    DEF SudavIsr, Acknowledge, ep0Vars, deviceVars, hostVars
  <2>2. "sudav" \in irq /\ "sudav" \notin irq'
    BY <1>3 DEF SudavIsr, Acknowledge
  <2> QED
    BY <2>1, <2>2
<1>10. CASE UsbresetIsr \/ HispeedIsr
  <2>1. UNCHANGED <<main, setupdat, believed, toggle, stall, ctl, hsnak,
                    got_sud>>
    BY <1>10
    DEF UsbresetIsr, HispeedIsr, Acknowledge, ep0Vars, deviceVars, hostVars
  <2>2. ("sudav" \in irq') <=> ("sudav" \in irq)
    BY <1>10 DEF UsbresetIsr, HispeedIsr, Acknowledge
  <2> QED
    BY <2>1, <2>2
<1>4. CASE \E r \in Asked : HostSetup(r)
  <2>1. PICK r \in Asked : HostSetup(r)
    BY <1>4
  <2>2. /\ UNCHANGED <<main, got_sud, believed, toggle>>
        /\ main = "poll" /\ got_sud = FALSE
        /\ stall' = FALSE /\ hsnak' = TRUE
    BY <2>1 DEF HostSetup, Settled, deviceVars
  <2>3. setupdat' \in Requests
    BY <2>1, Asking DEF HostSetup
  <2> QED
    BY <2>2, <2>3
<1>5. CASE HostReads \/ HostStalled
  BY <1>5 DEF HostReads, HostStalled, ep0Vars, deviceVars
<1>6. CASE HostCompletes
  <2>1. believed' \in Picture
    BY <1>6, LearnsType DEF HostCompletes
  <2> QED
    BY <1>6, <2>1 DEF HostCompletes, ep0Vars, deviceVars
<1>7. CASE BulkIn
  <2>1. toggle' \in {0, 1}
    BY <1>7 DEF BulkIn
  <2>2. believed' \in Picture
    <3>1. 1 - believed.toggle \in {0, 1}
      BY DEF Picture
    <3> QED
      BY <1>7, <3>1 DEF BulkIn, Picture
  <2> QED
    BY <1>7, <2>1, <2>2 DEF BulkIn, ep0Vars
<1>8. CASE \E s \in Speeds : BusReset(s)
  <2>1. believed' = [believed EXCEPT !.halted = {}, !.toggle = 0,
                                     !.sure = @ /\ Quiet]
    BY <1>8 DEF BusReset
  <2>2. (believed.sure /\ Quiet) \in BOOLEAN
    OBVIOUS
  <2>3. believed' \in Picture
    BY <2>1, <2>2 DEF Picture
  <2>4. /\ UNCHANGED <<main, got_sud, setupdat>> /\ ctl' = "idle"
        /\ toggle' = 0 /\ stall' = FALSE
    BY <1>8 DEF BusReset
  <2>5. ("sudav" \in irq') <=> ("sudav" \in irq)
    BY <1>8 DEF BusReset
  <2> QED
    BY <2>3, <2>4, <2>5
<1>9. CASE UNCHANGED vars
  BY <1>9 DEF vars, ep0Vars, deviceVars, hostVars
<1> QED
  BY <1>1, <1>2, <1>3, <1>10, <1>4, <1>5, <1>6, <1>7, <1>8, <1>9
  DEF Next, Main, Host

(* Steps that leave the request where it is. *)
LEMMA BeforeKept ==
  ASSUME StageInv,
         Poll \/ SendDescriptor \/ Handshake \/ ClearSud \/ HostReads
           \/ SudavIsr \/ UsbresetIsr \/ HispeedIsr \/ UNCHANGED vars
  PROVE  Before' <=> Before
<1>1. CASE Poll \/ SendDescriptor \/ Handshake \/ ClearSud \/ HostReads
             \/ UNCHANGED vars
  BY <1>1
  DEF Poll, SendDescriptor, Handshake, ClearSud, HostReads, vars, Step,
      Before, StageInv
<1>2. CASE SudavIsr
  <2>1. /\ "sudav" \in irq /\ got_sud' = TRUE /\ main' = main
    BY <1>2 DEF SudavIsr, Acknowledge
  <2>2. main = "poll"
    BY <2>1 DEF StageInv
  <2> QED
    BY <2>1, <2>2 DEF Before
<1>3. CASE UsbresetIsr \/ HispeedIsr
  <2>1. ("sudav" \in irq') <=> ("sudav" \in irq)
    BY <1>3 DEF UsbresetIsr, HispeedIsr, Acknowledge
  <2>2. got_sud' = got_sud /\ main' = main
    BY <1>3 DEF UsbresetIsr, HispeedIsr, Acknowledge
  <2> QED
    BY <2>1, <2>2 DEF Before
<1> QED
  BY <1>1, <1>2, <1>3

-----------------------------------------------------------------------------
(* The picture. *)

DeviceTrue ==
  /\ halted = believed.halted
  /\ remote_wakeup_allowed = believed.wakeup

\* The device is what the host will believe it to be after the transfer.
Learnt ==
  /\ halted = Learns(setupdat).halted
  /\ remote_wakeup_allowed = Learns(setupdat).wakeup

PictureInv ==
  believed.sure =>
    /\ ctl = "idle" => ~Before /\ DeviceTrue
    /\ ctl # "idle" /\ Before => DeviceTrue
    /\ ctl # "idle" /\ ~Before => IF stall THEN DeviceTrue ELSE Learnt

(* What a completed request teaches the host, kind by kind. *)
LEMMA LearnsFields ==
  ASSUME believed \in Picture, NEW r \in Requests
  PROVE  /\ Learns(r).sure = believed.sure
         /\ Learns(r).halted =
              IF r.code = "SET_FEATURE" /\ r.to = "endpoint" /\ r.value = 0
                THEN believed.halted \cup {Register(r.index)}
              ELSE IF r.code = "CLEAR_FEATURE" /\ r.to = "endpoint"
                      /\ r.value = 0
                THEN believed.halted \ {Register(r.index)}
              ELSE believed.halted
         /\ Learns(r).wakeup =
              IF r.code \in {"SET_FEATURE", "CLEAR_FEATURE"}
                 /\ r.to = "device" /\ r.value = 1
                THEN r.code = "SET_FEATURE" ELSE believed.wakeup
<1> DEFINE set == r.code = "SET_FEATURE" /\ r.to = "endpoint" /\ r.value = 0
           clear == r.code = "CLEAR_FEATURE" /\ r.to = "endpoint"
                      /\ r.value = 0
           wakeup == r.code \in {"SET_FEATURE", "CLEAR_FEATURE"}
                      /\ r.to = "device" /\ r.value = 1
<1>1. CASE set
  <2>1. Learns(r) = [believed EXCEPT !.halted = @ \cup {Register(r.index)}]
    BY <1>1 DEF Learns
  <2> QED
    BY <1>1, <2>1 DEF Picture
<1>2. CASE clear
  <2>1. Learns(r) =
          [believed EXCEPT !.halted = @ \ {Register(r.index)},
             !.toggle = IF r.index = 128 + Bulk THEN 0 ELSE @]
    BY <1>2 DEF Learns
  <2> QED
    BY <1>2, <2>1 DEF Picture
<1>3. CASE wakeup
  <2>1. Learns(r) = [believed EXCEPT !.wakeup = r.code = "SET_FEATURE"]
    BY <1>3 DEF Learns
  <2> QED
    BY <1>3, <2>1 DEF Picture
<1>4. CASE ~set /\ ~clear /\ ~wakeup
  <2>1. Learns(r) \in {believed, [believed EXCEPT !.toggle = 0]}
    BY <1>4 DEF Learns
  <2> QED
    BY <1>4, <2>1 DEF Picture
<1> QED
  BY <1>1, <1>2, <1>3, <1>4

LEMMA DispatchTeaches ==
  ASSUME StageInv, Dispatch, DeviceTrue, ~stall
  PROVE  IF stall' THEN DeviceTrue' ELSE Learnt'
<1> DEFINE r == setupdat
<1>1. believed' = believed /\ setupdat' = setupdat
  BY DEF Dispatch, GetStatus, SetFeature, SetTestMode, ClearFeature, Step,
         GetConfiguration, SetConfiguration, GetInterface, SetInterface,
         Refuse, Reply, SetDeviceFeature, Halt, Unhalt, ep0Vars, hostVars
<1>2. Learnt' <=> /\ halted' = Learns(r).halted
                  /\ remote_wakeup_allowed' = Learns(r).wakeup
  BY <1>1 DEF Learnt, Learns
<1>3. DeviceTrue' <=> halted' = halted
                        /\ remote_wakeup_allowed' = remote_wakeup_allowed
  BY <1>1 DEF DeviceTrue
<1>4. believed \in Picture /\ r \in Requests
  BY DEF StageInv
<1>5. CASE GetStatus \/ SetTestMode \/ GetConfiguration \/ SetConfiguration
             \/ GetInterface \/ SetInterface
  <2>1. UNCHANGED <<halted, remote_wakeup_allowed, stall>>
    BY <1>5
    DEF GetStatus, SetTestMode, GetConfiguration, SetConfiguration,
        GetInterface, SetInterface, Reply, ep0Vars, deviceVars
  <2>2. \/ r.code \notin {"SET_FEATURE", "CLEAR_FEATURE"}
        \/ r.to = "device" /\ r.value = 2
    BY <1>5
    DEF GetStatus, SetTestMode, GetConfiguration, SetConfiguration,
        GetInterface, SetInterface, Request, To
  <2>3. Learns(r).halted = believed.halted
          /\ Learns(r).wakeup = believed.wakeup
    <3>1. /\ ~(r.code = "SET_FEATURE" /\ r.to = "endpoint" /\ r.value = 0)
          /\ ~(r.code = "CLEAR_FEATURE" /\ r.to = "endpoint" /\ r.value = 0)
          /\ ~(r.code \in {"SET_FEATURE", "CLEAR_FEATURE"}
                /\ r.to = "device" /\ r.value = 1)
      BY <2>2
    <3> QED
      BY <1>4, <3>1, LearnsFields
  <2>4. Learnt'
    BY <1>2, <2>1, <2>3 DEF DeviceTrue
  <2> QED
    BY <2>1, <2>4
<1>6. CASE \E b \in BOOLEAN : /\ SetDeviceFeature(b)
                              /\ Request("SET_FEATURE") <=> b
                              /\ r.code \in {"SET_FEATURE", "CLEAR_FEATURE"}
  <2>1. PICK b \in BOOLEAN : /\ SetDeviceFeature(b)
                             /\ (r.code = "SET_FEATURE") <=> b
                             /\ r.code \in {"SET_FEATURE", "CLEAR_FEATURE"}
    BY <1>6 DEF Request
  <2>2. /\ stall' = stall /\ halted' = halted
        /\ remote_wakeup_allowed' = b
        /\ r.to = "device" /\ r.value = 1
    BY <2>1 DEF SetDeviceFeature, To, ep0Vars
  <2>3. Learns(r).halted = believed.halted
          /\ Learns(r).wakeup = (r.code = "SET_FEATURE")
    BY <1>4, <2>1, <2>2, LearnsFields
  <2>4. (r.code = "SET_FEATURE") = b
    BY <2>1
  <2> QED
    BY <1>2, <2>2, <2>3, <2>4 DEF DeviceTrue
<1>7. CASE /\ Request("SET_FEATURE") /\ To("endpoint") /\ r.value = 0
           /\ Halt
  <2>1. /\ stall' = (stall \/ Register(r.index) = 0)
        /\ halted' = halted \cup ({Register(r.index)} \ {0})
        /\ remote_wakeup_allowed' = remote_wakeup_allowed
    BY <1>7 DEF Halt, Named
  <2>2. Learns(r).halted = believed.halted \cup {Register(r.index)}
          /\ Learns(r).wakeup = believed.wakeup
    BY <1>4, <1>7, LearnsFields DEF Request, To
  <2>3. CASE Register(r.index) = 0
    BY <1>3, <2>1, <2>3
  <2>4. CASE Register(r.index) # 0
    BY <1>2, <2>1, <2>2, <2>4 DEF DeviceTrue
  <2> QED
    BY <2>3, <2>4
<1>8. CASE /\ Request("CLEAR_FEATURE") /\ To("endpoint") /\ r.value = 0
           /\ Unhalt
  <2>1. /\ stall' = (stall /\ Register(r.index) # 0)
        /\ halted' = halted \ {Register(r.index)}
        /\ remote_wakeup_allowed' = remote_wakeup_allowed
    BY <1>8 DEF Unhalt, Named
  <2>2. Learns(r).halted = believed.halted \ {Register(r.index)}
          /\ Learns(r).wakeup = believed.wakeup
    BY <1>4, <1>8, LearnsFields DEF Request, To
  <2> QED
    BY <1>2, <2>1, <2>2 DEF DeviceTrue
<1>9. CASE Refuse
  BY <1>3, <1>9 DEF Refuse, deviceVars
<1> QED
  BY <1>5, <1>6, <1>7, <1>8, <1>9
  DEF Dispatch, SetFeature, ClearFeature, Request

LEMMA PictureStep ==
  ASSUME StageInv, PictureInv, [Next]_vars PROVE PictureInv'
<1> USE DEF PictureInv, StageInv
<1>1. CASE Poll \/ SendDescriptor \/ Handshake \/ ClearSud
             \/ HostReads \/ UNCHANGED vars
  <2>1. UNCHANGED <<halted, remote_wakeup_allowed, setupdat, believed, stall>>
    BY <1>1
    DEF Poll, SendDescriptor, Handshake, ClearSud, HostReads, vars, Step,
        ep0Vars, deviceVars, hostVars
  <2>2. (ctl' = "idle") <=> (ctl = "idle")
    BY <1>1
    DEF Poll, SendDescriptor, Handshake, ClearSud, HostReads, vars, Step,
        hostVars
  <2>3. Before' <=> Before
    BY <1>1, BeforeKept
  <2>4. (DeviceTrue' <=> DeviceTrue) /\ (Learnt' <=> Learnt)
    BY <2>1 DEF DeviceTrue, Learnt, Learns
  <2> QED
    BY <2>1, <2>2, <2>3, <2>4
<1>2. CASE Dispatch \/ GetDescriptor
  <2>1. /\ main = "dispatch" /\ got_sud /\ "sudav" \notin irq
        /\ main' \in {"low", "handshake"} /\ "sudav" \notin irq'
        /\ UNCHANGED <<believed, ctl>>
    BY <1>2 DEF Dispatch, GetDescriptor, Step, hostVars
  <2>2. Before /\ ~Before'
    BY <2>1 DEF Before
  <2> SUFFICES ASSUME believed.sure, ctl # "idle"
               PROVE  IF stall' THEN DeviceTrue' ELSE Learnt'
    BY <2>1, <2>2
  <2>3. DeviceTrue /\ ~stall
    BY <2>2
  <2>4. CASE Dispatch
    BY <2>3, <2>4, DispatchTeaches
  <2>5. CASE GetDescriptor
    <3>0. setupdat.code = "GET_DESCRIPTOR"
      BY <2>5, Zenon DEF GetDescriptor, HasDescriptor, Request
    <3>1. UNCHANGED <<halted, remote_wakeup_allowed, setupdat, stall>>
      BY <2>5 DEF GetDescriptor, deviceVars
    <3>2. Learns(setupdat).halted = believed.halted
            /\ Learns(setupdat).wakeup = believed.wakeup
      BY <3>0, LearnsFields
    <3>3. Learnt' <=> /\ halted' = Learns(setupdat).halted
                      /\ remote_wakeup_allowed' = Learns(setupdat).wakeup
      BY <2>1, <3>1 DEF Learnt, Learns
    <3> QED
      BY <2>3, <3>1, <3>2, <3>3 DEF DeviceTrue
  <2> QED
    BY <1>2, <2>4, <2>5
<1>3. CASE SudavIsr \/ UsbresetIsr \/ HispeedIsr
  <2>1. UNCHANGED <<halted, remote_wakeup_allowed, setupdat, believed, stall,
                    ctl>>
    BY <1>3
    DEF SudavIsr, UsbresetIsr, HispeedIsr, Acknowledge, ep0Vars, deviceVars,
        hostVars
  <2>2. Before' <=> Before
    BY <1>3, BeforeKept
  <2>3. (DeviceTrue' <=> DeviceTrue) /\ (Learnt' <=> Learnt)
    BY <2>1 DEF DeviceTrue, Learnt, Learns
  <2> QED
    BY <2>1, <2>2, <2>3
<1>4. CASE \E r \in Asked : HostSetup(r)
  <2>1. /\ UNCHANGED <<halted, remote_wakeup_allowed, believed>>
        /\ ctl = "idle" /\ ctl' # "idle" /\ "sudav" \in irq'
    BY <1>4 DEF HostSetup, deviceVars
  <2>2. Before' /\ (DeviceTrue' <=> DeviceTrue)
    BY <2>1 DEF Before, DeviceTrue
  <2> QED
    BY <2>1, <2>2
<1>5. CASE HostCompletes
  <2>1. /\ UNCHANGED <<halted, remote_wakeup_allowed, main, got_sud, irq>>
        /\ ctl # "idle" /\ ctl' = "idle" /\ ~hsnak /\ ~stall
        /\ believed' = Learns(setupdat)
    BY <1>5 DEF HostCompletes, deviceVars
  <2>2. ~Before /\ ~Before'
    BY <2>1 DEF Before
  <2>3. believed'.sure => believed.sure
    BY <2>1, LearnsFields
  <2>4. DeviceTrue' <=> Learnt
    BY <2>1 DEF DeviceTrue, Learnt
  <2> QED
    BY <2>1, <2>2, <2>3, <2>4
<1>6. CASE HostStalled
  <2>1. /\ UNCHANGED <<halted, remote_wakeup_allowed, main, got_sud, irq,
                       believed>>
        /\ ctl # "idle" /\ ctl' = "idle" /\ stall
    BY <1>6 DEF HostStalled, deviceVars
  <2>2. ~Before /\ ~Before' /\ (DeviceTrue' <=> DeviceTrue)
    BY <2>1 DEF Before, DeviceTrue
  <2> QED
    BY <2>1, <2>2
<1>7. CASE BulkIn
  <2>1. /\ UNCHANGED <<halted, remote_wakeup_allowed, main, got_sud, irq, ctl>>
        /\ ctl = "idle"
        /\ believed' \in {believed, [believed EXCEPT !.toggle = 1 - @]}
    BY <1>7 DEF BulkIn
  <2>2. /\ believed'.halted = believed.halted
        /\ believed'.wakeup = believed.wakeup
        /\ believed'.sure = believed.sure
    BY <2>1 DEF Picture
  <2>3. (Before' <=> Before) /\ (DeviceTrue' <=> DeviceTrue)
    BY <2>1, <2>2 DEF Before, DeviceTrue
  <2> QED
    BY <2>1, <2>2, <2>3
<1>8. CASE \E s \in Speeds : BusReset(s)
  <2>1. /\ halted' = {} /\ ctl' = "idle"
        /\ UNCHANGED <<remote_wakeup_allowed, main, got_sud>>
        /\ believed' = [believed EXCEPT !.halted = {}, !.toggle = 0,
                                        !.sure = @ /\ Quiet]
    BY <1>8 DEF BusReset
  <2>2. ("sudav" \in irq') <=> ("sudav" \in irq)
    BY <1>8 DEF BusReset
  <2>3. /\ believed'.halted = {} /\ believed'.wakeup = believed.wakeup
        /\ believed'.sure = (believed.sure /\ Quiet)
    BY <2>1 DEF Picture
  <2>4. Quiet => ctl = "idle"
    BY DEF Quiet
  <2>5. Before' <=> Before
    BY <2>1, <2>2 DEF Before
  <2>6. DeviceTrue => DeviceTrue'
    BY <2>1, <2>3 DEF DeviceTrue
  <2> QED
    BY <2>1, <2>3, <2>4, <2>5, <2>6
<1> QED
  BY <1>1, <1>2, <1>3, <1>4, <1>5, <1>6, <1>7, <1>8
  DEF Next, Main, Host

LEMMA StageInit == Init => StageInv /\ PictureInv
<1> SUFFICES ASSUME Init PROVE StageInv /\ PictureInv
  OBVIOUS
<1>1. setupdat \in Requests
  BY SetupdatAssumption DEF Init
<1>2. believed \in Picture
  BY DEF Init, Blank, Picture
<1>3. ~Before /\ DeviceTrue
  BY DEF Init, Before, DeviceTrue, Blank
<1> QED
  BY <1>1, <1>2, <1>3 DEF Init, StageInv, PictureInv, Before

(* For every host that waits for the main loop between two transfers,      *)
(* whatever it asks and whenever the bus is reset: an acknowledged request *)
(* took effect, a stalled one had none, and between transfers the device   *)
(* is what the host believes it to be (setupdat.c:76-128).                 *)
THEOREM PictureIsTrue == Spec => []PictureTrue
<1>1. StageInv /\ PictureInv /\ [Next]_vars => (StageInv /\ PictureInv)'
  BY StageStep, PictureStep
<1>2. PictureInv => PictureTrue
  BY DEF PictureInv, PictureTrue, DeviceTrue, Quiet
<1> QED
  BY StageInit, <1>1, <1>2, PTL DEF Spec

-----------------------------------------------------------------------------
(* The data toggle. *)

(* A driver that configures the device before it reads from it, and that   *)
(* calls EP2 by the address of its IN direction.                           *)
Driver == Reconfigures = FALSE /\ Bulk \notin Indices

Ep2Feature(code) ==
  /\ setupdat.code = code /\ setupdat.to = "endpoint"
  /\ setupdat.value = 0 /\ setupdat.index = 128 + Bulk

Acted == ctl # "idle" /\ ~Before /\ ~stall

\* The device has reset its toggle, and the host has yet to reset its own.
Transit ==
  Acted /\ (setupdat.code = "SET_INTERFACE" \/ Ep2Feature("CLEAR_FEATURE"))

ToggleInv ==
  /\ Bulk \in halted \/ Transit => toggle = 0
  /\ Bulk \notin halted /\ ~Transit => toggle = believed.toggle
  /\ ctl = "idle" /\ Before =>
       toggle = 0 /\ believed.toggle = 0 /\ believed.halted = {}
  /\ Bulk \in believed.halted =>
       Bulk \in halted \/ (Acted /\ Ep2Feature("CLEAR_FEATURE"))
  /\ ctl # "idle" /\ Before /\ Ep2Feature("CLEAR_FEATURE") => Bulk \in halted
  /\ Acted /\ Ep2Feature("SET_FEATURE") => Bulk \in halted
  /\ ctl # "idle" /\ setupdat.code = "SET_CONFIGURATION" =>
       believed.toggle = 0

LEMMA LearnsToggle ==
  ASSUME believed \in Picture, NEW r \in Requests
  PROVE  Learns(r).toggle =
           IF \/ r.code = "CLEAR_FEATURE" /\ r.to = "endpoint"
                /\ r.value = 0 /\ r.index = 128 + Bulk
              \/ r.code \in {"SET_INTERFACE", "SET_CONFIGURATION"}
           THEN 0 ELSE believed.toggle
<1> DEFINE clear == r.code = "CLEAR_FEATURE" /\ r.to = "endpoint"
                      /\ r.value = 0
           zero == r.code \in {"SET_INTERFACE", "SET_CONFIGURATION"}
<1>1. CASE clear
  <2>1. Learns(r) =
          [believed EXCEPT !.halted = @ \ {Register(r.index)},
             !.toggle = IF r.index = 128 + Bulk THEN 0 ELSE @]
    BY <1>1 DEF Learns
  <2> QED
    BY <1>1, <2>1 DEF Picture
<1>2. CASE zero
  <2>1. Learns(r) = [believed EXCEPT !.toggle = 0]
    BY <1>2 DEF Learns
  <2> QED
    BY <1>2, <2>1 DEF Picture
<1>3. CASE ~clear /\ ~zero
  <2>1. \/ Learns(r) = [believed EXCEPT !.halted = @ \cup {Register(r.index)}]
        \/ Learns(r) = [believed EXCEPT !.wakeup = r.code = "SET_FEATURE"]
        \/ Learns(r) = believed
    BY <1>3 DEF Learns
  <2> QED
    BY <1>3, <2>1 DEF Picture
<1> QED
  BY <1>1, <1>2, <1>3

LEMMA NamesEp2 ==
  ASSUME Driver, NEW r \in Requests,
         r.code \in {"CLEAR_FEATURE", "SET_FEATURE"}
  PROVE  Register(r.index) = Bulk <=> r.index = 128 + Bulk
<1>1. r.index \in Indices
  BY RequestTypes
<1>2. Indices \subseteq 0 .. 254
  BY SetupdatAssumption
<1>3. r.index \in 0 .. 254
  BY <1>1, <1>2
<1> QED
  BY <1>1, <1>3, Ep2Only, Ep2In DEF Driver

(* What the firmware does to EP2 when it acts on a request. *)
LEMMA DispatchToggles ==
  ASSUME Driver, StageInv, Dispatch
  PROVE  /\ UNCHANGED <<setupdat, believed, ctl>>
         /\ toggle' = 0 \/ toggle' = toggle
         /\ setupdat.code = "SET_INTERFACE" =>
              \/ toggle' = 0 /\ stall' = stall
              \/ toggle' = toggle /\ stall'
         /\ Ep2Feature("SET_FEATURE") =>
              Bulk \in halted' /\ toggle' = 0 /\ stall' = stall
         /\ Ep2Feature("CLEAR_FEATURE") =>
              Bulk \notin halted' /\ toggle' = toggle /\ stall' = stall
         /\ ~Ep2Feature("SET_FEATURE") /\ ~Ep2Feature("CLEAR_FEATURE") =>
              (Bulk \in halted' <=> Bulk \in halted)
         /\ setupdat.code # "SET_INTERFACE" /\ ~Ep2Feature("SET_FEATURE") =>
              toggle' = toggle
<1> DEFINE r == setupdat
<1>1. UNCHANGED <<setupdat, believed, ctl>>
  BY DEF Dispatch, GetStatus, SetFeature, SetTestMode, ClearFeature, Step,
         GetConfiguration, SetConfiguration, GetInterface, SetInterface,
         Refuse, Reply, SetDeviceFeature, Halt, Unhalt, ep0Vars, hostVars
<1>2. r \in Requests
  BY DEF StageInv
<1>3. CASE /\ UNCHANGED <<halted, toggle>>
           /\ ~Ep2Feature("SET_FEATURE") /\ ~Ep2Feature("CLEAR_FEATURE")
           /\ r.code # "SET_INTERFACE"
  BY <1>1, <1>3
<1>4. CASE GetStatus \/ SetTestMode \/ GetConfiguration \/ SetConfiguration
             \/ GetInterface
  <2>1. UNCHANGED <<halted, toggle>>
    BY <1>4
    DEF GetStatus, SetTestMode, GetConfiguration, SetConfiguration,
        GetInterface, deviceVars
  <2>2. r.code # "SET_INTERFACE"
          /\ (r.code \in {"SET_FEATURE", "CLEAR_FEATURE"} => r.to = "device")
    BY <1>4
    DEF GetStatus, SetTestMode, GetConfiguration, SetConfiguration,
        GetInterface, Request, To
  <2> QED
    BY <1>3, <2>1, <2>2 DEF Ep2Feature
<1>9. CASE \E b \in BOOLEAN : SetDeviceFeature(b) /\ r.code # "SET_INTERFACE"
  <2>1. UNCHANGED <<halted, toggle>> /\ r.to = "device"
    BY <1>9 DEF SetDeviceFeature, To
  <2> QED
    BY <1>3, <1>9, <2>1 DEF Ep2Feature
<1>5. CASE SetInterface
  <2>1. /\ toggle' = 0 /\ halted' = halted /\ stall' = stall
        /\ r.code = "SET_INTERFACE"
    BY <1>5 DEF SetInterface, Request, ep0Vars
  <2>2. ~Ep2Feature("SET_FEATURE") /\ ~Ep2Feature("CLEAR_FEATURE")
    BY <2>1 DEF Ep2Feature
  <2> QED
    BY <1>1, <2>1, <2>2
<1>6. CASE /\ Request("SET_FEATURE") /\ To("endpoint") /\ r.value = 0
           /\ Halt
  <2>1. /\ stall' = (stall \/ Register(r.index) = 0)
        /\ halted' = halted \cup ({Register(r.index)} \ {0})
        /\ toggle' = IF r.index = 128 + Bulk THEN 0 ELSE toggle
        /\ r.code = "SET_FEATURE" /\ r.to = "endpoint" /\ r.value = 0
    BY <1>6 DEF Halt, Named, Request, To
  <2>2. ~Ep2Feature("CLEAR_FEATURE")
    BY <2>1 DEF Ep2Feature
  <2>3. Register(r.index) = Bulk <=> r.index = 128 + Bulk
    BY <1>2, <2>1, NamesEp2
  <2>4. CASE r.index = 128 + Bulk
    <3>1. Register(r.index) = Bulk /\ Bulk # 0
      BY <2>3, <2>4 DEF Bulk
    <3>2. stall' = stall
      BY <2>1, <3>1 DEF StageInv
    <3>3. Bulk \in halted' /\ toggle' = 0
      BY <2>1, <2>4, <3>1
    <3>4. Ep2Feature("SET_FEATURE")
      BY <2>1, <2>4 DEF Ep2Feature
    <3> QED
      BY <1>1, <2>1, <2>2, <3>2, <3>3, <3>4
  <2>5. CASE r.index # 128 + Bulk
    <3>1. ~Ep2Feature("SET_FEATURE")
      BY <2>5 DEF Ep2Feature
    <3>2. Bulk \in halted' <=> Bulk \in halted
      BY <2>1, <2>3, <2>5
    <3> QED
      BY <1>1, <2>1, <2>2, <2>5, <3>1, <3>2
  <2> QED
    BY <2>4, <2>5
<1>7. CASE /\ Request("CLEAR_FEATURE") /\ To("endpoint") /\ r.value = 0
           /\ Unhalt
  <2>1. /\ stall' = (stall /\ Register(r.index) # 0)
        /\ halted' = halted \ {Register(r.index)}
        /\ toggle' = toggle
        /\ r.code = "CLEAR_FEATURE" /\ r.to = "endpoint" /\ r.value = 0
    BY <1>7 DEF Unhalt, Named, Request, To
  <2>2. ~Ep2Feature("SET_FEATURE")
    BY <2>1 DEF Ep2Feature
  <2>3. Register(r.index) = Bulk <=> r.index = 128 + Bulk
    BY <1>2, <2>1, NamesEp2
  <2>4. CASE r.index = 128 + Bulk
    <3>1. Register(r.index) = Bulk /\ Bulk # 0
      BY <2>3, <2>4 DEF Bulk
    <3>2. stall' = stall
      BY <2>1, <3>1 DEF StageInv
    <3>3. Bulk \notin halted'
      BY <2>1, <3>1
    <3>4. Ep2Feature("CLEAR_FEATURE")
      BY <2>1, <2>4 DEF Ep2Feature
    <3> QED
      BY <1>1, <2>1, <2>2, <3>2, <3>3, <3>4
  <2>5. CASE r.index # 128 + Bulk
    <3>1. ~Ep2Feature("CLEAR_FEATURE")
      BY <2>5 DEF Ep2Feature
    <3>2. Bulk \in halted' <=> Bulk \in halted
      BY <2>1, <2>3, <2>5
    <3> QED
      BY <1>1, <2>1, <2>2, <3>1, <3>2
  <2> QED
    BY <2>4, <2>5
<1>8. CASE Refuse
  <2>1. stall' = TRUE /\ UNCHANGED <<halted, toggle>>
    BY <1>8 DEF Refuse, deviceVars
  <2>2. ~Ep2Feature("SET_FEATURE") /\ ~Ep2Feature("CLEAR_FEATURE")
    <3>1. Unknown
      BY <1>8 DEF Refuse
    <3>2. Register(128 + Bulk) # NULL
      BY Ep2In DEF Bulk, NULL
    <3> QED
      BY <3>1, <3>2, Zenon DEF Unknown, Ep2Feature, Request, To, Named
  <2> QED
    BY <1>1, <2>1, <2>2
<1> QED
  BY <1>4, <1>5, <1>6, <1>7, <1>8, <1>9
  DEF Dispatch, SetFeature, ClearFeature, Request

LEMMA ToggleStep ==
  ASSUME Driver, StageInv, ToggleInv, [Next]_vars PROVE ToggleInv'
<1>1. CASE Poll \/ SendDescriptor \/ Handshake \/ ClearSud \/ HostReads
             \/ SudavIsr \/ UsbresetIsr \/ HispeedIsr \/ UNCHANGED vars
  <2>1. UNCHANGED <<halted, toggle, setupdat, believed, stall>>
    BY <1>1
    DEF Poll, SendDescriptor, Handshake, ClearSud, HostReads, SudavIsr,
        UsbresetIsr, HispeedIsr, vars, Step, Acknowledge, ep0Vars, deviceVars,
        hostVars
  <2>2. (ctl' = "idle") <=> (ctl = "idle")
    BY <1>1
    DEF Poll, SendDescriptor, Handshake, ClearSud, HostReads, SudavIsr,
        UsbresetIsr, HispeedIsr, vars, Step, Acknowledge, hostVars
  <2>3. Before' <=> Before
    BY <1>1, BeforeKept
  <2> QED
    BY <2>1, <2>2, <2>3 DEF ToggleInv, Transit, Acted, Ep2Feature
<1>2. CASE Dispatch
  <2>1. Before /\ ~Before'
    BY <1>2 DEF Dispatch, Step, Before, StageInv
  <2>2. ctl # "idle" => ~stall
    BY <2>1 DEF StageInv
  <2>3. stall' \in BOOLEAN
    BY <1>2, StageStep DEF StageInv
  <2> USE <1>2, <2>1, <2>2, DispatchToggles
      DEF ToggleInv, Transit, Acted, Ep2Feature
  <2>4. CASE Ep2Feature("SET_FEATURE")
    BY <2>4
  <2>5. CASE Ep2Feature("CLEAR_FEATURE")
    BY <2>5
  <2>6. CASE ~Ep2Feature("SET_FEATURE") /\ ~Ep2Feature("CLEAR_FEATURE")
    <3>1. /\ UNCHANGED <<setupdat, believed, ctl>>
          /\ (Bulk \in halted') <=> (Bulk \in halted)
          /\ toggle' = 0 \/ toggle' = toggle
      BY <2>6
    <3>2. ~Ep2Feature("SET_FEATURE")' /\ ~Ep2Feature("CLEAR_FEATURE")'
      BY <2>6, <3>1
    <3>3. CASE setupdat.code = "SET_INTERFACE"
      BY <2>6, <3>1, <3>2, <3>3
    <3>4. CASE setupdat.code # "SET_INTERFACE"
      BY <2>6, <3>1, <3>2, <3>4
    <3> QED
      BY <3>3, <3>4
  <2> QED
    BY <2>4, <2>5, <2>6
<1>3. CASE GetDescriptor
  <2>1. Before /\ ~Before'
    BY <1>3 DEF GetDescriptor, Step, Before, StageInv
  <2>2. setupdat.code = "GET_DESCRIPTOR"
    BY <1>3, Zenon DEF GetDescriptor, HasDescriptor, Request
  <2>3. UNCHANGED <<halted, toggle, setupdat, believed, ctl>>
    BY <1>3 DEF GetDescriptor, Step, deviceVars, hostVars
  <2> QED
    BY <2>1, <2>2, <2>3 DEF ToggleInv, Transit, Acted, Ep2Feature
<1>4. CASE \E r \in Asked : HostSetup(r)
  <2>1. PICK r \in Asked : HostSetup(r)
    BY <1>4
  <2>2. /\ UNCHANGED <<halted, toggle, believed>> /\ ctl = "idle"
        /\ ctl' # "idle" /\ "sudav" \in irq' /\ setupdat' = r
    BY <2>1 DEF HostSetup, deviceVars
  <2>3. Before' /\ r \in Requests
    BY <2>2, Asking DEF Before
  <2>4. r.code = "SET_CONFIGURATION" => believed.toggle = 0
    BY <2>1 DEF HostSetup, Sensible, Driver
  <2>5. Ep2Feature("CLEAR_FEATURE")' => Bulk \in believed.halted
    BY <2>1, <2>2, Ep2In DEF HostSetup, Sensible, Ep2Feature
  <2> QED
    BY <2>2, <2>3, <2>4, <2>5 DEF ToggleInv, Transit, Acted
<1>5. CASE HostCompletes
  <2>1. /\ UNCHANGED <<halted, toggle, main, got_sud, irq>>
        /\ ctl # "idle" /\ ctl' = "idle" /\ ~hsnak /\ ~stall
        /\ believed' = Learns(setupdat)
    BY <1>5 DEF HostCompletes, deviceVars
  <2>2. ~Before /\ ~Before'
    BY <2>1 DEF Before, StageInv
  <2>3. Acted /\ ~Transit'
    BY <2>1, <2>2 DEF Acted, Transit
  <2>4. believed'.toggle = IF Ep2Feature("CLEAR_FEATURE")
                             \/ setupdat.code \in {"SET_INTERFACE",
                                                   "SET_CONFIGURATION"}
                           THEN 0 ELSE believed.toggle
    BY <2>1, LearnsToggle DEF StageInv, Ep2Feature
  <2>5. Bulk \in believed'.halted =>
          \/ Ep2Feature("SET_FEATURE")
          \/ Bulk \in believed.halted /\ ~Ep2Feature("CLEAR_FEATURE")
    BY <2>1, LearnsFields, NamesEp2 DEF StageInv, Ep2Feature
  <2>6. Bulk \in halted' \/ toggle' = believed'.toggle
    BY <2>1, <2>3, <2>4 DEF ToggleInv, Transit
  <2>7. Bulk \in believed'.halted => Bulk \in halted'
    BY <2>1, <2>3, <2>5 DEF ToggleInv
  <2> QED
    BY <2>1, <2>2, <2>3, <2>6, <2>7 DEF ToggleInv, Acted
<1>6. CASE HostStalled
  <2>1. /\ UNCHANGED <<halted, toggle, main, got_sud, irq, believed>>
        /\ ctl # "idle" /\ ctl' = "idle" /\ stall
    BY <1>6 DEF HostStalled, deviceVars
  <2>2. ~Before /\ ~Before' /\ ~Acted /\ ~Acted'
    BY <2>1 DEF Before, StageInv, Acted
  <2> QED
    BY <2>1, <2>2 DEF ToggleInv, Transit
<1>7. CASE BulkIn
  <2>1. /\ UNCHANGED <<halted, main, got_sud, irq, ctl>>
        /\ ctl = "idle" /\ Bulk \notin halted /\ Settled
        /\ toggle' = 1 - toggle
        /\ believed' = IF toggle = believed.toggle
                       THEN [believed EXCEPT !.toggle = 1 - @] ELSE believed
    BY <1>7 DEF BulkIn
  <2>2. ~Before /\ ~Before' /\ ~Acted /\ ~Acted'
    BY <2>1 DEF Before, Settled, Acted
  <2>3. toggle = believed.toggle /\ believed \in Picture
    BY <2>1, <2>2 DEF ToggleInv, Transit, StageInv
  <2>4. believed'.toggle = 1 - toggle /\ believed'.halted = believed.halted
    BY <2>1, <2>3 DEF Picture
  <2> QED
    BY <2>1, <2>2, <2>4 DEF ToggleInv, Transit
<1>8. CASE \E s \in Speeds : BusReset(s)
  <2>1. /\ halted' = {} /\ toggle' = 0 /\ ctl' = "idle"
        /\ believed' = [believed EXCEPT !.halted = {}, !.toggle = 0,
                                        !.sure = @ /\ Quiet]
    BY <1>8 DEF BusReset
  <2>2. believed'.halted = {} /\ believed'.toggle = 0
    BY <2>1 DEF StageInv, Picture
  <2> QED
    BY <2>1, <2>2 DEF ToggleInv, Transit, Acted
<1> QED
  BY <1>1, <1>2, <1>3, <1>4, <1>5, <1>6, <1>7, <1>8
  DEF Next, Main, Host

(* A driver that configures the device before it reads from it, that clears *)
(* only halts it set, and that calls EP2 by the address of its IN direction *)
(* never loses a packet to a wrong data toggle, for every set of requests   *)
(* and with bus resets at any time (setupdat.c:251-253, fx2lafw.c:168-170). *)
THEOREM ToggleAlwaysAgrees ==
  ASSUME Driver PROVE Spec => []ToggleAgrees
<1>1. Init => ToggleInv
  BY DEF Init, ToggleInv, Transit, Acted, Before, Blank
<1>2. StageInv /\ ToggleInv /\ [Next]_vars => (StageInv /\ ToggleInv)'
  BY StageStep, ToggleStep
<1>3. ToggleInv => ToggleAgrees
  BY DEF ToggleInv, ToggleAgrees, Quiet, Transit, Acted
<1> QED
  BY StageInit, <1>1, <1>2, <1>3, PTL DEF Spec

-----------------------------------------------------------------------------
(* The answers. *)

(* The handlers have switched the descriptors, or will: the reset first,   *)
(* the switch to high speed after it.  No transfer begins before they did. *)
SpeedInv ==
  /\ speed \in Speeds /\ pDevConfig \in Speeds
  /\ pOtherConfig = Other(pDevConfig)
  /\ "usbreset" \notin irq /\ "hispeed" \notin irq => pDevConfig = speed
  /\ "usbreset" \in irq /\ "hispeed" \notin irq => speed = "full"
  /\ "hispeed" \in irq => speed = "high"
  /\ ctl # "idle" => "usbreset" \notin irq /\ "hispeed" \notin irq

LEMMA SpeedStep == ASSUME SpeedInv, [Next]_vars PROVE SpeedInv'
<1> USE DEF SpeedInv
<1>1. CASE Main \/ HostReads \/ HostCompletes \/ HostStalled \/ BulkIn
             \/ UNCHANGED vars
  <2>1. UNCHANGED <<speed, pDevConfig, pOtherConfig, irq>>
    BY <1>1
    DEF Main, Poll, Dispatch, GetDescriptor, SendDescriptor, Handshake,
        ClearSud, Step, HostReads, HostCompletes, HostStalled, BulkIn, vars,
        configVars, hostVars
  <2>2. ctl' # "idle" => ctl # "idle"
    BY <1>1
    DEF Main, Poll, Dispatch, GetDescriptor, SendDescriptor, Handshake,
        ClearSud, Step, HostReads, HostCompletes, HostStalled, BulkIn, vars,
        hostVars
  <2> QED
    BY <2>1, <2>2
<1>2. CASE SudavIsr
  BY <1>2 DEF SudavIsr, Acknowledge, configVars, hostVars
<1>3. CASE UsbresetIsr
  <2>1. /\ pDevConfig' = "full" /\ pOtherConfig' = "high"
        /\ irq' = irq \ {"usbreset"} /\ "usbreset" \in irq
        /\ UNCHANGED <<speed, ctl>>
    BY <1>3 DEF UsbresetIsr, Acknowledge, HandleHispeed, hostVars
  <2> QED
    BY <2>1 DEF Speeds, Other
<1>4. CASE HispeedIsr
  <2>1. /\ pDevConfig' = "high" /\ pOtherConfig' = "full"
        /\ irq' = irq \ {"hispeed"} /\ "hispeed" \in irq
        /\ "usbreset" \notin irq
        /\ UNCHANGED <<speed, ctl>>
    BY <1>4 DEF HispeedIsr, Acknowledge, HandleHispeed, hostVars
  <2> QED
    BY <2>1 DEF Speeds, Other
<1>5. CASE \E r \in Asked : HostSetup(r)
  BY <1>5 DEF HostSetup, Settled, configVars
<1>6. CASE \E s \in Speeds : BusReset(s)
  <2>1. PICK s \in Speeds : BusReset(s)
    BY <1>6
  <2>2. /\ irq' = (irq \ {"hispeed"}) \cup {"usbreset"}
                    \cup (IF s = "high" THEN {"hispeed"} ELSE {})
        /\ speed' = s /\ ctl' = "idle"
        /\ UNCHANGED <<pDevConfig, pOtherConfig>>
    BY <2>1 DEF BusReset, configVars
  <2>3. "usbreset" \in irq' /\ ("hispeed" \in irq' <=> s = "high")
    BY <2>2
  <2>4. Other(pDevConfig)' = Other(pDevConfig)
    BY <2>2 DEF Other
  <2> QED
    BY <2>1, <2>2, <2>3, <2>4 DEF Speeds
<1> QED
  BY <1>1, <1>2, <1>3, <1>4, <1>5, <1>6 DEF Next, Host

AnswerInv ==
  /\ 0 \notin halted
  /\ ctl = "data" /\ Before => answer = None
  /\ ctl = "data" /\ main = "low" =>
       answer = None /\ HasDescriptor
         /\ sudptrh = DescriptorOf(setupdat.index)
  /\ AnswersTrue

LEMMA DescriptorCases ==
  /\ DescriptorOf(1) = "device" /\ DescriptorOf(2) = pDevConfig
  /\ DescriptorOf(3) = StringAt[Find[1, setupdat.value]]
  /\ DescriptorOf(6) = "qualifier" /\ DescriptorOf(7) = pOtherConfig
<1>1. /\ 2 # 1 /\ 3 # 1 /\ 3 # 2 /\ 6 # 1 /\ 6 # 2 /\ 6 # 3
      /\ 7 # 1 /\ 7 # 2 /\ 7 # 3 /\ 7 # 6
  OBVIOUS
<1>2. DescriptorOf(1) = "device"
  BY <1>1, Zenon DEF DescriptorOf
<1>3. DescriptorOf(2) = pDevConfig
  BY <1>1, Zenon DEF DescriptorOf
<1>4. DescriptorOf(3) = StringAt[Find[1, setupdat.value]]
  BY <1>1, Zenon DEF DescriptorOf
<1>5. DescriptorOf(6) = "qualifier"
  BY <1>1, Zenon DEF DescriptorOf
<1>6. DescriptorOf(7) = pOtherConfig
  BY <1>1, Zenon DEF DescriptorOf
<1> QED
  BY <1>2, <1>3, <1>4, <1>5, <1>6, Zenon

LEMMA StringIsRight ==
  ASSUME SearchIsRight, StageInv, HasDescriptor, setupdat.index = 3
  PROVE  DescriptorOf(3) = StringNames[setupdat.value + 1]
<1>1. setupdat.code = "GET_DESCRIPTOR"
  BY Zenon DEF HasDescriptor, Request
<1>2. setupdat.value \in 0 .. 255
  <2>1. setupdat.value \in StringNumbers
    BY <1>1 DEF StageInv, Requests
  <2>2. StringNumbers \subseteq 0 .. 255
    BY SetupdatAssumption
  <2> QED
    BY <2>1, <2>2
<1>3. Find[1, setupdat.value] # 0
  <2>1. 3 \notin {1, 2, 6, 7}
    OBVIOUS
  <2> QED
    BY <2>1, Zenon DEF HasDescriptor
<1> QED
  BY <1>2, <1>3, DescriptorCases, Zenon DEF SearchIsRight

(* An answer that is true stays true until the host has read it. *)
LEMMA AnswerKept ==
  ASSUME AnswersTrue,
         UNCHANGED <<answer, setupdat, believed, speed>>,
         ctl' = "data" => ctl = "data"
  PROVE  AnswersTrue'
<1>1. TrueAnswer(setupdat)' = TrueAnswer(setupdat)
  BY DEF TrueAnswer
<1> QED
  BY <1>1 DEF AnswersTrue

(* What the data stage sends is what was asked for. *)
LEMMA DispatchAnswers ==
  ASSUME StageInv, PictureInv, AnswerInv, Dispatch, ctl = "data"
  PROVE  AnswersTrue'
<1>1. main = "dispatch" /\ UNCHANGED <<believed, ctl, speed, setupdat>>
  BY DEF Dispatch, GetStatus, SetFeature, SetTestMode, ClearFeature, Step,
         GetConfiguration, SetConfiguration, GetInterface, SetInterface,
         Refuse, Reply, SetDeviceFeature, Halt, Unhalt, ep0Vars, hostVars
<1>2. Before
  BY <1>1 DEF Before, StageInv
<1>3. answer = None /\ ~stall /\ (believed.sure => DeviceTrue)
  BY <1>2 DEF AnswerInv, StageInv, PictureInv
<1>4. CASE GetStatus
  <2>1. CASE To("interface")
    <3>1. answer' = <<"interface", "0">> /\ setupdat.code = "GET_STATUS"
          /\ setupdat.to = "interface"
      BY <1>4, <2>1 DEF GetStatus, Reply, Request, To
    <3>2. TrueAnswer(setupdat)' = <<"interface", "0">>
      BY <1>1, <3>1 DEF TrueAnswer
    <3> QED
      BY <3>1, <3>2 DEF AnswersTrue
  <2>2. CASE To("device")
    <3>1. /\ answer' = <<"wakeup", Say(remote_wakeup_allowed)>>
          /\ setupdat.code = "GET_STATUS" /\ setupdat.to = "device"
      BY <1>4, <2>2 DEF GetStatus, Reply, Request, To
    <3>2. TrueAnswer(setupdat)' =
            IF believed.sure THEN <<"wakeup", Say(believed.wakeup)>>
            ELSE answer'
      BY <1>1, <3>1 DEF TrueAnswer
    <3> QED
      BY <1>3, <3>1, <3>2 DEF AnswersTrue, DeviceTrue
  <2>3. CASE To("endpoint")
    <3>1. /\ answer' = <<"halt", Say(IF Named = 0 THEN stall
                                     ELSE Named \in halted)>>
          /\ setupdat.code = "GET_STATUS" /\ setupdat.to = "endpoint"
      BY <1>4, <2>3 DEF GetStatus, Reply, Request, To
    <3>2. TrueAnswer(setupdat)' =
            IF believed.sure
            THEN <<"halt", Say(Register(setupdat.index) \in believed.halted)>>
            ELSE answer'
      BY <1>1, <3>1 DEF TrueAnswer
    <3>3. believed.sure =>
            (IF Named = 0 THEN stall ELSE Named \in halted)
              = (Register(setupdat.index) \in believed.halted)
      BY <1>3 DEF DeviceTrue, AnswerInv, Named, StageInv
    <3> QED
      BY <3>1, <3>2, <3>3 DEF AnswersTrue
  <2> QED
    BY <1>4, <2>1, <2>2, <2>3 DEF GetStatus
<1>5. CASE GetConfiguration \/ GetInterface
  <2>1. setupdat.code \in {"GET_CONFIGURATION", "GET_INTERFACE"}
    BY <1>5 DEF GetConfiguration, GetInterface, Request
  <2>2. TrueAnswer(setupdat)' = answer'
    BY <1>1, <2>1 DEF TrueAnswer
  <2> QED
    BY <2>2 DEF AnswersTrue
<1>6. CASE SetFeature \/ SetTestMode \/ ClearFeature \/ SetConfiguration
             \/ SetInterface \/ Refuse
  <2>1. answer' = answer
    BY <1>6
    DEF SetFeature, SetTestMode, ClearFeature, SetConfiguration, SetInterface,
        Refuse, SetDeviceFeature, Halt, Unhalt, ep0Vars
  <2> QED
    BY <1>3, <2>1 DEF AnswersTrue, None
<1> QED
  BY <1>4, <1>5, <1>6 DEF Dispatch

LEMMA SendAnswers ==
  ASSUME SearchIsRight, StageInv, SpeedInv, AnswerInv, SendDescriptor,
         ctl = "data"
  PROVE  AnswersTrue'
<1> DEFINE i == setupdat.index
<1>1. /\ main = "low" /\ answer' = <<sudptrh, DescriptorOf(i)>>
      /\ UNCHANGED <<believed, speed, setupdat, pDevConfig, pOtherConfig>>
  BY DEF SendDescriptor, Step, configVars, hostVars
<1>2. HasDescriptor /\ sudptrh = DescriptorOf(i)
  BY <1>1 DEF AnswerInv
<1>3. setupdat.code = "GET_DESCRIPTOR"
  BY <1>2, Zenon DEF HasDescriptor, Request
<1>4. pDevConfig = speed /\ pOtherConfig = Other(speed)
  BY DEF SpeedInv
<1>5. CASE i = 2
  <2>1. TrueAnswer(setupdat)' = <<speed, speed>>
    BY <1>1, <1>3, <1>5 DEF TrueAnswer
  <2>2. DescriptorOf(i) = speed
    BY <1>4, <1>5, DescriptorCases, Zenon
  <2> QED
    BY <1>1, <1>2, <2>1, <2>2 DEF AnswersTrue
<1>6. CASE i = 7
  <2>1. TrueAnswer(setupdat)' = <<Other(speed), Other(speed)>>
    BY <1>1, <1>3, <1>6 DEF TrueAnswer, Other
  <2>2. DescriptorOf(i) = Other(speed)
    BY <1>4, <1>6, DescriptorCases, Zenon
  <2> QED
    BY <1>1, <1>2, <2>1, <2>2 DEF AnswersTrue
<1>7. CASE i = 3
  <2>1. TrueAnswer(setupdat)' =
          <<StringNames[setupdat.value + 1], StringNames[setupdat.value + 1]>>
    BY <1>1, <1>3, <1>7 DEF TrueAnswer
  <2>2. DescriptorOf(i) = StringNames[setupdat.value + 1]
    BY <1>2, <1>7, StringIsRight, Zenon
  <2> QED
    BY <1>1, <1>2, <2>1, <2>2 DEF AnswersTrue
<1>8. CASE i \notin {2, 3, 7}
  <2>1. TrueAnswer(setupdat)' = answer'
    BY <1>1, <1>3, <1>8 DEF TrueAnswer
  <2> QED
    BY <2>1 DEF AnswersTrue
<1> QED
  BY <1>5, <1>6, <1>7, <1>8

(* No STALL bit of EP0 outlives the next SETUP. *)
LEMMA ZeroStep == ASSUME 0 \notin halted, [Next]_vars PROVE 0 \notin halted'
<1>1. CASE Dispatch
  BY <1>1
  DEF Dispatch, GetStatus, SetFeature, SetTestMode, ClearFeature, Reply,
      GetConfiguration, SetConfiguration, GetInterface, SetInterface, Refuse,
      SetDeviceFeature, Halt, Unhalt, ep0Vars, deviceVars
<1>2. CASE \E s \in Speeds : BusReset(s)
  BY <1>2 DEF BusReset
<1>3. CASE UNCHANGED halted
  BY <1>3
<1>4. CASE Poll \/ GetDescriptor \/ SendDescriptor \/ Handshake \/ ClearSud
             \/ SudavIsr \/ UsbresetIsr \/ HispeedIsr \/ UNCHANGED vars
             \/ (\E r \in Asked : HostSetup(r))
             \/ HostReads \/ HostCompletes \/ HostStalled \/ BulkIn
  BY <1>3, <1>4
  DEF Poll, GetDescriptor, SendDescriptor, Handshake, ClearSud, SudavIsr,
      UsbresetIsr, HispeedIsr, HostSetup, HostReads, HostCompletes,
      HostStalled, BulkIn, Acknowledge, deviceVars, vars
<1> QED
  BY <1>1, <1>2, <1>4 DEF Next, Main, Host

LEMMA AnswerStep ==
  ASSUME SearchIsRight, StageInv, PictureInv, SpeedInv, AnswerInv, [Next]_vars
  PROVE  AnswerInv'
<1>1. 0 \notin halted'
  BY ZeroStep DEF AnswerInv
<1>2. CASE ctl' # "data"
  BY <1>1, <1>2 DEF AnswerInv, AnswersTrue
<1>3. CASE Poll \/ Handshake \/ ClearSud \/ SudavIsr
  <2>1. UNCHANGED <<answer, setupdat, believed, speed, ctl>>
    BY <1>3
    DEF Poll, Handshake, ClearSud, SudavIsr, Acknowledge, Step, ep0Vars,
        hostVars
  <2>2. main' # "low"
    <3>1. CASE SudavIsr
      BY <3>1 DEF SudavIsr, Acknowledge, StageInv
    <3> QED
      BY <1>3, <3>1 DEF Poll, Handshake, ClearSud, Step
  <2>3. Before' <=> Before
    BY <1>3, BeforeKept
  <2>4. AnswersTrue'
    BY <2>1, AnswerKept DEF AnswerInv
  <2> QED
    BY <1>1, <2>1, <2>2, <2>3, <2>4 DEF AnswerInv
<1>4. CASE Dispatch
  <2>1. main' = "handshake" /\ ~Before' /\ ctl' = ctl
    BY <1>4 DEF Dispatch, Step, Before, StageInv, hostVars
  <2>2. ctl = "data" => AnswersTrue'
    BY <1>4, DispatchAnswers
  <2> QED
    BY <1>1, <1>2, <2>1, <2>2 DEF AnswerInv
<1>5. CASE GetDescriptor
  <2>1. /\ main = "dispatch" /\ main' = "low" /\ HasDescriptor
        /\ sudptrh' = DescriptorOf(setupdat.index)
        /\ UNCHANGED <<setupdat, answer, believed, speed, ctl, pDevConfig,
                       pOtherConfig>>
    BY <1>5, Zenon DEF GetDescriptor, Step, configVars, hostVars
  <2>2. Before /\ ~Before'
    BY <1>5 DEF GetDescriptor, Step, Before, StageInv
  <2>3. HasDescriptor'
    BY <2>1, Zenon DEF HasDescriptor, Request
  <2>4. DescriptorOf(setupdat.index)' = DescriptorOf(setupdat.index)
    BY <2>1, Zenon DEF DescriptorOf
  <2>5. ctl = "data" => answer' = None
    BY <2>1, <2>2 DEF AnswerInv
  <2>6. AnswersTrue'
    BY <2>1, AnswerKept DEF AnswerInv
  <2> QED
    BY <1>1, <2>1, <2>2, <2>3, <2>4, <2>5, <2>6 DEF AnswerInv
<1>6. CASE SendDescriptor
  <2>1. main = "low" /\ main' = "handshake" /\ ctl' = ctl
    BY <1>6 DEF SendDescriptor, Step, hostVars
  <2>2. ~Before'
    BY <1>6, <2>1 DEF SendDescriptor, Step, Before, StageInv
  <2>3. ctl = "data" => AnswersTrue'
    BY <1>6, SendAnswers
  <2> QED
    BY <1>1, <1>2, <2>1, <2>2, <2>3 DEF AnswerInv
<1>7. CASE UsbresetIsr \/ HispeedIsr
  <2>1. ctl = "idle" /\ ctl' = ctl
    BY <1>7 DEF UsbresetIsr, HispeedIsr, Acknowledge, SpeedInv, hostVars
  <2> QED
    BY <1>2, <2>1
<1>8. CASE \E r \in Asked : HostSetup(r)
  <2>1. answer' = None /\ main' = "poll"
    BY <1>8 DEF HostSetup, Settled
  <2> QED
    BY <1>1, <2>1 DEF AnswerInv, AnswersTrue
<1>9. CASE HostReads \/ HostCompletes \/ HostStalled \/ BulkIn
             \/ (\E s \in Speeds : BusReset(s))
  <2>1. ctl' # "data"
    BY <1>9 DEF HostReads, HostCompletes, HostStalled, BulkIn, BusReset
  <2> QED
    BY <1>2, <2>1
<1>10. CASE UNCHANGED vars
  <2>1. UNCHANGED <<main, got_sud, irq, ctl, answer, setupdat, believed, speed,
                    sudptrh, pDevConfig>>
    BY <1>10 DEF vars, ep0Vars, configVars, hostVars
  <2>2. pOtherConfig' = pOtherConfig
    BY <1>10 DEF vars, configVars
  <2>3. HasDescriptor' <=> HasDescriptor
    BY <2>1, Zenon DEF HasDescriptor, Request
  <2>4. DescriptorOf(setupdat.index)' = DescriptorOf(setupdat.index)
    BY <2>1, <2>2, Zenon DEF DescriptorOf
  <2>5. AnswersTrue'
    BY <2>1, AnswerKept DEF AnswerInv
  <2> QED
    BY <1>1, <2>1, <2>3, <2>4, <2>5 DEF AnswerInv, Before
<1> QED
  BY <1>3, <1>4, <1>5, <1>6, <1>7, <1>8, <1>9, <1>10 DEF Next, Main, Host

(* Whatever the bus does while a request is answered, the host reads no    *)
(* descriptor of the other speed, no status that is not the device's, and, *)
(* if the search for strings is right, no string but the one it asked for  *)
(* (setupdat.c:281-292, 302-359).                                          *)
THEOREM AnswersAreTrue ==
  ASSUME SearchIsRight PROVE Spec => []AnswersTrue
<1>1. Init => SpeedInv /\ AnswerInv
  BY DEF Init, SpeedInv, AnswerInv, AnswersTrue, Speeds, Other
<1>2. StageInv /\ PictureInv /\ SpeedInv /\ AnswerInv /\ [Next]_vars =>
        (StageInv /\ PictureInv /\ SpeedInv /\ AnswerInv)'
  BY StageStep, PictureStep, SpeedStep, AnswerStep
<1>3. AnswerInv => AnswersTrue
  BY DEF AnswerInv
<1> QED
  BY StageInit, <1>1, <1>2, <1>3, PTL DEF Spec
-----------------------------------------------------------------------------
(* Types. *)

DeviceInv ==
  /\ got_sud \in BOOLEAN /\ hsnak \in BOOLEAN
  /\ remote_wakeup_allowed \in BOOLEAN
  /\ irq \subseteq {"sudav", "usbreset", "hispeed"}
  /\ halted \subseteq {Register(i) : i \in Indices} \ {0, NULL}
  /\ ctl \in {"idle", "data", "status"}

\* There is a descriptor to send, also for a request that a reset cut off.
DataInv ==
  /\ main = "low" => HasDescriptor
  /\ sudptrh \in Descriptors
  /\ answer \in Answers

LEMMA DeviceStep == ASSUME StageInv, DeviceInv, [Next]_vars PROVE DeviceInv'
<1> USE DEF DeviceInv
<1>1. CASE Poll \/ GetDescriptor \/ SendDescriptor \/ Handshake \/ ClearSud
  BY <1>1
  DEF Poll, GetDescriptor, SendDescriptor, Handshake, ClearSud, Step, ep0Vars,
      deviceVars, configVars, hostVars
<1>2. CASE Dispatch
  <2>1. UNCHANGED <<got_sud, irq, ctl, hsnak>>
    BY <1>2
    DEF Dispatch, GetStatus, SetFeature, SetTestMode, ClearFeature, Step,
        GetConfiguration, SetConfiguration, GetInterface, SetInterface, Refuse,
        Reply, SetDeviceFeature, Halt, Unhalt, ep0Vars, hostVars
  <2>2. remote_wakeup_allowed' \in BOOLEAN
    BY <1>2
    DEF Dispatch, GetStatus, SetFeature, SetTestMode, ClearFeature,
        GetConfiguration, SetConfiguration, GetInterface, SetInterface, Refuse,
        SetDeviceFeature, Halt, Unhalt, deviceVars
  <2>3. halted' \subseteq {Register(i) : i \in Indices} \ {0, NULL}
    <3>1. CASE SetFeature /\ Halt
      <4>1. /\ halted' = halted \cup ({Register(setupdat.index)} \ {0})
            /\ Register(setupdat.index) # NULL
            /\ setupdat.code = "SET_FEATURE"
        BY <3>1 DEF SetFeature, Request, Halt, Named
      <4>2. setupdat.index \in Indices
        BY <4>1, RequestTypes DEF StageInv
      <4>3. Register(setupdat.index) \in {Register(i) : i \in Indices}
        BY <4>2
      <4> QED
        BY <4>1, <4>3
    <3>2. CASE ~Halt \/ ~SetFeature
      <4>1. halted' \subseteq halted
        BY <1>2, <3>2
        DEF Dispatch, GetStatus, SetFeature, SetTestMode, ClearFeature,
            GetConfiguration, SetConfiguration, GetInterface, SetInterface,
            Refuse, SetDeviceFeature, Unhalt, deviceVars
      <4> QED
        BY <4>1
    <3> QED
      BY <3>1, <3>2
  <2> QED
    BY <2>1, <2>2, <2>3
<1>3. CASE SudavIsr \/ UsbresetIsr \/ HispeedIsr
  <2>1. /\ UNCHANGED <<halted, remote_wakeup_allowed, ctl, hsnak>>
        /\ got_sud' \in {got_sud, TRUE} /\ irq' \subseteq irq
    BY <1>3
    DEF SudavIsr, UsbresetIsr, HispeedIsr, Acknowledge, ep0Vars, deviceVars,
        hostVars
  <2> QED
    BY <2>1
<1>4. CASE Host
  <2>1. UNCHANGED <<got_sud, remote_wakeup_allowed>>
    BY <1>4
    DEF Host, HostSetup, HostReads, HostCompletes, HostStalled, BulkIn,
        BusReset, deviceVars
  <2>2. hsnak' \in {hsnak, TRUE} /\ halted' \in {halted, {}}
    BY <1>4
    DEF Host, HostSetup, HostReads, HostCompletes, HostStalled, BulkIn,
        BusReset, ep0Vars, deviceVars
  <2>3. irq' \subseteq {"sudav", "usbreset", "hispeed"}
    BY <1>4
    DEF Host, HostSetup, HostReads, HostCompletes, HostStalled, BulkIn,
        BusReset
  <2>4. ctl' \in {"idle", "data", "status"}
    BY <1>4
    DEF Host, HostSetup, HostReads, HostCompletes, HostStalled, BulkIn,
        BusReset
  <2> QED
    BY <2>1, <2>2, <2>3, <2>4
<1>5. CASE UNCHANGED vars
  BY <1>5 DEF vars, ep0Vars, deviceVars, hostVars
<1> QED
  BY <1>1, <1>2, <1>3, <1>4, <1>5 DEF Next, Main

LEMMA DescriptorType ==
  ASSUME SearchIsRight, StageInv, SpeedInv, HasDescriptor
  PROVE  DescriptorOf(setupdat.index) \in Descriptors
<1>1. /\ Speeds \subseteq Descriptors
      /\ "device" \in Descriptors /\ "qualifier" \in Descriptors
  BY DEF Descriptors
<1>2. pDevConfig \in Speeds /\ pOtherConfig \in Speeds
  BY DEF SpeedInv, Speeds, Other
<1>3. CASE setupdat.index \in {1, 2, 6, 7}
  BY <1>1, <1>2, <1>3, DescriptorCases
<1>4. CASE setupdat.index = 3
  <2>1. DescriptorOf(3) = StringNames[setupdat.value + 1]
    BY <1>4, StringIsRight, Zenon
  <2>2. setupdat.value + 1 \in DOMAIN StringNames
    <3>1. setupdat.code = "GET_DESCRIPTOR"
      BY Zenon DEF HasDescriptor, Request
    <3>2. setupdat.value \in 0 .. 255
      <4>1. setupdat.value \in StringNumbers
        BY <3>1 DEF StageInv, Requests
      <4>2. StringNumbers \subseteq 0 .. 255
        BY SetupdatAssumption
      <4> QED
        BY <4>1, <4>2
    <3>3. Find[1, setupdat.value] # 0
      <4>1. 3 \notin {1, 2, 6, 7}
        OBVIOUS
      <4> QED
        BY <1>4, <4>1, Zenon DEF HasDescriptor
    <3>4. setupdat.value < Len(StringNames)
      BY <3>2, <3>3, Zenon DEF SearchIsRight
    <3> QED
      BY <3>2, <3>4 DEF StringNames
  <2>3. StringNames[setupdat.value + 1]
          \in {StringNames[i] : i \in DOMAIN StringNames}
    BY <2>2
  <2> QED
    BY <1>4, <2>1, <2>3 DEF Descriptors
<1> QED
  BY <1>3, <1>4, Zenon DEF HasDescriptor

LEMMA ReplyType ==
  ASSUME GetStatus \/ GetConfiguration \/ GetInterface PROVE answer' \in Answers
<1>1. CASE GetStatus
  <2>1. \A b : Say(b) \in YesNo
    BY DEF Say, YesNo
  <2>2. \/ answer' = <<"interface", "0">>
        \/ answer' = <<"wakeup", Say(remote_wakeup_allowed)>>
        \/ answer' = <<"halt", Say(IF Named = 0 THEN stall
                                   ELSE Named \in halted)>>
    BY <1>1 DEF GetStatus, Reply
  <2> QED
    BY <2>1, <2>2 DEF Answers
<1>2. CASE GetConfiguration \/ GetInterface
  BY <1>2 DEF GetConfiguration, GetInterface, Reply, Answers
<1> QED
  BY <1>1, <1>2

LEMMA DataStep ==
  ASSUME SearchIsRight, StageInv, SpeedInv, DataInv, [Next]_vars
  PROVE  DataInv'
<1>1. CASE Poll \/ Handshake \/ ClearSud \/ SudavIsr \/ UsbresetIsr
             \/ HispeedIsr \/ HostReads \/ HostCompletes \/ HostStalled
             \/ BulkIn \/ (\E s \in Speeds : BusReset(s)) \/ UNCHANGED vars
  <2>1. UNCHANGED <<sudptrh, answer, setupdat>>
    BY <1>1
    DEF Poll, Handshake, ClearSud, SudavIsr, UsbresetIsr, HispeedIsr,
        HostReads, HostCompletes, HostStalled, BulkIn, BusReset, Acknowledge,
        vars, ep0Vars
  <2>2. main' = "low" => main = "low"
    BY <1>1
    DEF Poll, Handshake, ClearSud, SudavIsr, UsbresetIsr, HispeedIsr,
        HostReads, HostCompletes, HostStalled, BulkIn, BusReset, Acknowledge,
        Step, vars
  <2>3. HasDescriptor' <=> HasDescriptor
    BY <2>1, Zenon DEF HasDescriptor, Request
  <2> QED
    BY <2>1, <2>2, <2>3 DEF DataInv
<1>2. CASE Dispatch
  <2>1. main' # "low"
    BY <1>2 DEF Dispatch, Step
  <2>2. sudptrh' = sudptrh
    BY <1>2
    DEF Dispatch, GetStatus, SetFeature, SetTestMode, ClearFeature,
        GetConfiguration, SetConfiguration, GetInterface, SetInterface, Refuse,
        Reply, SetDeviceFeature, Halt, Unhalt, ep0Vars
  <2>3. CASE GetStatus \/ GetConfiguration \/ GetInterface
    BY <2>1, <2>2, <2>3, ReplyType DEF DataInv
  <2>4. CASE ~(GetStatus \/ GetConfiguration \/ GetInterface)
    <3>1. answer' = answer
      BY <1>2, <2>4
      DEF Dispatch, SetFeature, SetTestMode, ClearFeature, SetConfiguration,
          SetInterface, Refuse, SetDeviceFeature, Halt, Unhalt, ep0Vars
    <3> QED
      BY <2>1, <2>2, <3>1 DEF DataInv
  <2> QED
    BY <2>3, <2>4
<1>3. CASE GetDescriptor
  <2>1. /\ HasDescriptor /\ sudptrh' = DescriptorOf(setupdat.index)
        /\ UNCHANGED <<setupdat, answer>>
    BY <1>3, Zenon DEF GetDescriptor
  <2>2. HasDescriptor'
    BY <2>1, Zenon DEF HasDescriptor, Request
  <2>3. sudptrh' \in Descriptors
    BY <2>1, DescriptorType, Zenon
  <2> QED
    BY <2>1, <2>2, <2>3 DEF DataInv
<1>4. CASE SendDescriptor
  <2>1. /\ main = "low" /\ main' # "low" /\ sudptrh' = sudptrh
        /\ answer' = <<sudptrh, DescriptorOf(setupdat.index)>>
    BY <1>4 DEF SendDescriptor, Step
  <2>2. DescriptorOf(setupdat.index) \in Descriptors
    BY <2>1, DescriptorType, Zenon DEF DataInv
  <2>3. answer' \in Descriptors \X Descriptors
    BY <2>1, <2>2 DEF DataInv
  <2>4. answer' \in Answers
    BY <2>3, Zenon DEF Answers
  <2> QED
    BY <2>1, <2>4 DEF DataInv
<1>5. CASE \E r \in Asked : HostSetup(r)
  <2>1. main' = "poll" /\ answer' = None /\ sudptrh' = sudptrh
    BY <1>5 DEF HostSetup, Settled
  <2> QED
    BY <2>1 DEF DataInv, Answers
<1> QED
  BY <1>1, <1>2, <1>3, <1>4, <1>5 DEF Next, Main, Host

(* Types: if the search for strings is right, every descriptor that the    *)
(* device points to and every answer it sends is one that there is, also   *)
(* when a reset switches the descriptors in between (setupdat.c:302-359).  *)
THEOREM SetupdatTypeCorrect ==
  ASSUME SearchIsRight PROVE Spec => []TypeOK
<1> DEFINE TypeInv == StageInv /\ SpeedInv /\ DeviceInv /\ DataInv
<1>1. Init => SpeedInv /\ DeviceInv /\ DataInv
  BY DEF Init, SpeedInv, DeviceInv, DataInv, Speeds, Other, Descriptors, Answers
<1>2. TypeInv /\ [Next]_vars => TypeInv'
  BY StageStep, SpeedStep, DeviceStep, DataStep
<1>3. TypeInv => TypeOK
  BY DEF StageInv, SpeedInv, DeviceInv, DataInv, TypeOK
<1> QED
  BY StageInit, <1>1, <1>2, <1>3, PTL DEF Spec
=============================================================================
