--------------------------- MODULE ScopeBus_proofs ---------------------------
(***************************************************************************)
(* Proofs about the oscilloscope firmware and the state of the bus, for    *)
(* every set of alternate settings and any number of suspends, resets and  *)
(* signals of the wakeup pin.                                              *)
(***************************************************************************)
EXTENDS ScopeBus, TLAPS

-----------------------------------------------------------------------------
(* The controller's choice of a handler. *)

LEMMA Table ==
  /\ DOMAIN INT2JT = 1 .. 32
  /\ INT2JT[1] = "sudav" /\ INT2JT[2] = "sof" /\ INT2JT[3] = "sutok"
  /\ INT2JT[4] = "suspend" /\ INT2JT[5] = "usbreset" /\ INT2JT[6] = "hispeed"
BY DEF INT2JT

(* The reset is handled before the change to high speed. *)
LEMMA VectorRaised ==
  ASSUME Raised # {}, Raised \subseteq Enabled
  PROVE  /\ Vector \in Raised
         /\ "usbreset" \in Raised => Vector # "hispeed"
<1> DEFINE First(i) == /\ INT2JT[i] \in Raised
                       /\ \A j \in 1 .. i - 1 : INT2JT[j] \notin Raised
<1>1. \E i \in DOMAIN INT2JT : First(i)
  <2>1. "sof" \notin Raised /\ "sutok" \notin Raised
    BY DEF Enabled
  <2>2. CASE "sudav" \in Raised
    <3>1. First(1) /\ 1 \in DOMAIN INT2JT
      BY <2>2, Table
    <3> QED
      BY <3>1
  <2>3. CASE "sudav" \notin Raised /\ "suspend" \in Raised
    <3>1. 4 \in DOMAIN INT2JT /\ INT2JT[4] \in Raised
      BY <2>3, Table
    <3>2. \A j \in 1 .. 3 : INT2JT[j] \notin Raised
      BY <2>1, <2>3, Table
    <3> QED
      BY <3>1, <3>2
  <2>4. CASE /\ "sudav" \notin Raised /\ "suspend" \notin Raised
             /\ "usbreset" \in Raised
    <3>1. 5 \in DOMAIN INT2JT /\ INT2JT[5] \in Raised
      BY <2>4, Table
    <3>2. \A j \in 1 .. 4 : INT2JT[j] \notin Raised
      BY <2>1, <2>4, Table
    <3> QED
      BY <3>1, <3>2
  <2>5. CASE /\ "sudav" \notin Raised /\ "suspend" \notin Raised
             /\ "usbreset" \notin Raised
    <3>0. "hispeed" \in Raised
      BY <2>5 DEF Enabled
    <3>1. 6 \in DOMAIN INT2JT /\ INT2JT[6] \in Raised
      BY <3>0, Table
    <3>2. \A j \in 1 .. 5 : INT2JT[j] \notin Raised
      BY <2>1, <2>5, Table
    <3> QED
      BY <3>1, <3>2
  <2> QED
    BY <2>2, <2>3, <2>4, <2>5
<1>2. PICK i \in DOMAIN INT2JT : First(i) /\ Vector = INT2JT[i]
  BY <1>1 DEF Vector
<1>3. "usbreset" \in Raised => Vector # "hispeed"
  <2> SUFFICES ASSUME "usbreset" \in Raised PROVE Vector # "hispeed"
    OBVIOUS
  <2>1. i \in 1 .. 5
    <3>1. i \in Nat /\ 1 <= i
      BY <1>2, Table
    <3>2. ~(5 \in 1 .. i - 1)
      BY <1>2, Table
    <3> QED
      BY <3>1, <3>2
  <2> QED
    BY <1>2, <2>1, Table
<1> QED
  BY <1>2, <1>3

-----------------------------------------------------------------------------
(* Interrupts. *)

(* A handler runs only for a request that is pending until its last step,  *)
(* and interrupts are enabled before there is a bus.                       *)
InterruptInv ==
  /\ isr \in {NoIsr} \cup [of : Enabled, at : {"body", "first", "second"}]
  /\ isr # NoIsr => isr.of \in usbirq /\ ea
  /\ usbie = (IF ea THEN Enabled ELSE {})
  /\ main = "enable" <=> ~ea
  /\ ea \in BOOLEAN /\ usbint \in BOOLEAN
  /\ bus # "off" => ea /\ main # "renumerate"
  /\ NothingLost

LEMMA InterruptStep == ASSUME InterruptInv, [Next]_vars PROVE InterruptInv'
<1> USE DEF InterruptInv, NothingLost, Raised
<1>1. CASE EnableInterrupts
  BY <1>1 DEF EnableInterrupts, Step, Enable
<1>2. CASE Renumerate
  BY <1>2 DEF Renumerate, Step, int2Vars
<1>3. CASE PollSud \/ Act \/ Ack \/ PollSuspend \/ ClearWakeup \/ Sleep
             \/ Woken \/ Resume \/ EndSignal
  <2>1. /\ UNCHANGED <<isr, int2Vars, ea, bus>>
        /\ main # "enable" /\ main' \notin {"enable", "renumerate"}
    BY <1>3
    DEF PollSud, Act, Ack, PollSuspend, ClearWakeup, Sleep, Woken, Resume,
        EndSignal, Step, Still, Quietly
  <2> QED
    BY <2>1 DEF int2Vars
<1>4. CASE ResumeIsr
  BY <1>4 DEF ResumeIsr, OnlyIsr, int2Vars, hostVars
<1>5. CASE EnterIsr
  <2>1. Vector \in Raised /\ Vector \in Enabled
    BY <1>5, VectorRaised DEF EnterIsr
  <2>2. /\ isr' # NoIsr /\ isr'.of = Vector
        /\ isr' \in [of : Enabled, at : {"body"}]
    BY <1>5, <2>1 DEF EnterIsr, NoIsr
  <2> QED
    BY <1>5, <2>1, <2>2 DEF EnterIsr, OnlyIsr, int2Vars, hostVars
<1>6. CASE IsrBody
  <2>1. isr # NoIsr /\ isr \in [of : Enabled, at : {"body", "first", "second"}]
    BY <1>6 DEF IsrBody, IsrStep, NoIsr
  <2>2. /\ isr' \in [of : Enabled, at : {"body", "first", "second"}]
        /\ isr'.of = isr.of /\ isr' # NoIsr
    BY <1>6, <2>1 DEF IsrBody, IsrStep, NoIsr
  <2> QED
    BY <1>6, <2>1, <2>2 DEF IsrBody, IsrStep, OnlyIsr, int2Vars, hostVars
<1>7. CASE IsrClears
  <2>1. isr # NoIsr /\ isr \in [of : Enabled, at : {"body", "first", "second"}]
    BY <1>7 DEF IsrClears, IsrStep, NoIsr
  <2>2. UNCHANGED <<main, ea, bus, usbie>>
    BY <1>7
    DEF IsrClears, IsrStep, OnlyIsr, hostVars, CLEAR_USBINT, ClearRequest
  <2>3. CASE IsrStep("first", [isr EXCEPT !.at = "second"]) /\ CLEAR_USBINT
    <3>1. /\ isr' \in [of : Enabled, at : {"body", "first", "second"}]
          /\ isr'.of = isr.of /\ isr' # NoIsr
      BY <2>1, <2>3 DEF IsrStep, NoIsr
    <3> QED
      BY <2>1, <2>2, <2>3, <3>1 DEF CLEAR_USBINT
  <2>4. CASE IsrStep("second", NoIsr) /\ ClearRequest(isr.of)
    <3>1. isr' = NoIsr
      BY <2>4 DEF IsrStep
    <3>2. usbint' \in BOOLEAN /\ Raised' = Raised \ {isr.of}
      BY <2>4 DEF ClearRequest
    <3>3. Raised' # {} => usbint'
      BY <2>4, <3>2 DEF ClearRequest
    <3> QED
      BY <2>2, <3>1, <3>2, <3>3
  <2> QED
    BY <1>7, <2>3, <2>4 DEF IsrClears
<1>8. CASE Host
  <2>1. UNCHANGED <<main, isr, ea>>
    BY <1>8
    DEF Host, ClockStarts, HostSuspends, HostResumes, HostCompletes,
        LocalWakeup, HostResets, HostSetup, OnlyHost
  <2>2. bus' # "off" => bus # "off"
    BY <1>8
    DEF Host, ClockStarts, HostSuspends, HostResumes, HostCompletes,
        LocalWakeup, HostResets, HostSetup, hostVars
  <2>3. UNCHANGED int2Vars \/ \E requests \in SUBSET Enabled : Raise(requests)
    BY <1>8
    DEF Host, ClockStarts, HostSuspends, HostResumes, HostCompletes,
        LocalWakeup, HostResets, HostSetup, Enabled
  <2>4. /\ usbirq \subseteq usbirq' /\ usbie' = usbie /\ usbint' \in BOOLEAN
        /\ (Raised # {} => usbint) => (Raised' # {} => usbint')
    <3>1. CASE UNCHANGED int2Vars
      BY <3>1 DEF int2Vars
    <3>2. ASSUME NEW requests \in SUBSET Enabled, Raise(requests)
          PROVE  /\ usbirq \subseteq usbirq' /\ usbie' = usbie
                 /\ usbint' \in BOOLEAN
                 /\ (Raised # {} => usbint) => (Raised' # {} => usbint')
      <4>1. CASE requests \cap usbie = {}
        BY <3>2, <4>1 DEF Raise
      <4>2. CASE requests \cap usbie # {} /\ Raised = {}
        BY <3>2, <4>2 DEF Raise
      <4>3. CASE requests \cap usbie # {} /\ Raised # {}
        BY <3>2, <4>3 DEF Raise
      <4> QED
        BY <4>1, <4>2, <4>3
    <3> QED
      BY <2>3, <3>1, <3>2
  <2> QED
    BY <2>1, <2>2, <2>4
<1>9. CASE UNCHANGED vars
  BY <1>9 DEF vars, int2Vars, hostVars
<1> QED
  BY <1>1, <1>2, <1>3, <1>4, <1>5, <1>6, <1>7, <1>8, <1>9
  DEF Next, Main, Isr

LEMMA InterruptInvariant == Spec => []InterruptInv
<1>1. Init => InterruptInv
  BY DEF Init, InterruptInv, NothingLost
<1>2. InterruptInv /\ [Next]_vars => InterruptInv'
  BY InterruptStep
<1> QED
  BY <1>1, <1>2, PTL DEF Spec

(* A SETUP, reset or suspend that comes while the handler of another one   *)
(* runs still interrupts: CLEAR_USBINT before USBIRQ is the right order.   *)
THEOREM NoInterruptIsLost == Spec => []NothingLost
<1>1. InterruptInv => NothingLost
  BY DEF InterruptInv
<1> QED
  BY <1>1, InterruptInvariant, PTL

-----------------------------------------------------------------------------
(* The speed. *)

(* The interrupts of the last reset are pending, or pDevConfig follows the *)
(* speed; high speed is noticed after the reset that leads to it.          *)
SpeedInv ==
  /\ isr.of = "hispeed" => "usbreset" \notin usbirq
  /\ bus \in {"active", "idle"} /\ speed = "full" =>
       /\ "hispeed" \notin usbirq
       /\ \/ pDevConfig = "full"
          \/ "usbreset" \in usbirq /\ ~(isr.of = "usbreset" /\ isr.at # "body")
  /\ bus \in {"active", "idle"} /\ speed = "high" =>
       /\ "usbreset" \in usbirq => "hispeed" \in usbirq
       /\ \/ pDevConfig = "high"
          \/ "hispeed" \in usbirq /\ ~(isr.of = "hispeed" /\ isr.at # "body")

LEMMA SpeedStep ==
  ASSUME InterruptInv, SpeedInv, [Next]_vars PROVE SpeedInv'
<1> USE DEF SpeedInv
<1>i. /\ isr \in {NoIsr} \cup [of : Enabled, at : {"body", "first", "second"}]
      /\ isr # NoIsr => isr.of \in usbirq
  BY DEF InterruptInv
<1>1. CASE Main
  <2>1. UNCHANGED <<isr, usbirq, pDevConfig, speed>>
    BY <1>1
    DEF Main, EnableInterrupts, Renumerate, PollSud, Act, Ack, PollSuspend,
        ClearWakeup, Sleep, Woken, Resume, EndSignal, Step, Still, Quietly,
        Enable, int2Vars, usbVars
  <2>2. bus' = bus \/ bus' = "attached"
    BY <1>1
    DEF Main, EnableInterrupts, Renumerate, PollSud, Act, Ack, PollSuspend,
        ClearWakeup, Sleep, Woken, Resume, EndSignal, Still, Quietly
  <2> QED
    BY <2>1, <2>2
<1>2. CASE ResumeIsr
  BY <1>2 DEF ResumeIsr, OnlyIsr, int2Vars, hostVars
<1>3. CASE EnterIsr
  <2>1. /\ isr'.of = Vector /\ isr'.at = "body" /\ isr.of = "none"
        /\ UNCHANGED <<usbirq, pDevConfig, speed, bus>>
    BY <1>3 DEF EnterIsr, OnlyIsr, int2Vars, hostVars, NoIsr
  <2>2. Raised # {} /\ Raised = usbirq \cap Enabled
    BY <1>3 DEF EnterIsr, InterruptInv, Raised
  <2>3. "usbreset" \in usbirq => Vector # "hispeed"
    BY <2>2, VectorRaised DEF Enabled
  <2> QED
    BY <2>1, <2>3
<1>4. CASE IsrBody
  <2>1. /\ isr.at = "body" /\ isr.of \in Enabled /\ isr.of \in usbirq
        /\ isr'.of = isr.of /\ isr'.at = "first"
    BY <1>4, <1>i DEF IsrBody, IsrStep, NoIsr
  <2>2. /\ UNCHANGED <<usbirq, speed, bus>>
        /\ pDevConfig' = CASE isr.of = "usbreset" -> "full"
                           [] isr.of = "hispeed" -> "high"
                           [] OTHER -> pDevConfig
    BY <1>4 DEF IsrBody, IsrStep, OnlyIsr, int2Vars, hostVars
  <2>3. CASE isr.of = "usbreset"
    BY <2>1, <2>2, <2>3
  <2>4. CASE isr.of = "hispeed"
    BY <2>1, <2>2, <2>4
  <2>5. CASE isr.of \notin {"usbreset", "hispeed"}
    BY <2>1, <2>2, <2>5
  <2> QED
    BY <2>3, <2>4, <2>5
<1>5. CASE IsrClears
  <2>1. /\ isr.of \in Enabled /\ isr.of \in usbirq
        /\ isr.at \in {"first", "second"}
    BY <1>5, <1>i DEF IsrClears, IsrStep, NoIsr
  <2>2. UNCHANGED <<pDevConfig, speed, bus>>
    BY <1>5 DEF IsrClears, IsrStep, OnlyIsr, hostVars
  <2>3. CASE IsrStep("first", [isr EXCEPT !.at = "second"]) /\ CLEAR_USBINT
    <3>1. isr'.of = isr.of /\ isr'.at = "second" /\ usbirq' = usbirq
      BY <1>i, <2>1, <2>3 DEF IsrStep, CLEAR_USBINT, NoIsr
    <3> QED
      BY <2>1, <2>2, <3>1
  <2>4. CASE IsrStep("second", NoIsr) /\ ClearRequest(isr.of)
    <3>1. isr'.of = "none" /\ usbirq' = usbirq \ {isr.of}
      BY <2>4 DEF IsrStep, ClearRequest, NoIsr
    <3> QED
      BY <2>1, <2>2, <3>1
  <2> QED
    BY <1>5, <2>3, <2>4 DEF IsrClears
<1>6. CASE \E s \in Speeds : HostResets(s)
  <2>1. PICK s \in Speeds : HostResets(s)
    BY <1>6
  <2>2. /\ usbirq' = usbirq \cup {"usbreset"}
                       \cup (IF s = "high" THEN {"hispeed"} ELSE {})
        /\ speed' = s /\ UNCHANGED isr
        /\ "hispeed" \notin usbirq /\ isr.of \notin {"usbreset", "hispeed"}
    BY <2>1 DEF HostResets, SpeedSettled, Raise, OnlyHost
  <2> QED
    BY <2>2 DEF Speeds
<1>7. CASE Host /\ ~(\E s \in Speeds : HostResets(s))
  <2>1. UNCHANGED <<isr, pDevConfig, speed>>
    BY <1>7
    DEF Host, ClockStarts, HostSuspends, HostResumes, HostCompletes,
        LocalWakeup, HostSetup, OnlyHost, hostVars, usbVars
  <2>2. bus' \in {"active", "idle"} => bus \in {"active", "idle"}
    BY <1>7
    DEF Host, ClockStarts, HostSuspends, HostResumes, HostCompletes,
        LocalWakeup, HostSetup, hostVars
  <2>3. /\ "usbreset" \in usbirq' <=> "usbreset" \in usbirq
        /\ "hispeed" \in usbirq' <=> "hispeed" \in usbirq
    BY <1>7
    DEF Host, ClockStarts, HostSuspends, HostResumes, HostCompletes,
        LocalWakeup, HostSetup, Raise, int2Vars
  <2> QED
    BY <2>1, <2>2, <2>3
<1>8. CASE UNCHANGED vars
  BY <1>8 DEF vars, int2Vars, usbVars, hostVars
<1> QED
  BY <1>1, <1>2, <1>3, <1>4, <1>5, <1>6, <1>7, <1>8 DEF Next, Isr

-----------------------------------------------------------------------------
(* SET_INTERFACE. *)

For(alt) == Configured(pPacketSize(speed, alt), alt)
Selects == setupdat.code = "SET_INTERFACE"
Taken == isr.of = "sudav" /\ isr.at \in {"first", "second"}

(* A host that has a claim on the endpoint: it selected an alternate       *)
(* setting, or is about to.                                                *)
Claim == ctl \/ selected # NotSelected

(* A request is with the interrupt, with the flag or with the main loop,   *)
(* and until it has been acknowledged.                                     *)
StageInv ==
  /\ ctl => bus = "active"
  /\ selected # NotSelected => bus \in {"active", "idle"}
  /\ Taken => dosud
  /\ Claim /\ main \in {"act", "ack"} =>
       ctl /\ hsnak /\ ~dosud /\ "sudav" \notin usbirq
  /\ Claim /\ dosud => ctl /\ hsnak /\ ("sudav" \in usbirq => Taken)
  /\ Claim /\ "sudav" \in usbirq => ctl /\ hsnak

(* The endpoint is as selected.                                            *)
PacketInv ==
  /\ ctl /\ Selects => setupdat.value \in Settings(speed)
  /\ selected # NotSelected => selected \in Settings(speed)
  /\ ctl /\ Selects /\ (main = "ack" \/ ~hsnak) =>
       packets = For(setupdat.value)
  /\ selected # NotSelected /\ ~(ctl /\ Selects) => packets = For(selected)

LEMMA StageStep ==
  ASSUME Recovers = TRUE, InterruptInv, StageInv, [Next]_vars PROVE StageInv'
<1> USE DEF StageInv, Claim, Taken
<1>i. /\ isr \in {NoIsr} \cup [of : Enabled, at : {"body", "first", "second"}]
      /\ isr # NoIsr => isr.of \in usbirq
  BY DEF InterruptInv
<1>1. CASE PollSud
  BY <1>1 DEF PollSud, Step, Still, int2Vars, NoIsr
<1>2. CASE Act
  BY <1>2 DEF Act, Step, Still, int2Vars, flagVars
<1>3. CASE Ack
  BY <1>3 DEF Ack, Step, Still, int2Vars, flagVars
<1>4. CASE EnableInterrupts \/ Renumerate \/ PollSuspend \/ ClearWakeup
             \/ Sleep \/ Woken \/ Resume \/ EndSignal
  <2>1. /\ UNCHANGED <<isr, usbirq, dosud, hsnak, ctl, selected>>
        /\ main' \notin {"act", "ack"}
        /\ bus' = bus \/ bus = "off"
    BY <1>4
    DEF EnableInterrupts, Renumerate, PollSuspend, ClearWakeup, Sleep, Woken,
        Resume, EndSignal, Step, Still, Quietly, Enable, int2Vars, flagVars,
        InterruptInv
  <2> QED
    BY <2>1
<1>5. CASE ResumeIsr
  BY <1>5 DEF ResumeIsr, OnlyIsr, int2Vars, flagVars, hostVars
<1>6. CASE EnterIsr
  <2>1. isr'.at = "body" /\ isr.at = "none"
    BY <1>6 DEF EnterIsr, NoIsr
  <2> QED
    BY <1>6, <2>1 DEF EnterIsr, OnlyIsr, int2Vars, flagVars, hostVars
<1>7. CASE IsrBody
  <2>1. /\ isr.of \in usbirq /\ isr'.of = isr.of /\ isr'.at = "first"
        /\ isr.at = "body"
    BY <1>7, <1>i DEF IsrBody, IsrStep, NoIsr
  <2> QED
    BY <1>7, <2>1 DEF IsrBody, IsrStep, OnlyIsr, int2Vars, hostVars
<1>8. CASE IsrClears
  <2>1. isr.of \in usbirq /\ isr.at \in {"first", "second"}
    BY <1>8, <1>i DEF IsrClears, IsrStep, NoIsr
  <2>2. UNCHANGED <<main, dosud, hsnak, bus, ctl, selected>>
    BY <1>8 DEF IsrClears, IsrStep, OnlyIsr, flagVars, hostVars
  <2>3. CASE IsrStep("first", [isr EXCEPT !.at = "second"]) /\ CLEAR_USBINT
    <3>1. isr'.of = isr.of /\ isr'.at = "second" /\ usbirq' = usbirq
      BY <1>i, <2>1, <2>3 DEF IsrStep, CLEAR_USBINT, NoIsr
    <3> QED
      BY <2>1, <2>2, <3>1
  <2>4. CASE IsrStep("second", NoIsr) /\ ClearRequest(isr.of)
    <3>1. isr'.of = "none" /\ usbirq' = usbirq \ {isr.of}
      BY <2>4 DEF IsrStep, ClearRequest, NoIsr
    <3> QED
      BY <2>1, <2>2, <3>1
  <2> QED
    BY <1>8, <2>3, <2>4 DEF IsrClears
<1>9. CASE ClockStarts \/ HostSuspends \/ HostResumes \/ LocalWakeup
  <2>1. UNCHANGED <<main, isr, dosud, ctl, hsnak, selected>>
    BY <1>9
    DEF ClockStarts, HostSuspends, HostResumes, LocalWakeup, OnlyHost,
        flagVars, hostVars
  <2>2. "sudav" \in usbirq' <=> "sudav" \in usbirq
    BY <1>9
    DEF ClockStarts, HostSuspends, HostResumes, LocalWakeup, Raise, int2Vars
  <2>3. /\ bus \in {"active", "idle"} => bus' \in {"active", "idle"}
        /\ ctl => bus' = bus
    BY <1>9
    DEF ClockStarts, HostSuspends, HostResumes, LocalWakeup, hostVars
  <2> QED
    BY <2>1, <2>2, <2>3
<1>10. CASE HostCompletes
  BY <1>10 DEF HostCompletes, OnlyHost, int2Vars, flagVars
<1>11. CASE \E s \in Speeds : HostResets(s)
  BY <1>11 DEF HostResets, OnlyHost, flagVars
<1>12. CASE \E r \in Requests : HostSetup(r)
  BY <1>12 DEF HostSetup, OnlyHost, Raise, flagVars
<1>13. CASE UNCHANGED vars
  BY <1>13 DEF vars, int2Vars, flagVars, hostVars
<1> QED
  BY <1>1, <1>2, <1>3, <1>4, <1>5, <1>6, <1>7, <1>8, <1>9, <1>10, <1>11,
     <1>12, <1>13
  DEF Next, Main, Isr, Host

LEMMA PacketStep ==
  ASSUME Recovers = TRUE, StageInv, PacketInv, [Next]_vars PROVE PacketInv'
<1> USE DEF PacketInv, Selects
<1> DEFINE C(s, alt) == Configured(pPacketSize(s, alt), alt)
<1>f. \A alt : For(alt) = C(speed, alt) /\ For(alt)' = C(speed', alt)
  BY DEF For
<1> HIDE DEF C
<1>1. ASSUME UNCHANGED <<ctl, setupdat, selected, speed, packets, hsnak>>,
             main' = "ack" => main = "ack"
      PROVE  PacketInv'
  BY <1>1, <1>f
<1>2. CASE Act
  <2>1. /\ main = "act" /\ UNCHANGED <<ctl, setupdat, selected, speed, hsnak>>
        /\ Selects => packets' = C(speed, setupdat.value)
        /\ ~Selects => packets' = packets
    BY <1>2, <1>f
    DEF Act, SetInterface, Feature, Step, C
  <2> QED
    BY <2>1, <1>f DEF StageInv, Claim
<1>3. CASE Ack
  BY <1>3, <1>f DEF Ack, Step, Still, usbVars
<1>4. CASE EnableInterrupts \/ Renumerate \/ PollSud \/ PollSuspend
             \/ ClearWakeup \/ Sleep \/ Woken \/ Resume \/ EndSignal
  <2>1. /\ UNCHANGED <<ctl, setupdat, selected, speed, packets, hsnak>>
        /\ main' # "ack"
    BY <1>4
    DEF EnableInterrupts, Renumerate, PollSud, PollSuspend, ClearWakeup,
        Sleep, Woken, Resume, EndSignal, Step, Quietly, usbVars
  <2> QED
    BY <1>1, <2>1
<1>5. CASE Isr
  <2>1. /\ UNCHANGED <<ctl, setupdat, selected, speed, packets, hsnak>>
        /\ main' = "ack" => main = "ack"
    BY <1>5
    DEF Isr, ResumeIsr, EnterIsr, IsrBody, IsrClears, IsrStep, OnlyIsr,
        hostVars
  <2> QED
    BY <1>1, <2>1
<1>6. CASE ClockStarts \/ HostSuspends \/ HostResumes \/ LocalWakeup
             \/ UNCHANGED vars
  <2>1. UNCHANGED <<main, ctl, setupdat, selected, speed, packets, hsnak>>
    BY <1>6
    DEF ClockStarts, HostSuspends, HostResumes, LocalWakeup, OnlyHost, vars,
        hostVars, usbVars
  <2> QED
    BY <1>1, <2>1
<1>7. CASE HostCompletes
  BY <1>7, <1>f DEF HostCompletes, OnlyHost, usbVars
<1>8. CASE \E s \in Speeds : HostResets(s)
  BY <1>8 DEF HostResets
<1>9. CASE \E r \in Requests : HostSetup(r)
  <2>1. PICK r \in Requests : HostSetup(r)
    BY <1>9
  <2>2. /\ ~ctl /\ hsnak' /\ main \notin {"act", "ack"} /\ setupdat' = r
        /\ r.code = "SET_INTERFACE" => r.value \in Settings(speed)
        /\ UNCHANGED <<main, speed, selected, packets>>
    BY <2>1 DEF HostSetup, OnlyHost, usbVars
  <2> QED
    BY <2>2, <1>f
<1> QED
  BY <1>2, <1>3, <1>4, <1>5, <1>6, <1>7, <1>8, <1>9 DEF Next, Main, Host

(* The length and the number of packets of each alternate setting. *)
LEMMA AsAnnounced ==
  ASSUME speed \in Speeds, NEW alt \in Settings(speed)
  PROVE  /\ <<For(alt).bytes, For(alt).perFrame>> = Announced[speed][alt + 1]
         /\ For(alt).ep = (IF alt = 0 THEN 6 ELSE 2)
<1> USE DEF For, Configured, pPacketSize, Packets
<1>1. CASE speed = "full"
  <2>1. Settings(speed) = 0 .. 2
    BY <1>1 DEF Settings, MaxPacket
  <2>2. CASE alt = 0
    BY <1>1, <2>1, <2>2 DEF MaxPacket, Announced
  <2>3. CASE alt = 1
    BY <1>1, <2>1, <2>3 DEF MaxPacket, Announced
  <2>4. CASE alt = 2
    BY <1>1, <2>1, <2>4 DEF MaxPacket, Announced
  <2> QED
    BY <2>1, <2>2, <2>3, <2>4
<1>2. CASE speed = "high"
  <2>1. Settings(speed) = 0 .. 7
    BY <1>2 DEF Settings, MaxPacket
  <2>2. CASE alt = 0
    BY <1>2, <2>1, <2>2 DEF MaxPacket, Announced
  <2>3. CASE alt = 1
    BY <1>2, <2>1, <2>3 DEF MaxPacket, Announced
  <2>4. CASE alt = 2
    BY <1>2, <2>1, <2>4 DEF MaxPacket, Announced
  <2>5. CASE alt \in 3 .. 6
    BY <1>2, <2>1, <2>5 DEF MaxPacket, Announced
  <2>6. CASE alt = 7
    BY <1>2, <2>1, <2>6 DEF MaxPacket, Announced
  <2> QED
    BY <2>1, <2>2, <2>3, <2>4, <2>5, <2>6
<1> QED
  BY <1>1, <1>2 DEF Speeds

BusInv == InterruptInv /\ SpeedInv /\ StageInv /\ PacketInv /\ speed \in Speeds

LEMMA BusInvariant == ASSUME Recovers = TRUE PROVE Spec => []BusInv
<1>1. ASSUME Init PROVE BusInv
  <2>1. InterruptInv /\ SpeedInv /\ speed \in Speeds
    BY <1>1 DEF Init, InterruptInv, NothingLost, SpeedInv, NoIsr
  <2>2. StageInv /\ PacketInv
    BY <1>1 DEF Init, StageInv, PacketInv, Taken, Claim, NoIsr
  <2> QED
    BY <2>1, <2>2 DEF BusInv
<1>2. ASSUME BusInv, [Next]_vars PROVE BusInv'
  <2>1. speed' = speed \/ speed' \in Speeds
    <3>1. CASE \E s \in Speeds : HostResets(s)
      BY <3>1 DEF HostResets
    <3>2. CASE Main \/ Isr
      BY <3>2
      DEF Main, EnableInterrupts, Renumerate, PollSud, Act, Ack, PollSuspend,
          ClearWakeup, Sleep, Woken, Resume, EndSignal, Step, Isr, ResumeIsr,
          EnterIsr, IsrBody, IsrClears, IsrStep, OnlyIsr, hostVars
    <3> QED
      BY <1>2, <3>1, <3>2
      DEF Next, Host, ClockStarts, HostSuspends, HostResumes, HostCompletes,
          LocalWakeup, HostSetup, vars, hostVars
  <2> QED
    BY <1>2, <2>1, InterruptStep, SpeedStep, StageStep, PacketStep DEF BusInv
<1> QED
  BY <1>1, <1>2, PTL DEF Spec

(* Once the firmware is through, the endpoint sends as the descriptor for  *)
(* the current speed announces, whatever resets and changes of speed came  *)
(* in the middle of earlier requests.                                      *)
THEOREM PacketsAlwaysFit == ASSUME Recovers = TRUE PROVE Spec => []PacketsFit
<1>1. ASSUME BusInv PROVE PacketsFit
  <2> SUFFICES ASSUME Quiet, selected # NotSelected
      PROVE  /\ <<packets.bytes, packets.perFrame>>
                  = Announced[speed][selected + 1]
             /\ packets.ep = (IF selected = 0 THEN 6 ELSE 2)
             /\ pDevConfig = speed
    BY DEF PacketsFit
  <2>1. /\ bus \in {"active", "idle"} /\ ~ctl /\ speed \in Speeds
        /\ packets = For(selected) /\ selected \in Settings(speed)
    BY <1>1 DEF BusInv, StageInv, PacketInv, Quiet
  <2>2. "usbreset" \notin usbirq /\ "hispeed" \notin usbirq
    BY <1>1, <2>1 DEF BusInv, InterruptInv, Quiet, Raised, Enabled
  <2>3. pDevConfig = speed
    BY <1>1, <2>1, <2>2 DEF BusInv, SpeedInv, Speeds
  <2> QED
    BY <2>1, <2>3, AsAnnounced
<1> QED
  BY <1>1, BusInvariant, PTL
-----------------------------------------------------------------------------
(* Types. *)

LEMMA SizeBytes ==
  ASSUME NEW s \in Speeds, NEW alt \in 0 .. 7
  PROVE  /\ pPacketSize(s, alt)[1] \in 0 .. 255
         /\ pPacketSize(s, alt)[2] \in 0 .. 255
<1>1. CASE alt \notin Settings(s)
  <2>1. pPacketSize(s, alt) = <<255, 255>>
    BY <1>1 DEF pPacketSize, Stray
  <2> QED
    BY <2>1
<1>2. CASE alt \in Settings(s) /\ s = "full"
  <2>1. alt \in 0 .. 2 /\ pPacketSize(s, alt) = MaxPacket.full[alt + 1]
    BY <1>2 DEF Settings, MaxPacket, pPacketSize
  <2>2. \A i \in 1 .. 3 : /\ MaxPacket.full[i][1] \in 0 .. 255
                          /\ MaxPacket.full[i][2] \in 0 .. 255
    BY DEF MaxPacket
  <2> QED
    BY <2>1, <2>2
<1>3. CASE alt \in Settings(s) /\ s = "high"
  <2>1. pPacketSize(s, alt) = MaxPacket.high[alt + 1]
    BY <1>3 DEF MaxPacket, pPacketSize
  <2>2. \A i \in 1 .. 8 : /\ MaxPacket.high[i][1] \in 0 .. 255
                          /\ MaxPacket.high[i][2] \in 0 .. 255
    BY DEF MaxPacket
  <2> QED
    BY <2>1, <2>2
<1> QED
  BY <1>1, <1>2, <1>3 DEF Speeds

PacketsType(p) ==
  p.ep \in {2, 6} /\ p.bytes \in 0 .. 2047 /\ p.perFrame \in 1 .. 32

LEMMA ConfiguredType ==
  ASSUME NEW s \in Speeds, NEW alt \in 0 .. 7
  PROVE  PacketsType(Configured(pPacketSize(s, alt), alt))
<1>1. CASE alt = 0
  <2>1. pPacketSize(s, 0) \in {<<0, 2>>, <<64, 0>>}
    BY DEF pPacketSize, Settings, MaxPacket, Speeds
  <2> QED
    BY <1>1, <2>1 DEF PacketsType, Configured, Packets
<1>2. CASE alt # 0
  <2> DEFINE low == pPacketSize(s, alt)[1]
             high == pPacketSize(s, alt)[2]
  <2>1. low \in 0 .. 255 /\ high \in 0 .. 255
    BY SizeBytes
  <2>2. Configured(pPacketSize(s, alt), alt)
          = [ep |-> 2, bytes |-> low + 256 * (high % 8),
             perFrame |-> (high \div 8) + 1]
    BY <1>2 DEF Configured, Packets
  <2> HIDE DEF low, high
  <2>3. high % 8 \in 0 .. 7 /\ high \div 8 \in 0 .. 31
    BY <2>1
  <2>4. /\ low + 256 * (high % 8) \in 0 .. 2047
        /\ (high \div 8) + 1 \in 1 .. 32
    BY <2>1, <2>3
  <2>5. PacketsType([ep |-> 2, bytes |-> low + 256 * (high % 8),
                     perFrame |-> (high \div 8) + 1])
    BY <2>4 DEF PacketsType
  <2> QED
    BY <2>2, <2>5
<1> QED
  BY <1>1, <1>2

FlagInv ==
  /\ usbint \in BOOLEAN /\ resi \in BOOLEAN /\ ea \in BOOLEAN
  /\ dosud \in BOOLEAN /\ dosuspend \in BOOLEAN
  /\ remote_wakeup_allowed \in BOOLEAN /\ wu \in BOOLEAN
  /\ sigresume \in BOOLEAN /\ hsnak \in BOOLEAN /\ ctl \in BOOLEAN

PlaceInv ==
  /\ main \in Pcs
  /\ usbirq \subseteq Enabled
  /\ bus \in {"off", "attached", "active", "idle"}
  /\ pDevConfig \in Speeds /\ speed \in Speeds

ValueInv ==
  /\ PacketsType(packets)
  /\ setupdat \in Requests
  /\ selected \in Alternates \cup {NotSelected}
  /\ events \in 0 .. MaxEvents

LEMMA FlagStep == ASSUME FlagInv, [Next]_vars PROVE FlagInv'
<1> USE DEF FlagInv
<1>1. CASE EnableInterrupts \/ Renumerate \/ PollSud \/ PollSuspend
  BY <1>1 DEF EnableInterrupts, Renumerate, PollSud, PollSuspend, Step, Still,
              Enable, int2Vars, flagVars, usbVars, wakeVars
<1>2. CASE Act
  <2>1. remote_wakeup_allowed' \in BOOLEAN
    BY <1>2 DEF Act, SetInterface, Feature
  <2> QED
    BY <1>2, <2>1 DEF Act, Step, Still, int2Vars, flagVars, wakeVars
<1>3. CASE Ack \/ ClearWakeup \/ Sleep \/ Woken \/ EndSignal
  <2>1. UNCHANGED <<usbint, resi, ea, dosud, dosuspend, remote_wakeup_allowed>>
    BY <1>3 DEF Ack, ClearWakeup, Sleep, Woken, EndSignal, Step, Still,
                Quietly, int2Vars, flagVars, usbVars
  <2>2. wu' \in BOOLEAN /\ sigresume' \in BOOLEAN
    BY <1>3 DEF Ack, ClearWakeup, Sleep, Woken, EndSignal, wakeVars
  <2>3. hsnak' \in BOOLEAN /\ ctl' \in BOOLEAN
    BY <1>3 DEF Ack, ClearWakeup, Sleep, Woken, EndSignal, Step, Quietly
  <2> QED
    BY <2>1, <2>2, <2>3
<1>7. CASE Resume
  <2>1. UNCHANGED <<usbint, resi, ea, dosud, dosuspend, remote_wakeup_allowed,
                    wu, hsnak, ctl>>
    BY <1>7 DEF Resume, Step, Still, Quietly, int2Vars, flagVars, usbVars
  <2>2. sigresume' = wu
    BY <1>7 DEF Resume, REMOTE_WAKEUP
  <2> QED
    BY <2>1, <2>2
<1>4. CASE Isr
  <2>1. usbint' \in BOOLEAN /\ dosud' \in BOOLEAN /\ dosuspend' \in BOOLEAN
    BY <1>4 DEF Isr, ResumeIsr, EnterIsr, IsrBody, IsrClears, CLEAR_USBINT,
                ClearRequest, int2Vars, flagVars
  <2>2. resi' \in BOOLEAN
    BY <1>4 DEF Isr, ResumeIsr, EnterIsr, IsrBody, IsrClears, IsrStep
  <2>3. UNCHANGED <<ea, remote_wakeup_allowed, wu, sigresume, hsnak, ctl>>
    BY <1>4 DEF Isr, ResumeIsr, EnterIsr, IsrBody, IsrClears, IsrStep, OnlyIsr,
                wakeVars, hostVars
  <2> QED
    BY <2>1, <2>2, <2>3
<1>5. CASE Host
  <2>1. UNCHANGED <<ea, dosud, dosuspend, remote_wakeup_allowed, sigresume>>
    BY <1>5
    DEF Host, ClockStarts, HostSuspends, HostResumes, HostCompletes,
        LocalWakeup, HostResets, HostSetup, OnlyHost, flagVars, usbVars,
        wakeVars
  <2>2. UNCHANGED int2Vars \/ \E requests \in SUBSET Enabled : Raise(requests)
    BY <1>5
    DEF Host, ClockStarts, HostSuspends, HostResumes, HostCompletes,
        LocalWakeup, HostResets, HostSetup, Enabled
  <2>3. usbint' \in BOOLEAN
    BY <2>2 DEF Raise, int2Vars
  <2>4. resi' \in BOOLEAN /\ wu' \in BOOLEAN /\ hsnak' \in BOOLEAN
        /\ ctl' \in BOOLEAN
    BY <1>5
    DEF Host, ClockStarts, HostSuspends, HostResumes, HostCompletes,
        LocalWakeup, HostResets, HostSetup, wakeVars, hostVars
  <2> QED
    BY <2>1, <2>3, <2>4
<1>6. CASE UNCHANGED vars
  BY <1>6 DEF vars, int2Vars, flagVars, usbVars, wakeVars, hostVars
<1> QED
  BY <1>1, <1>2, <1>3, <1>4, <1>5, <1>6, <1>7 DEF Next, Main

LEMMA PlaceStep == ASSUME PlaceInv, [Next]_vars PROVE PlaceInv'
<1> USE DEF PlaceInv
<1>1. CASE Main
  <2>1. main' \in Pcs
    BY <1>1
    DEF Main, EnableInterrupts, Renumerate, PollSud, Act, Ack, PollSuspend,
        ClearWakeup, Sleep, Woken, Resume, EndSignal, Step, Pcs
  <2>2. UNCHANGED <<usbirq, pDevConfig, speed>>
    BY <1>1
    DEF Main, EnableInterrupts, Renumerate, PollSud, Act, Ack, PollSuspend,
        ClearWakeup, Sleep, Woken, Resume, EndSignal, Step, Still, Quietly,
        Enable, int2Vars, usbVars
  <2>3. bus' \in {bus, "attached"}
    BY <1>1
    DEF Main, EnableInterrupts, Renumerate, PollSud, Act, Ack, PollSuspend,
        ClearWakeup, Sleep, Woken, Resume, EndSignal, Still, Quietly
  <2> QED
    BY <2>1, <2>2, <2>3
<1>2. CASE Isr
  <2>1. main' \in {main, "woken"} /\ UNCHANGED <<bus, speed>>
    BY <1>2 DEF Isr, ResumeIsr, EnterIsr, IsrBody, IsrClears, IsrStep, OnlyIsr,
                hostVars
  <2>2. usbirq' \subseteq Enabled
    BY <1>2 DEF Isr, ResumeIsr, EnterIsr, IsrBody, IsrClears, CLEAR_USBINT,
                ClearRequest, int2Vars
  <2>3. pDevConfig' \in Speeds
    BY <1>2 DEF Isr, ResumeIsr, EnterIsr, IsrBody, IsrClears, Speeds
  <2> QED
    BY <2>1, <2>2, <2>3 DEF Pcs
<1>3. CASE Host
  <2>1. UNCHANGED <<main, pDevConfig>>
    BY <1>3
    DEF Host, ClockStarts, HostSuspends, HostResumes, HostCompletes,
        LocalWakeup, HostResets, HostSetup, OnlyHost, usbVars
  <2>2. UNCHANGED int2Vars \/ \E requests \in SUBSET Enabled : Raise(requests)
    BY <1>3
    DEF Host, ClockStarts, HostSuspends, HostResumes, HostCompletes,
        LocalWakeup, HostResets, HostSetup, Enabled
  <2>3. usbirq' \subseteq Enabled
    BY <2>2 DEF Raise, int2Vars
  <2>4. bus' \in {bus, "active", "idle"} /\ speed' \in Speeds
    BY <1>3
    DEF Host, ClockStarts, HostSuspends, HostResumes, HostCompletes,
        LocalWakeup, HostResets, HostSetup, hostVars
  <2> QED
    BY <2>1, <2>3, <2>4
<1>4. CASE UNCHANGED vars
  BY <1>4 DEF vars, int2Vars, usbVars, hostVars
<1> QED
  BY <1>1, <1>2, <1>3, <1>4 DEF Next

LEMMA ValueStep == ASSUME PlaceInv, ValueInv, [Next]_vars PROVE ValueInv'
<1> USE DEF ValueInv
<1>0. Alternates \subseteq 0 .. 7 /\ MaxEvents \in Nat
  BY ScopeBusAssumption
<1>1. setupdat.code = "SET_INTERFACE" => setupdat.value \in Alternates
  BY DEF Requests
<1>2. CASE Act
  <2>1. UNCHANGED <<setupdat, selected, events>>
    BY <1>2 DEF Act, Step
  <2>2. CASE Feature
    <3>1. packets' = packets
      BY <2>2 DEF Feature
    <3> QED
      BY <2>1, <3>1
  <2>3. CASE SetInterface
    <3>1. setupdat.value \in 0 .. 7 /\ speed \in Speeds
      BY <1>0, <1>1, <2>3 DEF SetInterface, PlaceInv
    <3>2. PacketsType(packets')
      BY <2>3, <3>1, ConfiguredType DEF SetInterface
    <3> QED
      BY <2>1, <3>2
  <2> QED
    BY <1>2, <2>2, <2>3 DEF Act
<1>3. CASE Main /\ ~Act
  <2>1. UNCHANGED <<packets, setupdat, selected, events>>
    BY <1>3
    DEF Main, EnableInterrupts, Renumerate, PollSud, Ack, PollSuspend,
        ClearWakeup, Sleep, Woken, Resume, EndSignal, Step, Still, Quietly,
        usbVars
  <2> QED
    BY <2>1
<1>4. CASE Isr
  <2>1. UNCHANGED <<packets, setupdat, selected, events>>
    BY <1>4 DEF Isr, ResumeIsr, EnterIsr, IsrBody, IsrClears, IsrStep, OnlyIsr,
                hostVars
  <2> QED
    BY <2>1
<1>5. CASE Host
  <2>1. packets' = packets
    BY <1>5
    DEF Host, ClockStarts, HostSuspends, HostResumes, HostCompletes,
        LocalWakeup, HostResets, HostSetup, OnlyHost, usbVars
  <2>2. setupdat' \in Requests
    BY <1>5
    DEF Host, ClockStarts, HostSuspends, HostResumes, HostCompletes,
        LocalWakeup, HostResets, HostSetup, hostVars
  <2>3. \/ selected' \in {selected, NotSelected}
        \/ selected' = setupdat.value /\ setupdat.code = "SET_INTERFACE"
    <3>1. CASE HostCompletes
      BY <3>1 DEF HostCompletes
    <3>2. CASE Host /\ ~HostCompletes
      BY <3>2
      DEF Host, ClockStarts, HostSuspends, HostResumes, LocalWakeup,
          HostResets, HostSetup, hostVars
    <3> QED
      BY <1>5, <3>1, <3>2
  <2>4. events' = events \/ Event
    BY <1>5
    DEF Host, ClockStarts, HostSuspends, HostResumes, HostCompletes,
        LocalWakeup, HostResets, HostSetup, NoEvent, hostVars
  <2>5. events' \in 0 .. MaxEvents
    BY <1>0, <2>4 DEF Event
  <2> QED
    BY <1>1, <2>1, <2>2, <2>3, <2>5
<1>6. CASE UNCHANGED vars
  BY <1>6 DEF vars, usbVars, hostVars
<1> QED
  BY <1>2, <1>3, <1>4, <1>5, <1>6 DEF Next

(* Types: whatever alternate setting the host selects, also one that the   *)
(* current speed does not have, the endpoint's length and its number of    *)
(* packets stay within their registers (scope.inc:163-182).                *)
THEOREM BusTypeCorrect == Spec => []TypeOK
<1> DEFINE TypeInv == FlagInv /\ PlaceInv /\ ValueInv
<1>1. ASSUME Init PROVE TypeInv
  <2>1. FlagInv /\ PlaceInv
    BY <1>1 DEF Init, FlagInv, PlaceInv, Pcs, Speeds
  <2>2. PacketsType(packets)
    <3>1. speed \in Speeds /\ 0 \in 0 .. 7
      BY <1>1 DEF Init
    <3> QED
      BY <1>1, <3>1, ConfiguredType DEF Init
  <2>3. ValueInv
    BY <1>1, <2>2, ScopeBusAssumption DEF Init, ValueInv
  <2> QED
    BY <2>1, <2>3
<1>2. TypeInv /\ [Next]_vars => TypeInv'
  BY FlagStep, PlaceStep, ValueStep
<1>3. ASSUME InterruptInv, TypeInv PROVE TypeOK
  <2>1. {usbint, resi, ea, dosud, dosuspend, remote_wakeup_allowed, wu,
         sigresume, hsnak, ctl} \subseteq BOOLEAN
    BY <1>3 DEF FlagInv
  <2> QED
    BY <1>3, <2>1
    DEF InterruptInv, PlaceInv, ValueInv, PacketsType, TypeOK
<1> QED
  BY <1>1, <1>2, <1>3, InterruptInvariant, PTL DEF Spec
=============================================================================
