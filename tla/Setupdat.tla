------------------------------ MODULE Setupdat ------------------------------
(***************************************************************************)
(* The standard requests: handle_setupdata of fx2lib/lib/setupdat.c with   *)
(* the callbacks of src/fx2lafw.c, the interrupt handlers that switch the  *)
(* descriptors with the bus speed, and a host that keeps a picture of the  *)
(* device: which endpoints are halted, whether remote wakeup is allowed,   *)
(* and which data toggle comes next on EP2.  The host waits for the main   *)
(* loop before it sends the next SETUP (module Fx2lafw has the others).    *)
(***************************************************************************)
EXTENDS Naturals, Sequences, TLC

CONSTANTS
  Indices,      \* the endpoints and interfaces that requests name
  StringNumbers,\* the numbers of the strings that the host asks for
  Asked,        \* the requests the host makes
  Reconfigures, \* the host repeats SET_CONFIGURATION on a used device
  ResetsBusy    \* the host resets the bus in the middle of a transfer

NULL == 255
Bulk == 2       \* EP2

(* ep_addr.  EP1 has a register per direction, the others one for both.    *)
Register(ep) ==
  LET number == ep % 128
  IN  IF number = 1 THEN ep
      ELSE IF number \in {0, 2, 4, 6, 8} THEN number ELSE NULL

Recipients == {"device", "interface", "endpoint"}
Requests ==
  [code : {"GET_STATUS"}, to : Recipients, value : {0}, index : Indices]
  \cup [code : {"CLEAR_FEATURE", "SET_FEATURE"}, to : Recipients,
        value : 0 .. 2, index : Indices]
  \cup [code : {"GET_DESCRIPTOR"}, to : {"device"}, value : StringNumbers,
        index : {1, 2, 3, 6, 7, 8}]
  \cup [code : {"GET_CONFIGURATION", "SET_CONFIGURATION", "OTHER"},
        to : {"device"}, value : {0, 1}, index : {0}]
  \cup [code : {"GET_INTERFACE", "SET_INTERFACE"}, to : {"interface"},
        value : {0, 1}, index : Indices]
HasAnswer(r) == r.code \in {"GET_STATUS", "GET_DESCRIPTOR",
                            "GET_CONFIGURATION", "GET_INTERFACE"}

ASSUME SetupdatAssumption ==
  /\ Indices \subseteq 0 .. 254
  /\ StringNumbers \subseteq 0 .. 255
  /\ Asked \subseteq Requests
  /\ {Reconfigures, ResetsBusy} \subseteq BOOLEAN

VARIABLES
  main,          \* where the main loop is
  got_sud,       \* a SETUP packet waits for it
  irq,           \* pending interrupts
  setupdat, stall, hsnak,   \* endpoint 0
  answer,        \* what EP0 sends in the data stage; a pair, see Answers
  sudptrh,       \* the descriptor SUDPTRH points to
  pDevConfig, pOtherConfig, \* the descriptors of this and the other speed
  halted,        \* endpoint registers with the STALL bit set, EP0 excepted
  remote_wakeup_allowed,
  toggle,        \* the data toggle of EP2
  ctl,           \* stage of the host's control transfer
  speed,         \* the bus speed
  believed       \* the host's picture of the device

deviceVars == <<halted, remote_wakeup_allowed, toggle>>
ep0Vars == <<setupdat, stall, hsnak, answer, sudptrh>>
configVars == <<pDevConfig, pOtherConfig>>
hostVars == <<ctl, speed, believed>>
vars == <<main, got_sud, irq, ep0Vars, configVars, deviceVars, hostVars>>

Speeds == {"full", "high"}
Other(s) == IF s = "full" THEN "high" ELSE "full"
StringNames == <<"language", "vendor", "product", "serial">>
Descriptors == Speeds \cup {"device", "qualifier"}
                 \cup {StringNames[i] : i \in DOMAIN StringNames}
None == <<"none", "none">>
YesNo == {"yes", "no"}
Answers ==
  {None} \cup (Descriptors \X Descriptors)
    \cup ({"wakeup", "halt"} \X YesNo)
    \cup ({"interface", "alternate", "configuration"} \X {"0", "1"})
Say(b) == IF b THEN "yes" ELSE "no"

Picture == [halted : SUBSET {Register(i) : i \in Indices}, wakeup : BOOLEAN,
            toggle : {0, 1}, sure : BOOLEAN]
Blank == [halted |-> {}, wakeup |-> FALSE, toggle |-> 0, sure |-> TRUE]

TypeOK ==
  /\ main \in {"poll", "dispatch", "low", "handshake", "clear_sud"}
  /\ got_sud \in BOOLEAN
  /\ irq \subseteq {"sudav", "usbreset", "hispeed"}
  /\ setupdat \in Requests /\ stall \in BOOLEAN /\ hsnak \in BOOLEAN
  /\ answer \in Answers
  /\ sudptrh \in Descriptors
  /\ pDevConfig \in Speeds /\ pOtherConfig = Other(pDevConfig)
  /\ halted \subseteq {Register(i) : i \in Indices} \ {0, NULL}
  /\ remote_wakeup_allowed \in BOOLEAN
  /\ toggle \in {0, 1}
  /\ ctl \in {"idle", "data", "status"}
  /\ speed \in Speeds
  /\ believed \in Picture

Init ==
  /\ main = "poll" /\ got_sud = FALSE /\ irq = {}
  /\ setupdat \in {r \in Asked : r.code = "GET_CONFIGURATION"}
  /\ stall = FALSE /\ hsnak = FALSE
  /\ answer = None /\ sudptrh = "device"
  /\ pDevConfig = "full" /\ pOtherConfig = "high"
  /\ halted = {} /\ remote_wakeup_allowed = FALSE
  /\ toggle = 0
  /\ ctl = "idle" /\ speed = "full"
  /\ believed = Blank

-----------------------------------------------------------------------------
(* The main loop. *)
Step(from, to) ==
  /\ main = from
  /\ main' = to
  /\ UNCHANGED <<irq, configVars, hostVars>>

Request(code) == setupdat.code = code
To(recipient) == setupdat.to = recipient
Named == Register(setupdat.index)

Poll ==
  /\ got_sud
  /\ Step("poll", "dispatch")
  /\ UNCHANGED <<got_sud, ep0Vars, deviceVars>>

(* EP0BUF is filled and EP0BCL written. *)
Reply(what) ==
  /\ answer' = what
  /\ UNCHANGED <<setupdat, stall, hsnak, sudptrh>>

GetStatus ==
  /\ Request("GET_STATUS")
  /\ \/ To("interface") /\ Reply(<<"interface", "0">>)
     \/ To("device") /\ Reply(<<"wakeup", Say(remote_wakeup_allowed)>>)
     \/ /\ To("endpoint")
        /\ Named # NULL
        /\ Reply(<<"halt", Say(IF Named = 0 THEN stall
                               ELSE Named \in halted)>>)
  /\ UNCHANGED deviceVars

(* DEVICE_REMOTE_WAKEUP is feature 1, TEST_MODE feature 2: accepted, and   *)
(* left to the core.                                                       *)
SetDeviceFeature(value) ==
  /\ To("device")
  /\ setupdat.value = 1
  /\ remote_wakeup_allowed' = value
  /\ UNCHANGED <<ep0Vars, halted, toggle>>

\* Slip: the case of TEST_MODE falls through to the next one.
SetTestMode_through ==
  /\ Request("SET_FEATURE") /\ To("device") /\ setupdat.value = 2
  /\ remote_wakeup_allowed' = TRUE
  /\ UNCHANGED <<ep0Vars, halted, toggle>>

SetTestMode ==
  /\ Request("SET_FEATURE") /\ To("device") /\ setupdat.value = 2
  /\ UNCHANGED <<ep0Vars, deviceVars>>

\* Slip: setting the STALL bit leaves the data toggle alone.
Halt_notoggle ==
  /\ Named # NULL
  /\ stall' = (stall \/ Named = 0)
  /\ halted' = halted \cup ({Named} \ {0})
  /\ UNCHANGED <<setupdat, hsnak, answer, sudptrh, remote_wakeup_allowed,
                 toggle>>

(* ENDPOINT_HALT is feature 0.  Setting it resets the data toggle of the   *)
(* direction that was named.  Clearing it writes to whatever ep_addr       *)
(* returns, also to NULL, which is left out here.                          *)
Halt ==
  /\ Named # NULL
  /\ stall' = (stall \/ Named = 0)
  /\ halted' = halted \cup ({Named} \ {0})
  /\ toggle' = IF setupdat.index = 128 + Bulk THEN 0 ELSE toggle
  /\ UNCHANGED <<setupdat, hsnak, answer, sudptrh, remote_wakeup_allowed>>

Unhalt ==
  /\ stall' = (stall /\ Named # 0)
  /\ halted' = halted \ {Named}
  /\ UNCHANGED <<setupdat, hsnak, answer, sudptrh, remote_wakeup_allowed,
                 toggle>>

SetFeature ==
  /\ Request("SET_FEATURE")
  /\ \/ SetDeviceFeature(TRUE)
     \/ To("endpoint") /\ setupdat.value = 0 /\ Halt

ClearFeature ==
  /\ Request("CLEAR_FEATURE")
  /\ \/ SetDeviceFeature(FALSE)
     \/ To("endpoint") /\ setupdat.value = 0 /\ Unhalt

(* The string descriptors in memory: a length, a type and the characters,  *)
(* one after the other.  The first three are the same for all devices; the *)
(* last one, and the word of zeros behind it, are in the device's own file *)
(* (here "Saleae Logic").                                                  *)
String(characters) ==
  <<2 * characters + 2, 3>> \o [i \in 1 .. 2 * characters |-> 65]
Language == <<4, 3, 9, 4>>
SharedStrings == Language \o String(6) \o String(7)
dev_strings == SharedStrings \o String(12) \o <<0, 0>>

(* The search for a string: pStr moves by the length it points to, until   *)
(* the number is reached or that is no string (0, NULL).                   *)
Find[pStr \in 1 .. Len(dev_strings), left \in 0 .. 255] ==
  IF left = 0 THEN pStr
  ELSE LET next == pStr + dev_strings[pStr]
       IN  IF dev_strings[next + 1] # 3 THEN 0 ELSE Find[next, left - 1]

StringAt ==
  1 :> "language" @@ 5 :> "vendor" @@ 19 :> "product" @@ 35 :> "serial"

(* GET_DESCRIPTOR: the type is SETUPDAT[3], here index; SETUPDAT[2], here  *)
(* value, is the number of a string.  Writing SUDPTRL sends the descriptor *)
(* that SUDPTRH and SUDPTRL point to.                                      *)
DescriptorOf(type) ==
  CASE type = 1 -> "device"
    [] type = 2 -> pDevConfig
    [] type = 3 -> StringAt[Find[1, setupdat.value]]
    [] type = 6 -> "qualifier"
    [] type = 7 -> pOtherConfig

HasDescriptor ==
  /\ Request("GET_DESCRIPTOR")
  /\ \/ setupdat.index \in {1, 2, 6, 7}
     \/ setupdat.index = 3 /\ Find[1, setupdat.value] # 0

GetDescriptor ==
  /\ HasDescriptor
  /\ Step("dispatch", "low")
  /\ sudptrh' = DescriptorOf(setupdat.index)
  /\ UNCHANGED <<got_sud, setupdat, stall, hsnak, answer, deviceVars>>

\* Slip: SUDPTRL is not written, and nothing is sent.
SendDescriptor_never ==
  /\ Step("low", "handshake")
  /\ UNCHANGED <<got_sud, setupdat, stall, hsnak, answer, sudptrh, deviceVars>>

SendDescriptor ==
  /\ Step("low", "handshake")
  /\ answer' = <<sudptrh, DescriptorOf(setupdat.index)>>
  /\ UNCHANGED <<got_sud, setupdat, stall, hsnak, sudptrh, deviceVars>>

GetConfiguration ==
  /\ Request("GET_CONFIGURATION")
  /\ Reply(<<"configuration", "1">>)
  /\ UNCHANGED deviceVars

SetConfiguration ==
  /\ Request("SET_CONFIGURATION") /\ setupdat.value = 1
  /\ UNCHANGED <<ep0Vars, deviceVars>>

GetInterface ==
  /\ Request("GET_INTERFACE") /\ setupdat.index = 0
  /\ Reply(<<"alternate", "0">>)
  /\ UNCHANGED deviceVars

(* RESETTOGGLE(0x82), RESETFIFO(0x02) *)
SetInterface ==
  /\ Request("SET_INTERFACE") /\ setupdat.index = 0 /\ setupdat.value = 0
  /\ toggle' = 0
  /\ UNCHANGED <<ep0Vars, halted, remote_wakeup_allowed>>

(* Everything else is stalled. *)
Unknown ==
  \/ Request("GET_STATUS") /\ To("endpoint") /\ Named = NULL
  \/ /\ setupdat.code \in {"CLEAR_FEATURE", "SET_FEATURE"}
     /\ \/ To("interface")
        \/ To("device") /\ setupdat.value # 1
             /\ ~(Request("SET_FEATURE") /\ setupdat.value = 2)
        \/ To("endpoint") /\ setupdat.value # 0
        \/ To("endpoint") /\ Request("SET_FEATURE") /\ Named = NULL
  \/ Request("GET_DESCRIPTOR") /\ ~HasDescriptor
  \/ Request("SET_CONFIGURATION") /\ setupdat.value # 1
  \/ Request("GET_INTERFACE") /\ setupdat.index # 0
  \/ Request("SET_INTERFACE") /\ (setupdat.index # 0 \/ setupdat.value # 0)
  \/ Request("OTHER")

Refuse ==
  /\ Unknown
  /\ stall' = TRUE
  /\ UNCHANGED <<setupdat, hsnak, answer, sudptrh, deviceVars>>

Dispatch ==
  /\ Step("dispatch", "handshake")
  /\ UNCHANGED got_sud
  /\ \/ GetStatus \/ SetFeature \/ SetTestMode \/ ClearFeature
     \/ GetConfiguration \/ SetConfiguration \/ GetInterface
     \/ SetInterface \/ Refuse

Handshake ==
  /\ Step("handshake", "clear_sud")
  /\ hsnak' = FALSE
  /\ UNCHANGED <<got_sud, setupdat, stall, answer, sudptrh, deviceVars>>

ClearSud ==
  /\ Step("clear_sud", "poll")
  /\ got_sud' = FALSE
  /\ UNCHANGED <<ep0Vars, deviceVars>>

Main == Poll \/ Dispatch \/ GetDescriptor \/ SendDescriptor \/ Handshake
          \/ ClearSud

-----------------------------------------------------------------------------
(* Interrupt handlers.  Reset comes before the switch to high speed.       *)
Acknowledge(i) ==
  /\ i \in irq
  /\ irq' = irq \ {i}
  /\ UNCHANGED <<main, ep0Vars, deviceVars, hostVars>>

SudavIsr ==
  /\ Acknowledge("sudav")
  /\ got_sud' = TRUE
  /\ UNCHANGED configVars

\* Slip: the descriptors of the other speed are not switched back.
HandleHispeed_oneway(highspeed) ==
  /\ pDevConfig' = IF highspeed THEN "high" ELSE "full"
  /\ pOtherConfig' = IF highspeed THEN "full" ELSE pOtherConfig

HandleHispeed(highspeed) ==
  /\ pDevConfig' = IF highspeed THEN "high" ELSE "full"
  /\ pOtherConfig' = IF highspeed THEN "full" ELSE "high"

UsbresetIsr ==
  /\ Acknowledge("usbreset")
  /\ HandleHispeed(FALSE)
  /\ UNCHANGED got_sud

HispeedIsr ==
  /\ "usbreset" \notin irq
  /\ Acknowledge("hispeed")
  /\ HandleHispeed(TRUE)
  /\ UNCHANGED got_sud

-----------------------------------------------------------------------------
(* The host and the bus (external). *)
Settled == main = "poll" /\ ~got_sud /\ irq = {}

(* A host clears only a halt that it knows of, and configures a device     *)
(* that it has not read from.                                              *)
Sensible(r) ==
  /\ r.code = "SET_CONFIGURATION" => Reconfigures \/ believed.toggle = 0
  /\ r.code = "CLEAR_FEATURE" /\ r.to = "endpoint" /\ Register(r.index) = Bulk
       => Bulk \in believed.halted

HostSetup(r) ==
  /\ ctl = "idle"
  /\ Settled
  /\ Sensible(r)
  /\ ctl' = IF HasAnswer(r) THEN "data" ELSE "status"
  /\ setupdat' = r
  /\ answer' = None /\ stall' = FALSE /\ hsnak' = TRUE
  /\ irq' = irq \cup {"sudav"}
  /\ UNCHANGED <<main, got_sud, sudptrh, configVars, deviceVars, speed,
                 believed>>

HostReads ==
  /\ ctl = "data" /\ answer # None /\ ~stall
  /\ ctl' = "status"
  /\ UNCHANGED <<main, got_sud, irq, ep0Vars, configVars, deviceVars, speed,
                 believed>>

(* What the host takes a completed request to have done. *)
Learns(r) ==
  CASE r.code = "SET_FEATURE" /\ r.to = "endpoint" /\ r.value = 0 ->
         [believed EXCEPT !.halted = @ \cup {Register(r.index)}]
    [] r.code = "CLEAR_FEATURE" /\ r.to = "endpoint" /\ r.value = 0 ->
         [believed EXCEPT !.halted = @ \ {Register(r.index)},
            !.toggle = IF r.index = 128 + Bulk THEN 0 ELSE @]
    [] r.code \in {"SET_FEATURE", "CLEAR_FEATURE"} /\ r.to = "device"
         /\ r.value = 1 ->
         [believed EXCEPT !.wakeup = r.code = "SET_FEATURE"]
    [] r.code \in {"SET_INTERFACE", "SET_CONFIGURATION"} ->
         [believed EXCEPT !.toggle = 0]
    [] OTHER -> believed

HostCompletes ==
  /\ ctl = "status" /\ ~hsnak /\ ~stall
  /\ ctl' = "idle"
  /\ believed' = Learns(setupdat)
  /\ UNCHANGED <<main, got_sud, irq, ep0Vars, configVars, deviceVars, speed>>

HostStalled ==
  /\ ctl # "idle" /\ stall
  /\ ctl' = "idle"
  /\ UNCHANGED <<main, got_sud, irq, ep0Vars, configVars, deviceVars, speed,
                 believed>>

(* IN tokens on EP2: the host drops a packet with the wrong toggle.        *)
BulkIn ==
  /\ Bulk \notin halted
  /\ ctl = "idle" /\ Settled
  /\ toggle' = 1 - toggle
  /\ believed' = IF toggle = believed.toggle
                 THEN [believed EXCEPT !.toggle = 1 - @] ELSE believed
  /\ UNCHANGED <<main, got_sud, irq, ep0Vars, configVars, halted,
                 remote_wakeup_allowed, ctl, speed>>

(* A bus reset ends every transfer; the core clears the STALL bits and the *)
(* toggles.  The host does not forget what the firmware keeps, but whether *)
(* a request that was cut off took effect it cannot tell.                  *)
Quiet == Settled /\ ctl = "idle"

BusReset(s) ==
  /\ ResetsBusy \/ Quiet
  /\ ctl' = "idle"
  /\ speed' = s
  /\ irq' = (irq \ {"hispeed"}) \cup {"usbreset"}
              \cup (IF s = "high" THEN {"hispeed"} ELSE {})
  /\ halted' = {} /\ toggle' = 0 /\ stall' = FALSE
  /\ believed' = [believed EXCEPT !.halted = {}, !.toggle = 0,
                                   !.sure = @ /\ Quiet]
  /\ UNCHANGED <<main, got_sud, setupdat, hsnak, answer, sudptrh, configVars,
                 remote_wakeup_allowed>>

Host ==
  \/ \E r \in Asked : HostSetup(r)
  \/ HostReads \/ HostCompletes \/ HostStalled \/ BulkIn
  \/ \E s \in Speeds : BusReset(s)

Next == Main \/ SudavIsr \/ UsbresetIsr \/ HispeedIsr \/ Host

Spec == Init /\ [][Next]_vars

(* The CPU goes on, interrupts are taken, the host ends what it began.     *)
FairSpec ==
  /\ Spec
  /\ WF_vars(Main) /\ WF_vars(SudavIsr)
  /\ WF_vars(UsbresetIsr) /\ WF_vars(HispeedIsr)
  /\ WF_vars(HostReads \/ HostCompletes \/ HostStalled)

-----------------------------------------------------------------------------
(* PICTURE.  Between transfers the device is what the host believes it to  *)
(* be: an acknowledged request took effect, a stalled one had none         *)
(* (setupdat.c:76-128).                                                    *)
PictureTrue ==
  Quiet /\ believed.sure =>
    /\ halted = believed.halted
    /\ remote_wakeup_allowed = believed.wakeup

(* TOGGLE.  A working EP2 and the host agree on the next data toggle, so   *)
(* that no packet is taken for a repeated one and dropped                  *)
(* (setupdat.c:251-253, fx2lafw.c:168-170).                                *)
ToggleAgrees ==
  Quiet /\ Bulk \notin halted => toggle = believed.toggle

(* ANSWERS.  What the host reads is true at the time it reads it, for the  *)
(* bus speed that is current then, however resets, speed changes and the   *)
(* two writes of SUDPTR fall together (setupdat.c:281-292, 302-359), and   *)
(* the device's status is what the host made it.                           *)
TrueAnswer(r) ==
  CASE r.code = "GET_STATUS" /\ r.to = "interface" -> <<"interface", "0">>
    [] r.code = "GET_STATUS" /\ r.to = "device" /\ believed.sure ->
         <<"wakeup", Say(believed.wakeup)>>
    [] r.code = "GET_STATUS" /\ r.to = "endpoint" /\ believed.sure ->
         <<"halt", Say(Register(r.index) \in believed.halted)>>
    [] r.code = "GET_DESCRIPTOR" /\ r.index = 2 -> <<speed, speed>>
    [] r.code = "GET_DESCRIPTOR" /\ r.index = 7 ->
         <<Other(speed), Other(speed)>>
    [] r.code = "GET_DESCRIPTOR" /\ r.index = 3 ->
         <<StringNames[r.value + 1], StringNames[r.value + 1]>>
    [] OTHER -> answer

AnswersTrue ==
  ctl = "data" /\ answer # None => answer = TrueAnswer(setupdat)

(* The search finds the string with the number asked for, and none for a   *)
(* number past the last (setupdat.c:317-346).  TLC computes it for every   *)
(* byte (MCSetupdat); the proof of AnswersTrue has it as a hypothesis.     *)
SearchIsRight ==
  \A v \in 0 .. 255 :
    IF v < Len(StringNames) THEN StringAt[Find[1, v]] = StringNames[v + 1]
    ELSE Find[1, v] = 0

(* COMPLETION.  Every request is answered or refused.                      *)
RequestCompletes == ctl # "idle" ~> ctl = "idle"
=============================================================================
