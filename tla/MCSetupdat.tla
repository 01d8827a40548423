----------------------------- MODULE MCSetupdat -----------------------------
(* Requests for EP0, EP2 IN and an endpoint that does not exist; what a    *)
(* request does not look at has one value.                                 *)
EXTENDS Setupdat

SomeStrings == {0, 1, 3, 4, 255}
SomeIndices == {0, 130, 3}
Varied ==
  {r \in Requests :
     /\ r.code # "GET_DESCRIPTOR" /\ r.to = "device" => r.index = 0
     /\ r.code = "GET_DESCRIPTOR" /\ r.index # 3 => r.value = 0
     /\ r.code = "GET_STATUS" /\ r.to = "interface" => r.index = 0
     /\ r.code \in {"CLEAR_FEATURE", "SET_FEATURE"} /\ r.to = "interface"
          => r.index = 0 /\ r.value = 0
     /\ r.code \in {"GET_CONFIGURATION", "GET_INTERFACE", "OTHER"}
          => r.value = 0}

ASSUME StringSearch == SearchIsRight
=============================================================================
