------------------------------- MODULE MCScope -------------------------------
(* Small instances: a ledcounter of two 1-bit bytes, and the requests that *)
(* a question is about.                                                    *)
EXTENDS ScopeProperties

Restarts == {"SET_VOLTAGE", "TRIGGER", "ALT0", "ALT1"}
Sampling == {"SET_SAMPLERATE", "TRIGGER", "ALT0", "ALT1",
             "SET_CONFIGURATION", "UNKNOWN"}
Leds == {"SET_VOLTAGE", "SET_COUPLING", "TRIGGER", "UNKNOWN"}
Anything == Requests
NotRefused == Requests \ {"UNKNOWN"}
Nothing == {}
=============================================================================
