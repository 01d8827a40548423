----------------------------- MODULE MCScopeBus -----------------------------
(* The bulk setting, the largest isochronous one, and the last one that    *)
(* only the high-speed configuration has.                                  *)
EXTENDS ScopeBus

Some == {0, 1, 7}
=============================================================================
