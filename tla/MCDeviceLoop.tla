---------------------------- MODULE MCDeviceLoop ----------------------------
(***************************************************************************)
(* The session of MCSigningSession in the event loop.  One review and one  *)
(* key cannot be displayed, so that the loop takes its error arms; the     *)
(* formatters accept every value the core produces, which makes them dead  *)
(* on the device.                                                          *)
(***************************************************************************)
EXTENDS DeviceLoop, MCSigningSession

MCDisplayable == (MCKey \ {k2}) \cup (MCReview \ {<<1, 0>>})
=============================================================================
