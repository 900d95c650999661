--------------------------- MODULE MCUdpInEndpoint ---------------------------
(* Instances of UdpInEndpoint for TLC: a bulk endpoint whose transfers are *)
(* run in the interrupt routine; an endpoint with one bank, served from    *)
(* the main thread; and one whose callback runs the next transfer even     *)
(* when the last was aborted, as the keyboard's.                           *)
EXTENDS UdpInEndpoint

MCUses ==
  {[banks |-> 2, thread |-> FALSE, rerun |-> FALSE, disturbed |-> TRUE],
   [banks |-> 1, thread |-> TRUE,  rerun |-> FALSE, disturbed |-> FALSE],
   [banks |-> 2, thread |-> FALSE, rerun |-> TRUE,  disturbed |-> TRUE]}
=============================================================================
