---------------------------- MODULE MCDiscovery -----------------------------
(***************************************************************************)
(* Two identifiers, two frames in flight and room for two events, so that  *)
(* the notifications about two objects and their end overflow it; with a   *)
(* session open, one request for each way to accept and to end one.        *)
(***************************************************************************)
EXTENDS Discovery

MCInventories == {<<>>, <<1, 2>>}
MCCrowd == {"CommandSend", "Wink", "Mode", "ActivateScene"}
=============================================================================
