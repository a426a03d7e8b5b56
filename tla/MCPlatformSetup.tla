--------------------------- MODULE MCPlatformSetup ---------------------------
(* The platform-setup pipeline for TLC. *)
EXTENDS PlatformSetup
==============================================================================
