------------------------ MODULE MCPicobootConnection ------------------------
(* The connection has no constants: the module is checked as it stands.    *)
EXTENDS PicobootConnection
=============================================================================
