-------------------------- MODULE MCTerminalSession --------------------------
(* TerminalSession on small instances: the streams, and the window sizes.  *)
EXTENDS TerminalSession
=============================================================================
