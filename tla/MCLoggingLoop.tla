--------------------------- MODULE MCLoggingLoop ---------------------------
(* LoggingLoop with two VNFs and a history of two polls.                   *)
EXTENDS LoggingLoop

CONSTANTS fw, nat

MCApp == {fw, nat}
MCVnfNames == <<fw, nat>>
=============================================================================
