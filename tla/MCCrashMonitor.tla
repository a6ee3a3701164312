-------------------------- MODULE MCCrashMonitor --------------------------
(* CrashMonitor with two VNFs: the second one's listing can be cut off by  *)
(* an exception after the first one's.                                     *)
EXTENDS CrashMonitor

CONSTANTS fw, nat

MCApp == {fw, nat}
MCVnfNames == <<fw, nat>>
MCOneApp == {fw}
MCOneVnfName == <<fw>>
=============================================================================
