------------------------------- MODULE MCInbox -------------------------------
(* Instances of Inbox for TLC.                                             *)
EXTENDS Inbox

CONSTANTS c1, r1, o1
==============================================================================
