---------------------------- MODULE MCNotifyPush ----------------------------
(* Instances of NotifyPush for TLC; there are only numbers to choose.      *)
EXTENDS NotifyPush
=============================================================================
