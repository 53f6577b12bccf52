----------------------------- MODULE MCSession -----------------------------
(***************************************************************************)
(* Instances of Session and PickDevice for TLC: up to two devices, with    *)
(* the numbers 10 and 16 that sysfs makes one of.  With two devices it is  *)
(* their choice that matters, and one setting of the switches is enough;   *)
(* mail is sent, and what only reads is done, whatever is attached.  Of    *)
(* the settings of the log, those without a report need no device.         *)
(***************************************************************************)
EXTENDS Session

FewSwitches ==
  /\ Len(attached) = 2 =>
       /\ command = "device" /\ ~dryRun /\ ~debug /\ ~unmount
       /\ database = "present"
  /\ command # "device" => attached = <<>> /\ driver = "usbms-linux"
  /\ command \notin Sync => ~dryRun
  /\ attached # <<>> => ~fileLog
  /\ ~fileLog /\ (attached # <<>> \/ ~debug) => besideLog

MCInit == Init /\ FewSwitches
MCSpec == MCInit /\ [][Next]_vars
MCFairSpec == MCSpec /\ WF_vars(Next)
=============================================================================
