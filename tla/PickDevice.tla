----------------------------- MODULE PickDevice -----------------------------
(***************************************************************************)
(* How a run gets its device: pickDevice and Connect of usbms/ and mtp/,   *)
(* on Linux and on Windows.  Each goes over all the devices attached,      *)
(* keeps the identity of one (its serial number will name the history) and *)
(* the way to its files: a mount point, or a handle.  Without a serial     *)
(* number in the configuration the first supported device is meant, with   *)
(* one that device alone.                                                  *)
(*                                                                         *)
(* What a device may be like beside "good" says the field health:          *)
(*   "mute"    cannot be opened (mtp-linux) or asked (usbms): skipped;     *)
(*             never listed by mtp-windows                                 *)
(*   "bare"    no volume (usbms), no serial number in sysfs (mtp-linux),   *)
(*             listed but not to be opened (mtp-windows)                   *)
(*   "broken"  an error while it is asked who it is: pickDevice gives up   *)
(***************************************************************************)
EXTENDS Integers, Sequences

CONSTANTS
  Serials,      \* serial numbers, without regard to case
  NoSerial,     \* the empty serial number
  Numbers,      \* device numbers on the bus
  MaxDevices,   \* devices attached at a time (bound)
  Nobody        \* no device

ASSUME PickAssumption ==
  /\ NoSerial \notin Serials
  /\ Numbers \subseteq 1..127
  /\ MaxDevices \in Nat
  /\ Nobody \notin Nat

Drivers == {"usbms-linux", "usbms-windows", "mtp-linux", "mtp-windows"}
Usbms   == {"usbms-linux", "usbms-windows"}
Healths == {"good", "mute", "bare", "broken"}

Devices == [supported : BOOLEAN, serial : Serials \cup {NoSerial},
            number : Numbers, health : Healths]

VARIABLES
  driver,
  wanted,     \* device_serial of the configuration, or NoSerial
  attached,   \* the devices, in the order in which they are listed
  looked,     \* how many of them pickDevice has looked at
  picked,     \* usbIDs: the device it was taken from, or Nobody
  serial,     \* usbIDs.Serial()
  root,       \* whose mount point or handle is kept (mount, dev), or Nobody
  opened,     \* devices with an open handle
  result      \* "picking", "picked", "connected", or how it ended

pickVars == <<driver, wanted, attached, looked, picked, serial, root, opened, result>>

-----------------------------------------------------------------------------
(* FromSysfsNumber(&devnum, 16): what is read for a decimal number.        *)
ReadToBase16(n) == 256 * (n \div 100) + 16 * ((n \div 10) % 10) + (n % 10)

(* getSerialNumber: the serial number of the device of this model that     *)
(* sysfs lists under the number n, as it is read.                          *)
SerialInSysfs(d) ==
  LET found == {j \in DOMAIN attached :
                  /\ attached[j].supported = d.supported
                  /\ ReadToBase16(attached[j].number) = d.number
                  /\ attached[j].health # "bare"}
  IN  IF found = {} THEN NoSerial ELSE attached[CHOOSE j \in found : TRUE].serial

(* Kindles have serial numbers of their own, and devices on a bus numbers. *)
Attachable ==
  {s \in UNION {[1..n -> Devices] : n \in 0..MaxDevices} :
     \A i, j \in DOMAIN s :
       i # j => /\ s[i].number # s[j].number
                /\ s[i].serial # s[j].serial \/ s[i].serial = NoSerial}

PickInit ==
  /\ driver \in Drivers
  /\ wanted \in Serials \cup {NoSerial}
  /\ attached \in Attachable
  /\ looked = 0
  /\ picked = Nobody
  /\ serial = NoSerial
  /\ root = Nobody
  /\ opened = {}
  /\ result = "picking"

-----------------------------------------------------------------------------
(* As in SyncPlan, definitions named Wrong... are faulty variants.         *)

WrongMeant(d, sn) == d.supported /\ (wanted # NoSerial => sn = wanted)

WrongMeantAlways(d, sn) == d.supported /\ sn = wanted

(* The device is supported and the one that is looked for. *)
Meant(d, sn) ==
  /\ d.supported
  /\ IF wanted # NoSerial THEN sn = wanted ELSE picked = Nobody

Looking(drv) ==
  /\ driver = drv
  /\ result = "picking"
  /\ looked < Len(attached)
  /\ UNCHANGED <<driver, wanted, attached>>

This == attached[looked + 1]

Pass ==
  looked' = looked + 1 /\ UNCHANGED <<picked, serial, root, opened, result>>

GiveUp ==
  result' = "error" /\ UNCHANGED <<looked, picked, serial, root, opened>>

Keep(sn) ==
  /\ looked' = looked + 1
  /\ picked' = looked + 1
  /\ serial' = sn
  /\ root' = looked + 1
  /\ UNCHANGED <<opened, result>>

WrongLookForVolume ==
  IF This.health = "mute" THEN Pass
  ELSE IF This.health \in {"broken", "bare"} THEN GiveUp
  ELSE IF Meant(This, This.serial) THEN Keep(This.serial)
  ELSE /\ looked' = looked + 1
       /\ root' = looked + 1
       /\ UNCHANGED <<picked, serial, opened, result>>

(* The volume is asked for when the device is the one; having none is an   *)
(* error (Statfs of "" on Linux, ErrNoDevice on Windows).                  *)
LookForVolume ==
  IF This.health = "mute" THEN Pass
  ELSE IF This.health = "broken" THEN GiveUp
  ELSE IF ~Meant(This, This.serial) THEN Pass
  ELSE IF This.health = "bare" THEN GiveUp
  ELSE Keep(This.serial)

(* A device in /sys/devices. *)
LookUsbmsLinux == Looking("usbms-linux") /\ LookForVolume

(* A device interface of the setup API. *)
LookUsbmsWindows == Looking("usbms-windows") /\ LookForVolume

(* The names are read of every device, whether it is supported or not; the *)
(* one that is kept is opened later.                                       *)
LookMtpWindows ==
  /\ Looking("mtp-windows")
  /\ IF This.health = "mute" THEN Pass
     ELSE IF This.health = "broken" THEN GiveUp
     ELSE IF ~Meant(This, This.serial) THEN Pass
     ELSE Keep(This.serial)

(* Every device is opened, and dev is the handle of the last one tried:    *)
(* nil when that failed.  The deferred release has been given the nil that *)
(* dev was at the beginning, so that nothing closes the handles.           *)
LookMtpLinux ==
  /\ Looking("mtp-linux")
  /\ LET sn   == SerialInSysfs(This)
         mine == This.health # "mute" /\ Meant(This, sn)
     IN  IF This.health = "broken"
         THEN /\ opened' = opened \cup {looked + 1}
              /\ root' = Nobody
              /\ result' = "error"
              /\ UNCHANGED <<looked, picked, serial>>
         ELSE /\ looked' = looked + 1
              /\ root' = IF This.health = "mute" THEN Nobody ELSE looked + 1
              /\ opened' = IF This.health = "mute" THEN opened
                           ELSE opened \cup {looked + 1}
              /\ picked' = IF mine THEN looked + 1 ELSE picked
              /\ serial' = IF mine THEN sn ELSE serial
              /\ UNCHANGED result

WrongEndOfList ==
  /\ result = "picking"
  /\ looked = Len(attached)
  /\ picked # Nobody
  /\ result' = "picked"
  /\ UNCHANGED <<driver, wanted, attached, looked, picked, serial, root, opened>>

(* The devices cannot be listed. *)
DetectFails ==
  /\ result = "picking"
  /\ looked = 0
  /\ GiveUp
  /\ UNCHANGED <<driver, wanted, attached>>

(* ErrNoDevice, or the end of pickDevice. *)
EndOfList ==
  /\ result = "picking"
  /\ looked = Len(attached)
  /\ result' = IF picked = Nobody \/ (driver \in Usbms /\ root = Nobody)
               THEN "no device" ELSE "picked"
  /\ UNCHANGED <<driver, wanted, attached, looked, picked, serial, root, opened>>

(* usbms: the directories on the volume may not be usable. *)
ConnectVolume ==
  /\ driver \in Usbms
  /\ result' \in {"connected", "error"}
  /\ UNCHANGED opened

(* On Linux the storage is asked for even of a nil handle, and a device    *)
(* without write access is not released.                                   *)
ConnectMtpLinux ==
  /\ driver = "mtp-linux"
  /\ result' \in IF root = Nobody THEN {"panic"} ELSE {"connected", "no access"}
  /\ UNCHANGED opened

(* On Windows the deferred Disconnect releases it after any error. *)
ConnectMtpWindows ==
  /\ driver = "mtp-windows"
  /\ result' \in IF attached[root].health = "bare" THEN {"error"}
                 ELSE {"connected", "no access", "error"}
  /\ opened' = IF result' = "connected" THEN {root} ELSE {}

(* Connect, after pickDevice. *)
Connect ==
  /\ result = "picked"
  /\ ConnectVolume \/ ConnectMtpLinux \/ ConnectMtpWindows
  /\ UNCHANGED <<driver, wanted, attached, looked, picked, serial, root>>

WrongDisconnect ==
  /\ result = "connected"
  /\ result' = "disconnected"
  /\ UNCHANGED <<driver, wanted, attached, looked, picked, serial, root, opened>>

(* Disconnect: the handle is released. *)
Disconnect ==
  /\ result = "connected"
  /\ result' = "disconnected"
  /\ opened' = opened \ {root}
  /\ UNCHANGED <<driver, wanted, attached, looked, picked, serial, root>>

Pick ==
  \/ LookUsbmsLinux \/ LookUsbmsWindows \/ LookMtpWindows \/ LookMtpLinux
  \/ DetectFails \/ EndOfList \/ Connect

PickSpec == PickInit /\ [][Pick \/ Disconnect]_pickVars

-----------------------------------------------------------------------------
Chosen == result \in {"picked", "connected", "disconnected"}

(* Types.  A device is kept only when it has been looked at.               *)
PickTypeOK ==
  /\ driver \in Drivers
  /\ wanted \in Serials \cup {NoSerial}
  /\ attached \in Seq(Devices)
  /\ looked \in 0..Len(attached)
  /\ picked \in 1..looked \cup {Nobody}
  /\ serial \in Serials \cup {NoSerial}
  /\ root \in 1..Len(attached) \cup {Nobody}
  /\ opened \subseteq 1..Len(attached)
  /\ result \in {"picking", "picked", "connected", "disconnected",
                 "no device", "no access", "error", "panic"}

(* From 10 on, sysfs gives a number of the bus or the device in decimal    *)
(* and FromSysfsNumber reads it to base 16: the serial number that MTP on  *)
(* Linux goes by may then be that of another device.                       *)
MayBeMisread(d) == driver = "mtp-linux" /\ d.number > 9

(* pickDevice: the device is supported.  With a serial number in the       *)
(* configuration, that is the number that was read of it, and the one it   *)
(* has, unless that may be misread.  Without one no supported device that  *)
(* could be asked comes before it in the list.                             *)
PickedAsAsked ==
  picked # Nobody =>
    /\ attached[picked].supported
    /\ wanted # NoSerial =>
         /\ serial = wanted
         /\ attached[picked].serial = wanted \/ MayBeMisread(attached[picked])
    /\ wanted = NoSerial =>
         \A j \in 1..(picked - 1) :
           attached[j].supported => attached[j].health = "mute"

(* The files that will be synchronised are those of the device whose       *)
(* serial number names the history, but for MTP on Linux, where they are   *)
(* those of a device listed later if there is one that opens.              *)
StorageIsOfPicked ==
  Chosen =>
    \/ root = picked
    \/ driver = "mtp-linux" /\ (root = Nobody \/ root > picked)

(* A supported device that can be used and has the serial number asked     *)
(* for, if any, is found, unless its number may be misread: then that of   *)
(* another device or none may be taken for its serial number.              *)
UsableDeviceIsFound ==
  result = "no device" =>
    \A j \in DOMAIN attached :
      /\ attached[j].supported
      /\ attached[j].health = "good"
      /\ wanted \in {NoSerial, attached[j].serial}
      => wanted # NoSerial /\ MayBeMisread(attached[j])

(* No handle outlives the run, but for MTP on Linux, where the handles of  *)
(* devices that were not the last one stay open, and all after an error.   *)
HandlesAreReleased ==
  result \in {"disconnected", "no device", "no access", "error"} =>
    opened = {} \/ driver = "mtp-linux"

(* config.yaml.tmpl on device_serial: "this makes sure that only specific  *)
(* device will be used with this configuration".                           *)
OnlyRequestedDeviceIsUsed ==
  result = "connected" /\ wanted # NoSerial => attached[root].serial = wanted
=============================================================================
