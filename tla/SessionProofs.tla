--------------------------- MODULE SessionProofs ---------------------------
(***************************************************************************)
(* Proofs about PickDevice, for any devices attached, and about Session.   *)
(* The part of a run that picks the device is the behaviour of PickDevice, *)
(* so that what is proved of that holds of a run.                          *)
(***************************************************************************)
EXTENDS Session, TLAPS

(***************************************************************************)
(* PickDevice.  The inductive invariant says what pickDevice has           *)
(* established about the part of the list it has been through.             *)
(***************************************************************************)
(* Numbers are what tells the devices on a bus apart. *)
NumbersDiffer ==
  \A i, j \in DOMAIN attached : i # j => attached[i].number # attached[j].number

(* Whose files, and whose handle: MTP on Linux is different.               *)
RootIsKnown ==
  /\ driver # "mtp-linux" =>
       /\ root = picked
       /\ opened \subseteq IF result = "connected" THEN {root} ELSE {}
  /\ picked # Nobody => root = Nobody \/ root >= picked
  /\ Chosen => picked # Nobody

(* What has been passed over before anything was picked. *)
PassedOver ==
  result = "picking" /\ picked = Nobody =>
    \A j \in 1..looked :
      attached[j].supported =>
        /\ wanted = NoSerial => attached[j].health = "mute"
        /\ wanted = attached[j].serial /\ attached[j].health = "good" =>
             wanted # NoSerial /\ MayBeMisread(attached[j])

PickInv ==
  /\ PickTypeOK /\ NumbersDiffer /\ RootIsKnown /\ PassedOver
  /\ PickedAsAsked /\ UsableDeviceIsFound

-----------------------------------------------------------------------------
(* A number read to base 16 is right when it has one digit. *)
LEMMA OneDigitIsReadRight ==
  ASSUME NEW n \in 1..127, ReadToBase16(n) <= 9
  PROVE  ReadToBase16(n) = n
  BY DEF ReadToBase16

LEMMA OneDigitStays ==
  ASSUME NEW n \in 1..9
  PROVE  ReadToBase16(n) = n
  BY DEF ReadToBase16

LEMMA AttachedAreDevices ==
  ASSUME PickTypeOK
  PROVE  /\ Len(attached) \in Nat /\ looked \in 0..Len(attached)
         /\ DOMAIN attached = 1..Len(attached)
         /\ \A j \in DOMAIN attached : attached[j] \in Devices
  <1>1. attached \in Seq(Devices) /\ looked \in 0..Len(attached)
    BY Zenon DEF PickTypeOK
  <1> QED BY <1>1

LEMMA ThisIsADevice ==
  ASSUME PickTypeOK, looked < Len(attached)
  PROVE  /\ looked + 1 \in 1..Len(attached)
         /\ looked + 1 \in DOMAIN attached
         /\ This \in Devices
  BY AttachedAreDevices DEF This

LEMMA SerialIsASerial ==
  ASSUME PickTypeOK, NEW d
  PROVE  SerialInSysfs(d) \in Serials \cup {NoSerial}
  <1> DEFINE Found == {j \in DOMAIN attached :
                         /\ attached[j].supported = d.supported
                         /\ ReadToBase16(attached[j].number) = d.number
                         /\ attached[j].health # "bare"}
  <1>1. CASE Found = {}
    BY <1>1 DEF SerialInSysfs
  <1>2. CASE Found # {}
    <2>1. (CHOOSE j \in Found : TRUE) \in Found
      BY <1>2
    <2>2. attached[CHOOSE j \in Found : TRUE] \in Devices
      BY <2>1, AttachedAreDevices
    <2> QED BY <1>2, <2>2 DEF SerialInSysfs, Devices
  <1> QED BY <1>1, <1>2

(* A device with a number of one digit gets its own serial number, or none *)
(* when sysfs has none for it.                                             *)
LEMMA SerialOfOneDigit ==
  ASSUME PickTypeOK, NumbersDiffer, NEW i \in DOMAIN attached,
         attached[i].number <= 9
  PROVE  SerialInSysfs(attached[i]) =
           IF attached[i].health = "bare" THEN NoSerial ELSE attached[i].serial
  <1> DEFINE d == attached[i]
             Found == {j \in DOMAIN attached :
                         /\ attached[j].supported = d.supported
                         /\ ReadToBase16(attached[j].number) = d.number
                         /\ attached[j].health # "bare"}
  <1>1. \A j \in DOMAIN attached : attached[j].number \in 1..127
    BY PickAssumption, AttachedAreDevices DEF Devices
  <1>2. \A j \in Found : j = i
    BY <1>1, OneDigitIsReadRight DEF NumbersDiffer
  <1>3. CASE d.health = "bare"
    <2>1. Found = {}
      BY <1>2, <1>3
    <2> QED BY <1>3, <2>1 DEF SerialInSysfs
  <1>4. CASE d.health # "bare"
    <2>1. i \in Found
      BY <1>1, <1>4, OneDigitStays
    <2>2. (CHOOSE j \in Found : TRUE) = i
      BY <1>2, <2>1
    <2> QED BY <1>4, <2>1, <2>2 DEF SerialInSysfs
  <1> QED BY <1>3, <1>4

-----------------------------------------------------------------------------
LEMMA InitPicks == PickInit => PickInv
  <1> SUFFICES ASSUME PickInit PROVE PickInv
    OBVIOUS
  <1>1. PICK n \in 0..MaxDevices : attached \in [1..n -> Devices]
    BY DEF PickInit, Attachable
  <1>2. attached \in Seq(Devices) /\ Len(attached) = n /\ n \in Nat
    BY <1>1, PickAssumption
  <1>3. PickTypeOK
    BY <1>2 DEF PickInit, PickTypeOK
  <1>4. NumbersDiffer
    BY DEF PickInit, Attachable, NumbersDiffer
  <1> QED BY <1>2, <1>3, <1>4
        DEF PickInit, PickInv, RootIsKnown, PassedOver, PickedAsAsked, UsableDeviceIsFound, Chosen

(* What the types say without sequences. *)
LEMMA TypesInParts ==
  ASSUME PickTypeOK
  PROVE  /\ driver \in Drivers /\ wanted \in Serials \cup {NoSerial}
         /\ Len(attached) \in Nat /\ looked \in 0..Len(attached)
         /\ picked = Nobody \/ picked \in 1..looked
         /\ serial \in Serials \cup {NoSerial}
         /\ root = Nobody \/ root \in 1..Len(attached)
         /\ opened \subseteq 1..Len(attached)
         /\ Nobody \notin Nat
  <1>1. Len(attached) \in Nat /\ looked \in 0..Len(attached)
    BY AttachedAreDevices
  <1> QED BY <1>1, PickAssumption, Zenon DEF PickTypeOK

(* A step that leaves the devices and the question alone keeps the types   *)
(* when it keeps those of the rest.                                        *)
LEMMA TypesFromParts ==
  ASSUME PickTypeOK, UNCHANGED <<driver, wanted, attached>>,
         looked' \in 0..Len(attached),
         picked' = Nobody \/ picked' \in 1..looked',
         serial' \in Serials \cup {NoSerial},
         root' = Nobody \/ root' \in 1..Len(attached),
         opened' \subseteq 1..Len(attached),
         result' \in {"picking", "picked", "connected", "disconnected",
                     "no device", "no access", "error", "panic"}
  PROVE  PickTypeOK'
  BY Zenon DEF PickTypeOK

(* Going on to the next device, after one that is not kept. *)
LEMMA PassStep ==
  ASSUME PickInv, result = "picking", looked < Len(attached),
         UNCHANGED <<driver, wanted, attached>>, Pass,
         driver # "mtp-linux" /\ (This.health = "mute" \/ ~Meant(This, This.serial))
  PROVE  PickInv'
  <1>1. PickTypeOK'
    BY TypesInParts, TypesFromParts DEF PickInv, Pass
  <1>2. PassedOver'
    BY TypesInParts DEF PickInv, Pass, PassedOver, This, Meant, MayBeMisread
  <1>3. RootIsKnown' /\ NumbersDiffer'
    BY DEF PickInv, Pass, RootIsKnown, NumbersDiffer, Chosen
  <1>4. PickedAsAsked' /\ UsableDeviceIsFound'
    BY DEF PickInv, Pass, PickedAsAsked, UsableDeviceIsFound, MayBeMisread
  <1> QED BY <1>1, <1>2, <1>3, <1>4 DEF PickInv

LEMMA GiveUpStep ==
  ASSUME PickInv, result = "picking", UNCHANGED <<driver, wanted, attached>>, GiveUp
  PROVE  PickInv'
  <1>1. PickTypeOK'
    BY TypesInParts, TypesFromParts DEF PickInv, GiveUp
  <1>2. PassedOver' /\ RootIsKnown' /\ NumbersDiffer'
    BY DEF PickInv, GiveUp, PassedOver, RootIsKnown, NumbersDiffer, Chosen
  <1>4. PickedAsAsked' /\ UsableDeviceIsFound'
    BY DEF PickInv, GiveUp, PickedAsAsked, UsableDeviceIsFound, MayBeMisread
  <1> QED BY <1>1, <1>2, <1>4 DEF PickInv

LEMMA KeepStep ==
  ASSUME PickInv, result = "picking", looked < Len(attached), driver # "mtp-linux",
         UNCHANGED <<driver, wanted, attached>>, Meant(This, This.serial),
         Keep(This.serial)
  PROVE  PickInv'
  <1>0. This.serial \in Serials \cup {NoSerial}
    BY ThisIsADevice DEF PickInv, Devices
  <1>1. PickTypeOK'
    BY <1>0, TypesInParts, TypesFromParts DEF PickInv, Keep
  <1>2. PassedOver'
    BY TypesInParts DEF PickInv, Keep, PassedOver
  <1>3. RootIsKnown' /\ NumbersDiffer'
    BY TypesInParts DEF PickInv, Keep, RootIsKnown, NumbersDiffer, Chosen
  <1>4. PickedAsAsked'
    BY TypesInParts DEF PickInv, Keep, PickedAsAsked, PassedOver, Meant, This
  <1>5. UsableDeviceIsFound'
    BY DEF PickInv, Keep, UsableDeviceIsFound
  <1> QED BY <1>1, <1>2, <1>3, <1>4, <1>5 DEF PickInv

-----------------------------------------------------------------------------
(* One step of the invariant for each action. *)

LEMMA LookForVolumeStep ==
  ASSUME PickInv, LookUsbmsLinux \/ LookUsbmsWindows
  PROVE  PickInv'
  <1>1. /\ result = "picking" /\ looked < Len(attached)
        /\ UNCHANGED <<driver, wanted, attached>>
        /\ driver # "mtp-linux" /\ LookForVolume
    BY DEF LookUsbmsLinux, LookUsbmsWindows, Looking
  <1>2. CASE This.health = "mute" \/ (This.health # "broken" /\ ~Meant(This, This.serial))
    <2>1. Pass
      BY <1>1, <1>2 DEF LookForVolume
    <2> QED BY <1>1, <1>2, <2>1, PassStep
  <1>3. CASE This.health # "mute" /\ ~(This.health # "broken" /\ ~Meant(This, This.serial))
    <2>1. GiveUp \/ (Meant(This, This.serial) /\ Keep(This.serial))
      BY <1>1, <1>3 DEF LookForVolume
    <2> QED BY <1>1, <2>1, GiveUpStep, KeepStep
  <1> QED BY <1>2, <1>3

LEMMA LookMtpWindowsStep ==
  ASSUME PickInv, LookMtpWindows
  PROVE  PickInv'
  <1>1. /\ result = "picking" /\ looked < Len(attached)
        /\ UNCHANGED <<driver, wanted, attached>>
        /\ driver # "mtp-linux"
    BY DEF LookMtpWindows, Looking
  <1>2. CASE This.health = "mute" \/ (This.health # "broken" /\ ~Meant(This, This.serial))
    <2>1. Pass
      BY <1>2 DEF LookMtpWindows
    <2> QED BY <1>1, <1>2, <2>1, PassStep
  <1>3. CASE This.health # "mute" /\ ~(This.health # "broken" /\ ~Meant(This, This.serial))
    <2>1. GiveUp \/ (Meant(This, This.serial) /\ Keep(This.serial))
      BY <1>3 DEF LookMtpWindows
    <2> QED BY <1>1, <2>1, GiveUpStep, KeepStep
  <1> QED BY <1>2, <1>3

LEMMA LookMtpLinuxStep ==
  ASSUME PickInv, LookMtpLinux
  PROVE  PickInv'
  <1> DEFINE sn   == SerialInSysfs(This)
             mine == This.health # "mute" /\ Meant(This, sn)
  <1>1. /\ driver = "mtp-linux" /\ result = "picking" /\ looked < Len(attached)
        /\ UNCHANGED <<driver, wanted, attached>>
    BY DEF LookMtpLinux, Looking
  <1>2. CASE This.health = "broken"
    <2>1. /\ opened' = opened \cup {looked + 1} /\ root' = Nobody
          /\ result' = "error" /\ UNCHANGED <<looked, picked, serial>>
      BY <1>2 DEF LookMtpLinux
    <2>2. PickTypeOK'
      BY <1>1, <2>1, TypesInParts, TypesFromParts DEF PickInv
    <2>3. RootIsKnown' /\ NumbersDiffer' /\ PassedOver'
      BY <1>1, <2>1 DEF PickInv, RootIsKnown, NumbersDiffer, PassedOver, Chosen
    <2>4. PickedAsAsked' /\ UsableDeviceIsFound'
      BY <1>1, <2>1 DEF PickInv, PickedAsAsked, UsableDeviceIsFound, MayBeMisread
    <2> QED BY <2>2, <2>3, <2>4 DEF PickInv
  <1>3. CASE This.health # "broken"
    <2>1. /\ looked' = looked + 1
          /\ root' = IF This.health = "mute" THEN Nobody ELSE looked + 1
          /\ opened' = IF This.health = "mute" THEN opened ELSE opened \cup {looked + 1}
          /\ picked' = IF mine THEN looked + 1 ELSE picked
          /\ serial' = IF mine THEN sn ELSE serial
          /\ result' = result
      BY <1>3 DEF LookMtpLinux
    <2>2. sn \in Serials \cup {NoSerial}
      BY SerialIsASerial DEF PickInv
    <2>3. PickTypeOK'
      <3>1. /\ looked' \in 0..Len(attached)
            /\ picked' = Nobody \/ picked' \in 1..looked'
            /\ root' = Nobody \/ root' \in 1..Len(attached)
            /\ opened' \subseteq 1..Len(attached)
        BY <1>1, <2>1, TypesInParts DEF PickInv
      <3>2. serial' \in Serials \cup {NoSerial}
        BY <2>1, <2>2, TypesInParts DEF PickInv
      <3>3. PickTypeOK /\ result' = "picking"
        BY <1>1, <2>1 DEF PickInv
      <3> HIDE DEF mine, sn
      <3> QED BY <1>1, <3>1, <3>2, <3>3, TypesFromParts
    <2>4. RootIsKnown' /\ NumbersDiffer'
      BY <1>1, <2>1, TypesInParts DEF PickInv, RootIsKnown, NumbersDiffer, Chosen
    <2>5. This.number <= 9 =>
            sn = IF This.health = "bare" THEN NoSerial ELSE This.serial
      BY <1>1, ThisIsADevice, SerialOfOneDigit DEF PickInv, This
    <2>6. This.number \in 1..127
      BY <1>1, ThisIsADevice, PickAssumption DEF PickInv, Devices
    <2>7. PassedOver'
      <3> SUFFICES ASSUME picked' = Nobody, NEW j \in 1..(looked + 1), attached[j].supported
                   PROVE  /\ wanted = NoSerial => attached[j].health = "mute"
                          /\ wanted = attached[j].serial /\ attached[j].health = "good" =>
                               wanted # NoSerial /\ MayBeMisread(attached[j])
        BY <1>1, <2>1 DEF PassedOver, MayBeMisread
      <3>1. ~mine /\ picked = Nobody
        BY <2>1, TypesInParts DEF PickInv
      <3>2. CASE j \in 1..looked
        BY <1>1, <3>1, <3>2 DEF PickInv, PassedOver
      <3>3. CASE j = looked + 1
        <4>1. attached[j] = This
          BY <3>3 DEF This
        <4>2. wanted = NoSerial => This.health = "mute"
          BY <3>1, <4>1 DEF Meant
        <4>3. wanted = This.serial /\ This.health = "good" => sn # wanted
          BY <3>1, <4>1, <4>2 DEF Meant
        <4>4. wanted = This.serial /\ This.health = "good" => This.number > 9
          BY <2>5, <2>6, <4>3
        <4> QED BY <1>1, <4>1, <4>2, <4>4 DEF MayBeMisread
      <3> QED BY <3>2, <3>3, TypesInParts DEF PickInv
    <2>8. PickedAsAsked'
      <3>1. CASE mine
        <4>1. picked' = looked + 1 /\ serial' = sn /\ attached[looked + 1] = This
          BY <2>1, <3>1 DEF This
        <4>2. This.supported /\ (wanted # NoSerial => sn = wanted)
              /\ (wanted = NoSerial => picked = Nobody)
          BY <3>1 DEF Meant
        <4>3. wanted = NoSerial => \A j \in 1..looked :
                attached[j].supported => attached[j].health = "mute"
          BY <1>1, <4>2 DEF PickInv, PassedOver
        <4>4. (looked + 1) - 1 = looked
          BY TypesInParts DEF PickInv
        <4>5. wanted # NoSerial => This.serial = wanted \/ This.number > 9
          BY <2>5, <2>6, <4>2
        <4> QED BY <1>1, <4>1, <4>2, <4>3, <4>4, <4>5 DEF PickedAsAsked, MayBeMisread
      <3>2. CASE ~mine
        BY <1>1, <2>1, <3>2 DEF PickInv, PickedAsAsked, MayBeMisread
      <3> QED BY <3>1, <3>2
    <2>9. UsableDeviceIsFound'
      BY <1>1, <2>1 DEF UsableDeviceIsFound
    <2> QED BY <2>3, <2>4, <2>7, <2>8, <2>9 DEF PickInv
  <1> QED BY <1>2, <1>3

LEMMA EndOfListStep ==
  ASSUME PickInv, EndOfList
  PROVE  PickInv'
  <1> USE DEF EndOfList
  <1>1. PickTypeOK'
    BY TypesInParts, TypesFromParts DEF PickInv
  <1>2. RootIsKnown' /\ NumbersDiffer' /\ PassedOver' /\ PickedAsAsked'
    BY DEF PickInv, RootIsKnown, NumbersDiffer, PassedOver, PickedAsAsked, Chosen, MayBeMisread
  <1>3. UsableDeviceIsFound'
    <2>1. CASE picked = Nobody
      <3> SUFFICES ASSUME NEW j \in DOMAIN attached, attached[j].supported,
                          attached[j].health = "good",
                          wanted \in {NoSerial, attached[j].serial}
                   PROVE  wanted # NoSerial /\ MayBeMisread(attached[j])
        BY DEF UsableDeviceIsFound, MayBeMisread
      <3>1. j \in 1..looked
        BY AttachedAreDevices DEF PickInv
      <3> QED BY <2>1, <3>1 DEF PickInv, PassedOver
    <2>2. CASE picked # Nobody
      <3>1. ~(driver \in Usbms /\ root = Nobody)
        BY <2>2 DEF PickInv, RootIsKnown, Usbms
      <3> QED BY <2>2, <3>1 DEF UsableDeviceIsFound
    <2> QED BY <2>1, <2>2
  <1> QED BY <1>1, <1>2, <1>3 DEF PickInv

(* After pickDevice only the handles and the result change. *)
LEMMA LaterStep ==
  ASSUME PickInv, Connect \/ Disconnect
  PROVE  PickInv'
  <1>1. /\ UNCHANGED <<driver, wanted, attached, looked, picked, serial, root>>
        /\ result \in {"picked", "connected"}
        /\ result' \in {"connected", "disconnected", "no access", "error", "panic"}
    BY DEF Connect, ConnectVolume, ConnectMtpLinux, ConnectMtpWindows, Disconnect
  <1>2. picked # Nobody
    BY <1>1 DEF PickInv, RootIsKnown, Chosen
  <1>3. driver # "mtp-linux" =>
          /\ root = picked
          /\ opened' \subseteq IF result' = "connected" THEN {root} ELSE {}
    BY DEF PickInv, RootIsKnown, Connect, ConnectVolume, ConnectMtpLinux,
           ConnectMtpWindows, Disconnect, Usbms
  <1>4. driver = "mtp-linux" => opened' \subseteq opened
    BY DEF Connect, ConnectVolume, ConnectMtpLinux, ConnectMtpWindows, Disconnect, Usbms
  <1>5. opened' \subseteq 1..Len(attached)
    BY <1>2, <1>3, <1>4, TypesInParts DEF PickInv
  <1>6. PickTypeOK'
    BY <1>1, <1>5, TypesInParts, TypesFromParts DEF PickInv
  <1>7. RootIsKnown' /\ NumbersDiffer' /\ PassedOver'
    BY <1>1, <1>2, <1>3 DEF PickInv, RootIsKnown, NumbersDiffer, PassedOver, Chosen
  <1>8. PickedAsAsked' /\ UsableDeviceIsFound'
    BY <1>1 DEF PickInv, PickedAsAsked, UsableDeviceIsFound, MayBeMisread
  <1> QED BY <1>6, <1>7, <1>8 DEF PickInv

LEMMA PickInvStep == PickInv /\ [Pick \/ Disconnect]_pickVars => PickInv'
  <1>1. ASSUME PickInv, UNCHANGED pickVars PROVE PickInv'
    BY <1>1, ZenonT(30) DEF pickVars, PickInv, PickTypeOK, NumbersDiffer, RootIsKnown, PassedOver,
                PickedAsAsked, UsableDeviceIsFound, Chosen, MayBeMisread
  <1>2. ASSUME PickInv, DetectFails PROVE PickInv'
    BY <1>2, GiveUpStep DEF DetectFails
  <1> QED BY <1>1, <1>2, LookForVolumeStep, LookMtpWindowsStep, LookMtpLinuxStep,
             EndOfListStep, LaterStep DEF Pick

LEMMA PickInvHolds == PickSpec => []PickInv
  BY InitPicks, PickInvStep, PTL DEF PickSpec

-----------------------------------------------------------------------------
(* pickDevice and Connect: with a serial number configured the device      *)
(* picked has that number, unless its own may be misread (from bus or      *)
(* device number 10 on over MTP on Linux), and goes by it in any case;     *)
(* otherwise it is the first supported one that can be asked.              *)
THEOREM PicksAsAsked == PickSpec => [](PickTypeOK /\ PickedAsAsked)
  <1>1. PickInv => PickTypeOK /\ PickedAsAsked
    BY DEF PickInv
  <1> QED BY <1>1, PickInvHolds, PTL

(* The storage is that of the device picked, but for MTP on Linux, where   *)
(* it may be that of a device after it.                                    *)
THEOREM StorageIsRight == PickSpec => []StorageIsOfPicked
  <1>1. PickInv => StorageIsOfPicked
    <2> SUFFICES ASSUME PickInv, Chosen PROVE StorageIsOfPicked
      BY DEF StorageIsOfPicked
    <2>1. picked # Nobody /\ (root = Nobody \/ root >= picked)
      BY DEF PickInv, RootIsKnown
    <2>2. driver # "mtp-linux" => root = picked
      BY DEF PickInv, RootIsKnown
    <2>3. root = Nobody \/ root = picked \/ root > picked
      BY <2>1, TypesInParts DEF PickInv
    <2> QED BY <2>2, <2>3 DEF StorageIsOfPicked
  <1> QED BY <1>1, PickInvHolds, PTL

(* "No device" is said only when there is none that is meant and can be    *)
(* used, but for bus numbers from 10 on over MTP on Linux.                 *)
THEOREM UsableIsFound == PickSpec => []UsableDeviceIsFound
  <1>1. PickInv => UsableDeviceIsFound
    BY DEF PickInv
  <1> QED BY <1>1, PickInvHolds, PTL

(* But for MTP on Linux a handle is open only while it is connected. *)
THEOREM HandlesDoNotLeak == PickSpec => []HandlesAreReleased
  <1>1. PickInv => HandlesAreReleased
    BY DEF PickInv, RootIsKnown, HandlesAreReleased
  <1> QED BY <1>1, PickInvHolds, PTL

-----------------------------------------------------------------------------
(***************************************************************************)
(* Session: an invariant of the order in which main and Sync open, store,  *)
(* close and remove.                                                       *)
(***************************************************************************)
Entries == TempEntries \cup {"config", "panic.log", "final.log",
                             "history/original.db", "history/updated.db"}

(* The order of things: what is open, removed or unmounted where.          *)
OrderInv ==
  /\ pc \in {"start", "prepare", "logs", "run", "source", "connect", "history", "work",
             "close", "leave", "report", "clean", "exit", "crashed"}
  /\ panicLog \in PanicLogs
  /\ temp \subseteq TempEntries \cup {"copy"}
  /\ database \in {"missing", "present", "open", "closed"}
  /\ database = "open" => pc \in {"work", "close"}
  /\ pc = "exit" => temp \cap TempEntries = {} /\ panicLog # "empty"
  /\ pc \in {"work", "close"} => database = "open"
  /\ pc \in {"start", "prepare", "logs", "run", "source", "connect", "history"}
       => database # "closed"
  /\ archive # NoArchive => archive = stored /\ pc \in {"clean", "exit"}
  /\ ~mounted => pc \in {"report", "clean", "exit"}

(* What is stored by reference is there, and closed.                       *)
StoredInv ==
  /\ stored \subseteq Entries
  /\ pc # "exit" => stored \cap TempEntries \subseteq temp
  /\ "history/updated.db" \in stored => database = "closed"

TraceInv ==
  /\ pc # "exit" /\ "panic.log" \in stored => panicLog # "none"
  /\ pc \in {"start", "prepare", "logs"} => "panic.log" \notin stored

SessionInv == OrderInv /\ StoredInv /\ TraceInv

-----------------------------------------------------------------------------
(* Every step of a run is a step of PickDevice or leaves the device as it  *)
(* has been picked.                                                        *)
LEMMA StepPicks == [Next]_vars => [Pick \/ Disconnect]_pickVars
  <1>1. ASSUME ConnectDevice PROVE Pick
    BY <1>1 DEF ConnectDevice
  <1>2. ASSUME Leave PROVE Disconnect \/ UNCHANGED pickVars
    BY <1>2 DEF Leave
  <1>3. ASSUME LoadConfiguration \/ PrepareReport \/ PrepareLogs \/ RunSync \/ RunList
               \/ OutputConfiguration \/ ConnectSource \/ ConnectMail \/ OpenHistory \/ Work
               \/ CloseHistory \/ CloseReport \/ CleanUp \/ UNCHANGED vars
        PROVE  UNCHANGED pickVars
    BY <1>3 DEF LoadConfiguration, PrepareReport, PrepareLogs, RunSync, RunList,
                OutputConfiguration, ConnectSource, ConnectMail, OpenHistory, Work,
                CloseHistory, CloseReport, CleanUp, Quiet, vars
  <1> QED BY <1>1, <1>2, <1>3 DEF Next

(* The session picks its device as PickDevice says (pickDevice and Connect *)
(* as Sync calls them).                                                    *)
THEOREM SessionPicks == Spec => PickSpec
  <1>1. Init => PickInit
    BY DEF Init
  <1> QED BY <1>1, StepPicks, PTL DEF Spec, PickSpec

-----------------------------------------------------------------------------
LEMMA SessionStarts == Init => SessionInv
  BY DEF Init, SessionInv, OrderInv, StoredInv, TraceInv, NoArchive, PanicLogs

(* The steps that store something for the report.                          *)
LEMMA StoringOrders ==
  ASSUME SessionInv, PrepareReport \/ PrepareLogs \/ ConnectSource \/ ConnectMail
                     \/ OpenHistory \/ CloseHistory
  PROVE  OrderInv'
  <1> USE DEF SessionInv, OrderInv, NoArchive
  <1>1. CASE PrepareReport
    BY <1>1 DEF PrepareReport
  <1>2. CASE PrepareLogs
    BY <1>2 DEF PrepareLogs, PanicLogsToOpen
  <1>3. CASE ConnectSource
    BY <1>3 DEF ConnectSource, TempEntries
  <1>4. CASE ConnectMail
    BY <1>4 DEF ConnectMail, TempEntries
  <1>5. CASE OpenHistory
    BY <1>5 DEF OpenHistory, KeepOriginal
  <1>6. CASE CloseHistory
    BY <1>6 DEF CloseHistory
  <1> QED BY <1>1, <1>2, <1>3, <1>4, <1>5, <1>6

LEMMA StoringKeeps ==
  ASSUME SessionInv, PrepareReport \/ PrepareLogs \/ ConnectSource \/ ConnectMail
                     \/ OpenHistory \/ CloseHistory
  PROVE  StoredInv'
  <1> USE DEF SessionInv, OrderInv, StoredInv, Entries, TempEntries, Store
  <1>1. CASE PrepareReport
    BY <1>1 DEF PrepareReport
  <1>2. CASE PrepareLogs
    BY <1>2 DEF PrepareLogs
  <1>3. CASE ConnectSource
    BY <1>3, ZenonT(60) DEF ConnectSource
  <1>4. CASE ConnectMail
    BY <1>4, ZenonT(60) DEF ConnectMail
  <1>5. CASE OpenHistory
    BY <1>5 DEF OpenHistory, KeepOriginal
  <1>6. CASE CloseHistory
    BY <1>6 DEF CloseHistory
  <1> QED BY <1>1, <1>2, <1>3, <1>4, <1>5, <1>6

LEMMA StoringTraces ==
  ASSUME SessionInv, PrepareReport \/ PrepareLogs \/ ConnectSource \/ ConnectMail
                     \/ OpenHistory \/ CloseHistory
  PROVE  TraceInv'
  <1> USE DEF SessionInv, OrderInv, TraceInv, Store
  <1>1. CASE PrepareReport
    BY <1>1 DEF PrepareReport
  <1>2. CASE PrepareLogs
    BY <1>2 DEF PrepareLogs
  <1>3. CASE ConnectSource
    BY <1>3 DEF ConnectSource
  <1>4. CASE ConnectMail
    BY <1>4 DEF ConnectMail
  <1>5. CASE OpenHistory
    BY <1>5 DEF OpenHistory, KeepOriginal
  <1>6. CASE CloseHistory
    BY <1>6 DEF CloseHistory
  <1> QED BY <1>1, <1>2, <1>3, <1>4, <1>5, <1>6

LEMMA SessionStep == SessionInv /\ [Next]_vars => SessionInv'
  <1> SUFFICES ASSUME SessionInv, [Next]_vars PROVE SessionInv'
    OBVIOUS
  <1> USE DEF SessionInv, OrderInv, StoredInv, TraceInv, NoArchive
  <1>1. CASE PrepareReport \/ PrepareLogs \/ ConnectSource \/ ConnectMail
             \/ OpenHistory \/ CloseHistory
    BY ONLY <1>1, SessionInv, StoringOrders, StoringKeeps, StoringTraces DEF SessionInv
  <1>2. CASE LoadConfiguration \/ RunSync \/ RunList \/ OutputConfiguration
    BY <1>2 DEF LoadConfiguration, RunSync, RunList, OutputConfiguration
  <1>3. CASE ConnectDevice
    BY <1>3 DEF ConnectDevice, PanicLogs
  <1>4. CASE Work
    BY <1>4 DEF Work
  <1>5. CASE Leave
    BY <1>5 DEF Leave
  <1>6. CASE CloseReport
    <2>1. Readable = stored
      BY <1>6 DEF CloseReport, Readable
    <2> QED BY <1>6, <2>1 DEF CloseReport
  <1>7. CASE CleanUp
    BY <1>7 DEF CleanUp, PanicLogs
  <1>8. CASE UNCHANGED vars
    BY <1>8 DEF vars, sessionVars
  <1> QED BY <1>1, <1>2, <1>3, <1>4, <1>5, <1>6, <1>7, <1>8 DEF Next

LEMMA SessionInvHolds == Spec => []SessionInv
  BY SessionStarts, SessionStep, PTL DEF Spec

-----------------------------------------------------------------------------
(* The types of a session, with those of the device it has picked.         *)
THEOREM SessionTypes == Spec => []TypeOK
  <1>1. SessionInv /\ PickTypeOK => TypeOK
    BY DEF SessionInv, OrderInv, TypeOK
  <1> QED BY <1>1, SessionInvHolds, SessionPicks, PicksAsAsked, PTL

(* Report.Close at the end of main comes before the temporary directories  *)
(* go and after the history is closed.                                     *)
THEOREM ReportsAreComplete == Spec => []ReportIsComplete
  <1>1. SessionInv => ReportIsComplete
    BY DEF SessionInv, OrderInv, StoredInv, ReportIsComplete
  <1> QED BY <1>1, SessionInvHolds, PTL

(* The end of main removes the directories of thumbnails and mails, and    *)
(* the file for a trace.                                                   *)
THEOREM NoLeftoversStay == Spec => []LeftoversAreRemoved
  <1>1. SessionInv => LeftoversAreRemoved
    BY DEF SessionInv, OrderInv, LeftoversAreRemoved
  <1> QED BY <1>1, SessionInvHolds, PTL

(* The deferred calls of Sync: the device is unmounted when the history is *)
(* closed, by a run that may, and not worked on after that.                *)
THEOREM UnmountComesLast == Spec => UnmountedLast
  <1>1. ASSUME SessionInv, [Next]_vars, mounted, ~mounted'
        PROVE  unmount /\ ~dryRun /\ database # "open"
    <2>1. Leave
      BY <1>1 DEF Next, LoadConfiguration, PrepareReport, PrepareLogs, RunSync, RunList,
                  OutputConfiguration, ConnectSource, ConnectMail, ConnectDevice, OpenHistory,
                  Work, CloseHistory, CloseReport, CleanUp, vars, sessionVars
    <2> QED BY <1>1, <2>1 DEF Leave, Eject, SessionInv, OrderInv
  <1>2. ASSUME SessionInv, [Next]_vars, touched # touched'
        PROVE  mounted
    <2>1. Work
      BY <1>2 DEF Next, LoadConfiguration, PrepareReport, PrepareLogs, RunSync, RunList,
                  OutputConfiguration, ConnectSource, ConnectMail, ConnectDevice, OpenHistory,
                  Leave, CloseHistory, CloseReport, CleanUp, vars, sessionVars
    <2> QED BY <1>2, <2>1 DEF Work, SessionInv, OrderInv
  <1>3. SessionInv /\ [Next]_vars =>
          [/\ mounted /\ ~mounted' => unmount /\ ~dryRun /\ database # "open"
           /\ touched # touched' => mounted]_vars
    BY <1>1, <1>2
  <1> QED BY <1>3, SessionInvHolds, PTL DEF Spec, UnmountedLast

(* What is proved of PickDevice, in a session. *)
THEOREM SessionStorageIsRight == Spec => [](PickedAsAsked /\ StorageIsOfPicked)
  BY SessionPicks, PicksAsAsked, StorageIsRight, PTL
=============================================================================
