------------------------------ MODULE Session ------------------------------
(***************************************************************************)
(* One invocation of s2k, from main to its exit: what is opened, created   *)
(* and stored for the debug report on the way in (cmd/s2k/main.go, Sync in *)
(* sync/run.go), and what is closed, archived and removed on the way out,  *)
(* in the order of the deferred calls and of the end of main.  The         *)
(* commands that only read, history and dumpconfig, go the same way in and *)
(* out.                                                                    *)
(*                                                                         *)
(* The choice of the device is that of PickDevice.  The plan and its       *)
(* actions are one step here; BookSync and PathPlan are about them.        *)
(***************************************************************************)
EXTENDS PickDevice

VARIABLES
  pc,         \* the next thing to do
  command,    \* "device" (mtp or usb), "mail", "history", "dumpconfig"
  dryRun, unmount, debug,   \* switches
  fileLog,    \* the configuration asks for a log file
  besideLog,  \* Logging.FileLogger.Destination is not empty
  database,   \* "missing", "present", "open", "closed"
  panicLog,   \* the file for the trace of a crash
  temp,       \* temporary directories that exist: "thumbs", "mails", "copy"
  stored,     \* env.Rpt: names of entries; {} without a report
  archive,    \* what Close has put into the archive, or NoArchive
  touched,    \* the work has been begun on the device
  mounted     \* the device has not been unmounted

sessionVars == <<pc, command, dryRun, unmount, debug, fileLog, besideLog,
                 panicLog, database, temp, stored, archive, touched, mounted>>
vars == <<sessionVars, pickVars>>

NoArchive == {"none"}
TempEntries == {"thumbs", "mails"}
Sync == {"device", "mail"}

(* The file for the trace of a crash: an empty one beside the log file     *)
(* configured, one that holds the trace of an earlier crash there, or one  *)
(* that main does not look for, in the temporary directory or, without a   *)
(* log file configured, in the working directory.                          *)
PanicLogs == {"none", "empty", "trace", "elsewhere"}

(* The switches stay; so do the things in the frame of a step. *)
Same == UNCHANGED <<command, dryRun, unmount, debug, fileLog, besideLog>>

Init ==
  /\ PickInit
  /\ pc = "start"
  /\ command \in Sync \cup {"history", "dumpconfig"}
  /\ dryRun \in BOOLEAN
  /\ debug \in BOOLEAN
  /\ fileLog \in BOOLEAN
  /\ besideLog \in BOOLEAN
  /\ panicLog = "none"
  /\ unmount \in (IF driver \in Usbms /\ command = "device" THEN BOOLEAN ELSE {FALSE})
  /\ database \in {"missing", "present"}
  /\ temp = {}
  /\ stored = {}
  /\ archive = NoArchive
  /\ touched = FALSE
  /\ mounted = TRUE

Quiet == Same /\ UNCHANGED pickVars

(* Report.Store and StoreCopy: nothing without a report. *)
Store(names) == stored' = IF debug THEN stored \cup names ELSE stored

-----------------------------------------------------------------------------
(* beforeAppRun, the configuration: an error, or no command at all, goes   *)
(* to the end of main with nothing opened.                                 *)
LoadConfiguration ==
  /\ pc = "start"
  /\ pc' \in {"prepare", "clean"}
  /\ Quiet
  /\ UNCHANGED <<panicLog, database, temp, stored, archive, touched, mounted>>

(* beforeAppRun, the report; its first entry is the configuration, when it *)
(* comes from a file and can be written.                                   *)
PrepareReport ==
  /\ pc = "prepare"
  /\ \/ debug /\ pc' = "clean" /\ UNCHANGED stored
     \/ pc' = "logs" /\ (UNCHANGED stored \/ Store({"config"}))
  /\ Quiet
  /\ UNCHANGED <<panicLog, database, temp, archive, touched, mounted>>

(* Where the file for a trace can be opened; a report asks for overwriting,*)
(* which leaves no earlier trace.                                          *)
PanicLogsToOpen ==
  PanicLogs \ (  (IF besideLog THEN {} ELSE {"empty", "trace"})
               \cup (IF debug THEN {"trace"} ELSE {}))

(* LoggingConfig.Prepare: the file for a trace, which may not be had, and  *)
(* the log file; after an error there the report is still to be closed.    *)
PrepareLogs ==
  /\ pc = "logs"
  /\ IF fileLog \/ debug
     THEN /\ panicLog' \in PanicLogsToOpen
          /\ LET trace == IF panicLog' = "none" THEN {} ELSE {"panic.log"}
             IN  \/ pc' = "report" /\ Store(trace)
                 \/ pc' = "run" /\ Store(trace \cup {"final.log"})
     ELSE pc' = "run" /\ UNCHANGED <<panicLog, stored>>
  /\ Quiet
  /\ UNCHANGED <<database, temp, archive, touched, mounted>>

(* Sync asks first whether mail has an address and formats to send. *)
RunSync ==
  /\ pc = "run" /\ command \in Sync
  /\ \/ pc' = "source"
     \/ command = "mail" /\ pc' = "report"
  /\ Quiet
  /\ UNCHANGED <<panicLog, database, temp, stored, archive, touched, mounted>>

(* history.RunList opens the databases there are for reading only, and     *)
(* logs what it cannot read; outputConfiguration writes a file of its own  *)
(* or to the standard output.                                              *)
RunList ==
  /\ pc = "run" /\ command = "history"
  /\ pc' = "report"
  /\ Quiet
  /\ UNCHANGED <<panicLog, database, temp, stored, archive, touched, mounted>>

OutputConfiguration ==
  /\ pc = "run" /\ command = "dumpconfig"
  /\ pc' = "report"
  /\ Quiet
  /\ UNCHANGED <<panicLog, database, temp, stored, archive, touched, mounted>>

(* A directory for thumbnails, but not for mail, and the source. *)
ConnectSource ==
  /\ pc = "source"
  /\ \/ pc' = "report" /\ UNCHANGED <<temp, stored>>
     \/ /\ IF command = "mail" THEN UNCHANGED <<temp, stored>>
           ELSE temp' = temp \cup {"thumbs"} /\ Store({"thumbs"})
        /\ pc' \in {"connect", "report"}
  /\ Quiet
  /\ UNCHANGED <<panicLog, database, archive, touched, mounted>>

(* connectDevice for mail keeps the mails when debugging. *)
ConnectMail ==
  /\ pc = "connect" /\ command = "mail"
  /\ \/ pc' = "report" /\ UNCHANGED <<temp, stored>>
     \/ /\ IF debug THEN temp' = temp \cup {"mails"} /\ Store({"mails"})
           ELSE UNCHANGED <<temp, stored>>
        /\ pc' = "history"
  /\ Quiet
  /\ UNCHANGED <<panicLog, database, archive, touched, mounted>>

(* connectDevice for a device; a panic goes past the end of main, and      *)
(* leaves its trace.                                                       *)
ConnectDevice ==
  /\ pc = "connect" /\ command = "device"
  /\ Pick
  /\ \/ result' \in {"picking", "picked"} /\ pc' = "connect"
     \/ result' = "connected" /\ pc' = "history"
     \/ result' \in {"no device", "no access", "error"} /\ pc' = "report"
     \/ result' = "panic" /\ pc' = "crashed"
  /\ panicLog' = IF pc' = "crashed" /\ panicLog = "empty" THEN "trace" ELSE panicLog
  /\ Same
  /\ UNCHANGED <<database, temp, stored, archive, touched, mounted>>

(* StoreCopy into a directory of its own; its errors are ignored. *)
KeepOriginal ==
  IF database = "present" /\ debug
  THEN temp' = temp \cup {"copy"} /\ stored' \in {stored, stored \cup {"history/original.db"}}
  ELSE UNCHANGED <<temp, stored>>

(* The database is looked for, made or kept for the report, and opened. *)
OpenHistory ==
  /\ pc = "history"
  /\ \/ pc' = "leave" /\ UNCHANGED <<database, temp, stored>>
     \/ /\ KeepOriginal
        /\ \/ pc' = "leave" /\ database' \in {database, "present"}
           \/ pc' = "work" /\ database' = "open"
  /\ Quiet
  /\ UNCHANGED <<panicLog, archive, touched, mounted>>

(* Planning, the actions, saving: to the end or to the first error. *)
Work ==
  /\ pc = "work"
  /\ touched' \in {touched, ~dryRun}
  /\ pc' = "close"
  /\ Quiet
  /\ UNCHANGED <<panicLog, database, temp, stored, archive, mounted>>

(* The deferred function of the history. *)
CloseHistory ==
  /\ pc = "close"
  /\ database' = "closed"
  /\ Store({"history/updated.db"})
  /\ pc' = "leave"
  /\ Quiet
  /\ UNCHANGED <<panicLog, temp, archive, touched, mounted>>

WrongEject == unmount

(* usbms.Connect is given unmount && !dryRun. *)
Eject == unmount /\ ~dryRun

(* The deferred dev.Disconnect. *)
Leave ==
  /\ pc = "leave"
  /\ IF command = "device" THEN Disconnect ELSE UNCHANGED pickVars
  /\ mounted' \in IF command = "device" /\ Eject THEN {TRUE, FALSE} ELSE {mounted}
  /\ pc' = "report"
  /\ Same
  /\ UNCHANGED <<panicLog, database, temp, stored, archive, touched>>

(* The entries whose files are there: an absent one is ignored. *)
Readable ==
  {n \in stored : /\ n \in TempEntries => n \in temp
                  /\ n = "panic.log" => panicLog # "none"}

WrongCloseReport ==
  /\ pc = "report"
  /\ archive' = IF debug THEN Readable \ TempEntries ELSE archive
  /\ pc' = "clean"
  /\ Quiet
  /\ UNCHANGED <<panicLog, database, temp, stored, touched, mounted>>

(* Report.Close: what is stored goes into the archive. *)
CloseReport ==
  /\ pc = "report"
  /\ archive' = IF debug THEN Readable ELSE archive
  /\ pc' = "clean"
  /\ Quiet
  /\ UNCHANGED <<panicLog, database, temp, stored, touched, mounted>>

WrongCleanUp ==
  /\ pc = "clean"
  /\ temp' = temp \ TempEntries
  /\ UNCHANGED panicLog
  /\ pc' = "exit"
  /\ Quiet
  /\ UNCHANGED <<database, stored, archive, touched, mounted>>

(* The directories of the thumbnails and the mails go, and the file for a  *)
(* trace if it is empty and beside the log file configured.  The directory *)
(* of StoreCopy is left behind.                                            *)
CleanUp ==
  /\ pc = "clean"
  /\ temp' = temp \ TempEntries
  /\ panicLog' = IF panicLog = "empty" THEN "none" ELSE panicLog
  /\ pc' = "exit"
  /\ Quiet
  /\ UNCHANGED <<database, stored, archive, touched, mounted>>

Next ==
  \/ LoadConfiguration \/ PrepareReport \/ PrepareLogs
  \/ RunSync \/ RunList \/ OutputConfiguration
  \/ ConnectSource \/ ConnectMail \/ ConnectDevice \/ OpenHistory
  \/ Work \/ CloseHistory \/ Leave \/ CloseReport \/ CleanUp

Spec == Init /\ [][Next]_vars

(* A sequential program goes on while it can. *)
FairSpec == Spec /\ WF_vars(Next)

-----------------------------------------------------------------------------
TypeOK ==
  /\ PickTypeOK
  /\ pc \in {"start", "prepare", "logs", "run", "source", "connect", "history", "work", "close", "leave",
             "report", "clean", "exit", "crashed"}
  /\ panicLog \in PanicLogs
  /\ temp \subseteq TempEntries \cup {"copy"}
  /\ archive = NoArchive \/ archive \subseteq stored
  /\ database \in {"missing", "present", "open", "closed"}
  /\ database = "open" => pc \in {"work", "close"}

(* The archive has all that was stored by reference: the directories of    *)
(* the thumbnails and the mails and the file for a trace are still there   *)
(* when it is written, and the history is closed, so that its file is      *)
(* whole (end of main, order of the deferred calls).                       *)
ReportIsComplete ==
  archive # NoArchive =>
    /\ archive = stored
    /\ "history/updated.db" \in archive => database = "closed"

(* A normal exit leaves no directory of thumbnails or mails behind, and no *)
(* empty file for a trace beside the log file configured ("remove empty    *)
(* panic log if any", end of main), wherever the run has been broken off.  *)
LeftoversAreRemoved ==
  pc = "exit" => temp \cap TempEntries = {} /\ panicLog # "empty"

(* The same for every file for a trace.  This does not hold: one that was  *)
(* opened elsewhere is not looked for.                                     *)
NoTraceFileIsLeft == pc = "exit" => panicLog \in {"none", "trace"}

(* The device is unmounted only by a run that has been asked to and may    *)
(* change something, and after its history is closed: nothing more is      *)
(* written ("Has no effect with 'dry-run'", main.go).                      *)
UnmountedLast ==
  [][/\ mounted /\ ~mounted' => unmount /\ ~dryRun /\ database # "open"
     /\ touched # touched' => mounted]_vars

(* Every invocation comes to its exit, also when something fails, unless   *)
(* it crashes: over MTP on Linux, when the last device listed could not be *)
(* opened.                                                                 *)
Ends ==
  <>(pc = "exit" \/ (pc = "crashed" /\ driver = "mtp-linux" /\ root = Nobody))
=============================================================================
