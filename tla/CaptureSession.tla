--------------------------- MODULE CaptureSession ---------------------------
(***************************************************************************)
(* capture_session of app/gzh/cli/main.cpp: the tool makes itself the      *)
(* system proxy while the user clicks in WeChat, and must put the user's   *)
(* setting back on every way out: the normal one, a signal or a failed     *)
(* assertion (on_signal), a kill (the backup, at the next start).  The     *)
(* setting is seven values, each written by a gsettings process of its own *)
(* (app/gzh/src/desktop.cpp).                                              *)
(***************************************************************************)
EXTENDS MitmProxy

CONSTANTS
  MaxKills,      \* processes killed without a chance to clean up
  MaxUnheeded,   \* processes ended by a signal that finds g_restore_armed down
  Lingers        \* a gsettings process may go on beside the signal handler

ASSUME CaptureAssumption ==
  MaxKills \in Nat /\ MaxUnheeded \in Nat /\ Lingers \in BOOLEAN

(* Host and port of http, https and socks, last the mode: they count then. *)
Keys == 1 .. 7
MODE == 7
Values == {"user", "ours"}
AsUser == [k \in Keys |-> "user"]

VARIABLES
  system,       \* the desktop's proxy setting
  file, backup, \* proxy-backup.json: "none", "corrupt" (truncated), "whole"; its setting
  pc, k,        \* where the main thread is, which key it writes next
  saved,        \* the setting it writes back: g_saved_proxy, or what healing read
  armed,        \* g_restore_armed
  handler,      \* the signal handler: 0, not running; else the key it writes next
  kills, unheeded

mainVars == <<system, file, backup, pc, k, saved, armed, handler>>
faults == <<kills, unheeded>>
vars == <<proxyVars, mainVars, faults>>

MainAt == {"off", "heal", "first", "truncate", "backup", "arm", "take", "select",
           "restore", "stop"}

TypeOK ==
  /\ ProxyTypeOK
  /\ system \in [Keys -> Values] /\ saved \in [Keys -> Values]
  /\ file \in {"none", "corrupt", "whole"} /\ backup \in [Keys -> Values]
  /\ pc \in MainAt
  /\ k \in 1 .. MODE + 1 /\ handler \in 0 .. MODE + 1
  /\ armed \in BOOLEAN
  /\ kills \in 0 .. MaxKills /\ unheeded \in 0 .. MaxUnheeded

Alive == pc # "off"

(* Main runs: there is a process, and its signal handler does not run.     *)
Main(at) == pc = at /\ handler = 0

Init ==
  /\ ProxyInit
  /\ system = AsUser /\ saved = AsUser /\ file = "none" /\ backup = AsUser
  /\ pc = "off" /\ k = 1
  /\ armed = FALSE /\ handler = 0 /\ kills = 0 /\ unheeded = 0

-----------------------------------------------------------------------------
(* Start-up. *)

(* Slip: nothing is healed. *)
BootBlind ==
  /\ pc = "off" /\ file # "corrupt"
  /\ pc' = "first"
  /\ k' = 1 /\ armed' = FALSE
  /\ UNCHANGED <<proxyVars, system, file, backup, saved, handler, faults>>

(* main() heals first.  A backup that does not parse stops every start     *)
(* until the user deletes it.                                              *)
Boot ==
  /\ pc = "off" /\ file # "corrupt"
  /\ IF file = "none" THEN pc' = "first" /\ UNCHANGED saved
                      ELSE pc' = "heal" /\ saved' = backup
  /\ k' = 1 /\ armed' = FALSE
  /\ UNCHANGED <<proxyVars, system, file, backup, handler, faults>>

DeletedByHand ==
  /\ pc = "off" /\ file = "corrupt"
  /\ file' = "none"
  /\ UNCHANGED <<proxyVars, system, backup, pc, k, saved, armed, handler, faults>>

(* restore_system_proxy: one gsettings call per key.                       *)
WriteBack(at) ==
  /\ Main(at) /\ k \in Keys
  /\ system' = [system EXCEPT ![k] = saved[k]]
  /\ k' = k + 1
  /\ UNCHANGED <<proxyVars, file, backup, pc, saved, armed, handler, faults>>

(* clear_proxy_backup, when all of it is written back.                     *)
Clear(at, to) ==
  /\ Main(at) /\ k \notin Keys
  /\ file' = "none"
  /\ pc' = to
  /\ UNCHANGED <<proxyVars, system, backup, k, saved, armed, handler, faults>>

(* restore_proxy_backup.                                                   *)
Heal == WriteBack("heal") \/ Clear("heal", "first")

-----------------------------------------------------------------------------
(* capture_session. *)

(* The accounts already known are synchronised; then the proxy starts.     *)
Begin ==
  /\ Main("first")
  /\ saved' = system
  /\ Start
  /\ pc' = "truncate"
  /\ UNCHANGED <<system, file, backup, k, armed, handler, faults>>

(* save_proxy_backup: the open truncates, the destructor writes.           *)
OpenBackup ==
  /\ Main("truncate")
  /\ file' = "corrupt"
  /\ pc' = "backup"
  /\ UNCHANGED <<proxyVars, system, backup, k, saved, armed, handler, faults>>

WriteBackup ==
  /\ Main("backup")
  /\ file' = "whole" /\ backup' = saved
  /\ pc' = "arm"
  /\ UNCHANGED <<proxyVars, system, k, saved, armed, handler, faults>>

Arm ==
  /\ Main("arm")
  /\ armed' = TRUE
  /\ k' = 1
  /\ pc' = "take"
  /\ UNCHANGED <<proxyVars, system, file, backup, saved, handler, faults>>

TakeKey ==
  /\ Main("take") /\ k \in Keys
  /\ system' = [system EXCEPT ![k] = "ours"]
  /\ k' = k + 1
  /\ pc' = IF k = MODE THEN "select" ELSE "take"
  /\ UNCHANGED <<proxyVars, file, backup, saved, armed, handler, faults>>

(* The user takes what is captured, or gives up.                           *)
Select ==
  /\ Main("select")
  /\ k' = 1
  /\ armed' = FALSE
  /\ pc' = "restore"
  /\ UNCHANGED <<proxyVars, system, file, backup, saved, handler, faults>>

(* restore_now, and then creds.save().                                     *)
Restore == WriteBack("restore") \/ Clear("restore", "stop")

(* Slip: the proxy is stopped while the setting is put back. *)
StopEarly ==
  /\ Main("stop") \/ Main("restore")
  /\ StopStep
  /\ UNCHANGED <<mainVars, faults>>

StopProxy ==
  /\ Main("stop")
  /\ StopStep
  /\ UNCHANGED <<mainVars, faults>>

(* The process is gone, and its sockets and threads with it.               *)
Die == ProxyGone /\ pc' = "off" /\ handler' = 0

(* capture_session has returned; the rest of the run needs no proxy.  The  *)
(* restore_now registered with atexit finds the flag down.                 *)
Exit ==
  /\ Main("stop") /\ stop = "stopped"
  /\ Die
  /\ UNCHANGED <<system, file, backup, k, saved, armed, faults>>

MainStep ==
  \/ Heal \/ Begin \/ OpenBackup \/ WriteBackup \/ Arm \/ TakeKey
  \/ Restore \/ StopProxy \/ Exit

-----------------------------------------------------------------------------
(* Signals. *)

(* Armed, on_signal disarms and restores in the main thread's place.       *)
Signal ==
  /\ Alive /\ armed
  /\ armed' = FALSE
  /\ handler' = 1
  /\ UNCHANGED <<proxyVars, system, file, backup, pc, k, saved, faults>>

(* What a key is once the handler has written it.  If the signal came when *)
(* the takeover's own gsettings call for it was running, that process may  *)
(* be the later of the two to write.                                       *)
WrittenLast(key) ==
  {saved[key]} \cup (IF Lingers /\ pc = "take" /\ key = k THEN {"ours"} ELSE {})

(* Slip: the backup is removed first. *)
HandlerKeyClears ==
  /\ handler \in Keys
  /\ \E v \in WrittenLast(handler) : system' = [system EXCEPT ![handler] = v]
  /\ handler' = handler + 1
  /\ file' = "none"
  /\ UNCHANGED <<proxyVars, backup, pc, k, saved, armed, faults>>

HandlerKey ==
  /\ handler \in Keys
  /\ \E v \in WrittenLast(handler) : system' = [system EXCEPT ![handler] = v]
  /\ handler' = handler + 1
  /\ UNCHANGED <<proxyVars, file, backup, pc, k, saved, armed, faults>>

(* Slip: the backup stays. *)
HandlerForgets ==
  /\ handler = MODE + 1
  /\ Die
  /\ UNCHANGED <<system, file, backup, k, saved, armed, faults>>

(* The backup goes last, and the signal is raised again.                   *)
HandlerEnds ==
  /\ handler = MODE + 1
  /\ file' = "none"
  /\ Die
  /\ UNCHANGED <<system, backup, k, saved, armed, faults>>

(* A signal, or the abort after a gsettings call that fails, which finds   *)
(* the flag down - not raised yet, or lowered by the restore_now that is   *)
(* at work: nothing is restored, the process ends where it stands.         *)
Unheeded ==
  /\ Alive /\ ~armed /\ unheeded < MaxUnheeded
  /\ unheeded' = unheeded + 1
  /\ Die
  /\ UNCHANGED <<system, file, backup, k, saved, armed, kills>>

(* SIGKILL, a power cut. *)
Kill ==
  /\ Alive /\ kills < MaxKills
  /\ kills' = kills + 1
  /\ Die
  /\ UNCHANGED <<system, file, backup, k, saved, armed, unheeded>>

HandlerStep == HandlerKey \/ HandlerEnds

Next ==
  \/ Boot \/ DeletedByHand \/ MainStep \/ Select
  \/ Signal \/ HandlerStep \/ Unheeded \/ Kill
  \/ ProxyStep /\ UNCHANGED <<mainVars, faults>>

Spec == Init /\ [][Next]_vars

(* The threads are scheduled, and the tool is started again one day.  The  *)
(* user need not press Enter.                                              *)
FairSpec ==
  /\ Spec /\ ProxyFairness
  /\ WF_vars(Boot) /\ WF_vars(MainStep) /\ WF_vars(HandlerStep)

-----------------------------------------------------------------------------
(* The user's setting is never lost: at every instant, so after any kill,  *)
(* it is in force or it is in the backup, whole.                           *)
Recoverable == system = AsUser \/ (file = "whole" /\ backup = AsUser)

(* The proxy stops listening only when nothing sends it traffic.           *)
StopsUnused == stop # "idle" => system = AsUser

(* The process ends of its own accord or by a signal; it is not killed.    *)
Ends == Alive /\ pc' = "off" /\ kills' = kills

Restoring == pc \in {"heal", "restore"} \/ handler # 0
BackingUp == pc \in {"backup", "arm"}

(* Whatever ends the process but a kill - its return, a signal at any      *)
(* moment - it leaves the setting as it found it, and no backup for the    *)
(* next start to apply over a setting changed since; but for a signal that *)
(* comes when the backup is written or the setting is being written back   *)
(* (EveryExitRestores).                                                    *)
LeavesClean ==
  [][Ends /\ (unheeded' # unheeded => ~Restoring /\ ~BackingUp)
       => system = AsUser /\ file' = "none"]_vars

(* What the comment on restore_now says, without exception: once the       *)
(* system proxy is taken over, every way out puts it back - the mode at    *)
(* least, which else sends the machine's traffic to a port nobody serves.  *)
EveryExitRestores ==
  [][Ends /\ pc \in {"take", "select", "restore", "stop"} => system[MODE] = "user"]_vars

(* After any end of the process the next start puts the setting back.      *)
EventuallyRestored == pc = "off" ~> system = AsUser

(* stop() returns if every connection had registered when it swept.  One   *)
(* that registers later keeps it waiting for as long as the client likes.  *)
StopReturns ==
  stop = "sweeping" /\ (\A c \in Conn : conn[c] # "spawned") ~> stop = "stopped" \/ ~Alive
=============================================================================
