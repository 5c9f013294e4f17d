------------------------------ MODULE PerianPane ------------------------------
(***************************************************************************)
(* The preference pane, CPFPerianPrefPaneController.m: it installs the     *)
(* pieces of Perian from archives it contains, for the user or for all     *)
(* users, and removes them, on threads of their own.  The threads share    *)
(* the controller's errorString and auth, the variables of the process'    *)
(* environment, by which commands learn their paths, and the exit codes    *)
(* that wait() returns.                                                    *)
(***************************************************************************)
EXTENDS Integers, FiniteSets, FiniteSetsExt

CONSTANTS Threads,          \* bound: the threads that run at a time
          Failures          \* bound: what an extraction that failed may leave

VARIABLES
  disk,                     \* what lies in the user's and in the system's Library
  userInstalled,
  myVersion,                \* of the pane and of all that is in its archives
  paneOpen,                 \* the pane is shown in System Preferences
  installStatus, errorString, auth, button,
  message,                  \* textField_statusMessage
  threads,
  env,                      \* the environment variables of a command: the piece they name, 0 if they are not set
  exited,                   \* the children nobody has waited for
  observing,                \* the pane is an observer of the update checker's notifications
  lastInstalled,            \* the preference LastInstalledVersion, 0 if there is none
  shared,                   \* history: jobs ran at the same time, and one still runs or left an exit code
  clicks, overlaps          \* bounds: how often the user may still click, and start a job while another runs

process == <<installStatus, errorString, auth, button, threads, env, exited, observing, shared>>
paneVars == <<disk, userInstalled, myVersion, paneOpen, process, message, lastInstalled, clicks, overlaps>>

\* Piece 1 is Perian.component, the others are those of the pane's Info.plist.
Pieces == DOMAIN disk["user"]

Nothing == [there |-> FALSE, version |-> 0]
Bundle(v) == [there |-> TRUE, version |-> v]

\* A version is read from Contents/Info.plist; 0 if there is none.
Own == IF userInstalled THEN "user" ELSE "system"
Other == IF userInstalled THEN "system" ELSE "user"

InstallStatusInstalledInWrongLocation == 0
InstallStatusNotInstalled == 1
InstallStatusOutdated == 3
InstallStatusInstalled == 5

currentInstallStatus(status) == 2 * (status \div 2) + 1
isWrongLocationInstalled(status) == status % 2 = 0
setWrongLocationInstalled(status) == 2 * (status \div 2)

installStatusForComponent(p) ==
  LET current == disk[Own][p].version
      ret == IF current = 0 THEN InstallStatusNotInstalled
             ELSE IF current < myVersion THEN InstallStatusOutdated ELSE InstallStatusInstalled
  IN IF disk[Other][p].version = 0 THEN ret ELSE setWrongLocationInstalled(ret)

\* The status of Perian.component, and of the worst piece when Perian.component is as it should be.
Overall ==
  LET status == installStatusForComponent(1)
  IN IF currentInstallStatus(status) # InstallStatusInstalled THEN status
     ELSE Min({installStatusForComponent(p) : p \in Pieces})

checkForInstallation ==
  /\ installStatus' = Overall
  /\ message' = IF errorString THEN "Error" ELSE ""
  /\ button' = TRUE

-----------------------------------------------------------------------------
(* The threads. *)

Idle == [job |-> "none", step |-> "none", at |-> 0, status |-> 0, ok |-> TRUE]
Started(job) == [Idle EXCEPT !.job = job, !.step = "begin"]
Running == {t \in Threads : threads[t] # Idle}

ToStep(t, step) == threads' = [threads EXCEPT ![t].step = step]
Remaining == <<userInstalled, myVersion, paneOpen, installStatus, button, message, lastInstalled, observing, shared, clicks, overlaps>>

\* AuthorizationCreate asks nobody, and may fail.
Begin(t) ==
  /\ threads[t].step = "begin"
  /\ errorString' = FALSE /\ auth' \in BOOLEAN
  /\ threads' = [threads EXCEPT ![t].step = "piece", ![t].at = 1]
  /\ UNCHANGED <<Remaining, disk, env, exited>>

\* A thread after a piece: install gives up when another piece than Perian.component fails.
AfterPiece(thread) ==
  IF thread.at = Cardinality(Pieces) \/ (thread.job = "install" /\ ~thread.ok /\ thread.at > 1)
  THEN [Idle EXCEPT !.job = thread.job, !.step = "end"]
  ELSE [Idle EXCEPT !.job = thread.job, !.step = "piece", !.at = thread.at + 1]

Gone(location, p) == [disk EXCEPT ![location][p] = Nothing]

\* installArchive: an old piece of the user is removed, and the new one extracted even if that fails.
InstallPiece(t) ==
  LET thread == threads[t]
      status == installStatusForComponent(thread.at)
      outdated == userInstalled /\ currentInstallStatus(status) = InstallStatusOutdated
      step == IF currentInstallStatus(status) = InstallStatusInstalled THEN "other" ELSE "prepare"
  IN /\ thread.step = "piece" /\ thread.job = "install"
     /\ \E removed \in (IF outdated THEN BOOLEAN ELSE {FALSE}) :
          /\ disk' = IF removed THEN Gone(Own, thread.at) ELSE disk
          /\ errorString' = (errorString \/ (outdated /\ ~removed))
          /\ threads' = [threads EXCEPT ![t].status = status, ![t].step = step,
                                        ![t].ok = ~outdated \/ removed]
     /\ UNCHANGED <<Remaining, auth, env, exited>>

\* uninstall: what cannot be removed is not told.
UninstallPiece(t) ==
  LET thread == threads[t] IN
  /\ thread.step = "piece" /\ thread.job = "uninstall"
  /\ IF auth /\ ~userInstalled /\ disk[Own][thread.at].there
     THEN ToStep(t, "prepare") /\ UNCHANGED disk
     ELSE /\ disk' \in {Gone(Own, thread.at)} \union (IF auth /\ ~userInstalled THEN {} ELSE {disk})
          /\ threads' = [threads EXCEPT ![t] = AfterPiece(thread)]
  /\ UNCHANGED <<Remaining, errorString, auth, env, exited>>

\* A piece in the other location is removed once this one is there.
OtherLocation(t) ==
  LET thread == threads[t]
      present == disk[Other][thread.at].there
  IN /\ thread.step = "other"
     /\ IF ~thread.ok \/ ~isWrongLocationInstalled(thread.status) \/ (userInstalled /\ ~present)
        THEN threads' = [threads EXCEPT ![t] = AfterPiece(thread)] /\ UNCHANGED <<disk, errorString>>
        ELSE IF userInstalled
        THEN threads' = [threads EXCEPT ![t].step = "prepareRemoval"] /\ UNCHANGED <<disk, errorString>>
        ELSE \E removed \in (IF present THEN BOOLEAN ELSE {FALSE}) :
               /\ disk' = IF removed THEN Gone(Other, thread.at) ELSE disk
               /\ errorString' = (errorString \/ ~removed)
               /\ threads' = [threads EXCEPT ![t] = AfterPiece([thread EXCEPT !.ok = removed])]
     /\ UNCHANGED <<Remaining, auth, env, exited>>

-----------------------------------------------------------------------------
(* _extractArchivePath, _authenticatedExtractArchivePath and               *)
(* _authenticatedRemove.  What is removed with a password is always in the *)
(* system's Library: by install for the user, by uninstall for all.        *)

Removes(thread) == thread.job = "uninstall" \/ thread.step \in {"prepareRemoval", "runRemoval", "waitRemoval"}
Authenticated(thread) == Removes(thread) \/ ~userInstalled

Prepare(t) ==
  LET thread == threads[t]
      removal == Removes(thread)
  IN /\ thread.step \in {"prepare", "prepareRemoval"}
     /\ env' = IF removal THEN [env EXCEPT !.remove = thread.at] ELSE [env EXCEPT !.extract = thread.at]
     /\ ToStep(t, IF thread.step = "prepare" THEN "run" ELSE "runRemoval")
     /\ UNCHANGED <<Remaining, disk, errorString, auth, exited>>

\* Faulty: a command that failed is taken for one that succeeded.
FinishedForgets(t, ok) ==
  LET removal == Removes(threads[t])
  IN /\ threads' = [threads EXCEPT ![t] = IF removal THEN AfterPiece(threads[t]) ELSE [@ EXCEPT !.step = "other"]]
     /\ env' = IF removal THEN [env EXCEPT !.remove = 0] ELSE [env EXCEPT !.extract = 0]
     /\ errorString' = errorString

\* The thread after its command, and the variables it unsets.
Finished(t, ok) ==
  LET thread == threads[t]
      removal == Removes(thread)
      after == [thread EXCEPT !.ok = @ /\ ok]
  IN /\ threads' = [threads EXCEPT ![t] = IF removal THEN AfterPiece(after) ELSE [after EXCEPT !.step = "other"]]
     /\ env' = IF removal THEN [env EXCEPT !.remove = 0] ELSE [env EXCEPT !.extract = 0]
     /\ errorString' = (errorString \/ ~ok)

\* Without an authorization, or when the user does not give the password, nothing is run.
Refused(t) ==
  /\ threads[t].step \in {"run", "runRemoval"} /\ Authenticated(threads[t])
  /\ Finished(t, FALSE)
  /\ UNCHANGED <<Remaining, disk, auth, exited>>

\* What the command makes of the disk: it knows the piece from the environment of the process.
Extracted(p) == [disk EXCEPT ![Own][p] = Bundle(myVersion)]
Broken(p) == {disk} \union {[disk EXCEPT ![Own][p] = left] : left \in Failures}

Run(t) ==
  LET thread == threads[t]
      p == IF Removes(thread) THEN env.remove ELSE env.extract
  IN /\ thread.step \in {"run", "runRemoval"} /\ (Authenticated(thread) => auth)
     /\ \E ok \in BOOLEAN :
          /\ exited' = exited \union {[thread |-> t, ok |-> ok]}
          /\ IF p = 0 THEN ok = Removes(thread) /\ UNCHANGED disk
             ELSE IF Removes(thread) THEN disk' = IF ok THEN Gone("system", p) ELSE disk
             ELSE disk' \in (IF ok THEN {Extracted(p)} ELSE Broken(p))
     /\ ToStep(t, IF thread.step = "run" THEN "wait" ELSE "waitRemoval")
     /\ UNCHANGED <<Remaining, errorString, auth, env>>

\* system() waits for its own child; after AuthorizationExecuteWithPrivileges wait() takes any.
Wait(t) ==
  LET thread == threads[t]
      children == {child \in exited : Authenticated(thread) \/ child.thread = t}
  IN /\ thread.step \in {"wait", "waitRemoval"}
     /\ \/ children = {} /\ Finished(t, FALSE) /\ UNCHANGED exited
        \/ \E child \in children : Finished(t, child.ok) /\ exited' = exited \ {child}
     /\ UNCHANGED <<Remaining, disk, auth>>

\* Faulty: the main thread is not told.
EndSilently(t) ==
  /\ threads[t].step = "end"
  /\ auth' = FALSE /\ threads' = [threads EXCEPT ![t] = Idle]
  /\ UNCHANGED <<Remaining, disk, errorString, env, exited>>

\* The thread ends; what it leaves is a message to the main thread.
End(t) ==
  /\ threads[t].step = "end"
  /\ auth' = FALSE /\ ToStep(t, "complete")
  /\ UNCHANGED <<Remaining, disk, errorString, env, exited>>

Step(t) ==
  \/ Begin(t) \/ InstallPiece(t) \/ UninstallPiece(t) \/ OtherLocation(t)
  \/ Prepare(t) \/ Refused(t) \/ Run(t) \/ Wait(t) \/ End(t)

-----------------------------------------------------------------------------
(* The main thread. *)

Click == clicks > 0 /\ clicks' = clicks - 1

\* The job of the thread that is started, by what the pane last found; nothing waits for a job that runs.
installUninstall ==
  /\ Running # Threads /\ (Running # {} => overlaps > 0)
  /\ LET t == CHOOSE free \in Threads : free \notin Running
         job == IF installStatus = InstallStatusInstalled THEN "uninstall" ELSE "install"
     IN threads' = [threads EXCEPT ![t] = Started(job)]
  /\ shared' = (shared \/ Running # {})
  /\ overlaps' = IF Running = {} THEN overlaps ELSE overlaps - 1

ClickInstall ==
  /\ paneOpen /\ button /\ Click
  /\ installUninstall
  /\ UNCHANGED <<disk, userInstalled, myVersion, paneOpen, message, lastInstalled, installStatus, errorString, auth,
                 button, env, exited, observing>>

installComplete ==
  \E t \in Threads :
    /\ threads[t].step = "complete"
    /\ threads' = [threads EXCEPT ![t] = Idle]
    /\ shared' = (shared /\ (Running # {t} \/ exited # {}))
    /\ checkForInstallation
    /\ UNCHANGED <<disk, userInstalled, myVersion, paneOpen, lastInstalled, errorString, auth, env, exited, observing,
                   clicks, overlaps>>

\* A new controller, as the nib and initWithBundle leave it.
NewProcess ==
  /\ installStatus' = InstallStatusInstalledInWrongLocation
  /\ errorString' = FALSE /\ auth' = FALSE /\ button' = FALSE
  /\ threads' = [t \in Threads |-> Idle]
  /\ env' = [extract |-> 0, remove |-> 0] /\ exited' = {} /\ observing' = FALSE /\ shared' = FALSE

\* System Preferences ends, with the threads.
Quit == paneOpen' = FALSE /\ NewProcess /\ message' = ""

\* A version this user has not had yet is installed when the pane is first selected.
Updated == lastInstalled < myVersion /\ installStatus # InstallStatusInstalled

PaneInit ==
  /\ myVersion = 2 /\ paneOpen = FALSE
  /\ installStatus = InstallStatusInstalledInWrongLocation
  /\ errorString = FALSE /\ auth = FALSE /\ button = FALSE /\ message = ""
  /\ threads = [t \in Threads |-> Idle]
  /\ env = [extract |-> 0, remove |-> 0] /\ exited = {} /\ observing = FALSE /\ shared = FALSE
=============================================================================
