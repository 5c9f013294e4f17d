----------------------------- MODULE UpdateChecker -----------------------------
(***************************************************************************)
(* The update checker, an application inside the preference pane: main.m,  *)
(* UpdateCheckerAppDelegate.m and the appcast of SUAppcast.m.  The pane    *)
(* and the players of movies start it; a lock file keeps it from running   *)
(* twice, and preferences tell when it may next run.  It tells the pane    *)
(* what it found and ends System Preferences before it opens a new pane.   *)
(***************************************************************************)
EXTENDS PerianPane

CONSTANTS Checkers,         \* bound: the checkers that run at a time
          Feeds,            \* bound: what the appcast may offer
          Interval,         \* a week, until the next run
          LockLife,         \* an hour: how long a lock counts
          MaxTime           \* bound on the clock

VARIABLES
  now,
  nextRun, manual, skipped, \* the preferences NextRunDate, ManualUpdateCheck and SkippedVersion
  lock,                     \* the time of /tmp/PerianUpdateLock, or NoLock
  checkers,
  overtaken,                \* history: the checkers that read NextRunDate before the user changed it
  checks, crashes           \* bounds: how often a checker may still be started, and be killed

dates == <<nextRun, overtaken>>
checkerVars == <<now, dates, manual, skipped, lock, checkers, checks, crashes>>

NoDate == -1                \* the preference is not set
distantFuture == MaxTime + Interval + 1
NoLock == -1
NoUpdate == 0

\* lastRunDate is the value of NextRunDate when the checker began.
NotRunning == [step |-> "none", lastRunDate |-> NoDate, manualRun |-> FALSE, latest |-> NoUpdate]
Alive == {c \in Checkers : checkers[c] # NotRunning}

\* LSOpenFSRef starts the checker, or brings one to the front that runs from the same place.
Launched ==
  IF checks = 0 THEN UNCHANGED <<checkers, checks>>
  ELSE \/ Alive # {} /\ UNCHANGED <<checkers, checks>>
       \/ /\ checks' = checks - 1
          /\ \E c \in Checkers \ Alive : checkers' = [checkers EXCEPT ![c].step = "main"]

At(c, step) == checkers[c].step = step
To(c, step) == checkers' = [checkers EXCEPT ![c].step = step]

\* exit(), which runs deleteLock: it removes the file, whoever made it.
Terminate(c) == checkers' = [checkers EXCEPT ![c] = NotRunning] /\ lock' = NoLock

\* The date that was read is put back, whatever became of it; who read what this undoes is overtaken too.
updateFailed(c) ==
  /\ nextRun' = checkers[c].lastRunDate
  /\ overtaken' = IF c \in overtaken THEN Alive ELSE overtaken

\* A notification of a check that was asked for in the pane; it reaches an observer.
Post(c, status) == message' = IF checkers[c].manualRun /\ observing THEN status ELSE message

PaneRest == <<disk, userInstalled, myVersion, paneOpen, process, lastInstalled, clicks, overlaps>>
Counts == <<now, checks, crashes>>

-----------------------------------------------------------------------------
(* main. *)

Open(c) ==
  /\ At(c, "main")
  /\ IF lock = NoLock THEN lock' = now /\ To(c, "launching")
     ELSE To(c, "stat") /\ UNCHANGED lock
  /\ UNCHANGED <<paneVars, Counts, dates, manual, skipped>>

\* stat answers 0 when the file is there, and then the checker ends.
\* When it has gone, its time is what the stack holds: the checker ends or goes on.
GivesUp == lock # NoLock

Stat(c) ==
  /\ At(c, "stat")
  /\ \/ checkers' = [checkers EXCEPT ![c] = NotRunning]
     \/ ~GivesUp /\ To(c, "unlink")
  /\ UNCHANGED <<paneVars, Counts, dates, manual, skipped, lock>>

\* unlink and open again.
Unlink(c) ==
  /\ At(c, "unlink")
  /\ lock' = now /\ To(c, "launching")
  /\ UNCHANGED <<paneVars, Counts, dates, manual, skipped>>

-----------------------------------------------------------------------------
(* The check. *)

\* Faulty: automatic checks that are switched off are switched on.
LaunchingAlways(c) ==
  /\ At(c, "launching")
  /\ nextRun' = now + Interval /\ manual' = FALSE /\ overtaken' = overtaken \ {c}
  /\ checkers' = [checkers EXCEPT ![c].step = "fetching", ![c].lastRunDate = nextRun, ![c].manualRun = manual]
  /\ message' = IF manual /\ observing THEN "Checking" ELSE message
  /\ UNCHANGED <<PaneRest, Counts, skipped, lock>>

applicationDidFinishLaunching(c) ==
  /\ At(c, "launching")
  /\ nextRun' = IF nextRun = distantFuture THEN nextRun ELSE now + Interval
  /\ manual' = FALSE /\ overtaken' = overtaken \ {c}
  /\ checkers' = [checkers EXCEPT ![c].step = "fetching", ![c].lastRunDate = nextRun, ![c].manualRun = manual]
  /\ message' = IF manual /\ observing THEN "Checking" ELSE message
  /\ UNCHANGED <<PaneRest, Counts, skipped, lock>>

\* Faulty: the pane is not told.
FailToLoadSilently(c) ==
  /\ At(c, "fetching")
  /\ updateFailed(c) /\ Terminate(c)
  /\ UNCHANGED <<PaneRest, message, Counts, manual, skipped>>

\* The appcast cannot be loaded or parsed.
appcastDidFailToLoad(c) ==
  /\ At(c, "fetching")
  /\ updateFailed(c) /\ Post(c, "Unreachable") /\ Terminate(c)
  /\ UNCHANGED <<PaneRest, Counts, manual, skipped>>

\* An appcast without an item: the exception ends the call and leaves the application without a window.
NoVersion(c) ==
  /\ At(c, "fetching") /\ NoUpdate \in Feeds
  /\ updateFailed(c) /\ To(c, "stuck")
  /\ UNCHANGED <<PaneRest, message, Counts, manual, skipped, lock>>

\* SUStandardVersionComparison answers NSOrderedAscending when the first version is the newer one.
IsUpdate(v) == v > myVersion
Offered(v, systemDiffers) == systemDiffers /\ IsUpdate(v) /\ v # skipped

\* The system's version only has to differ from the minimum.
appcastDidFinishLoading(c) ==
  /\ At(c, "fetching")
  /\ \E v \in Feeds \ {NoUpdate}, systemDiffers \in BOOLEAN :
       IF Offered(v, systemDiffers)
       THEN /\ checkers' = [checkers EXCEPT ![c].step = "asking", ![c].latest = v]
            /\ Post(c, "Updates") /\ UNCHANGED lock
       ELSE Terminate(c) /\ Post(c, "NoUpdates")
  /\ UNCHANGED <<PaneRest, Counts, dates, manual, skipped>>

-----------------------------------------------------------------------------
(* The update. *)

Choose(c) ==
  /\ At(c, "asking")
  /\ \/ To(c, "downloading") /\ UNCHANGED <<skipped, lock>>
     \/ skipped' \in {skipped, checkers[c].latest} /\ Terminate(c)
  /\ UNCHANGED <<paneVars, Counts, dates, manual>>

cancelDownload(c) ==
  /\ At(c, "downloading") /\ Terminate(c)
  /\ UNCHANGED <<paneVars, Counts, dates, manual, skipped>>

downloadFails(c) ==
  /\ At(c, "downloading") /\ updateFailed(c) /\ Terminate(c)
  /\ UNCHANGED <<paneVars, Counts, manual, skipped>>

\* Extraction, moving the pane and fork may fail; System Preferences is quit all the same.
downloadDidFinish(c) ==
  /\ At(c, "downloading")
  /\ \E failed, replaced \in BOOLEAN :
       /\ IF failed THEN updateFailed(c) ELSE UNCHANGED dates
       /\ myVersion' = IF replaced /\ ~failed THEN checkers[c].latest ELSE myVersion
  /\ Quit /\ Terminate(c)
  /\ UNCHANGED <<disk, userInstalled, lastInstalled, clicks, overlaps, Counts, manual, skipped>>

\* The checker is killed, and its lock stays.
Crash(c) ==
  /\ checkers[c] # NotRunning /\ crashes > 0
  /\ crashes' = crashes - 1 /\ checkers' = [checkers EXCEPT ![c] = NotRunning]
  /\ UNCHANGED <<paneVars, now, checks, dates, manual, skipped, lock>>

Tick == now < MaxTime /\ now' = now + 1 /\ UNCHANGED <<paneVars, checks, crashes, dates, manual, skipped, lock, checkers>>

Check(c) ==
  \/ Open(c) \/ Stat(c) \/ Unlink(c) \/ applicationDidFinishLaunching(c)
  \/ appcastDidFailToLoad(c) \/ NoVersion(c) \/ appcastDidFinishLoading(c)
  \/ Choose(c) \/ cancelDownload(c) \/ downloadFails(c) \/ downloadDidFinish(c)

CheckerInit ==
  /\ now = 0 /\ nextRun = NoDate /\ manual = FALSE /\ skipped = NoUpdate /\ lock = NoLock /\ overtaken = {}
  /\ checkers = [c \in Checkers |-> NotRunning]
=============================================================================
