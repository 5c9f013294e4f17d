----------------------------- MODULE PerianUpkeep -----------------------------
(***************************************************************************)
(* Perian kept up to date: the preference pane, the update checker and the *)
(* players that start it when a video codec is opened (FFusionCodec.c),    *)
(* over the disk and the preferences they share.                           *)
(***************************************************************************)
EXTENDS UpdateChecker

CONSTANTS Players,          \* the processes that open a video codec
          Sessions          \* bound: what the disk, the preferences, players, checkers and crashes may be together

Numbered(pieces) == IsFiniteSet(pieces) /\ 1 \in pieces /\ pieces = 1 .. Cardinality(pieces)

Lying == {b \in [there : BOOLEAN, version : Nat] : b.version # 0 => b.there}

ASSUME UpkeepAssumption ==
  /\ MaxTime \in Nat /\ Interval \in Nat
  /\ Feeds \subseteq Nat
  /\ \A left \in Failures : left \in Lying
  /\ \A session \in Sessions :
       /\ session.users \subseteq BOOLEAN /\ session.installed \subseteq Nat
       /\ session.clicks \in Nat /\ session.overlaps \in Nat
       /\ \A d \in session.disks :
            /\ d \in [{"user", "system"} -> [DOMAIN d["user"] -> Lying]]
            /\ Numbered(DOMAIN d["user"])

VARIABLES players,          \* where FFusionRunUpdateCheck is, which runs once in a process
          autoUpdate,       \* the check box button_autoUpdateCheck
          visits            \* bound: how often the pane may still be opened

vars == <<paneVars, checkerVars, players, autoUpdate, visits>>

CheckerRest == <<now, skipped, lock, crashes>>

-----------------------------------------------------------------------------
(* A player asks whether a check is due, and a thread starts the checker. *)

Due == nextRun <= now

FFusionRunUpdateCheck(p) ==
  /\ players[p] = "new"
  /\ players' = [players EXCEPT ![p] = IF Due THEN "thread" ELSE "done"]
  /\ UNCHANGED <<paneVars, checkerVars, autoUpdate, visits>>

launchUpdateChecker(p) ==
  /\ players[p] = "thread" /\ players' = [players EXCEPT ![p] = "done"]
  /\ Launched
  /\ UNCHANGED <<paneVars, CheckerRest, dates, manual, autoUpdate, visits>>

-----------------------------------------------------------------------------
(* What the user does in the pane. *)

updateCheck == manual' = TRUE /\ observing' = TRUE /\ Launched

didSelect ==
  /\ (paneOpen \/ visits > 0) /\ visits' = IF paneOpen THEN visits ELSE visits - 1
  /\ paneOpen' = TRUE /\ autoUpdate' = (nextRun # distantFuture)
  /\ IF Updated
     THEN /\ installUninstall /\ updateCheck /\ lastInstalled' = myVersion
          /\ UNCHANGED <<installStatus, button, message>>
     ELSE /\ checkForInstallation
          /\ UNCHANGED <<threads, shared, overlaps, lastInstalled, manual, observing, checkers, checks>>
  /\ UNCHANGED <<disk, userInstalled, myVersion, errorString, auth, env, exited, clicks, CheckerRest, dates, players>>

ClickUpdateCheck ==
  /\ paneOpen /\ Click /\ updateCheck
  /\ UNCHANGED <<disk, userInstalled, myVersion, paneOpen, installStatus, errorString, auth, button, threads, env,
                 exited, message, lastInstalled, shared, overlaps, CheckerRest, dates, players, autoUpdate, visits>>

\* The box can be changed while a checker runs, which has read the date before.
setAutoUpdateCheck ==
  /\ paneOpen /\ Click
  /\ overtaken' = Alive
  /\ autoUpdate' = ~autoUpdate
  /\ nextRun' = IF autoUpdate' THEN now + Interval ELSE distantFuture
  /\ UNCHANGED <<disk, userInstalled, myVersion, paneOpen, process, message, lastInstalled, overlaps, CheckerRest, manual,
                 checkers, checks, players, visits>>

QuitPreferences ==
  /\ paneOpen /\ Quit
  /\ UNCHANGED <<disk, userInstalled, myVersion, lastInstalled, clicks, overlaps, checkerVars, players, autoUpdate, visits>>

InPane == (\E t \in Threads : Step(t)) \/ ClickInstall \/ installComplete
InChecker == (\E c \in Checkers : Check(c) \/ Crash(c)) \/ Tick

Init ==
  /\ PaneInit /\ CheckerInit /\ autoUpdate = TRUE
  /\ \E session \in Sessions :
       /\ disk \in session.disks /\ userInstalled \in session.users /\ lastInstalled \in session.installed
       /\ players = [p \in Players |-> IF p \in session.players THEN "new" ELSE "done"]
       /\ visits = session.visits /\ checks = session.checks /\ crashes = session.crashes
       /\ clicks = session.clicks /\ overlaps = session.overlaps

Next ==
  \/ InPane /\ UNCHANGED <<checkerVars, players, autoUpdate, visits>>
  \/ InChecker /\ UNCHANGED <<players, autoUpdate, visits>>
  \/ \E p \in Players : FFusionRunUpdateCheck(p) \/ launchUpdateChecker(p)
  \/ didSelect \/ ClickUpdateCheck \/ setAutoUpdateCheck \/ QuitPreferences

Fairness == \A c \in Checkers : WF_vars(Check(c) /\ UNCHANGED <<players, autoUpdate, visits>>)

Spec == Init /\ [][Next]_vars /\ Fairness

-----------------------------------------------------------------------------
(* Perian in the other location is removed only where this version is installed here, by the Info.plist
   the pane goes by; uninstall leaves it (installArchive, "only if install succeeded").  Jobs that ran at the
   same time may break this, the job after them may not. *)
OtherOnlyForOwn ==
  [][~shared =>
       \A p \in Pieces : disk[Other][p].there /\ ~disk'[Other][p].there =>
         disk[Own][p].there /\ disk[Own][p].version >= myVersion]_vars

(* An install that ends without everything in place tells the user so (installComplete and errorString),
   unless another job ran at the same time, which forgets its failure or takes its exit code. *)
FailureIsTold ==
  [][~shared =>
       \A t \in Threads :
         threads[t].step = "complete" /\ threads[t].job = "install" /\ threads'[t] = Idle /\ paneOpen' =>
           installStatus' = InstallStatusInstalled \/ message' = "Error"]_vars

(* What a button that can be clicked does is right for the disk: between two jobs the status the pane
   remembers is that of the pieces. *)
StatusIsTrue == paneOpen /\ button /\ Running = {} => installStatus = Overall

(* Automatic checks stay switched on or off as the user sees it in the pane, whatever checkers run and fail
   (NextRunDate and updateFailed): the box and the date part only where a check fails that read the date
   before the user changed it, or before such a check put it back. *)
BoxAgrees == autoUpdate = (nextRun # distantFuture)

CheckBoxIsTrue ==
  [][(paneOpen => BoxAgrees) /\ ~(paneOpen' => BoxAgrees') =>
       \E c \in overtaken : checkers[c].step \in {"fetching", "downloading"} /\ checkers'[c] # checkers[c]]_vars

(* A check that the pane shows as under way comes to an end there, unless its checker is killed or has an
   appcast without versions (the notifications of UpdateCheckerAppDelegate). *)
CheckIsAnswered ==
  \A left \in {session.crashes : session \in Sessions} :
    (message = "Checking" /\ crashes = left /\ \E c \in Checkers : At(c, "fetching") /\ checkers[c].manualRun) ~>
      (message # "Checking" \/ crashes < left \/ \E c \in Checkers : At(c, "stuck"))

-----------------------------------------------------------------------------
(* The sessions that TLC looks at. *)

\* What lies in the two Libraries, by the versions of the pieces there.
Lies(versions) == [p \in DOMAIN versions |-> IF versions[p] = 0 THEN Nothing ELSE Bundle(versions[p])]
Disk(users, systems) == [user |-> Lies(users), system |-> Lies(systems)]

\* The pane with two pieces and no checker: nothing, an old Perian, a current one without its other
\* piece, and two of them; and a job started while another runs.  The pane with one piece and a checker
\* that it starts at once, or when the user asks, or two.  Checkers, players and a crash.
MCSessions ==
  {[disks |-> {Disk(<<0, 0>>, <<0, 0>>), Disk(<<1, 1>>, <<0, 0>>), Disk(<<2, 0>>, <<1, 1>>), Disk(<<1, 2>>, <<2, 2>>)},
    users |-> BOOLEAN, installed |-> {0, 2}, visits |-> 2, clicks |-> 2, overlaps |-> 0, players |-> {}, checks |-> 0, crashes |-> 0],
   [disks |-> {Disk(<<0>>, <<1>>)},
    users |-> BOOLEAN, installed |-> {2}, visits |-> 1, clicks |-> 3, overlaps |-> 1, players |-> {}, checks |-> 0, crashes |-> 0],
   [disks |-> {Disk(<<0>>, <<0>>)}, users |-> {TRUE}, installed |-> {0},
    visits |-> 2, clicks |-> 1, overlaps |-> 0, players |-> {1}, checks |-> 1, crashes |-> 0],
   [disks |-> {Disk(<<2>>, <<0>>)}, users |-> {TRUE}, installed |-> {2},
    visits |-> 1, clicks |-> 3, overlaps |-> 0, players |-> {}, checks |-> 2, crashes |-> 0],
   [disks |-> {Disk(<<2>>, <<0>>)}, users |-> {TRUE}, installed |-> {2},
    visits |-> 0, clicks |-> 0, overlaps |-> 0, players |-> Players, checks |-> 2, crashes |-> 1]}

\* A bundle without its Info.plist, and one that has it and lacks something else.
MCFailures == {[there |-> TRUE, version |-> v] : v \in {0, 2}}
=============================================================================
