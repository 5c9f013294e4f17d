-------------------------- MODULE PerianUpkeepProofs --------------------------
(***************************************************************************)
(* PerianUpkeep for every set of pieces, threads, players and checkers,    *)
(* every disk, every appcast and any number of visits, clicks and crashes. *)
(***************************************************************************)
EXTENDS PerianUpkeep, FiniteSetTheorems, TLAPS

Jobs == {"none", "install", "uninstall"}
Steps == {"none", "begin", "piece", "other", "prepare", "run", "wait",
          "prepareRemoval", "runRemoval", "waitRemoval", "end", "complete"}
ThreadRecord == [job : Jobs, step : Steps, at : Int, status : Int, ok : BOOLEAN]

Children == [thread : Threads, ok : BOOLEAN]

Locations == {"user", "system"}
Disks(P) == [Locations -> [P -> Lying]]

ThreadsType == threads \in [Threads -> ThreadRecord] /\ exited \in SUBSET Children

PaneType ==
  /\ userInstalled \in BOOLEAN /\ paneOpen \in BOOLEAN
  /\ myVersion \in Nat /\ lastInstalled \in Nat
  /\ disk \in Disks(Pieces)
  /\ ThreadsType
  /\ env \in [extract : Int, remove : Int]

CheckerSteps == {"none", "main", "stat", "unlink", "launching", "fetching", "stuck",
                 "asking", "downloading"}
CheckerRecord == [step : CheckerSteps, lastRunDate : Int, manualRun : BOOLEAN, latest : Nat]

CheckerType ==
  /\ now \in 0 .. MaxTime
  /\ nextRun \in Int /\ manual \in BOOLEAN
  /\ checkers \in [Checkers -> CheckerRecord]

TypeInv == PaneType /\ CheckerType

-----------------------------------------------------------------------------
Replaced(d, loc, p, new) == [d EXCEPT ![loc][p] = new]

(* One place of one Library changes, and nothing else on the disk.           *)
LEMMA OnePlaceChanged ==
  ASSUME NEW P, NEW d \in Disks(P), NEW loc \in Locations, NEW p, NEW new \in Lying
  PROVE  /\ Replaced(d, loc, p, new) \in Disks(P)
         /\ \A l \in Locations : l # loc => Replaced(d, loc, p, new)[l] = d[l]
         /\ \A q \in P : Replaced(d, loc, p, new)[loc][q] = IF q = p THEN new ELSE d[loc][q]
  BY DEF Disks, Locations, Replaced

(* The status of a piece is a number, and says installed only of a piece     *)
(* whose Info.plist has this version or a later one.                         *)
LEMMA StatusOfPiece ==
  ASSUME NEW p
  PROVE  installStatusForComponent(p) \in 0 .. 5
  BY DEF installStatusForComponent, setWrongLocationInstalled,
         InstallStatusNotInstalled, InstallStatusOutdated, InstallStatusInstalled

(* A piece whose status is "installed" lies in its own location.             *)
LEMMA InstalledPiece ==
  ASSUME PaneType, NEW p \in Pieces,
         currentInstallStatus(installStatusForComponent(p)) = InstallStatusInstalled
  PROVE  disk[Own][p].there /\ disk[Own][p].version >= myVersion
  <1>1. Own \in Locations BY DEF Own, Locations
  <1>2. disk[Own][p] \in Lying BY <1>1 DEF PaneType, Disks
  <1>3. disk[Own][p].version # 0 /\ ~(disk[Own][p].version < myVersion)
    BY DEF currentInstallStatus, installStatusForComponent, setWrongLocationInstalled,
           InstallStatusNotInstalled, InstallStatusOutdated, InstallStatusInstalled
  <1>4. disk[Own][p].version \in Nat BY <1>2 DEF Lying
  <1>5. disk[Own][p].there BY <1>2, <1>3 DEF Lying
  <1> QED BY <1>3, <1>4, <1>5 DEF PaneType

-----------------------------------------------------------------------------
(* Types. *)

(* A thread that does not run.                                               *)
LEMMA IdleRecord ==
  Idle \in ThreadRecord /\ Idle.ok = TRUE /\ Idle.step = "none" /\ Idle.job = "none"
  BY DEF Idle, ThreadRecord, Jobs, Steps

(* A checker that does not run.                                              *)
LEMMA NotRunningRecord ==
  NotRunning \in CheckerRecord /\ NotRunning.step = "none"
  BY DEF NotRunning, CheckerRecord, CheckerSteps, NoDate, NoUpdate

(* A thread goes on to the next piece or to its end.                         *)
LEMMA AfterPieceRecord ==
  ASSUME NEW thread \in ThreadRecord
  PROVE  /\ AfterPiece(thread) \in ThreadRecord
         /\ AfterPiece(thread).job = thread.job
         /\ AfterPiece(thread).ok /\ AfterPiece(thread).step \in {"piece", "end"}
  <1>1. thread.job \in Jobs /\ thread.at + 1 \in Int BY DEF ThreadRecord
  <1>2. ASSUME NEW job \in Jobs, NEW at \in Int
        PROVE  \A r \in {[Idle EXCEPT !.job = job, !.step = "piece", !.at = at],
                         [Idle EXCEPT !.job = job, !.step = "end"]} :
                 r \in ThreadRecord /\ r.job = job /\ r.ok /\ r.step \in {"piece", "end"}
    BY IdleRecord DEF ThreadRecord, Jobs, Steps
  <1> QED BY <1>1, <1>2 DEF AfterPiece

(* The initial states have their types.                                      *)
LEMMA TypeInit == Init => TypeInv
  <1> SUFFICES ASSUME Init PROVE TypeInv OBVIOUS
  <1>1. PICK session \in Sessions :
          disk \in session.disks /\ userInstalled \in session.users
            /\ lastInstalled \in session.installed
    BY DEF Init
  <1>2. disk \in Disks(Pieces) BY <1>1, UpkeepAssumption DEF Disks, Pieces, Locations
  <1>3. userInstalled \in BOOLEAN /\ lastInstalled \in Nat BY <1>1, UpkeepAssumption
  <1>4. threads \in [Threads -> ThreadRecord] BY IdleRecord DEF Init, PaneInit
  <1>5. env \in [extract : Int, remove : Int] /\ exited \in SUBSET Children
    <2>1. env = [extract |-> 0, remove |-> 0] /\ exited = {} BY DEF Init, PaneInit
    <2> QED BY <2>1
  <1>6. paneOpen \in BOOLEAN /\ myVersion \in Nat BY DEF Init, PaneInit
  <1>7. PaneType BY <1>2, <1>3, <1>4, <1>5, <1>6 DEF PaneType, ThreadsType
  <1>8. checkers \in [Checkers -> CheckerRecord] BY NotRunningRecord DEF Init, CheckerInit
  <1>9. now \in 0 .. MaxTime /\ nextRun \in Int /\ manual \in BOOLEAN
    <2>1. now = 0 /\ nextRun = -1 /\ manual = FALSE BY DEF Init, CheckerInit, NoDate
    <2>2. MaxTime \in Nat BY UpkeepAssumption
    <2>3. 0 \in 0 .. MaxTime /\ -1 \in Int BY <2>2
    <2> QED BY <2>1, <2>3
  <1> QED BY <1>7, <1>8, <1>9 DEF TypeInv, CheckerType

(* A step of a thread is of that thread, and leaves it running.              *)
LEMMA ThreadOfStep ==
  ASSUME ThreadsType, NEW t \in Threads, Step(t)
  PROVE  /\ threads' \in [Threads -> ThreadRecord]
         /\ threads'[t].step # "none" /\ threads[t].step # "none"
         /\ \A u \in Threads : u # t => threads'[u] = threads[u]
         /\ UNCHANGED Remaining /\ exited' \in SUBSET Children
  <1>0. exited' \in SUBSET Children
    <2>1. \A ok \in BOOLEAN : [thread |-> t, ok |-> ok] \in Children BY DEF Children
    <2>2. \/ exited' \subseteq exited
          \/ \E ok \in BOOLEAN : exited' = exited \union {[thread |-> t, ok |-> ok]}
      BY DEF Step, Begin, InstallPiece, UninstallPiece, OtherLocation, Prepare, Refused, Run, Wait, End
    <2> QED BY <2>1, <2>2 DEF ThreadsType
  <1> USE <1>0
  <1>1. threads \in [Threads -> ThreadRecord] /\ threads[t] \in ThreadRecord BY DEF ThreadsType
  <1> DEFINE Kept == \A u \in Threads : u # t => threads'[u] = threads[u]
  <1>2. CASE Begin(t)
    <2>1. threads' = [threads EXCEPT ![t].step = "piece", ![t].at = 1] BY <1>2 DEF Begin
    <2>4. threads' \in [Threads -> ThreadRecord]
      <3> DEFINE r == [threads[t] EXCEPT !.step = "piece"]
      <3>1. r \in ThreadRecord BY <1>1 DEF ThreadRecord, Steps
      <3>2. [r EXCEPT !.at = 1] \in ThreadRecord
        <4>1. \A at \in Int : [r EXCEPT !.at = at] \in ThreadRecord BY <3>1 DEF ThreadRecord
        <4> HIDE DEF r
        <4> QED BY <4>1
      <3>3. threads' = [threads EXCEPT ![t] = [r EXCEPT !.at = 1]] BY <1>1, <2>1
      <3> HIDE DEF r
      <3> QED BY <1>1, <3>2, <3>3
    <2>2. threads'[t].step = "piece" /\ threads[t].step = "begin" /\ Kept
      BY <1>1, <1>2 DEF Begin, ThreadRecord
    <2>3. UNCHANGED Remaining BY <1>2 DEF Begin
    <2> QED BY <2>2, <2>3, <2>4
  <1>3. CASE InstallPiece(t)
    <2>1. PICK status \in Int, step \in {"other", "prepare"}, ok \in BOOLEAN :
            threads' = [threads EXCEPT ![t].status = status, ![t].step = step, ![t].ok = ok]
      <3>1. installStatusForComponent(threads[t].at) \in Int BY StatusOfPiece
      <3> QED BY <1>3, <3>1 DEF InstallPiece
    <2>2. threads' \in [Threads -> ThreadRecord]
      BY <1>1, <2>1 DEF ThreadRecord, Steps
    <2>3. threads'[t].step \in {"other", "prepare"} /\ Kept
      BY <1>1, <2>1 DEF ThreadRecord
    <2>4. threads[t].step = "piece" /\ UNCHANGED Remaining BY <1>3 DEF InstallPiece
    <2> QED BY <2>2, <2>3, <2>4
  <1>4. ASSUME NEW r \in ThreadRecord, r.step # "none", threads' = [threads EXCEPT ![t] = r]
        PROVE  /\ threads' \in [Threads -> ThreadRecord]
               /\ threads'[t].step # "none" /\ Kept
    BY <1>1, <1>4
  <1>5. ASSUME NEW step \in Steps \ {"none"}, threads' = [threads EXCEPT ![t].step = step]
        PROVE  /\ threads' \in [Threads -> ThreadRecord]
               /\ threads'[t].step # "none" /\ Kept
    BY <1>1, <1>5 DEF ThreadRecord
  <1>6. AfterPiece(threads[t]) \in ThreadRecord /\ AfterPiece(threads[t]).step # "none"
    BY <1>1, AfterPieceRecord
  <1>7. ASSUME NEW ok \in BOOLEAN
        PROVE  /\ AfterPiece([threads[t] EXCEPT !.ok = ok]) \in ThreadRecord
               /\ AfterPiece([threads[t] EXCEPT !.ok = ok]).step # "none"
    <2>1. [threads[t] EXCEPT !.ok = ok] \in ThreadRecord BY <1>1 DEF ThreadRecord
    <2> QED BY <2>1, AfterPieceRecord
  <1>8. CASE UninstallPiece(t)
    <2>1. \/ threads' = [threads EXCEPT ![t].step = "prepare"]
          \/ threads' = [threads EXCEPT ![t] = AfterPiece(threads[t])]
      BY <1>8 DEF UninstallPiece, ToStep
    <2>2. threads[t].step = "piece" /\ UNCHANGED Remaining BY <1>8 DEF UninstallPiece
    <2> QED BY <2>1, <2>2, <1>4, <1>5, <1>6 DEF Steps
  <1>9. CASE OtherLocation(t)
    <2>1. \/ threads' = [threads EXCEPT ![t].step = "prepareRemoval"]
          \/ threads' = [threads EXCEPT ![t] = AfterPiece(threads[t])]
          \/ \E ok \in BOOLEAN :
               threads' = [threads EXCEPT ![t] = AfterPiece([threads[t] EXCEPT !.ok = ok])]
      BY <1>9 DEF OtherLocation
    <2>2. threads[t].step = "other" /\ UNCHANGED Remaining BY <1>9 DEF OtherLocation
    <2> QED BY <2>1, <2>2, <1>4, <1>5, <1>6, <1>7 DEF Steps
  <1>10. CASE Prepare(t)
    <2>1. \E step \in {"run", "runRemoval"} : threads' = [threads EXCEPT ![t].step = step]
      BY <1>10 DEF Prepare, ToStep
    <2>2. threads[t].step \in {"prepare", "prepareRemoval"} /\ UNCHANGED Remaining
      BY <1>10 DEF Prepare
    <2> QED BY <2>1, <2>2, <1>5 DEF Steps
  <1>11. ASSUME NEW ok \in BOOLEAN, Finished(t, ok)
         PROVE  /\ threads' \in [Threads -> ThreadRecord]
                /\ threads'[t].step # "none" /\ Kept
    <2> DEFINE after == [threads[t] EXCEPT !.ok = @ /\ ok]
               other == [after EXCEPT !.step = "other"]
    <2>1. after = [threads[t] EXCEPT !.ok = threads[t].ok /\ ok] /\ (threads[t].ok /\ ok) \in BOOLEAN
      BY <1>1 DEF ThreadRecord
    <2>2. AfterPiece(after) \in ThreadRecord /\ AfterPiece(after).step # "none"
      BY <2>1, <1>7
    <2>3. other \in ThreadRecord /\ other.step # "none" BY <1>1 DEF ThreadRecord, Steps
    <2>4. \/ threads' = [threads EXCEPT ![t] = AfterPiece(after)]
          \/ threads' = [threads EXCEPT ![t] = other]
      BY <1>11 DEF Finished
    <2> HIDE DEF after, other
    <2> QED BY <2>2, <2>3, <2>4, <1>4
  <1>12. CASE Refused(t)
    <2>1. Finished(t, FALSE) /\ threads[t].step \in {"run", "runRemoval"} /\ UNCHANGED Remaining
      BY <1>12 DEF Refused
    <2> QED BY <2>1, <1>11
  <1>13. CASE Run(t)
    <2>1. \E step \in {"wait", "waitRemoval"} : threads' = [threads EXCEPT ![t].step = step]
      BY <1>13 DEF Run, ToStep
    <2>2. threads[t].step \in {"run", "runRemoval"} /\ UNCHANGED Remaining BY <1>13 DEF Run
    <2> QED BY <2>1, <2>2, <1>5 DEF Steps
  <1>14. CASE Wait(t)
    <2>1. threads[t].step \in {"wait", "waitRemoval"} /\ UNCHANGED Remaining BY <1>14 DEF Wait
    <2>2. \E ok \in BOOLEAN : Finished(t, ok)
      BY <1>14 DEF Wait, ThreadsType, Children
    <2> QED BY <2>1, <2>2, <1>11
  <1>15. CASE End(t)
    <2>1. threads' = [threads EXCEPT ![t].step = "complete"] BY <1>15 DEF End, ToStep
    <2>2. threads[t].step = "end" /\ UNCHANGED Remaining BY <1>15 DEF End
    <2> QED BY <2>1, <2>2, <1>5 DEF Steps
  <1> QED BY <1>2, <1>3, <1>8, <1>9, <1>10, <1>12, <1>13, <1>14, <1>15 DEF Step

-----------------------------------------------------------------------------
(* The checkers.  From the moment a checker reads NextRunDate to its end,    *)
(* what it may write back is a date as far away as the one it finds, unless  *)
(* it is overtaken.                                                          *)

Checking == {"fetching", "stuck", "asking", "downloading"}

Far(date) == date = distantFuture

LastRunInv ==
  \A c \in Checkers : checkers[c].step \in Checking /\ c \notin overtaken =>
    (Far(checkers[c].lastRunDate) <=> Far(nextRun))

Asking(c) == checkers[c].step \in {"fetching", "downloading"}

Fails(c) == Asking(c) /\ updateFailed(c)

\* What a step of a checker does to NextRunDate.
DatesMove(c) ==
  \/ (Far(nextRun') <=> Far(nextRun)) /\ overtaken \ {c} \subseteq overtaken'
  \/ c \in overtaken /\ overtaken' = Alive /\ Fails(c)

\* What parts the box from NextRunDate.
Parts(c) == c \in overtaken /\ Asking(c) /\ checkers'[c] # checkers[c]

PaneEnded ==
  /\ UNCHANGED <<disk, userInstalled, lastInstalled>>
  /\ paneOpen' = FALSE /\ NewProcess /\ myVersion' \in Nat

(* A week from now is never the distant future.                              *)
LEMMA DistantFuture == distantFuture \in Int /\ \A d \in 0 .. MaxTime : d + Interval < distantFuture
  <1>1. MaxTime \in Nat /\ Interval \in Nat BY UpkeepAssumption
  <1> QED BY <1>1 DEF distantFuture

(* The ways in which the record of a checker changes.                        *)
LEMMA CheckerChanged ==
  ASSUME CheckerType, LastRunInv, NEW c \in Checkers, nextRun' \in Int, NEW r \in CheckerRecord,
         DatesMove(c),
         r.step \in Checking /\ c \notin overtaken' => (Far(r.lastRunDate) <=> Far(nextRun')),
         checkers' = [checkers EXCEPT ![c] = r]
  PROVE  checkers' \in [Checkers -> CheckerRecord] /\ LastRunInv'
  <1>1. checkers' \in [Checkers -> CheckerRecord] BY DEF CheckerType
  <1>2. ASSUME NEW d \in Checkers, d # c, checkers'[d].step \in Checking, d \notin overtaken'
        PROVE  Far(checkers'[d].lastRunDate) <=> Far(nextRun')
    <2>1. checkers'[d] = checkers[d] BY <1>2 DEF CheckerType
    <2>2. checkers[d].step # "none" BY <1>2, <2>1 DEF Checking
    <2>3. d \in Alive BY <2>2, NotRunningRecord DEF Alive
    <2>4. (Far(nextRun') <=> Far(nextRun)) /\ d \notin overtaken BY <1>2, <2>3 DEF DatesMove
    <2> QED BY <1>2, <2>1, <2>4 DEF LastRunInv
  <1>3. checkers'[c] = r BY DEF CheckerType
  <1>4. distantFuture' = distantFuture BY DEF distantFuture
  <1> QED BY <1>1, <1>2, <1>3, <1>4 DEF LastRunInv, Far

(* A step of a checker keeps the dates as far away as they were, or puts     *)
(* one back that is overtaken; and it keeps the pane as it was or ends it.   *)
LEMMA CheckerOfStep ==
  ASSUME TypeInv, LastRunInv, NEW c \in Checkers, Check(c) \/ Crash(c)
  PROVE  /\ CheckerType' /\ LastRunInv'
         /\ (Far(nextRun') <=> Far(nextRun)) \/ Parts(c)
         /\ UNCHANGED PaneRest \/ PaneEnded
  <1> DEFINE r == checkers[c]
  <1>1. r \in CheckerRecord /\ CheckerType BY DEF TypeInv, CheckerType
  <1>2. ASSUME UNCHANGED dates \/ Fails(c)
        PROVE  nextRun' \in Int /\ DatesMove(c)
    <2>1. CASE UNCHANGED dates BY <1>1, <2>1 DEF dates, DatesMove, CheckerType
    <2>2. CASE Fails(c)
      <3>1. nextRun' = r.lastRunDate BY <2>2 DEF Fails, updateFailed
      <3>2. c \in overtaken => overtaken' = Alive BY <2>2 DEF Fails, updateFailed
      <3>3. c \notin overtaken => overtaken' = overtaken /\ (Far(nextRun') <=> Far(nextRun))
        BY <2>2, <3>1 DEF Fails, updateFailed, Asking, Checking, LastRunInv
      <3> QED BY <1>1, <2>2, <3>1, <3>2, <3>3 DEF CheckerRecord, DatesMove
    <2> QED BY <1>2, <2>1, <2>2
  <1>20. ASSUME DatesMove(c), Fails(c) => checkers'[c].step # r.step
         PROVE  (Far(nextRun') <=> Far(nextRun)) \/ Parts(c)
    BY <1>20 DEF DatesMove, Parts, Fails
  <1>3. ASSUME checkers' = [checkers EXCEPT ![c] = NotRunning], UNCHANGED dates \/ Fails(c),
               manual' \in BOOLEAN, now' = now
        PROVE  CheckerType' /\ LastRunInv' /\ ((Far(nextRun') <=> Far(nextRun)) \/ Parts(c))
    <2>1. NotRunning.step \notin Checking BY NotRunningRecord DEF Checking
    <2>2. checkers' \in [Checkers -> CheckerRecord] /\ LastRunInv'
      BY <1>1, <1>2, <1>3, <2>1, NotRunningRecord, CheckerChanged
    <2>3. checkers'[c].step = "none" BY <1>1, <1>3, NotRunningRecord DEF CheckerType
    <2>4. Fails(c) => checkers'[c].step # r.step BY <2>3 DEF Fails, Asking
    <2> QED BY <1>1, <1>2, <1>3, <1>20, <2>2, <2>4 DEF CheckerType
  <1>4. ASSUME NEW step \in CheckerSteps, step \in Checking => r.step \in Checking,
               checkers' = [checkers EXCEPT ![c].step = step],
               UNCHANGED dates \/ (Fails(c) /\ step # r.step),
               manual' \in BOOLEAN, now' = now
        PROVE  CheckerType' /\ LastRunInv' /\ ((Far(nextRun') <=> Far(nextRun)) \/ Parts(c))
    <2> DEFINE n == [r EXCEPT !.step = step]
    <2>1. n \in CheckerRecord /\ n.step = step /\ n.lastRunDate = r.lastRunDate
      BY <1>1 DEF CheckerRecord
    <2>2. checkers' = [checkers EXCEPT ![c] = n] BY <1>1, <1>4 DEF CheckerType
    <2>3. n.step \in Checking /\ c \notin overtaken' => (Far(n.lastRunDate) <=> Far(nextRun'))
      <3>1. CASE UNCHANGED dates BY <1>4, <2>1, <3>1 DEF LastRunInv, dates
      <3>2. CASE Fails(c) BY <2>1, <3>2 DEF Fails, updateFailed
      <3> QED BY <1>4, <3>1, <3>2
    <2>5. checkers'[c].step = step BY <1>1, <2>1, <2>2 DEF CheckerType
    <2> HIDE DEF n
    <2>4. checkers' \in [Checkers -> CheckerRecord] /\ LastRunInv'
      BY <1>1, <1>2, <1>4, <2>1, <2>2, <2>3, CheckerChanged
    <2>6. (Far(nextRun') <=> Far(nextRun)) \/ Parts(c)
      <3>1. CASE UNCHANGED dates BY <3>1 DEF dates
      <3>2. CASE Fails(c) /\ step # r.step BY <1>2, <1>20, <2>5, <3>2
      <3> QED BY <1>4, <3>1, <3>2
    <2> QED BY <1>1, <1>2, <1>4, <2>4, <2>6 DEF CheckerType
  <1>5. CASE Open(c)
    <2>1. PICK step \in {"launching", "stat"} : checkers' = [checkers EXCEPT ![c].step = step]
      BY <1>5 DEF Open, To
    <2>2. UNCHANGED dates /\ manual' \in BOOLEAN /\ now' = now
      BY <1>1, <1>5 DEF Open, CheckerType, Counts
    <2>3. UNCHANGED PaneRest BY <1>5 DEF Open, paneVars, PaneRest
    <2> QED BY <2>1, <2>2, <2>3, <1>4 DEF CheckerSteps, Checking
  <1>6. CASE Stat(c)
    <2>1. \/ checkers' = [checkers EXCEPT ![c] = NotRunning]
          \/ checkers' = [checkers EXCEPT ![c].step = "unlink"]
      BY <1>6 DEF Stat, To
    <2>2. UNCHANGED dates /\ manual' \in BOOLEAN /\ now' = now
      BY <1>1, <1>6 DEF Stat, CheckerType, Counts
    <2>3. UNCHANGED PaneRest BY <1>6 DEF Stat, paneVars, PaneRest
    <2> QED BY <2>1, <2>2, <2>3, <1>3, <1>4 DEF CheckerSteps, Checking
  <1>7. CASE Unlink(c)
    <2>1. PICK step \in {"launching"} : checkers' = [checkers EXCEPT ![c].step = step]
      BY <1>7 DEF Unlink, To
    <2>2. UNCHANGED dates /\ manual' \in BOOLEAN /\ now' = now
      BY <1>1, <1>7 DEF Unlink, CheckerType, Counts
    <2>3. UNCHANGED PaneRest BY <1>7 DEF Unlink, paneVars, PaneRest
    <2> QED BY <2>1, <2>2, <2>3, <1>4 DEF CheckerSteps, Checking
  <1>8. CASE NoVersion(c)
    <2>1. PICK step \in {"stuck"} : checkers' = [checkers EXCEPT ![c].step = step]
      BY <1>8 DEF NoVersion, To
    <2>2. Fails(c) /\ r.step = "fetching" /\ manual' \in BOOLEAN /\ now' = now
      BY <1>1, <1>8 DEF NoVersion, CheckerType, Counts, Fails, Asking, At
    <2>3. UNCHANGED PaneRest BY <1>8 DEF NoVersion, PaneRest
    <2> QED BY <2>1, <2>2, <2>3, <1>4 DEF CheckerSteps, Checking
  <1>9. CASE appcastDidFailToLoad(c)
    <2>1. checkers' = [checkers EXCEPT ![c] = NotRunning] BY <1>9 DEF appcastDidFailToLoad, Terminate
    <2>2. Fails(c) /\ manual' \in BOOLEAN /\ now' = now
      BY <1>1, <1>9 DEF appcastDidFailToLoad, CheckerType, Counts, Fails, Asking, At
    <2>3. UNCHANGED PaneRest BY <1>9 DEF appcastDidFailToLoad, PaneRest
    <2> QED BY <2>1, <2>2, <2>3, <1>3
  <1>10. CASE cancelDownload(c)
    <2>1. checkers' = [checkers EXCEPT ![c] = NotRunning] BY <1>10 DEF cancelDownload, Terminate
    <2>2. UNCHANGED dates /\ manual' \in BOOLEAN /\ now' = now
      BY <1>1, <1>10 DEF cancelDownload, CheckerType, Counts
    <2>3. UNCHANGED PaneRest BY <1>10 DEF cancelDownload, paneVars, PaneRest
    <2> QED BY <2>1, <2>2, <2>3, <1>3
  <1>11. CASE downloadFails(c)
    <2>1. checkers' = [checkers EXCEPT ![c] = NotRunning] BY <1>11 DEF downloadFails, Terminate
    <2>2. Fails(c) /\ manual' \in BOOLEAN /\ now' = now
      BY <1>1, <1>11 DEF downloadFails, CheckerType, Counts, Fails, Asking, At
    <2>3. UNCHANGED PaneRest BY <1>11 DEF downloadFails, paneVars, PaneRest
    <2> QED BY <2>1, <2>2, <2>3, <1>3
  <1>12. CASE Crash(c)
    <2>1. checkers' = [checkers EXCEPT ![c] = NotRunning] BY <1>12 DEF Crash
    <2>2. UNCHANGED dates /\ manual' \in BOOLEAN /\ now' = now
      BY <1>1, <1>12 DEF Crash, CheckerType
    <2>3. UNCHANGED PaneRest BY <1>12 DEF Crash, paneVars, PaneRest
    <2> QED BY <2>1, <2>2, <2>3, <1>3
  <1>13. CASE Choose(c)
    <2>1. \/ checkers' = [checkers EXCEPT ![c] = NotRunning]
          \/ checkers' = [checkers EXCEPT ![c].step = "downloading"]
      BY <1>13 DEF Choose, To, Terminate
    <2>2. r.step = "asking" /\ UNCHANGED dates /\ manual' \in BOOLEAN /\ now' = now
      BY <1>1, <1>13 DEF Choose, CheckerType, Counts, At
    <2>3. UNCHANGED PaneRest BY <1>13 DEF Choose, paneVars, PaneRest
    <2> QED BY <2>1, <2>2, <2>3, <1>3, <1>4 DEF CheckerSteps, Checking
  <1>14. CASE applicationDidFinishLaunching(c)
    <2> DEFINE n == [[[r EXCEPT !.step = "fetching"] EXCEPT !.lastRunDate = nextRun] EXCEPT !.manualRun = manual]
    <2>1. n \in CheckerRecord /\ n.lastRunDate = nextRun
      BY <1>1 DEF CheckerRecord, CheckerType, CheckerSteps
    <2>2. checkers' = [checkers EXCEPT ![c] = n]
      BY <1>1, <1>14 DEF applicationDidFinishLaunching, CheckerType
    <2>3. nextRun' \in Int /\ (Far(nextRun') <=> Far(nextRun))
      <3>1. nextRun' = IF Far(nextRun) THEN nextRun ELSE now + Interval
        BY <1>14 DEF applicationDidFinishLaunching, Far
      <3>2. now + Interval \in Int /\ ~Far(now + Interval)
        <4>1. now \in 0 .. MaxTime /\ MaxTime \in Nat /\ Interval \in Nat
          BY <1>1, UpkeepAssumption DEF CheckerType
        <4> QED BY <4>1, DistantFuture DEF Far
      <3> QED BY <1>1, <3>1, <3>2 DEF CheckerType
    <2>4. manual' \in BOOLEAN /\ now' = now /\ UNCHANGED PaneRest /\ overtaken' = overtaken \ {c}
      BY <1>14 DEF applicationDidFinishLaunching, Counts
    <2>6. DatesMove(c) BY <2>3, <2>4 DEF DatesMove
    <2> HIDE DEF n
    <2>5. checkers' \in [Checkers -> CheckerRecord] /\ LastRunInv'
      <3>1. Far(n.lastRunDate) <=> Far(nextRun') BY <2>1, <2>3
      <3> QED BY <1>1, <2>1, <2>2, <2>3, <2>6, <3>1, CheckerChanged
    <2> QED BY <1>1, <2>3, <2>4, <2>5 DEF CheckerType
  <1>15. CASE appcastDidFinishLoading(c)
    <2>1. r.step = "fetching" /\ UNCHANGED dates /\ manual' \in BOOLEAN /\ now' = now /\ UNCHANGED PaneRest
      BY <1>1, <1>15 DEF appcastDidFinishLoading, CheckerType, Counts, At
    <2>2. CASE checkers' = [checkers EXCEPT ![c] = NotRunning] BY <2>1, <2>2, <1>3
    <2>3. ASSUME NEW v \in Feeds, checkers' = [checkers EXCEPT ![c].step = "asking", ![c].latest = v]
          PROVE  CheckerType' /\ LastRunInv' /\ ((Far(nextRun') <=> Far(nextRun)) \/ Parts(c))
      <3> DEFINE n == [[r EXCEPT !.step = "asking"] EXCEPT !.latest = v]
      <3>1. v \in Nat BY UpkeepAssumption
      <3>2. n \in CheckerRecord /\ n.lastRunDate = r.lastRunDate
        BY <1>1, <3>1 DEF CheckerRecord, CheckerSteps
      <3>3. checkers' = [checkers EXCEPT ![c] = n] BY <1>1, <2>3 DEF CheckerType
      <3>4. c \notin overtaken' => (Far(n.lastRunDate) <=> Far(nextRun'))
        BY <2>1, <3>2 DEF LastRunInv, Checking, dates
      <3> HIDE DEF n
      <3>5. checkers' \in [Checkers -> CheckerRecord] /\ LastRunInv'
        BY <1>1, <1>2, <2>1, <3>2, <3>3, <3>4, CheckerChanged
      <3> QED BY <1>1, <1>2, <2>1, <3>5 DEF CheckerType, dates
    <2> QED BY <1>15, <2>1, <2>2, <2>3 DEF appcastDidFinishLoading, Terminate
  <1>16. CASE downloadDidFinish(c)
    <2>1. checkers' = [checkers EXCEPT ![c] = NotRunning] BY <1>16 DEF downloadDidFinish, Terminate
    <2>2. /\ UNCHANGED dates \/ Fails(c)
          /\ manual' \in BOOLEAN /\ now' = now
      BY <1>1, <1>16 DEF downloadDidFinish, CheckerType, Counts, Fails, Asking, At
    <2>3. myVersion' \in Nat
      BY <1>1, <1>16 DEF downloadDidFinish, TypeInv, PaneType, CheckerRecord
    <2>4. PaneEnded BY <1>16, <2>3 DEF downloadDidFinish, Quit, PaneEnded
    <2> QED BY <2>1, <2>2, <2>4, <1>3
  <1> QED
    BY <1>5, <1>6, <1>7, <1>8, <1>9, <1>10, <1>11, <1>12, <1>13, <1>14, <1>15, <1>16 DEF Check

-----------------------------------------------------------------------------
(* The status the pane remembers. *)

(* The same of the pane alone, without a word about types.                   *)
LEMMA PaneOfCheck ==
  ASSUME NEW c, Check(c) \/ Crash(c)
  PROVE  \/ UNCHANGED PaneRest
         \/ paneOpen' = FALSE /\ UNCHANGED disk /\ NewProcess
  <1>1. CASE Open(c) \/ Stat(c) \/ Unlink(c) \/ Choose(c) \/ cancelDownload(c) \/ downloadFails(c) \/ Crash(c)
    BY <1>1 DEF Open, Stat, Unlink, Choose, cancelDownload, downloadFails, Crash, paneVars, PaneRest
  <1>2. CASE \/ applicationDidFinishLaunching(c) \/ appcastDidFailToLoad(c) \/ NoVersion(c)
             \/ appcastDidFinishLoading(c)
    BY <1>2 DEF applicationDidFinishLaunching, appcastDidFailToLoad, NoVersion,
                appcastDidFinishLoading
  <1>3. CASE downloadDidFinish(c) BY <1>3 DEF downloadDidFinish, Quit
  <1> QED BY <1>1, <1>2, <1>3 DEF Check

(* The status of the pieces is that of the disk alone.                       *)
LEMMA SameOverall ==
  ASSUME UNCHANGED <<disk, userInstalled, myVersion>>
  PROVE  Overall' = Overall
  <1>1. \A p : installStatusForComponent(p)' = installStatusForComponent(p)
    BY DEF installStatusForComponent, Own, Other
  <1>2. Pieces' = Pieces BY DEF Pieces
  <1> QED BY <1>1, <1>2 DEF Overall

(* A job is started on a thread that is free.                                *)
LEMMA ThreadStarted ==
  ASSUME installUninstall
  PROVE  \E t \in Threads \ Running, job \in {"install", "uninstall"} :
           threads' = [threads EXCEPT ![t] = Started(job)]
  <1>1. \E free \in Threads : free \notin Running BY DEF installUninstall, Running
  <1>2. (CHOOSE free \in Threads : free \notin Running) \in Threads \ Running BY <1>1
  <1> QED BY <1>2 DEF installUninstall

StatusInv == ThreadsType /\ StatusIsTrue

(* The pane is closed at first.                                              *)
LEMMA StatusInit == Init => StatusInv
  BY TypeInit DEF TypeInv, PaneType, StatusInv, StatusIsTrue, Init, PaneInit

(* A new controller has no thread.                                           *)
LEMMA NewThreads ==
  ASSUME NewProcess
  PROVE  ThreadsType' /\ Running' = {}
  BY IdleRecord DEF NewProcess, ThreadsType, Running

(* Every step keeps the status true, or leaves a thread running, or ends     *)
(* the pane.                                                                 *)
LEMMA StatusNext == StatusInv /\ [Next]_vars => StatusInv'
  <1> SUFFICES ASSUME StatusInv, [Next]_vars PROVE StatusInv' OBVIOUS
  <1> USE DEF StatusInv
  <1>1. ASSUME NEW t \in Threads, threads' \in [Threads -> ThreadRecord], threads'[t].step # "none",
               exited' \in SUBSET Children
        PROVE  StatusInv'
    <2>1. threads'[t] # Idle BY <1>1, IdleRecord
    <2> QED BY <1>1, <2>1 DEF ThreadsType, StatusIsTrue, Running
  <1>2. ASSUME NewProcess, paneOpen' = FALSE PROVE StatusInv'
    BY <1>2, NewThreads DEF StatusIsTrue
  <1>3. ASSUME UNCHANGED PaneRest PROVE StatusInv'
    <2>1. Overall' = Overall BY <1>3, SameOverall DEF PaneRest
    <2>2. UNCHANGED <<paneOpen, button, installStatus, threads, exited>>
      BY <1>3 DEF PaneRest, process
    <2> QED BY <2>1, <2>2 DEF ThreadsType, StatusIsTrue, Running
  <1>4. ASSUME checkForInstallation, UNCHANGED <<disk, userInstalled, myVersion>>, ThreadsType'
        PROVE  StatusInv'
    BY <1>4, SameOverall DEF checkForInstallation, StatusIsTrue
  <1>5. ASSUME installUninstall, UNCHANGED exited PROVE StatusInv'
    <2>1. PICK t \in Threads, job \in {"install", "uninstall"} : threads' = [threads EXCEPT ![t] = Started(job)]
      BY <1>5, ThreadStarted
    <2>2. Started(job) \in ThreadRecord /\ Started(job).step # "none"
      BY IdleRecord DEF Started, ThreadRecord, Jobs, Steps
    <2> QED BY <1>1, <1>5, <2>1, <2>2 DEF ThreadsType
  <1>6. CASE \E t \in Threads : Step(t) BY <1>1, <1>6, ThreadOfStep
  <1>7. CASE ClickInstall BY <1>5, <1>7 DEF ClickInstall
  <1>8. CASE installComplete
    <2>1. ThreadsType' BY <1>8, IdleRecord DEF installComplete, ThreadsType
    <2> QED BY <1>4, <1>8, <2>1 DEF installComplete
  <1>9. CASE InChecker
    <2>1. CASE Tick BY <1>3, <2>1 DEF Tick, paneVars, PaneRest
    <2>2. CASE \E c \in Checkers : Check(c) \/ Crash(c) BY <1>2, <1>3, <2>2, PaneOfCheck
    <2> QED BY <1>9, <2>1, <2>2 DEF InChecker
  <1>10. CASE \E p \in Players : FFusionRunUpdateCheck(p) \/ launchUpdateChecker(p)
    BY <1>3, <1>10 DEF FFusionRunUpdateCheck, launchUpdateChecker, paneVars, PaneRest
  <1>11. CASE didSelect
    <2>1. CASE Updated BY <1>5, <1>11, <2>1 DEF didSelect
    <2>2. CASE ~Updated
      <3>1. ThreadsType' BY <1>11, <2>2 DEF didSelect, ThreadsType
      <3> QED BY <1>4, <1>11, <2>2, <3>1 DEF didSelect
    <2> QED BY <2>1, <2>2
  <1>12. CASE ClickUpdateCheck
    <2>1. UNCHANGED <<disk, userInstalled, myVersion, paneOpen, button, installStatus, threads, exited>>
      BY <1>12 DEF ClickUpdateCheck
    <2> QED BY <2>1, SameOverall DEF ThreadsType, StatusIsTrue, Running
  <1>13. CASE setAutoUpdateCheck
    <2>1. UNCHANGED <<disk, userInstalled, myVersion, paneOpen, button, installStatus, threads, exited>>
      BY <1>13 DEF setAutoUpdateCheck, process
    <2> QED BY <2>1, SameOverall DEF ThreadsType, StatusIsTrue, Running
  <1>14. CASE QuitPreferences BY <1>2, <1>14 DEF QuitPreferences, Quit
  <1>15. CASE UNCHANGED vars BY <1>3, <1>15 DEF vars, paneVars, PaneRest
  <1> QED
    BY <1>6, <1>7, <1>8, <1>9, <1>10, <1>11, <1>12, <1>13, <1>14, <1>15 DEF Next, InPane

(* Between two jobs the pane remembers the status of the pieces that are on  *)
(* the disk, whatever threads and checkers did before                        *)
(* (CPFPerianPrefPaneController.m, checkForInstallation).                    *)
THEOREM StatusStaysTrue == Spec => []StatusIsTrue
  <1>1. StatusInv => StatusIsTrue BY DEF StatusInv
  <1> QED BY <1>1, StatusInit, StatusNext, PTL DEF Spec

-----------------------------------------------------------------------------
(* The types of the disk and of the environment along the steps. *)

(* The pieces stay the same ones.                                            *)
LEMMA DiskTypeOfStep ==
  ASSUME PaneType, NEW t \in Threads, Step(t)
  PROVE  disk' \in Disks(Pieces') /\ Pieces' = Pieces
  <1>1. Nothing \in Lying BY DEF Nothing, Lying
  <1>2. Bundle(myVersion) \in Lying BY DEF Bundle, Lying, PaneType
  <1>3. Own \in Locations /\ Other \in Locations /\ "system" \in Locations
    BY DEF Own, Other, Locations
  <1>4. ASSUME NEW loc \in Locations, NEW p, NEW new \in Lying
        PROVE  Replaced(disk, loc, p, new) \in Disks(Pieces)
    <2> DEFINE P == Pieces
    <2>1. disk \in Disks(P) BY DEF PaneType
    <2> HIDE DEF P
    <2>2. Replaced(disk, loc, p, new) \in Disks(P) BY <2>1, OnePlaceChanged
    <2> QED BY <2>2 DEF P
  <1>5. disk' \in Disks(Pieces)
    <2>1. CASE InstallPiece(t) \/ UninstallPiece(t) \/ OtherLocation(t)
      <3>1. \/ disk' = disk
            \/ disk' = Replaced(disk, Own, threads[t].at, Nothing)
            \/ disk' = Replaced(disk, Other, threads[t].at, Nothing)
        BY <2>1 DEF InstallPiece, UninstallPiece, OtherLocation, Gone, Replaced
      <3> QED BY <1>1, <1>3, <1>4, <3>1 DEF PaneType
    <2>2. CASE Run(t)
      <3>1. PICK p : \/ disk' = disk \/ disk' = Gone("system", p) \/ disk' = Extracted(p)
                     \/ \E left \in Failures : disk' = [disk EXCEPT ![Own][p] = left]
        BY <2>2 DEF Run, Broken
      <3>2. \/ disk' = disk \/ disk' = Replaced(disk, "system", p, Nothing)
            \/ disk' = Replaced(disk, Own, p, Bundle(myVersion))
            \/ \E left \in Lying : disk' = Replaced(disk, Own, p, left)
        BY <3>1, UpkeepAssumption DEF Gone, Extracted, Replaced
      <3> QED BY <1>1, <1>2, <1>3, <1>4, <3>2 DEF PaneType
    <2>3. CASE Begin(t) \/ Prepare(t) \/ Refused(t) \/ Wait(t) \/ End(t)
      BY <2>3 DEF Begin, Prepare, Refused, Wait, End, PaneType
    <2> QED BY <2>1, <2>2, <2>3 DEF Step
  <1>6. Pieces' = Pieces BY <1>5 DEF Pieces, Disks, Locations
  <1> QED BY <1>5, <1>6

(* The environment names pieces by numbers.                                  *)
LEMMA EnvOfStep ==
  ASSUME PaneType, NEW t \in Threads, Step(t)
  PROVE  env' \in [extract : Int, remove : Int]
  <1>1. threads[t].at \in Int BY DEF PaneType, ThreadsType, ThreadRecord
  <1>2. ASSUME NEW p \in Int
        PROVE  /\ [env EXCEPT !.remove = p] \in [extract : Int, remove : Int]
               /\ [env EXCEPT !.extract = p] \in [extract : Int, remove : Int]
    BY DEF PaneType
  <1>3. CASE Prepare(t) BY <1>1, <1>2, <1>3 DEF Prepare
  <1>4. ASSUME NEW ok, Finished(t, ok) PROVE env' \in [extract : Int, remove : Int]
    <2>1. 0 \in Int OBVIOUS
    <2> QED BY <1>2, <1>4, <2>1 DEF Finished
  <1>5. CASE Refused(t) \/ Wait(t) BY <1>4, <1>5 DEF Refused, Wait
  <1>6. CASE \/ Begin(t) \/ InstallPiece(t) \/ UninstallPiece(t) \/ OtherLocation(t) \/ Run(t)
             \/ End(t)
    BY <1>6 DEF Begin, InstallPiece, UninstallPiece, OtherLocation, Run, End, PaneType
  <1> QED BY <1>3, <1>5, <1>6 DEF Step

(* A new controller, with what is left of the other parts.                   *)
LEMMA NewPaneType ==
  ASSUME PaneType, NewProcess, paneOpen' = FALSE, UNCHANGED <<disk, userInstalled, lastInstalled>>,
         myVersion' \in Nat
  PROVE  PaneType'
  <1>1. ThreadsType' BY NewThreads
  <1>2. env' \in [extract : Int, remove : Int]
    <2>1. env' = [extract |-> 0, remove |-> 0] BY DEF NewProcess
    <2> QED BY <2>1
  <1>3. disk' \in Disks(Pieces') BY DEF PaneType, Pieces
  <1> QED BY <1>1, <1>2, <1>3 DEF PaneType

(* Steps beside the pane keep its types.                                     *)
LEMMA SamePaneType == ASSUME PaneType, UNCHANGED PaneRest PROVE PaneType'
  <1>1. Pieces' = Pieces BY DEF PaneRest, Pieces
  <1> QED BY <1>1 DEF PaneType, PaneRest, process, ThreadsType

(* Every step keeps the types of the pane.                                   *)
LEMMA PaneTypeNext ==
  ASSUME TypeInv, LastRunInv, [Next]_vars
  PROVE  PaneType'
  <1> USE DEF TypeInv
  <1>1. ASSUME UNCHANGED <<disk, userInstalled, myVersion, env, exited>>, paneOpen' \in BOOLEAN,
               lastInstalled' \in Nat, threads' \in [Threads -> ThreadRecord]
        PROVE  PaneType'
    <2>1. Pieces' = Pieces BY <1>1 DEF Pieces
    <2> QED BY <1>1, <2>1 DEF PaneType, ThreadsType
  <1>2. ASSUME installUninstall PROVE threads' \in [Threads -> ThreadRecord]
    <2>1. PICK t \in Threads, job \in {"install", "uninstall"} : threads' = [threads EXCEPT ![t] = Started(job)]
      BY <1>2, ThreadStarted
    <2>2. Started(job) \in ThreadRecord BY IdleRecord DEF Started, ThreadRecord, Jobs, Steps
    <2> QED BY <2>1, <2>2 DEF PaneType, ThreadsType
  <1>3. CASE \E t \in Threads : Step(t)
    <2>1. PICK t \in Threads : Step(t) BY <1>3
    <2>2. ThreadsType' /\ UNCHANGED Remaining BY <2>1, ThreadOfStep DEF PaneType, ThreadsType
    <2>3. disk' \in Disks(Pieces') BY <2>1, DiskTypeOfStep
    <2>4. env' \in [extract : Int, remove : Int] BY <2>1, EnvOfStep
    <2> QED BY <2>2, <2>3, <2>4 DEF PaneType, Remaining
  <1>4. CASE ClickInstall BY <1>1, <1>2, <1>4 DEF ClickInstall, PaneType
  <1>5. CASE installComplete
    <2>1. threads' \in [Threads -> ThreadRecord]
      BY <1>5, IdleRecord DEF installComplete, PaneType, ThreadsType
    <2> QED BY <1>1, <1>5, <2>1 DEF installComplete, PaneType
  <1>6. CASE \E c \in Checkers : Check(c) \/ Crash(c)
    <2>1. UNCHANGED PaneRest \/ PaneEnded BY <1>6, CheckerOfStep
    <2> QED BY <2>1, SamePaneType, NewPaneType DEF PaneEnded
  <1>7. CASE Tick \/ (\E p \in Players : FFusionRunUpdateCheck(p) \/ launchUpdateChecker(p))
             \/ UNCHANGED vars
    <2>1. UNCHANGED PaneRest
      BY <1>7 DEF Tick, FFusionRunUpdateCheck, launchUpdateChecker, vars, paneVars, PaneRest
    <2> QED BY <2>1, SamePaneType
  <1>8. CASE didSelect
    <2>1. UNCHANGED <<disk, userInstalled, myVersion, env, exited>> /\ paneOpen' \in BOOLEAN
      BY <1>8 DEF didSelect
    <2>2. lastInstalled' \in Nat BY <1>8 DEF didSelect, PaneType
    <2>3. threads' \in [Threads -> ThreadRecord]
      BY <1>2, <1>8 DEF didSelect, PaneType, ThreadsType
    <2> QED BY <1>1, <2>1, <2>2, <2>3
  <1>9. CASE ClickUpdateCheck \/ setAutoUpdateCheck
    BY <1>1, <1>9 DEF ClickUpdateCheck, setAutoUpdateCheck, process, PaneType, ThreadsType
  <1>10. CASE QuitPreferences BY <1>10, NewPaneType DEF QuitPreferences, Quit, PaneType
  <1> QED
    BY <1>3, <1>4, <1>5, <1>6, <1>7, <1>8, <1>9, <1>10 DEF Next, InPane, InChecker

-----------------------------------------------------------------------------
(* The check box of automatic checks. *)

BoxInv == TypeInv /\ LastRunInv /\ autoUpdate \in BOOLEAN

\* The box and NextRunDate part ways.
BoxParts == (paneOpen => BoxAgrees) /\ ~(paneOpen' => BoxAgrees')

(* No checker runs at first.                                                 *)
LEMMA BoxInit == Init => BoxInv
  <1> SUFFICES ASSUME Init PROVE BoxInv OBVIOUS
  <1>1. LastRunInv BY NotRunningRecord DEF Init, CheckerInit, LastRunInv, Checking
  <1>2. autoUpdate \in BOOLEAN BY DEF Init
  <1> QED BY <1>1, <1>2, TypeInit DEF BoxInv

(* A checker that is started has not read the date yet.                      *)
LEMMA CheckersOfLaunch ==
  ASSUME CheckerType, LastRunInv, Launched, UNCHANGED dates
  PROVE  checkers' \in [Checkers -> CheckerRecord] /\ LastRunInv'
  <1>1. CASE UNCHANGED checkers BY <1>1 DEF CheckerType, LastRunInv, dates, Far, distantFuture
  <1>2. ASSUME NEW c \in Checkers, checkers' = [checkers EXCEPT ![c].step = "main"]
        PROVE  checkers' \in [Checkers -> CheckerRecord] /\ LastRunInv'
    <2> DEFINE r == [checkers[c] EXCEPT !.step = "main"]
    <2>1. r \in CheckerRecord /\ r.step \notin Checking
      BY DEF CheckerType, CheckerRecord, CheckerSteps, Checking
    <2>2. checkers' = [checkers EXCEPT ![c] = r] BY <1>2 DEF CheckerType
    <2>3. DatesMove(c) /\ nextRun' \in Int BY DEF DatesMove, dates, CheckerType
    <2> HIDE DEF r
    <2> QED BY <2>1, <2>2, <2>3, CheckerChanged
  <1> QED BY <1>1, <1>2 DEF Launched, Alive

(* Every step keeps the dates of running checkers as far away as NextRunDate, *)
(* and the box and NextRunDate part ways only where a checker puts back a    *)
(* date that is overtaken.                                                   *)
LEMMA BoxNext ==
  ASSUME BoxInv, [Next]_vars
  PROVE  BoxInv' /\ (BoxParts => \E c \in Checkers : Parts(c))
  <1>0. PaneType' BY PaneTypeNext DEF BoxInv
  <1> USE <1>0 DEF BoxInv, TypeInv
  <1> DEFINE Goal == BoxInv' /\ (BoxParts => \E c \in Checkers : Parts(c))
  <1>1. ASSUME UNCHANGED <<now, dates, manual, checkers, autoUpdate>>, paneOpen' => paneOpen
        PROVE  Goal
    BY <1>1 DEF CheckerType, LastRunInv, BoxParts, BoxAgrees, Far, dates, distantFuture
  <1>2. CASE \E t \in Threads : Step(t) /\ UNCHANGED <<checkerVars, players, autoUpdate, visits>>
    <2>1. PICK t \in Threads : Step(t) BY <1>2
    <2>2. UNCHANGED paneOpen BY <2>1, ThreadOfStep DEF PaneType, Remaining
    <2> QED BY <1>1, <1>2, <2>2 DEF checkerVars
  <1>3. CASE (ClickInstall \/ installComplete) /\ UNCHANGED <<checkerVars, players, autoUpdate, visits>>
    BY <1>1, <1>3 DEF ClickInstall, installComplete, checkerVars
  <1>4. CASE InChecker /\ UNCHANGED <<players, autoUpdate, visits>>
    <2>1. CASE Tick
      <3>1. UNCHANGED <<dates, manual, checkers, paneOpen>> BY <2>1 DEF Tick, paneVars
      <3>2. now' \in 0 .. MaxTime BY <2>1, UpkeepAssumption DEF Tick, CheckerType
      <3> QED
        BY <1>4, <3>1, <3>2 DEF CheckerType, LastRunInv, BoxParts, BoxAgrees, Far, dates, distantFuture
    <2>2. ASSUME NEW c \in Checkers, Check(c) \/ Crash(c) PROVE Goal
      <3>1. CheckerType' /\ LastRunInv' /\ ((Far(nextRun') <=> Far(nextRun)) \/ Parts(c))
        BY <2>2, CheckerOfStep
      <3>2. paneOpen' => paneOpen
        BY <2>2, PaneOfCheck DEF PaneRest
      <3>3. BoxParts => ~(Far(nextRun') <=> Far(nextRun))
        BY <1>4, <3>2 DEF BoxParts, BoxAgrees, Far, distantFuture
      <3> QED BY <1>4, <3>1, <3>3
    <2> QED BY <1>4, <2>1, <2>2 DEF InChecker
  <1>5. ASSUME NEW p \in Players, FFusionRunUpdateCheck(p) PROVE Goal
    BY <1>1, <1>5 DEF FFusionRunUpdateCheck, paneVars, checkerVars
  <1>6. ASSUME Launched, UNCHANGED <<now, dates>>, manual' \in BOOLEAN
        PROVE  CheckerType' /\ LastRunInv'
    BY <1>6, CheckersOfLaunch DEF CheckerType, dates
  <1>7. ASSUME NEW p \in Players, launchUpdateChecker(p) PROVE Goal
    <2>1. Launched /\ UNCHANGED <<now, dates, manual, autoUpdate, paneOpen>>
      BY <1>7 DEF launchUpdateChecker, CheckerRest, paneVars
    <2> QED BY <1>6, <2>1 DEF CheckerType, BoxParts, BoxAgrees, dates, distantFuture
  <1>8. CASE didSelect
    <2>1. autoUpdate' = (nextRun # distantFuture) /\ UNCHANGED <<now, dates>>
      BY <1>8 DEF didSelect, CheckerRest
    <2>2. CheckerType' /\ LastRunInv'
      <3>1. CASE Updated BY <1>6, <1>8, <2>1, <3>1 DEF didSelect, updateCheck
      <3>2. CASE ~Updated
        BY <1>8, <2>1, <3>2 DEF didSelect, CheckerType, LastRunInv, Far, dates, distantFuture
      <3> QED BY <3>1, <3>2
    <2> QED BY <2>1, <2>2 DEF BoxParts, BoxAgrees, dates, distantFuture
  <1>9. CASE ClickUpdateCheck
    <2>1. Launched /\ manual' = TRUE /\ UNCHANGED <<now, dates, autoUpdate, paneOpen>>
      BY <1>9 DEF ClickUpdateCheck, updateCheck, CheckerRest
    <2> QED BY <1>6, <2>1 DEF BoxParts, BoxAgrees, dates, distantFuture
  <1>10. CASE setAutoUpdateCheck
    <2>1. /\ overtaken' = Alive /\ autoUpdate' = ~autoUpdate /\ UNCHANGED <<now, manual, checkers>>
          /\ nextRun' = IF autoUpdate' THEN now + Interval ELSE distantFuture
      BY <1>10 DEF setAutoUpdateCheck, CheckerRest
    <2>2. now + Interval \in Int /\ ~Far(now + Interval)
      <3>1. now \in 0 .. MaxTime /\ MaxTime \in Nat /\ Interval \in Nat
        BY UpkeepAssumption DEF CheckerType
      <3> QED BY <3>1, DistantFuture DEF Far
    <2>3. nextRun' \in Int /\ autoUpdate' = ~Far(nextRun')
      BY <2>1, <2>2, DistantFuture DEF Far
    <2>4. LastRunInv'
      <3>1. \A c \in Checkers : c \notin Alive => checkers[c].step \notin Checking
        BY NotRunningRecord DEF Alive, Checking
      <3> QED BY <2>1, <3>1 DEF LastRunInv
    <2> QED BY <2>1, <2>3, <2>4 DEF CheckerType, BoxParts, BoxAgrees, Far, distantFuture
  <1>11. CASE QuitPreferences
    BY <1>1, <1>11 DEF QuitPreferences, Quit, checkerVars
  <1>12. CASE UNCHANGED vars BY <1>1, <1>12 DEF vars, checkerVars, paneVars
  <1> QED
    BY <1>2, <1>3, <1>4, <1>5, <1>7, <1>8, <1>9, <1>10, <1>11, <1>12 DEF Next, InPane

(* Whatever checkers run, fail or are killed, and whatever the user clicks,  *)
(* the box shows whether automatic checks are on until a check fails that    *)
(* has read the date before the user, or such a check, changed it            *)
(* (setAutoUpdateCheck, updateFailed).                                       *)
THEOREM CheckBoxStaysTrue == Spec => CheckBoxIsTrue
  <1> DEFINE Only == (paneOpen => BoxAgrees) /\ ~(paneOpen' => BoxAgrees') =>
                       \E c \in overtaken :
                         checkers[c].step \in {"fetching", "downloading"} /\ checkers'[c] # checkers[c]
  <1>1. BoxInv /\ [Next]_vars => BoxInv' BY BoxNext
  <1>2. BoxInv /\ [Next]_vars => [Only]_vars BY BoxNext DEF BoxParts, Parts, Asking
  <1> QED BY <1>1, <1>2, BoxInit, PTL DEF Spec, CheckBoxIsTrue

-----------------------------------------------------------------------------
(* Perian in the other location.  A job that shares nothing is the only one, *)
(* and what it is about to remove elsewhere it has seen here.                *)

Has(p) == disk[Own][p].there /\ disk[Own][p].version >= myVersion

ThreadInv(t) ==
  LET thread == threads[t] IN
  /\ thread.job = "uninstall" =>
       /\ thread.step \notin {"other", "prepareRemoval", "runRemoval", "waitRemoval"}
       /\ thread.step \in {"prepare", "run", "wait"} => ~userInstalled
  /\ thread.at \in Pieces /\ (\/ thread.step = "other" /\ thread.ok
                             \/ thread.step \in {"prepareRemoval", "runRemoval"}) =>
       Has(thread.at)
  /\ thread.step = "run" /\ thread.job # "uninstall" => env.extract = thread.at
  /\ thread.step = "runRemoval" => env.remove = thread.at
  /\ thread.step \in {"wait", "waitRemoval"} =>
       \E ok \in BOOLEAN :
         /\ exited = {[thread |-> t, ok |-> ok]}
         /\ thread.step = "wait" /\ thread.job # "uninstall" /\ ok /\ thread.at \in Pieces =>
              Has(thread.at)
  /\ thread.step \notin {"none", "wait", "waitRemoval"} => exited = {}

Alone ==
  /\ \A t, u \in Running : t = u
  /\ Running = {} => exited = {}
  /\ \A t \in Threads : ThreadInv(t)

PaneInv ==
  /\ ~shared => Alone
  /\ paneOpen => lastInstalled >= myVersion
  /\ ~paneOpen => installStatus = InstallStatusInstalledInWrongLocation /\ Running = {}

(* No thread runs at first.                                                  *)
LEMMA PaneInvInit == Init => PaneInv
  <1> SUFFICES ASSUME Init PROVE PaneInv OBVIOUS
  <1>1. Running = {} /\ exited = {} /\ ~paneOpen
          /\ installStatus = InstallStatusInstalledInWrongLocation
    BY DEF Init, PaneInit, Running
  <1>2. \A t \in Threads : ThreadInv(t) BY IdleRecord DEF Init, PaneInit, ThreadInv
  <1> QED BY <1>1, <1>2 DEF PaneInv, Alone

(* The thread that makes a step and shares nothing is the only one.          *)
LEMMA OneRuns ==
  ASSUME PaneType, Alone, NEW t \in Threads, Step(t)
  PROVE  Running' = {t} /\ \A u \in Threads : u # t => threads'[u] = Idle
  <1>1. /\ threads[t].step # "none" /\ threads'[t].step # "none"
        /\ \A u \in Threads : u # t => threads'[u] = threads[u]
    BY ThreadOfStep DEF PaneType
  <1>2. t \in Running BY <1>1, IdleRecord DEF Running
  <1>3. \A u \in Threads : u # t => threads[u] = Idle BY <1>2 DEF Running, Alone
  <1> QED BY <1>1, <1>3, IdleRecord DEF Running

(* A thread relies only on what its own steps have established.              *)
LEMMA ThreadInvNext ==
  ASSUME PaneType, Alone, NEW t \in Threads, Step(t)
  PROVE  ThreadInv(t)'
  <1> DEFINE th == threads[t]
             New(p) == disk'[Own'][p].there /\ disk'[Own'][p].version >= myVersion'
  <1>1. /\ th \in ThreadRecord /\ threads \in [Threads -> ThreadRecord] /\ ThreadInv(t)
        /\ threads' \in [Threads -> ThreadRecord]
    BY ThreadOfStep DEF PaneType, ThreadsType, Alone
  <1>2. UNCHANGED <<userInstalled, myVersion, Pieces, Own>>
    BY ThreadOfStep, DiskTypeOfStep DEF Remaining, Own, PaneType
  <1>3. ASSUME disk' = disk, NEW p PROVE New(p) = Has(p)
    BY <1>2, <1>3 DEF Has
  <1>4. ASSUME exited' = {}, threads'[t].step \in {"piece", "end", "complete"}
        PROVE  ThreadInv(t)'
    BY <1>4 DEF ThreadInv
  <1>5. ASSUME NEW r \in ThreadRecord, threads' = [threads EXCEPT ![t] = AfterPiece(r)], exited' = {}
        PROVE  ThreadInv(t)'
    BY <1>1, <1>4, <1>5, AfterPieceRecord
  <1>6. CASE Begin(t)
    <2>1. th.step = "begin" /\ exited' = exited BY <1>6 DEF Begin
    <2>2. threads'[t].step = "piece" BY <1>1, <1>6 DEF Begin, ThreadRecord
    <2> QED BY <1>1, <1>4, <2>1, <2>2 DEF ThreadInv
  <1>7. CASE InstallPiece(t)
    <2> DEFINE status == installStatusForComponent(th.at)
    <2>1. th.step = "piece" /\ th.job = "install" /\ exited' = exited BY <1>7 DEF InstallPiece
    <2>2. exited' = {} BY <1>1, <2>1 DEF ThreadInv
    <2>3. /\ threads'[t].job = "install" /\ threads'[t].at = th.at
          /\ threads'[t].step = IF currentInstallStatus(status) = InstallStatusInstalled THEN "other" ELSE "prepare"
      BY <1>1, <1>7, <2>1 DEF InstallPiece, ThreadRecord
    <2>4. CASE currentInstallStatus(status) = InstallStatusInstalled
      <3>1. disk' = disk
        BY <1>7, <2>4 DEF InstallPiece, InstallStatusInstalled, InstallStatusOutdated
      <3>2. th.at \in Pieces => Has(th.at) BY <2>4, InstalledPiece DEF Has
      <3>3. th.at \in Pieces => New(th.at) BY <1>3, <3>1, <3>2
      <3> QED BY <1>2, <2>2, <2>3, <2>4, <3>3 DEF ThreadInv, Has
    <2>5. CASE currentInstallStatus(status) # InstallStatusInstalled
      BY <2>2, <2>3, <2>5 DEF ThreadInv
    <2> QED BY <2>4, <2>5
  <1>8. CASE UninstallPiece(t)
    <2>1. th.step = "piece" /\ th.job = "uninstall" /\ exited' = exited BY <1>8 DEF UninstallPiece
    <2>2. exited' = {} BY <1>1, <2>1 DEF ThreadInv
    <2>3. CASE threads' = [threads EXCEPT ![t] = AfterPiece(th)] BY <1>1, <1>5, <2>2, <2>3
    <2>4. CASE threads' = [threads EXCEPT ![t].step = "prepare"] /\ ~userInstalled
      <3>1. threads'[t].step = "prepare" /\ threads'[t].job = "uninstall"
        BY <1>1, <2>1, <2>4 DEF ThreadRecord
      <3> QED BY <1>2, <2>2, <2>4, <3>1 DEF ThreadInv
    <2> QED BY <1>8, <2>3, <2>4 DEF UninstallPiece, ToStep
  <1>9. CASE OtherLocation(t)
    <2>1. th.step = "other" /\ exited' = exited BY <1>9 DEF OtherLocation
    <2>2. exited' = {} BY <1>1, <2>1 DEF ThreadInv
    <2>3. CASE \/ threads' = [threads EXCEPT ![t] = AfterPiece(th)]
               \/ \E ok \in BOOLEAN : threads' = [threads EXCEPT ![t] = AfterPiece([th EXCEPT !.ok = ok])]
      <3>1. \A ok \in BOOLEAN : [th EXCEPT !.ok = ok] \in ThreadRecord BY <1>1 DEF ThreadRecord
      <3> QED BY <1>1, <1>5, <2>2, <2>3, <3>1
    <2>4. CASE threads' = [threads EXCEPT ![t].step = "prepareRemoval"] /\ disk' = disk /\ th.ok
      <3>1. threads'[t].step = "prepareRemoval" /\ threads'[t].at = th.at /\ threads'[t].job = th.job
        BY <1>1, <2>4 DEF ThreadRecord
      <3>2. th.job # "uninstall" BY <1>1, <2>1 DEF ThreadInv
      <3>3. th.at \in Pieces => New(th.at) BY <1>1, <1>3, <2>1, <2>4 DEF ThreadInv
      <3> QED BY <1>2, <2>2, <3>1, <3>2, <3>3 DEF ThreadInv, Has
    <2> QED BY <1>9, <2>3, <2>4 DEF OtherLocation
  <1>10. CASE Prepare(t)
    <2>1. th.step \in {"prepare", "prepareRemoval"} /\ exited' = exited /\ disk' = disk
      BY <1>10 DEF Prepare
    <2>2. exited' = {} BY <1>1, <2>1 DEF ThreadInv
    <2>3. /\ threads'[t].step = IF th.step = "prepare" THEN "run" ELSE "runRemoval"
          /\ threads'[t].at = th.at /\ threads'[t].job = th.job
      BY <1>1, <1>10 DEF Prepare, ToStep, ThreadRecord
    <2>4. env' = IF Removes(th) THEN [env EXCEPT !.remove = th.at] ELSE [env EXCEPT !.extract = th.at]
      BY <1>10 DEF Prepare
    <2>5. CASE th.step = "prepare"
      <3>1. th.job # "uninstall" => env'.extract = th.at
        BY <2>4, <2>5 DEF Removes, PaneType
      <3> QED BY <1>1, <1>2, <2>2, <2>3, <2>5, <3>1 DEF ThreadInv
    <2>6. CASE th.step = "prepareRemoval"
      <3>1. env'.remove = th.at BY <2>4, <2>6 DEF Removes, PaneType
      <3>2. th.at \in Pieces => New(th.at) BY <1>1, <1>3, <2>1, <2>6 DEF ThreadInv
      <3>3. th.job # "uninstall" BY <1>1, <2>6 DEF ThreadInv
      <3> QED BY <1>2, <2>2, <2>3, <2>6, <3>1, <3>2, <3>3 DEF ThreadInv, Has
    <2> QED BY <2>1, <2>5, <2>6
  <1>11. ASSUME NEW ok \in BOOLEAN, Finished(t, ok), exited' = {}, disk' = disk,
                th.step \in {"run", "runRemoval", "wait", "waitRemoval"},
                ok /\ ~Removes(th) /\ th.at \in Pieces => Has(th.at)
         PROVE  ThreadInv(t)'
    <2> DEFINE after == [th EXCEPT !.ok = @ /\ ok]
    <2>1. after \in ThreadRecord BY <1>1 DEF ThreadRecord
    <2>2. CASE Removes(th)
      <3>1. threads' = [threads EXCEPT ![t] = AfterPiece(after)] BY <1>11, <2>2 DEF Finished
      <3> QED BY <1>5, <1>11, <2>1, <3>1
    <2>3. CASE ~Removes(th)
      <3>1. threads' = [threads EXCEPT ![t] = [after EXCEPT !.step = "other"]]
        BY <1>11, <2>3 DEF Finished
      <3>2. /\ threads'[t].step = "other" /\ threads'[t].at = th.at /\ threads'[t].job = th.job
            /\ threads'[t].ok => ok
        BY <1>1, <3>1 DEF ThreadRecord
      <3>3. th.job # "uninstall" BY <2>3 DEF Removes
      <3>4. ok /\ th.at \in Pieces => New(th.at) BY <1>3, <1>11, <2>3
      <3> QED BY <1>2, <1>11, <3>2, <3>3, <3>4 DEF ThreadInv, Has
    <2> QED BY <2>2, <2>3
  <1>12. CASE Refused(t)
    <2>1. /\ Finished(t, FALSE) /\ th.step \in {"run", "runRemoval"}
          /\ exited' = exited /\ disk' = disk
      BY <1>12 DEF Refused
    <2>2. exited' = {} BY <1>1, <2>1 DEF ThreadInv
    <2> QED BY <1>11, <2>1, <2>2
  <1>13. CASE Run(t)
    <2>1. PICK ok \in BOOLEAN :
            LET p == IF Removes(th) THEN env.remove ELSE env.extract
            IN /\ exited' = exited \union {[thread |-> t, ok |-> ok]}
               /\ IF p = 0 THEN ok = Removes(th) /\ UNCHANGED disk
                  ELSE IF Removes(th) THEN disk' = IF ok THEN Gone("system", p) ELSE disk
                  ELSE disk' \in (IF ok THEN {Extracted(p)} ELSE Broken(p))
      BY <1>13 DEF Run
    <2>2. th.step \in {"run", "runRemoval"} BY <1>13 DEF Run
    <2>3. exited' = {[thread |-> t, ok |-> ok]} BY <1>1, <2>1, <2>2 DEF ThreadInv
    <2>4. /\ threads'[t].step = IF th.step = "run" THEN "wait" ELSE "waitRemoval"
          /\ threads'[t].at = th.at /\ threads'[t].job = th.job
      BY <1>1, <1>13 DEF Run, ToStep, ThreadRecord
    <2>5. ASSUME th.step = "run", th.job # "uninstall", ok, th.at \in Pieces PROVE New(th.at)
      <3>1. ~Removes(th) /\ env.extract = th.at BY <1>1, <2>5 DEF Removes, ThreadInv
      <3>2. disk' = Extracted(th.at) BY <2>1, <2>5, <3>1
      <3>3. Own \in Locations BY DEF Own, Locations
      <3>4. disk'[Own][th.at] = Bundle(myVersion)
        <4>1. disk' = [disk EXCEPT ![Own][th.at] = Bundle(myVersion)] BY <3>2 DEF Extracted
        <4> QED BY <2>5, <3>3, <4>1 DEF PaneType, Disks
      <3> QED BY <1>2, <3>4 DEF Has, Bundle, PaneType
    <2>6. th.job = "uninstall" => th.step = "run" /\ ~userInstalled
      BY <1>1, <2>2 DEF ThreadInv
    <2>7. \E k \in BOOLEAN :
            /\ exited' = {[thread |-> t, ok |-> k]}
            /\ th.step = "run" /\ th.job # "uninstall" /\ k /\ th.at \in Pieces => New(th.at)
      BY <2>3, <2>5
    <2> HIDE DEF New
    <2>8. threads'[t].step \in {"wait", "waitRemoval"} /\ (threads'[t].step = "wait" <=> th.step = "run")
      BY <2>2, <2>4
    <2>9. \A p : Has(p)' = New(p) BY DEF Has, New
    <2> QED BY <1>2, <2>4, <2>6, <2>7, <2>8, <2>9 DEF ThreadInv
  <1>14. CASE Wait(t)
    <2>1. th.step \in {"wait", "waitRemoval"} /\ disk' = disk BY <1>14 DEF Wait
    <2>2. PICK ok \in BOOLEAN :
            /\ exited = {[thread |-> t, ok |-> ok]}
            /\ th.step = "wait" /\ th.job # "uninstall" /\ ok /\ th.at \in Pieces => Has(th.at)
      BY <1>1, <2>1 DEF ThreadInv
    <2>3. Finished(t, ok) /\ exited' = {}
      <3> DEFINE only == [thread |-> t, ok |-> ok]
      <3>1. {child \in exited : Authenticated(th) \/ child.thread = t} = {only} BY <2>2
      <3>2. Finished(t, only.ok) /\ exited' = exited \ {only} BY <1>14, <3>1 DEF Wait
      <3> QED BY <2>2, <3>2
    <2>4. ~Removes(th) => th.step = "wait" /\ th.job # "uninstall" BY <2>1 DEF Removes
    <2> QED BY <1>11, <2>1, <2>2, <2>3, <2>4
  <1>15. CASE End(t)
    <2>1. th.step = "end" /\ exited' = exited BY <1>15 DEF End
    <2>2. threads'[t].step = "complete" BY <1>1, <1>15 DEF End, ToStep, ThreadRecord
    <2> QED BY <1>1, <1>4, <2>1, <2>2 DEF ThreadInv
  <1> QED BY <1>6, <1>7, <1>8, <1>9, <1>10, <1>12, <1>13, <1>14, <1>15 DEF Step

(* Steps that leave what a thread relies on.                                 *)
LEMMA SameThreadInv ==
  ASSUME UNCHANGED <<disk, userInstalled, myVersion, env, exited>>,
         NEW t \in Threads, threads'[t] = threads[t], ThreadInv(t)
  PROVE  ThreadInv(t)'
  BY DEF ThreadInv, Has, Own, Pieces

(* Steps that leave all that the threads rely on.                            *)
LEMMA SameAlone ==
  ASSUME UNCHANGED <<disk, userInstalled, myVersion, env, exited, threads>>, Alone
  PROVE  Alone'
  <1>1. \A t \in Threads : ThreadInv(t)' BY SameThreadInv DEF Alone
  <1>2. Running' = Running BY DEF Running
  <1> QED BY <1>1, <1>2 DEF Alone

(* Steps beside the pane disturb no thread.                                  *)
LEMMA SamePaneInv ==
  ASSUME PaneInv,
         UNCHANGED <<disk, userInstalled, myVersion, env, exited, threads, shared, paneOpen, installStatus,
                     lastInstalled>>
  PROVE  PaneInv'
  <1>1. Running' = Running BY DEF Running
  <1> QED BY <1>1, SameAlone DEF PaneInv

(* No thread that runs relies on anything.                                   *)
LEMMA NoneAlone ==
  ASSUME \A t \in Threads : threads'[t] = Idle, exited' = {}
  PROVE  Alone' /\ Running' = {}
  <1>1. \A t \in Threads : ThreadInv(t)' BY IdleRecord DEF ThreadInv
  <1>2. Running' = {} BY DEF Running
  <1> QED BY <1>1, <1>2 DEF Alone

(* A new controller relies on nothing.                                       *)
LEMMA NewPaneInv == ASSUME NewProcess, paneOpen' = FALSE PROVE PaneInv'
  <1>1. \A t \in Threads : threads'[t] = Idle BY DEF NewProcess
  <1>2. exited' = {} BY DEF NewProcess
  <1> QED BY <1>1, <1>2, NoneAlone DEF NewProcess, PaneInv

(* A job begins; one that shares nothing begins when none runs.              *)
LEMMA StartedInv ==
  ASSUME PaneType, PaneInv, installUninstall,
         UNCHANGED <<disk, userInstalled, myVersion, env, exited>>,
         paneOpen', lastInstalled' >= myVersion'
  PROVE  PaneInv'
  <1> SUFFICES ASSUME ~shared' PROVE Alone' BY DEF PaneInv
  <1>0. Running = {} /\ Alone BY DEF installUninstall, PaneInv
  <1>1. PICK t \in Threads, job \in {"install", "uninstall"} : threads' = [threads EXCEPT ![t] = Started(job)]
    BY ThreadStarted
  <1>2. Started(job).step = "begin" BY IdleRecord DEF Started, ThreadRecord
  <1>3. threads'[t] = Started(job) /\ \A u \in Threads : u # t => threads'[u] = Idle
    BY <1>0, <1>1 DEF Running, PaneType, ThreadsType
  <1>4. exited' = {} BY <1>0 DEF Alone
  <1>5. \A u \in Threads : ThreadInv(u)'
    <2>1. ThreadInv(t)' BY <1>2, <1>3, <1>4 DEF ThreadInv
    <2>2. \A u \in Threads : u # t => ThreadInv(u)' BY <1>3, <1>4, IdleRecord DEF ThreadInv
    <2> QED BY <2>1, <2>2
  <1>6. Running' = {t} BY <1>2, <1>3, IdleRecord DEF Running
  <1> QED BY <1>5, <1>6 DEF Alone

(* A step of a thread that shares nothing keeps what it relies on.           *)
LEMMA AloneOfStep ==
  ASSUME PaneType, Alone, NEW t \in Threads, Step(t)
  PROVE  Alone'
  <1>1. Running' = {t} /\ \A u \in Threads : u # t => threads'[u] = Idle BY OneRuns
  <1>2. ThreadInv(t)' BY ThreadInvNext
  <1>3. \A u \in Threads : u # t => ThreadInv(u)' BY <1>1, IdleRecord DEF ThreadInv
  <1> QED BY <1>1, <1>2, <1>3 DEF Alone

(* Every step keeps the invariant of the threads.                            *)
LEMMA PaneInvNext ==
  ASSUME TypeInv, LastRunInv, PaneInv, [Next]_vars
  PROVE  PaneInv'
  <1> USE DEF TypeInv
  <1>1. ASSUME NEW t \in Threads, Step(t) PROVE PaneInv'
    <2>1. t \in Running
      <3>1. threads[t].step # "none" BY <1>1, ThreadOfStep DEF PaneType
      <3> QED BY <3>1, IdleRecord DEF Running
    <2>2. paneOpen' /\ lastInstalled' >= myVersion' /\ shared' = shared
      BY <1>1, <2>1, ThreadOfStep DEF PaneType, PaneInv, Remaining
    <2>3. ~shared => Alone' BY <1>1, AloneOfStep DEF PaneInv
    <2> QED BY <2>2, <2>3 DEF PaneInv
  <1>2. CASE ClickInstall
    <2>1. paneOpen' /\ lastInstalled' >= myVersion' BY <1>2 DEF ClickInstall, PaneInv
    <2> QED BY <1>2, <2>1, StartedInv DEF ClickInstall
  <1>3. CASE installComplete
    <2>1. PICK t \in Threads : /\ threads[t].step = "complete" /\ threads' = [threads EXCEPT ![t] = Idle]
                               /\ shared' = (shared /\ (Running # {t} \/ exited # {}))
      BY <1>3 DEF installComplete
    <2>2. UNCHANGED <<disk, userInstalled, myVersion, paneOpen, lastInstalled, env, exited>>
      BY <1>3 DEF installComplete
    <2>3. t \in Running BY <2>1, IdleRecord DEF Running
    <2>4. paneOpen' /\ lastInstalled' >= myVersion' BY <2>2, <2>3 DEF PaneInv
    <2>5. ASSUME ~shared' PROVE Alone'
      <3>1. Running = {t} /\ exited = {}
        <4>1. CASE shared BY <2>1, <2>5, <4>1
        <4>2. CASE ~shared BY <2>1, <2>3, <4>2 DEF PaneInv, Alone, ThreadInv
        <4> QED BY <4>1, <4>2
      <3>2. \A u \in Threads : threads'[u] = Idle
        BY <2>1, <3>1 DEF Running, PaneType, ThreadsType
      <3> QED BY <2>2, <3>1, <3>2, NoneAlone
    <2> QED BY <2>4, <2>5 DEF PaneInv
  <1>4. CASE \E c \in Checkers : Check(c) \/ Crash(c)
    <2>1. UNCHANGED PaneRest \/ (paneOpen' = FALSE /\ NewProcess) BY <1>4, PaneOfCheck
    <2>2. CASE UNCHANGED PaneRest BY <2>2, SamePaneInv DEF PaneRest, process
    <2> QED BY <2>1, <2>2, NewPaneInv
  <1>5. CASE Tick \/ (\E p \in Players : FFusionRunUpdateCheck(p) \/ launchUpdateChecker(p))
             \/ UNCHANGED vars
    <2>1. UNCHANGED PaneRest
      BY <1>5 DEF Tick, FFusionRunUpdateCheck, launchUpdateChecker, vars, paneVars, PaneRest
    <2> QED BY <2>1, SamePaneInv DEF PaneRest, process
  <1>6. CASE didSelect
    <2>1. UNCHANGED <<disk, userInstalled, myVersion, env, exited>> /\ paneOpen' = TRUE
      BY <1>6 DEF didSelect
    <2>2. CASE Updated
      <3>1. lastInstalled' = myVersion /\ installUninstall BY <1>6, <2>2 DEF didSelect
      <3>2. lastInstalled' >= myVersion' BY <2>1, <3>1 DEF PaneType
      <3> QED BY <2>1, <3>1, <3>2, StartedInv
    <2>3. CASE ~Updated
      <3>1. UNCHANGED <<threads, shared, lastInstalled>> BY <1>6, <2>3 DEF didSelect
      <3>2. lastInstalled >= myVersion
        BY <2>3 DEF Updated, PaneInv, PaneType, InstallStatusInstalled,
                    InstallStatusInstalledInWrongLocation
      <3> QED BY <2>1, <3>1, <3>2, SameAlone DEF PaneInv
    <2> QED BY <2>2, <2>3
  <1>7. CASE ClickUpdateCheck \/ setAutoUpdateCheck
    <2>1. UNCHANGED <<disk, userInstalled, myVersion, env, exited, threads, shared, paneOpen, installStatus,
                      lastInstalled>>
      BY <1>7 DEF ClickUpdateCheck, setAutoUpdateCheck, process
    <2> QED BY <2>1, SamePaneInv
  <1>8. CASE QuitPreferences BY <1>8, NewPaneInv DEF QuitPreferences, Quit
  <1> QED
    BY <1>1, <1>2, <1>3, <1>4, <1>5, <1>6, <1>7, <1>8 DEF Next, InPane, InChecker

(* Only a thread takes something away from the disk.                         *)
LEMMA DiskOfOthers ==
  ASSUME [Next]_vars, ~\E t \in Threads : Step(t)
  PROVE  disk' = disk
  <1>1. CASE InPane BY <1>1 DEF InPane, ClickInstall, installComplete
  <1>2. CASE InChecker
    <2>1. CASE Tick BY <2>1 DEF Tick, paneVars
    <2>2. CASE \E c \in Checkers : Check(c) \/ Crash(c) BY <2>2, PaneOfCheck DEF PaneRest
    <2> QED BY <1>2, <2>1, <2>2 DEF InChecker
  <1>3. CASE \/ \E p \in Players : FFusionRunUpdateCheck(p) \/ launchUpdateChecker(p)
             \/ didSelect \/ ClickUpdateCheck \/ setAutoUpdateCheck \/ QuitPreferences
             \/ UNCHANGED vars
    BY <1>3 DEF FFusionRunUpdateCheck, launchUpdateChecker, didSelect, ClickUpdateCheck,
                setAutoUpdateCheck, QuitPreferences, vars, paneVars
  <1> QED BY <1>1, <1>2, <1>3 DEF Next

(* What a thread removes elsewhere is here.                                  *)
LEMMA OtherOfStep ==
  ASSUME PaneType, Alone, NEW t \in Threads, Step(t),
         NEW p \in Pieces, disk[Other][p].there, ~disk'[Other][p].there
  PROVE  Has(p)
  <1> DEFINE th == threads[t]
  <1>1. ThreadInv(t) BY DEF Alone
  <1>2. disk'[Other] # disk[Other] OBVIOUS
  <1>3. Own \in Locations /\ Other \in Locations /\ Own # Other BY DEF Own, Other, Locations
  <1>4. ASSUME NEW q, NEW new PROVE Replaced(disk, Own, q, new)[Other] = disk[Other]
    BY <1>3 DEF Replaced, PaneType, Disks
  <1>5. CASE InstallPiece(t) \/ UninstallPiece(t)
    <2>1. disk' = disk \/ disk' = Replaced(disk, Own, th.at, Nothing)
      BY <1>5 DEF InstallPiece, UninstallPiece, Gone, Replaced
    <2> QED BY <1>2, <1>4, <2>1
  <1>6. CASE OtherLocation(t)
    <2>1. th.step = "other" /\ (disk' = disk \/ (th.ok /\ disk' = Replaced(disk, Other, th.at, Nothing)))
      BY <1>6 DEF OtherLocation, Gone, Replaced
    <2>2. th.ok /\ disk' = Replaced(disk, Other, th.at, Nothing) BY <1>2, <2>1
    <2>3. p = th.at
      BY <1>3, <2>2 DEF Replaced, PaneType, Disks
    <2> QED BY <1>1, <2>1, <2>2, <2>3 DEF ThreadInv
  <1>7. CASE Run(t)
    <2>1. th.step \in {"run", "runRemoval"} BY <1>7 DEF Run
    <2>2. \/ disk' = disk
          \/ Removes(th) /\ disk' = Replaced(disk, "system", env.remove, Nothing)
          \/ \E left : disk' = Replaced(disk, Own, env.extract, left)
      BY <1>7 DEF Run, Gone, Extracted, Broken, Replaced
    <2>3. Removes(th) /\ disk' = Replaced(disk, "system", env.remove, Nothing)
      BY <1>2, <1>4, <2>2
    <2>4. Other = "system" /\ userInstalled
      <3>1. Own # "system" BY <1>2, <1>4, <2>3
      <3> QED BY <3>1 DEF Own, Other
    <2>5. th.step = "runRemoval" /\ env.remove = th.at
      BY <1>1, <2>1, <2>3, <2>4 DEF ThreadInv, Removes
    <2>6. p = th.at BY <1>3, <2>3, <2>4, <2>5 DEF Replaced, PaneType, Disks
    <2> QED BY <1>1, <2>5, <2>6 DEF ThreadInv
  <1>8. CASE Begin(t) \/ Prepare(t) \/ Refused(t) \/ Wait(t) \/ End(t)
    BY <1>2, <1>8 DEF Begin, Prepare, Refused, Wait, End
  <1> QED BY <1>5, <1>6, <1>7, <1>8 DEF Step

OtherInv == BoxInv /\ PaneInv

(* Perian is removed from the other location only where the pane has found   *)
(* this version here, unless jobs ran at the same time (installArchive,      *)
(* "only if install succeeded").                                             *)
THEOREM OtherOnlyForOwnHolds == Spec => OtherOnlyForOwn
  <1> DEFINE Only == ~shared =>
                       \A p \in Pieces : disk[Other][p].there /\ ~disk'[Other][p].there =>
                         disk[Own][p].there /\ disk[Own][p].version >= myVersion
  <1>1. Init => OtherInv BY BoxInit, PaneInvInit DEF OtherInv
  <1>2. OtherInv /\ [Next]_vars => OtherInv'
    BY BoxNext, PaneInvNext DEF OtherInv, BoxInv
  <1>3. OtherInv /\ [Next]_vars => [Only]_vars
    <2> SUFFICES ASSUME OtherInv, [Next]_vars, ~shared, NEW p \in Pieces,
                        disk[Other][p].there, ~disk'[Other][p].there
                 PROVE  Has(p)
      BY DEF Has
    <2>1. PICK t \in Threads : Step(t) BY DiskOfOthers
    <2> QED BY <2>1, OtherOfStep DEF OtherInv, BoxInv, TypeInv, PaneInv
  <1> QED BY <1>1, <1>2, <1>3, PTL DEF Spec, OtherOnlyForOwn

-----------------------------------------------------------------------------
(* An install that succeeds.  The pieces are taken in their order, and what  *)
(* has gone wrong with one of them is in errorString until the next job.     *)

Updating == {"asking", "downloading"}

VersionInv ==
  /\ myVersion # 0
  /\ \A c \in Checkers : checkers[c].step \in Updating => checkers[c].latest # NoUpdate

Installed(p) == installStatusForComponent(p) = InstallStatusInstalled

Elsewhere(p) == disk[Other][p].version # 0

InstallInv(t) ==
  LET thread == threads[t] IN
  thread.job = "install" /\ ~errorString /\ thread.step \notin {"none", "begin"} =>
    IF thread.step \in {"end", "complete"} THEN \A p \in Pieces : Installed(p)
    ELSE /\ thread.at \in Pieces
         /\ \A p \in Pieces : p < thread.at => Installed(p)
         /\ thread.step # "piece" => thread.ok
         /\ thread.step \in {"prepare", "run", "wait", "other"} =>
              (isWrongLocationInstalled(thread.status) <=> Elsewhere(thread.at))
         /\ thread.step \in {"prepareRemoval", "runRemoval", "waitRemoval"} =>
              userInstalled /\ Has(thread.at)
         /\ thread.step = "waitRemoval" /\ exited = {[thread |-> t, ok |-> TRUE]} =>
              ~Elsewhere(thread.at)

ToldInv ==
  /\ Numbered(Pieces) /\ VersionInv
  /\ ~shared => \A t \in Threads : InstallInv(t)

(* The status of a piece: where it lies, and whether it lies elsewhere.      *)
LEMMA StatusTells ==
  ASSUME NEW p
  PROVE  /\ isWrongLocationInstalled(installStatusForComponent(p)) <=> Elsewhere(p)
         /\ Installed(p) => currentInstallStatus(installStatusForComponent(p)) = InstallStatusInstalled
  BY DEF installStatusForComponent, isWrongLocationInstalled, setWrongLocationInstalled, Installed,
         currentInstallStatus, Elsewhere,
         InstallStatusNotInstalled, InstallStatusOutdated, InstallStatusInstalled

(* This version here and nothing elsewhere is what "installed" means.        *)
LEMMA HasIsInstalled ==
  ASSUME PaneType, myVersion # 0, NEW p \in Pieces, Has(p), ~Elsewhere(p)
  PROVE  Installed(p)
  <1>1. Own \in Locations BY DEF Own, Locations
  <1>2. disk[Own][p] \in Lying BY <1>1 DEF PaneType, Disks
  <1>3. disk[Own][p].version \in Nat /\ myVersion \in Nat BY <1>2 DEF Lying, PaneType
  <1> QED BY <1>3 DEF Installed, installStatusForComponent, Has, Elsewhere

(* The same after a step.                                                    *)
LEMMA HasIsInstalledThen ==
  ASSUME PaneType', myVersion' # 0, NEW p \in Pieces', Has(p)', ~Elsewhere(p)'
  PROVE  Installed(p)'
  <1>1. Own' \in Locations BY DEF Own, Locations
  <1>2. disk'[Own'][p] \in Lying BY <1>1 DEF PaneType, Disks
  <1>3. disk'[Own'][p].version \in Nat /\ myVersion' \in Nat BY <1>2 DEF Lying, PaneType
  <1> QED BY <1>3 DEF Installed, installStatusForComponent, Has, Elsewhere

(* All pieces installed is what the pane's status says.                      *)
LEMMA AllInstalled ==
  ASSUME 1 \in Pieces, \A p \in Pieces : Installed(p)
  PROVE  Overall = InstallStatusInstalled
  <1>1. {installStatusForComponent(p) : p \in Pieces} = {InstallStatusInstalled} BY DEF Installed
  <1>2. Min({InstallStatusInstalled}) = InstallStatusInstalled BY DEF Min, InstallStatusInstalled
  <1>3. Installed(1) OBVIOUS
  <1> QED BY <1>1, <1>2, <1>3, StatusTells DEF Overall, Installed

(* What a piece's status rests on.                                           *)
LEMMA StatusKept ==
  ASSUME PaneType, UNCHANGED <<userInstalled, myVersion>>, NEW p,
         \A l \in Locations : disk'[l][p] = disk[l][p]
  PROVE  Installed(p)' = Installed(p) /\ Elsewhere(p)' = Elsewhere(p) /\ Has(p)' = Has(p)
  <1>1. Own' = Own /\ Other' = Other /\ Own \in Locations /\ Other \in Locations
    BY DEF Own, Other, Locations
  <1> QED BY <1>1 DEF Installed, Elsewhere, Has, installStatusForComponent

(* A thread that installs has one piece in hand.                             *)
LEMMA OthersKept ==
  ASSUME PaneType, NEW t \in Threads, ThreadInv(t), Step(t), threads[t].job = "install",
         NEW p \in Pieces, p # threads[t].at, NEW l \in Locations
  PROVE  disk'[l][p] = disk[l][p]
  <1> DEFINE th == threads[t]
  <1>1. ASSUME NEW loc \in Locations, NEW new, disk' = Replaced(disk, loc, th.at, new)
        PROVE  disk'[l][p] = disk[l][p]
    BY <1>1 DEF Replaced, PaneType, Disks
  <1>2. Own \in Locations /\ Other \in Locations /\ "system" \in Locations
    BY DEF Own, Other, Locations
  <1>3. CASE InstallPiece(t) \/ OtherLocation(t)
    <2>1. \/ disk' = disk \/ disk' = Replaced(disk, Own, th.at, Nothing)
          \/ disk' = Replaced(disk, Other, th.at, Nothing)
      BY <1>3 DEF InstallPiece, OtherLocation, Gone, Replaced
    <2> QED BY <1>1, <1>2, <2>1
  <1>4. CASE Run(t)
    <2>1. th.step \in {"run", "runRemoval"} BY <1>4 DEF Run
    <2>2. \/ disk' = disk
          \/ Removes(th) /\ disk' = Replaced(disk, "system", env.remove, Nothing)
          \/ ~Removes(th) /\ \E left : disk' = Replaced(disk, Own, env.extract, left)
      BY <1>4 DEF Run, Gone, Extracted, Broken, Replaced
    <2>3. Removes(th) => env.remove = th.at BY <2>1 DEF ThreadInv, Removes
    <2>4. ~Removes(th) => env.extract = th.at BY <2>1 DEF ThreadInv, Removes
    <2> QED BY <1>1, <1>2, <2>2, <2>3, <2>4
  <1>5. CASE UninstallPiece(t) BY <1>5 DEF UninstallPiece
  <1>6. CASE Begin(t) \/ Prepare(t) \/ Refused(t) \/ Wait(t) \/ End(t)
    BY <1>6 DEF Begin, Prepare, Refused, Wait, End
  <1> QED BY <1>3, <1>4, <1>5, <1>6 DEF Step

(* After a piece that is as it should be, comes the next or the end.         *)
LEMMA NextPiece ==
  ASSUME PaneType, PaneType', Numbered(Pieces), Pieces' = Pieces, NEW t \in Threads,
         NEW r \in ThreadRecord, r.job = "install", r.ok, r.at \in Pieces,
         threads' = [threads EXCEPT ![t] = AfterPiece(r)],
         \A p \in Pieces : p <= r.at => Installed(p)'
  PROVE  InstallInv(t)'
  <1> DEFINE N == Cardinality(Pieces)
  <1>1. N \in Nat /\ Pieces = 1 .. N BY FS_CardinalityType DEF Numbered
  <1> HIDE DEF N
  <1>2. CASE r.at = N
    <2>1. threads'[t].step = "end"
      <3>1. AfterPiece(r) = [Idle EXCEPT !.job = r.job, !.step = "end"] BY <1>2 DEF AfterPiece, N
      <3> QED BY <3>1, IdleRecord DEF PaneType, ThreadsType, Idle
    <2>2. \A p \in Pieces : p <= r.at BY <1>1, <1>2
    <2> QED BY <2>1, <2>2 DEF InstallInv
  <1>3. CASE r.at # N
    <2>1. threads'[t].step = "piece" /\ threads'[t].at = r.at + 1
      <3>1. AfterPiece(r) = [Idle EXCEPT !.job = r.job, !.step = "piece", !.at = r.at + 1]
        BY <1>3 DEF AfterPiece, N
      <3> QED BY <3>1, IdleRecord DEF PaneType, ThreadsType, Idle
    <2>2. r.at + 1 \in Pieces BY <1>1, <1>3
    <2>3. \A p \in Pieces : p < r.at + 1 => p <= r.at BY <1>1
    <2> QED BY <2>1, <2>2, <2>3 DEF InstallInv
  <1> QED BY <1>2, <1>3

(* The step of a thread keeps what it has installed, or leaves an error.     *)
LEMMA InstallNext ==
  ASSUME PaneType, PaneType', Alone, ToldInv, NEW t \in Threads, InstallInv(t), Step(t), ThreadInv(t)'
  PROVE  InstallInv(t)'
  <1> DEFINE th == threads[t]
             new == threads'[t]
  <1>1. /\ th \in ThreadRecord /\ threads \in [Threads -> ThreadRecord]
        /\ threads' \in [Threads -> ThreadRecord] /\ ThreadInv(t) /\ InstallInv(t)
        /\ th.step # "none"
    BY ThreadOfStep DEF PaneType, ThreadsType, Alone
  <1>2. UNCHANGED <<userInstalled, myVersion, Pieces>>
    BY ThreadOfStep, DiskTypeOfStep DEF Remaining, PaneType
  <1>3. Own \in Locations /\ Other \in Locations /\ Own # Other /\ Own' = Own /\ Other' = Other
    BY <1>2 DEF Own, Other, Locations
  <1>4. Numbered(Pieces) /\ myVersion # 0 BY DEF ToldInv, VersionInv
  <1>0. Pieces \subseteq Int /\ 1 \in Pieces /\ \A p \in Pieces : ~(p < 1)
    <2> DEFINE N == Cardinality(Pieces)
    <2>1. 1 \in Pieces /\ Pieces = 1 .. N /\ N \in Nat BY <1>4, FS_CardinalityType DEF Numbered
    <2> HIDE DEF N
    <2> QED BY <2>1
  <1>5. ASSUME th.job = "install", NEW p \in Pieces, p # th.at, Installed(p) PROVE Installed(p)'
    <2>1. \A l \in Locations : disk'[l][p] = disk[l][p] BY <1>1, <1>5, OthersKept
    <2> QED BY <1>2, <1>5, <2>1, StatusKept
  <1>6. ASSUME disk' = disk, NEW p
        PROVE  Installed(p)' = Installed(p) /\ Elsewhere(p)' = Elsewhere(p) /\ Has(p)' = Has(p)
    BY <1>2, <1>6, StatusKept
  <1>7. ASSUME NEW p \in Pieces, Has(p)', ~Elsewhere(p)' PROVE Installed(p)'
    BY <1>2, <1>4, <1>7, HasIsInstalledThen
  <1>8. ASSUME NEW r \in ThreadRecord, r.job = "install", r.ok, NEW at \in Pieces, r.at = at,
               th.job = "install", th.at = at, \A p \in Pieces : p < at => Installed(p),
               threads' = [threads EXCEPT ![t] = AfterPiece(r)],
               Has(at)', ~Elsewhere(at)'
        PROVE  InstallInv(t)'
    <2>1. Installed(at)' BY <1>7, <1>8
    <2>2. \A p \in Pieces : p <= at => Installed(p)'
      <3> SUFFICES ASSUME NEW p \in Pieces, p <= at PROVE Installed(p)' OBVIOUS
      <3>1. CASE p = at BY <2>1, <3>1
      <3>2. CASE p # at
        <4>1. p < at BY <1>0, <1>8, <3>2
        <4> QED BY <1>5, <1>8, <3>2, <4>1
      <3> QED BY <3>1, <3>2
    <2> QED BY <1>2, <1>4, <1>8, <2>2, NextPiece
  <1>9. ASSUME th.job # "install" \/ errorString', new.job = th.job PROVE InstallInv(t)'
    BY <1>9 DEF InstallInv
  <1>10. CASE Begin(t)
    <2>1. new.job = th.job /\ new.step = "piece" /\ new.at = 1
      <3>1. threads' = [threads EXCEPT ![t].step = "piece", ![t].at = 1] BY <1>10 DEF Begin
      <3> QED BY <1>1, <3>1 DEF ThreadRecord
    <2> QED BY <1>2, <2>1, <1>0 DEF InstallInv
  <1>11. CASE InstallPiece(t)
    <2>1. PICK removed \in BOOLEAN :
            /\ th.step = "piece" /\ th.job = "install"
            /\ disk' = IF removed THEN Gone(Own, th.at) ELSE disk
            /\ new.status = installStatusForComponent(th.at)
            /\ new.step = IF currentInstallStatus(installStatusForComponent(th.at)) = InstallStatusInstalled
                          THEN "other" ELSE "prepare"
            /\ new.at = th.at /\ new.job = th.job
            /\ ~errorString' => new.ok /\ ~errorString
      <3> DEFINE status == installStatusForComponent(th.at)
                 outdated == userInstalled /\ currentInstallStatus(status) = InstallStatusOutdated
      <3>1. PICK removed \in (IF outdated THEN BOOLEAN ELSE {FALSE}) :
              /\ disk' = IF removed THEN Gone(Own, th.at) ELSE disk
              /\ errorString' = (errorString \/ (outdated /\ ~removed))
              /\ threads' = [threads EXCEPT ![t].status = status,
                               ![t].step = IF currentInstallStatus(status) = InstallStatusInstalled
                                           THEN "other" ELSE "prepare",
                               ![t].ok = ~outdated \/ removed]
        BY <1>11 DEF InstallPiece
      <3>2. th.step = "piece" /\ th.job = "install" BY <1>11 DEF InstallPiece
      <3> HIDE DEF outdated, status
      <3>3. /\ new.status = status
            /\ new.step = IF currentInstallStatus(status) = InstallStatusInstalled THEN "other" ELSE "prepare"
            /\ new.at = th.at /\ new.job = th.job /\ new.ok = (~outdated \/ removed)
        BY <1>1, <3>1 DEF ThreadRecord
      <3> QED BY <3>1, <3>2, <3>3 DEF status
    <2>2. CASE errorString' BY <1>9, <2>1, <2>2
    <2>3. CASE ~errorString'
      <3>1. PICK at \in Pieces : at = th.at /\ \A p \in Pieces : p < at => Installed(p)
        BY <1>1, <2>1, <2>3 DEF InstallInv
      <3>2. isWrongLocationInstalled(new.status) <=> Elsewhere(at) BY <2>1, <3>1, StatusTells
      <3>3. Elsewhere(at)' = Elsewhere(at)
        <4>1. disk'[Other] = disk[Other]
          BY <1>3, <2>1 DEF Gone, PaneType, Disks
        <4> QED BY <1>3, <4>1 DEF Elsewhere
      <3>4. \A p \in Pieces : p < at => Installed(p)'
        <4>1. \A p \in Pieces : p < at => p # at BY <1>0
        <4> QED BY <1>5, <2>1, <3>1, <4>1
      <3> QED BY <1>2, <2>1, <2>3, <3>1, <3>2, <3>3, <3>4 DEF InstallInv
    <2> QED BY <2>2, <2>3
  <1>12. CASE UninstallPiece(t)
    <2>1. th.job = "uninstall" BY <1>12 DEF UninstallPiece
    <2>2. new.job = th.job
      <3>1. CASE threads' = [threads EXCEPT ![t] = AfterPiece(th)] BY <1>1, <3>1, AfterPieceRecord
      <3>2. CASE ToStep(t, "prepare") BY <1>1, <3>2 DEF ToStep, ThreadRecord
      <3> QED BY <1>12, <3>1, <3>2 DEF UninstallPiece
    <2> QED BY <1>9, <2>1, <2>2
  <1>13. ASSUME th.job = "install", ~errorString,
                th.step \in {"prepare", "run", "wait", "other", "prepareRemoval", "runRemoval", "waitRemoval"}
         PROVE  th.ok /\ th.at \in Pieces /\ \A p \in Pieces : p < th.at => Installed(p)
    BY <1>1, <1>13 DEF InstallInv
  <1>14. CASE OtherLocation(t)
    <2>1. th.step = "other" BY <1>14 DEF OtherLocation
    <2>2. CASE th.job # "install" \/ errorString'
      <3>1. ASSUME NEW r \in ThreadRecord, r.job = th.job, threads' = [threads EXCEPT ![t] = AfterPiece(r)]
            PROVE  InstallInv(t)'
        <4>1. new.job = th.job BY <1>1, <3>1, AfterPieceRecord
        <4> QED BY <1>9, <2>2, <4>1
      <3>2. CASE threads' = [threads EXCEPT ![t].step = "prepareRemoval"]
        <4>1. new.job = th.job BY <1>1, <3>2 DEF ThreadRecord
        <4> QED BY <1>9, <2>2, <4>1
      <3>3. ASSUME NEW ok \in BOOLEAN, threads' = [threads EXCEPT ![t] = AfterPiece([th EXCEPT !.ok = ok])]
            PROVE  InstallInv(t)'
        <4> DEFINE r == [th EXCEPT !.ok = ok]
        <4>1. r \in ThreadRecord /\ r.job = th.job BY <1>1 DEF ThreadRecord
        <4> HIDE DEF r
        <4> QED BY <3>1, <3>3, <4>1 DEF r
      <3> QED BY <1>1, <1>14, <3>1, <3>2, <3>3 DEF OtherLocation
    <2>3. CASE th.job = "install" /\ ~errorString'
      <3>0. ~errorString BY <1>14, <2>3 DEF OtherLocation
      <3>1. PICK at \in Pieces : at = th.at /\ \A p \in Pieces : p < at => Installed(p)
        BY <1>13, <2>1, <2>3, <3>0
      <3>2. th.ok /\ Has(at) BY <1>1, <1>13, <2>1, <2>3, <3>0, <3>1 DEF ThreadInv
      <3>3. isWrongLocationInstalled(th.status) <=> Elsewhere(at)
        BY <1>1, <2>1, <2>3, <3>0, <3>1 DEF InstallInv
      <3>4. Elsewhere(at) => disk[Other][at].there
        <4>1. disk[Other][at] \in Lying BY <1>3 DEF PaneType, Disks
        <4> QED BY <4>1 DEF Elsewhere, Lying
      <3>5. CASE threads' = [threads EXCEPT ![t] = AfterPiece(th)] /\ disk' = disk /\ ~Elsewhere(at)
        <4>1. Has(at)' /\ ~Elsewhere(at)' BY <1>6, <3>2, <3>5
        <4> QED BY <1>1, <1>8, <2>3, <3>1, <3>2, <3>5, <4>1
      <3>6. CASE threads' = [threads EXCEPT ![t].step = "prepareRemoval"] /\ disk' = disk /\ userInstalled
        <4>1. new.step = "prepareRemoval" /\ new.at = at /\ new.ok = th.ok
          BY <1>1, <3>1, <3>6 DEF ThreadRecord
        <4>2. Has(at)' /\ \A p \in Pieces : p < at => Installed(p)' BY <1>6, <3>1, <3>2, <3>6
        <4> QED BY <1>2, <3>1, <3>2, <3>6, <4>1, <4>2 DEF InstallInv
      <3>7. CASE threads' = [threads EXCEPT ![t] = AfterPiece([th EXCEPT !.ok = TRUE])] /\ disk' = Gone(Other, at)
        <4> DEFINE r == [th EXCEPT !.ok = TRUE]
        <4>1. r \in ThreadRecord /\ r.job = "install" /\ r.ok /\ r.at = at
          BY <1>1, <2>3, <3>1 DEF ThreadRecord
        <4> HIDE DEF r
        <4>2. disk'[Own] = disk[Own] /\ disk'[Other][at] = Nothing
          BY <1>3, <3>7 DEF Gone, PaneType, Disks
        <4>3. Has(at)' /\ ~Elsewhere(at)'
          BY <1>2, <1>3, <3>2, <4>2 DEF Has, Elsewhere, Nothing
        <4> QED BY <1>8, <2>3, <3>1, <3>7, <4>1, <4>3 DEF r
      <3> QED
        <4> DEFINE present == disk[Other][th.at].there
        <4>1. CASE ~th.ok \/ ~isWrongLocationInstalled(th.status) \/ (userInstalled /\ ~present)
          BY <1>14, <3>1, <3>2, <3>3, <3>4, <3>5, <4>1 DEF OtherLocation
        <4>2. CASE /\ ~(~th.ok \/ ~isWrongLocationInstalled(th.status) \/ (userInstalled /\ ~present))
                   /\ userInstalled
          BY <1>14, <3>6, <4>2 DEF OtherLocation
        <4>3. CASE /\ ~(~th.ok \/ ~isWrongLocationInstalled(th.status) \/ (userInstalled /\ ~present))
                   /\ ~userInstalled
          <5>1. PICK removed \in BOOLEAN :
                  /\ disk' = IF removed THEN Gone(Other, th.at) ELSE disk
                  /\ errorString' = (errorString \/ ~removed)
                  /\ threads' = [threads EXCEPT ![t] = AfterPiece([th EXCEPT !.ok = removed])]
            BY <1>14, <4>3 DEF OtherLocation
          <5>2. removed = TRUE BY <2>3, <5>1
          <5> QED BY <3>1, <3>7, <5>1, <5>2
        <4> QED BY <4>1, <4>2, <4>3
    <2> QED BY <2>2, <2>3
  <1>15. CASE Prepare(t)
    <2>1. /\ th.step \in {"prepare", "prepareRemoval"} /\ disk' = disk /\ errorString' = errorString
          /\ exited' = exited
      BY <1>15 DEF Prepare
    <2>2. /\ new.step = IF th.step = "prepare" THEN "run" ELSE "runRemoval"
          /\ new.at = th.at /\ new.job = th.job /\ new.status = th.status /\ new.ok = th.ok
      BY <1>1, <1>15 DEF Prepare, ToStep, ThreadRecord
    <2>3. CASE th.job # "install" \/ errorString' BY <1>9, <2>2, <2>3
    <2>4. CASE th.job = "install" /\ ~errorString'
      <3>1. PICK at \in Pieces : at = th.at /\ \A p \in Pieces : p < at => Installed(p)
        BY <1>13, <2>1, <2>4
      <3>2. (\A p \in Pieces : p < at => Installed(p)') /\ Has(at)' = Has(at) /\ Elsewhere(at)' = Elsewhere(at)
        BY <1>6, <2>1, <3>1
      <3>3. th.ok BY <1>13, <2>1, <2>4
      <3> QED BY <1>1, <1>2, <2>1, <2>2, <2>4, <3>1, <3>2, <3>3 DEF InstallInv
    <2> QED BY <2>3, <2>4
  <1>16. ASSUME NEW ok \in BOOLEAN, Finished(t, ok), disk' = disk,
                th.step \in {"run", "runRemoval", "wait", "waitRemoval"},
                th.job = "install" /\ Removes(th) /\ ok /\ ~errorString => ~Elsewhere(th.at)
         PROVE  InstallInv(t)'
    <2> DEFINE after == [th EXCEPT !.ok = @ /\ ok]
               other == [after EXCEPT !.step = "other"]
    <2>1. after \in ThreadRecord /\ after.job = th.job /\ after.at = th.at /\ after.ok = (th.ok /\ ok)
      BY <1>1 DEF ThreadRecord
    <2>2. /\ other.job = th.job /\ other.at = th.at /\ other.status = th.status
          /\ other.ok = (th.ok /\ ok) /\ other.step = "other"
      BY <1>1 DEF ThreadRecord
    <2>3. /\ threads' = [threads EXCEPT ![t] = IF Removes(th) THEN AfterPiece(after) ELSE other]
          /\ errorString' = (errorString \/ ~ok)
      BY <1>16 DEF Finished
    <2> HIDE DEF after, other
    <2>4. CASE th.job # "install" \/ errorString'
      <3>1. new.job = th.job
        <4>1. CASE Removes(th) BY <1>1, <2>1, <2>3, <4>1, AfterPieceRecord
        <4>2. CASE ~Removes(th) BY <1>1, <2>2, <2>3, <4>2
        <4> QED BY <4>1, <4>2
      <3> QED BY <1>9, <2>4, <3>1
    <2>5. CASE th.job = "install" /\ ~errorString'
      <3>0. ~errorString /\ ok BY <2>3, <2>5
      <3>1. PICK at \in Pieces : at = th.at /\ \A p \in Pieces : p < at => Installed(p)
        BY <1>13, <1>16, <2>5, <3>0
      <3>2. th.ok BY <1>13, <1>16, <2>5, <3>0
      <3>3. CASE Removes(th)
        <4>1. th.step \in {"runRemoval", "waitRemoval"} BY <1>16, <2>5, <3>3 DEF Removes
        <4>2. Has(at) BY <1>1, <2>5, <3>0, <3>1, <4>1 DEF InstallInv
        <4>3. Has(at)' /\ ~Elsewhere(at)' BY <1>6, <1>16, <2>5, <3>0, <3>1, <3>3, <4>2
        <4>4. after.job = "install" /\ after.ok /\ after.at = at BY <2>1, <2>5, <3>0, <3>1, <3>2
        <4>5. threads' = [threads EXCEPT ![t] = AfterPiece(after)] BY <2>3, <3>3
        <4> QED BY <1>8, <2>1, <2>5, <3>1, <4>3, <4>4, <4>5
      <3>4. CASE ~Removes(th)
        <4>1. new = other BY <1>1, <2>3, <3>4
        <4>2. th.step \in {"run", "wait"} BY <1>16, <3>4 DEF Removes
        <4>3. isWrongLocationInstalled(th.status) <=> Elsewhere(at)
          BY <1>1, <2>5, <3>0, <3>1, <4>2 DEF InstallInv
        <4>4. (\A p \in Pieces : p < at => Installed(p)') /\ Elsewhere(at)' = Elsewhere(at)
          BY <1>6, <1>16, <3>1
        <4> QED BY <1>2, <2>2, <3>0, <3>1, <3>2, <4>1, <4>3, <4>4 DEF InstallInv
      <3> QED BY <3>3, <3>4
    <2> QED BY <2>4, <2>5
  <1>17. CASE Refused(t) BY <1>16, <1>17 DEF Refused
  <1>18. CASE Run(t)
    <2>1. PICK ok \in BOOLEAN :
            LET p == IF Removes(th) THEN env.remove ELSE env.extract
            IN /\ exited' = exited \union {[thread |-> t, ok |-> ok]}
               /\ IF p = 0 THEN ok = Removes(th) /\ UNCHANGED disk
                  ELSE IF Removes(th) THEN disk' = IF ok THEN Gone("system", p) ELSE disk
                  ELSE disk' \in (IF ok THEN {Extracted(p)} ELSE Broken(p))
      BY <1>18 DEF Run
    <2>2. th.step \in {"run", "runRemoval"} /\ errorString' = errorString BY <1>18 DEF Run
    <2>3. exited' = {[thread |-> t, ok |-> ok]} BY <1>1, <2>1, <2>2 DEF ThreadInv
    <2>4. /\ new.step = IF th.step = "run" THEN "wait" ELSE "waitRemoval"
          /\ new.at = th.at /\ new.job = th.job /\ new.status = th.status /\ new.ok = th.ok
      BY <1>1, <1>18 DEF Run, ToStep, ThreadRecord
    <2>5. CASE th.job # "install" \/ errorString' BY <1>9, <2>4, <2>5
    <2>6. CASE th.job = "install" /\ ~errorString'
      <3>1. PICK at \in Pieces : at = th.at /\ \A p \in Pieces : p < at => Installed(p)
        BY <1>13, <2>2, <2>6
      <3>2. th.ok BY <1>13, <2>2, <2>6
      <3>3. \A p \in Pieces : p < at => Installed(p)'
        <4>1. \A p \in Pieces : p < at => p # at BY <1>0
        <4> QED BY <1>5, <2>6, <3>1, <4>1
      <3>4. CASE th.step = "run"
        <4>1. ~Removes(th) BY <2>6, <3>4 DEF Removes
        <4>2. disk'[Other] = disk[Other]
          <5>1. disk' = disk \/ \E q, left : disk' = [disk EXCEPT ![Own][q] = left]
            BY <2>1, <4>1 DEF Extracted, Broken
          <5> QED BY <1>3, <5>1 DEF PaneType, Disks
        <4>3. Elsewhere(at)' = Elsewhere(at) BY <1>3, <4>2 DEF Elsewhere
        <4>4. isWrongLocationInstalled(th.status) <=> Elsewhere(at)
          BY <1>1, <2>2, <2>6, <3>1, <3>4 DEF InstallInv
        <4> QED BY <1>2, <2>4, <3>1, <3>2, <3>3, <3>4, <4>3, <4>4 DEF InstallInv
      <3>5. CASE th.step = "runRemoval"
        <4>1. Removes(th) /\ env.remove = at BY <1>1, <3>1, <3>5 DEF Removes, ThreadInv
        <4>2. userInstalled /\ Has(at) BY <1>1, <2>2, <2>6, <3>1, <3>5 DEF InstallInv
        <4>3. Own = "user" /\ Other = "system" BY <4>2 DEF Own, Other
        <4>4. at # 0 BY <1>0
        <4>5. disk' = IF ok THEN Gone("system", at) ELSE disk BY <2>1, <4>1, <4>4
        <4>6. disk'["user"] = disk["user"] /\ (ok => disk'["system"][at] = Nothing)
          BY <4>5 DEF Gone, PaneType, Disks, Locations
        <4>7. Has(at)' BY <1>2, <1>3, <4>2, <4>3, <4>6 DEF Has
        <4>8. ok => ~Elsewhere(at)' BY <1>3, <4>3, <4>6 DEF Elsewhere, Nothing
        <4>9. exited' = {[thread |-> t, ok |-> TRUE]} => ok
          <5>1. [thread |-> t, ok |-> ok].ok = ok /\ [thread |-> t, ok |-> TRUE].ok = TRUE OBVIOUS
          <5>2. exited' = {[thread |-> t, ok |-> TRUE]} =>
                  [thread |-> t, ok |-> TRUE] = [thread |-> t, ok |-> ok]
            BY <2>3
          <5> QED BY <5>1, <5>2
        <4> QED BY <1>2, <2>4, <3>1, <3>2, <3>3, <3>5, <4>2, <4>7, <4>8, <4>9 DEF InstallInv
      <3> QED BY <2>2, <3>4, <3>5
    <2> QED BY <2>5, <2>6
  <1>19. CASE Wait(t)
    <2>1. th.step \in {"wait", "waitRemoval"} /\ disk' = disk BY <1>19 DEF Wait
    <2>2. PICK ok \in BOOLEAN : exited = {[thread |-> t, ok |-> ok]} BY <1>1, <2>1 DEF ThreadInv
    <2>3. Finished(t, ok)
      <3> DEFINE only == [thread |-> t, ok |-> ok]
      <3>1. {child \in exited : Authenticated(th) \/ child.thread = t} = {only} BY <2>2
      <3>2. Finished(t, only.ok) BY <1>19, <3>1 DEF Wait
      <3> QED BY <3>2
    <2>4. th.job = "install" /\ Removes(th) /\ ok /\ ~errorString => ~Elsewhere(th.at)
      BY <1>1, <2>1, <2>2 DEF Removes, InstallInv
    <2> QED BY <1>16, <2>1, <2>3, <2>4
  <1>20. CASE End(t)
    <2>1. th.step = "end" /\ disk' = disk /\ errorString' = errorString BY <1>20 DEF End
    <2>2. new.step = "complete" /\ new.job = th.job BY <1>1, <1>20 DEF End, ToStep, ThreadRecord
    <2>3. CASE th.job # "install" \/ errorString' BY <1>9, <2>2, <2>3
    <2>4. CASE th.job = "install" /\ ~errorString'
      <3>1. \A p \in Pieces : Installed(p)' BY <1>1, <1>6, <2>1, <2>4 DEF InstallInv
      <3> QED BY <1>2, <2>2, <3>1 DEF InstallInv
    <2> QED BY <2>3, <2>4
  <1> QED
    BY <1>10, <1>11, <1>12, <1>14, <1>15, <1>17, <1>18, <1>19, <1>20 DEF Step

(* At first no thread installs anything.                                     *)
LEMMA ToldInit == Init => ToldInv
  <1> SUFFICES ASSUME Init PROVE ToldInv OBVIOUS
  <1>1. Numbered(Pieces) BY UpkeepAssumption DEF Init, Pieces
  <1>2. VersionInv
    <2>1. myVersion = 2 /\ checkers = [c \in Checkers |-> NotRunning]
      BY DEF Init, PaneInit, CheckerInit
    <2>2. \A c \in Checkers : checkers[c].step \notin Updating BY <2>1, NotRunningRecord DEF Updating
    <2>3. myVersion # 0 BY <2>1
    <2> QED BY <2>2, <2>3 DEF VersionInv
  <1>3. \A t \in Threads : InstallInv(t) BY IdleRecord DEF Init, PaneInit, InstallInv
  <1> QED BY <1>1, <1>2, <1>3 DEF ToldInv

(* An update is to a version: the pane has one whatever it is replaced by.   *)
LEMMA VersionNext ==
  ASSUME TypeInv, VersionInv, [Next]_vars
  PROVE  VersionInv'
  <1> USE DEF VersionInv
  <1>0. checkers \in [Checkers -> CheckerRecord] BY DEF TypeInv, CheckerType
  <1>1. ASSUME NEW c \in Checkers, myVersion' # 0,
               \/ checkers' = [checkers EXCEPT ![c] = NotRunning]
               \/ \E step \in CheckerSteps \ Updating : checkers' = [checkers EXCEPT ![c].step = step]
        PROVE  VersionInv'
    BY <1>0, <1>1, NotRunningRecord DEF Updating, CheckerRecord
  <1>2. ASSUME UNCHANGED myVersion, Launched PROVE VersionInv'
    <2>1. CASE UNCHANGED checkers BY <1>2, <2>1
    <2>2. CASE ~UNCHANGED checkers
      <3>1. \E c \in Checkers : checkers' = [checkers EXCEPT ![c].step = "main"]
        BY <1>2, <2>2 DEF Launched, Alive
      <3> QED BY <1>1, <1>2, <3>1 DEF CheckerSteps, Updating
    <2> QED BY <2>1, <2>2
  <1>3. CASE \E c \in Checkers : Check(c) \/ Crash(c)
    <2>1. PICK c \in Checkers : Check(c) \/ Crash(c) BY <1>3
    <2>2. CASE UNCHANGED myVersion /\ ~appcastDidFinishLoading(c) /\ ~Choose(c)
               /\ ~applicationDidFinishLaunching(c)
      <3>1. \/ checkers' = [checkers EXCEPT ![c] = NotRunning]
            \/ \E step \in {"launching", "stat", "unlink", "stuck"} :
                 checkers' = [checkers EXCEPT ![c].step = step]
        BY <2>1, <2>2 DEF Check, Open, Stat, Unlink, appcastDidFailToLoad, NoVersion, cancelDownload,
                          downloadFails, downloadDidFinish, Crash, To, Terminate
      <3> QED BY <1>1, <2>2, <3>1 DEF CheckerSteps, Updating
    <2>3. CASE applicationDidFinishLaunching(c)
      <3>1. /\ checkers' = [checkers EXCEPT ![c].step = "fetching", ![c].lastRunDate = nextRun,
                                            ![c].manualRun = manual]
            /\ UNCHANGED myVersion
        BY <2>3 DEF applicationDidFinishLaunching, PaneRest
      <3> QED BY <1>0, <3>1 DEF Updating, CheckerRecord
    <2>4. CASE appcastDidFinishLoading(c)
      <3>1. UNCHANGED myVersion BY <2>4 DEF appcastDidFinishLoading, PaneRest
      <3>2. \/ checkers' = [checkers EXCEPT ![c] = NotRunning]
            \/ \E v \in Feeds \ {NoUpdate} :
                 checkers' = [checkers EXCEPT ![c].step = "asking", ![c].latest = v]
        BY <2>4 DEF appcastDidFinishLoading, Terminate
      <3> QED BY <1>0, <1>1, <3>1, <3>2 DEF Updating, CheckerRecord
    <2>5. CASE Choose(c)
      <3>1. UNCHANGED myVersion /\ checkers[c].step = "asking"
        BY <2>5 DEF Choose, paneVars, At
      <3>2. \/ checkers' = [checkers EXCEPT ![c] = NotRunning]
            \/ checkers' = [checkers EXCEPT ![c].step = "downloading"]
        BY <2>5 DEF Choose, To, Terminate
      <3> QED BY <1>0, <1>1, <3>1, <3>2 DEF Updating, CheckerRecord
    <2>6. CASE downloadDidFinish(c)
      <3>1. checkers' = [checkers EXCEPT ![c] = NotRunning] BY <2>6 DEF downloadDidFinish, Terminate
      <3>2. myVersion' # 0
        BY <2>6 DEF downloadDidFinish, At, Updating, NoUpdate
      <3> QED BY <1>1, <3>1, <3>2
    <2>7. ~downloadDidFinish(c) => UNCHANGED myVersion
      BY <2>1 DEF Check, Open, Stat, Unlink, appcastDidFailToLoad, NoVersion, cancelDownload,
                  downloadFails, Crash, applicationDidFinishLaunching, appcastDidFinishLoading, Choose,
                  paneVars, PaneRest
    <2> QED BY <2>2, <2>3, <2>4, <2>5, <2>6, <2>7
  <1>4. CASE didSelect
    <2>1. UNCHANGED myVersion /\ (Launched \/ UNCHANGED checkers)
      BY <1>4 DEF didSelect, updateCheck
    <2> QED BY <1>2, <2>1
  <1>5. CASE ClickUpdateCheck BY <1>2, <1>5 DEF ClickUpdateCheck, updateCheck
  <1>6. CASE \E p \in Players : launchUpdateChecker(p)
    BY <1>2, <1>6 DEF launchUpdateChecker, paneVars
  <1>7. CASE \E t \in Threads : Step(t) /\ UNCHANGED <<checkerVars, players, autoUpdate, visits>>
    <2>1. UNCHANGED <<myVersion, checkers>>
      BY <1>7, ThreadOfStep DEF TypeInv, PaneType, Remaining, checkerVars
    <2> QED BY <2>1
  <1>8. CASE \/ (ClickInstall \/ installComplete) /\ UNCHANGED <<checkerVars, players, autoUpdate, visits>>
             \/ Tick \/ (\E p \in Players : FFusionRunUpdateCheck(p))
             \/ setAutoUpdateCheck \/ QuitPreferences \/ UNCHANGED vars
    <2>1. UNCHANGED <<myVersion, checkers>>
      BY <1>8 DEF ClickInstall, installComplete, Tick, FFusionRunUpdateCheck, setAutoUpdateCheck,
                  QuitPreferences, vars, paneVars, checkerVars
    <2> QED BY <2>1
  <1> QED
    BY <1>3, <1>4, <1>5, <1>6, <1>7, <1>8 DEF Next, InPane, InChecker

(* Steps that leave what an install has come to.                             *)
LEMMA SameInstallInv ==
  ASSUME UNCHANGED <<disk, userInstalled, myVersion, exited, errorString>>,
         NEW t \in Threads, threads'[t] = threads[t], InstallInv(t)
  PROVE  InstallInv(t)'
  BY DEF InstallInv, Installed, Elsewhere, Has, Own, Other, Pieces, installStatusForComponent

(* Every step keeps the invariant of the install.                            *)
LEMMA ToldNext ==
  ASSUME OtherInv, OtherInv', ToldInv, [Next]_vars
  PROVE  ToldInv'
  <1> USE DEF OtherInv, BoxInv, TypeInv
  <1>1. VersionInv' BY VersionNext DEF ToldInv
  <1>2. Numbered(Pieces)'
    <2>1. Pieces' = Pieces BY DiskTypeOfStep, DiskOfOthers DEF Pieces
    <2> QED BY <2>1 DEF ToldInv, Numbered
  <1> SUFFICES ASSUME ~shared', NEW t \in Threads PROVE InstallInv(t)'
    BY <1>1, <1>2 DEF ToldInv
  <1>3. ~shared => InstallInv(t) /\ Alone BY DEF ToldInv, PaneInv
  <1>4. ASSUME threads'[t].step \in {"none", "begin"} PROVE InstallInv(t)'
    BY <1>4 DEF InstallInv
  <1>5. CASE \E u \in Threads : Step(u)
    <2>1. PICK u \in Threads : Step(u) BY <1>5
    <2>0. ~shared BY <2>1, ThreadOfStep DEF Remaining, PaneType
    <2>2. CASE u = t BY <1>3, <2>0, <2>1, <2>2, InstallNext, ThreadInvNext
    <2>3. CASE u # t
      <3>1. threads'[t] = Idle BY <1>3, <2>0, <2>1, <2>3, OneRuns
      <3> QED BY <1>4, <3>1, IdleRecord
    <2> QED BY <2>2, <2>3
  <1>6. ASSUME installUninstall, UNCHANGED <<disk, userInstalled, myVersion, exited, errorString>>
        PROVE  InstallInv(t)'
    <2>0. ~shared BY <1>6 DEF installUninstall
    <2>1. PICK u \in Threads, job \in {"install", "uninstall"} : threads' = [threads EXCEPT ![u] = Started(job)]
      BY <1>6, ThreadStarted
    <2>2. Started(job).step = "begin" BY IdleRecord DEF Started, ThreadRecord
    <2>3. CASE u = t BY <1>4, <2>1, <2>2, <2>3 DEF PaneType, ThreadsType
    <2>4. CASE u # t
      <3>1. threads'[t] = threads[t] BY <2>1, <2>4 DEF PaneType, ThreadsType
      <3> QED BY <1>3, <1>6, <2>0, <3>1, SameInstallInv
    <2> QED BY <2>3, <2>4
  <1>7. CASE ClickInstall BY <1>6, <1>7 DEF ClickInstall
  <1>8. CASE installComplete
    <2>1. PICK u \in Threads : /\ threads' = [threads EXCEPT ![u] = Idle]
                               /\ shared' = (shared /\ (Running # {u} \/ exited # {}))
      BY <1>8 DEF installComplete
    <2>2. CASE u = t
      <3>1. threads'[t] = Idle BY <2>1, <2>2 DEF PaneType, ThreadsType
      <3> QED BY <1>4, <3>1, IdleRecord
    <2>3. CASE u # t
      <3>1. threads'[t] = threads[t] BY <2>1, <2>3 DEF PaneType, ThreadsType
      <3>2. CASE ~shared BY <1>3, <1>8, <3>1, <3>2, SameInstallInv DEF installComplete
      <3>3. CASE shared
        <4>1. Running = {u} BY <2>1, <3>3
        <4>2. threads[t] = Idle BY <2>3, <4>1 DEF Running
        <4> QED BY <1>4, <3>1, <4>2, IdleRecord
      <3> QED BY <3>2, <3>3
    <2> QED BY <2>2, <2>3
  <1>9. ASSUME \/ UNCHANGED <<disk, userInstalled, myVersion, exited, errorString, threads, shared>>
               \/ NewProcess
        PROVE  InstallInv(t)'
    <2>1. CASE UNCHANGED <<disk, userInstalled, myVersion, exited, errorString, threads, shared>>
      BY <1>3, <2>1, SameInstallInv
    <2>2. CASE NewProcess
      <3>1. threads'[t] = Idle BY <2>2 DEF NewProcess
      <3> QED BY <1>4, <3>1, IdleRecord
    <2> QED BY <1>9, <2>1, <2>2
  <1>10. CASE \E c \in Checkers : Check(c) \/ Crash(c)
    BY <1>9, <1>10, PaneOfCheck DEF PaneRest, process
  <1>11. CASE \/ Tick \/ (\E p \in Players : FFusionRunUpdateCheck(p) \/ launchUpdateChecker(p))
              \/ setAutoUpdateCheck \/ ClickUpdateCheck \/ QuitPreferences \/ UNCHANGED vars
    BY <1>9, <1>11 DEF Tick, FFusionRunUpdateCheck, launchUpdateChecker, setAutoUpdateCheck,
         ClickUpdateCheck, QuitPreferences, Quit, vars, paneVars, process
  <1>12. CASE didSelect
    <2>1. UNCHANGED <<disk, userInstalled, myVersion, exited, errorString>>
      BY <1>12 DEF didSelect
    <2>2. installUninstall \/ UNCHANGED <<threads, shared>> BY <1>12 DEF didSelect
    <2> QED BY <1>6, <1>9, <2>1, <2>2
  <1> QED
    BY <1>5, <1>7, <1>8, <1>10, <1>11, <1>12 DEF Next, InPane, InChecker

(* A thread that ends has been taken note of, or its pane is gone.           *)
LEMMA CompleteOfStep ==
  ASSUME OtherInv, [Next]_vars, NEW t \in Threads,
         threads[t].step = "complete", threads'[t] = Idle, paneOpen'
  PROVE  checkForInstallation /\ UNCHANGED <<disk, userInstalled, myVersion, errorString>>
  <1> USE DEF OtherInv, BoxInv, TypeInv
  <1>1. threads'[t].step # threads[t].step /\ threads'[t] # threads[t] /\ t \in Running
    BY IdleRecord DEF Running
  <1>2. ASSUME NEW u \in Threads, Step(u) PROVE FALSE
    <2>1. threads'[u].step # "none" /\ \A v \in Threads : v # u => threads'[v] = threads[v]
      BY <1>2, ThreadOfStep DEF PaneType
    <2> QED BY <1>1, <2>1, IdleRecord
  <1>3. ~installUninstall
    <2> SUFFICES ASSUME installUninstall PROVE FALSE OBVIOUS
    <2>1. PICK u \in Threads, job \in {"install", "uninstall"} :
            threads' = [threads EXCEPT ![u] = Started(job)] /\ u \notin Running
      BY ThreadStarted
    <2>2. threads'[t] = threads[t] BY <1>1, <2>1 DEF PaneType, ThreadsType
    <2> QED BY <1>1, <2>2
  <1>4. CASE installComplete BY <1>4 DEF installComplete
  <1>5. CASE \E c \in Checkers : Check(c) \/ Crash(c)
    <2>1. UNCHANGED PaneRest BY <1>5, PaneOfCheck
    <2> QED BY <1>1, <2>1 DEF PaneRest, process
  <1>6. CASE \/ Tick \/ (\E p \in Players : FFusionRunUpdateCheck(p) \/ launchUpdateChecker(p))
             \/ setAutoUpdateCheck \/ QuitPreferences \/ UNCHANGED vars \/ ClickUpdateCheck
    <2>1. UNCHANGED threads \/ ~paneOpen'
      BY <1>6 DEF Tick, FFusionRunUpdateCheck, launchUpdateChecker, setAutoUpdateCheck,
                  QuitPreferences, Quit, vars, paneVars, process, ClickUpdateCheck
    <2> QED BY <1>1, <2>1
  <1>7. CASE didSelect \/ ClickInstall
    <2>1. installUninstall \/ UNCHANGED threads BY <1>7 DEF didSelect, ClickInstall
    <2> QED BY <1>1, <1>3, <2>1
  <1> QED
    BY <1>2, <1>4, <1>5, <1>6, <1>7 DEF Next, InPane, InChecker

(* The user is told of every install that has not put all pieces in place    *)
(* and only there, unless jobs ran at the same time (installComplete and     *)
(* errorString).                                                             *)
THEOREM FailureIsAlwaysTold == Spec => FailureIsTold
  <1> DEFINE Inv == OtherInv /\ ToldInv
             Told == ~shared =>
                       \A t \in Threads :
                         threads[t].step = "complete" /\ threads[t].job = "install"
                             /\ threads'[t] = Idle /\ paneOpen' =>
                           installStatus' = InstallStatusInstalled \/ message' = "Error"
  <1>1. Init => Inv BY BoxInit, PaneInvInit, ToldInit DEF OtherInv
  <1>2. Inv /\ [Next]_vars => Inv'
    <2> SUFFICES ASSUME Inv, [Next]_vars PROVE Inv' OBVIOUS
    <2>1. OtherInv' BY BoxNext, PaneInvNext DEF OtherInv, BoxInv
    <2> QED BY <2>1, ToldNext
  <1>3. Inv /\ [Next]_vars => [Told]_vars
    <2> SUFFICES ASSUME Inv, [Next]_vars, ~shared, NEW t \in Threads,
                        threads[t].step = "complete", threads[t].job = "install",
                        threads'[t] = Idle, paneOpen', message' # "Error"
                 PROVE  installStatus' = InstallStatusInstalled
      OBVIOUS
    <2>1. checkForInstallation /\ errorString' = errorString BY CompleteOfStep
    <2>2. ~errorString /\ installStatus' = Overall BY <2>1 DEF checkForInstallation
    <2>3. 1 \in Pieces /\ \A p \in Pieces : Installed(p)
      BY <2>2 DEF ToldInv, InstallInv, Numbered
    <2> QED BY <2>2, <2>3, AllInstalled
  <1> QED BY <1>1, <1>2, <1>3, PTL DEF Spec, FailureIsTold
=============================================================================
