------------------------------- MODULE AgentProofs -----------------------------
(***************************************************************************)
(* Proofs about the files and the payloads of an agent.                    *)
(*                                                                          *)
(* AgentUpdate, for every sequence of releases and every number of faults.  *)
(* What makes the installed files keep their promise is that the download   *)
(* in hand was handed out by the server, that it is newer than the file it  *)
(* is for until it has replaced it, and that the migration and              *)
(* check_update.py are never at work at the same time: the first needs a    *)
(* legacy updater, the second one that is whole.                            *)
(*                                                                          *)
(* Devices, for every set of machines of which MachineFacts holds.  The     *)
(* newest snapshot is that of a payload of one of them, and a row has the   *)
(* errors that the journal has of its window, also when lines were added    *)
(* since (ErrorsStay).  The rest is about the collectors and the pages: for *)
(* each list there is the list of places that it was picked from (Picks),   *)
(* and a ranked list is cut after the same elements whatever is behind them *)
(* (ShownFirst).                                                            *)
(***************************************************************************)
EXTENDS AgentUpdate, Devices, TelemetryProofs


InHand == {"write", "check", "backup", "replace"}

\* What check_update.py has in hand is an update of its file.
HandInv ==
    /\ updater.pc \in InHand =>
           /\ updater.new \in Handed(updater.file)
           /\ updater.new.ver # NoVersion
           /\ UpdateAvailable(updater.local, updater.new.ver)
    /\ updater.pc \in {"backup", "replace"} => updater.new.form # "broken"
    /\ updater.pc \in InHand \cup {"fetch"} => updater.local = disk[updater.file].ver

\* The migration and check_update.py exclude each other.
MigrationInv ==
    /\ boot.pc # "idle" => disk["updater"].form = "legacy"
    /\ updater.pc # "idle" => disk["updater"].form # "legacy"
    /\ boot.pc \in {"check", "replace"} => boot.new \in Handed("updater")
    /\ boot.pc = "replace" => boot.new.form # "broken"

\* What nginx serves has been released.
ServedInv ==
    /\ copying # "done" => release > 1
    /\ \A f \in File : \E r \in 1 .. release : served[f] = Release(r, f)

\* The backup of a file is out of step only between its copy and the
\* replacement, or after a fault.
BackupInv ==
    /\ updater.pc = "replace" => backup[updater.file] = disk[updater.file]
    /\ \A f \in File : backup[f] \in {previous[f], disk[f], Blank}
    /\ disk["updater"].form = "legacy" => backup["updater"] = previous["updater"]
    /\ faults = 0 =>
           \A f \in File : \/ updater.pc = "replace" /\ f = updater.file
                           \/ backup[f] = previous[f]

IInv == TypeOK /\ StillRuns /\ HandInv /\ MigrationInv /\ ServedInv /\ BackupInv

-----------------------------------------------------------------------------
\* What is released is a content with a version.
LEMMA ReleaseFacts ==
    ASSUME NEW r \in 1 .. Len(Releases), NEW f \in File
    PROVE  /\ Release(r, f) \in Content
           /\ Release(r, f).ver # NoVersion
           /\ Release(r, f).form = "whole"
  BY UpdateAssumption DEF Release, Content, Version, Form

\* What is handed out is a content, never a legacy one, and has a version
\* unless it is blank.
LEMMA HandedFacts ==
    ASSUME TypeOK, NEW f \in File, NEW c \in Handed(f)
    PROVE  /\ c \in Content
           /\ c.form \in {"whole", "torn", "broken", "blank"}
           /\ c.ver # NoVersion => c.form \in {"whole", "torn", "broken"}
  <1>1. \A r \in 1 .. release : /\ Release(r, f) \in Content
                                /\ Release(r, f).ver # NoVersion
                                /\ Release(r, f).form = "whole"
    BY ReleaseFacts DEF TypeOK
  <1>2. CASE \E r \in 1 .. release : c = Release(r, f)
    BY <1>1, <1>2
  <1>3. CASE c = Blank
    BY <1>3 DEF Blank, Content, Form
  <1>4. CASE \E r \in 1 .. release, form \in {"torn", "broken"} :
                 c = [ver |-> Release(r, f).ver, form |-> form]
    BY <1>1, <1>4 DEF Content, Form
  <1> QED BY <1>2, <1>3, <1>4 DEF Handed

\* A fetch (Fetched) returns something that was handed out.
LEMMA FetchedHanded ==
    ASSUME TypeOK, ServedInv, NEW f \in File
    PROVE  Fetched(f) \subseteq Handed(f)
  <1>1. PICK s \in 1 .. release : served[f] = Release(s, f)
    BY DEF ServedInv
  <1>2. release \in 1 .. release
    BY UpdateAssumption DEF TypeOK
  <1>3. served[f] \in Handed(f)
    BY <1>1 DEF Handed
  <1>4. ASSUME copying = f, NEW c \in Fetched(f) PROVE c \in Handed(f)
    <2>1. release > 1
      BY <1>4 DEF ServedInv, File
    <2>2. CASE c = served[f]
      BY <2>2, <1>3
    <2>3. CASE c = Blank \/ c = Release(release, f)
      BY <2>1, <2>3, <1>2 DEF Handed
    <2>4. CASE \E v \in {served[f].ver, Release(release, f).ver}, form \in {"torn", "broken"} :
                   c = [ver |-> v, form |-> form]
      BY <2>1, <2>4, <1>1, <1>2 DEF Handed
    <2> QED BY <1>4, <2>2, <2>3, <2>4 DEF Fetched
  <1>5. CASE copying # f
    BY <1>5, <1>3 DEF Fetched
  <1> QED BY <1>4, <1>5

\* What was handed out stays so when the next release is deployed.
LEMMA HandedGrows ==
    ASSUME TypeOK, NEW f \in File, release' \in {release, release + 1}
    PROVE  Handed(f) \subseteq Handed(f)'
  <1>1. release \in Nat /\ release' \in Nat
    BY UpdateAssumption DEF TypeOK
  <1>2. \A r : Release(r, f)' = Release(r, f)
    BY DEF Release
  <1>3. 1 .. release \subseteq 1 .. release'
    BY <1>1
  <1>4. release > 1 => release' > 1
    BY <1>1
  <1>5. (Handed(f))' =
            {Release(r, f) : r \in 1 .. release'} \cup
            (IF release' > 1
             THEN {Blank} \cup {[ver |-> Release(r, f).ver, form |-> form] :
                                    r \in 1 .. release', form \in {"torn", "broken"}}
             ELSE {})
    BY DEF Handed
  <1> QED BY <1>3, <1>4, <1>5 DEF Handed

\* The invariant holds of a host as it was installed.
LEMMA InitIInv == Init => IInv
  <1> SUFFICES ASSUME Init PROVE IInv
    OBVIOUS
  <1> USE DEF File
  <1>1. 1 \in 1 .. Len(Releases)
    BY UpdateAssumption
  <1>2. \A f \in File : /\ Release(1, f) \in Content
                        /\ Release(1, f).ver # NoVersion
                        /\ Release(1, f).form = "whole"
    BY <1>1, ReleaseFacts
  <1>3. Blank \in Content /\ NoFile \in Content
    BY DEF Blank, NoFile, Content, Form
  <1>4. [Release(1, "updater") EXCEPT !.form = "legacy"] \in Content
    BY <1>2 DEF Content, Form
  <1>5. served \in [File -> Content] /\ disk \in [File -> Content]
    BY <1>2, <1>4 DEF Init
  <1>6. Idle \in Updater
    BY <1>1, <1>3, UpdateAssumption DEF Idle, Updater, Steps, Release, Version
  <1>7. NoBoot \in Boot
    BY <1>3 DEF NoBoot, Boot
  <1>8. TypeOK
    BY <1>1, <1>3, <1>5, <1>6, <1>7, UpdateAssumption DEF Init, TypeOK
  <1>9. disk["run"] = Release(1, "run")
    BY DEF Init
  <1>10. StillRuns
    BY <1>2, <1>9 DEF StillRuns
  <1>11. HandInv /\ MigrationInv
    BY DEF Init, Idle, NoBoot, HandInv, MigrationInv, InHand
  <1>12. ServedInv
    BY DEF Init, ServedInv
  <1>13. BackupInv
    BY DEF Init, Idle, BackupInv
  <1> QED BY <1>8, <1>10, <1>11, <1>12, <1>13 DEF IInv

-----------------------------------------------------------------------------
\* Where a run of check_update.py goes on, or ends, is one of its states.
LEMMA UpdaterFacts ==
    ASSUME TypeOK
    PROVE  /\ Idle \in Updater /\ Blank \in Content
           /\ \A step \in Steps : [updater EXCEPT !.pc = step] \in Updater
           /\ [updater EXCEPT !.pc = "local", !.file = "updater"] \in Updater
           /\ [Idle EXCEPT !.pc = "local"] \in Updater
  <1>1. 1 \in 1 .. Len(Releases) /\ "run" \in File
    BY UpdateAssumption DEF File
  <1>2. Release(1, "run").ver \in Version
    BY <1>1 DEF Release, Version
  <1>3. Blank \in Content
    BY DEF Blank, Content, Form
  <1>4. Idle \in Updater
    BY <1>1, <1>2, <1>3 DEF Idle, Updater, Steps
  <1> QED BY <1>3, <1>4 DEF TypeOK, Updater, Steps, File

\* Every step keeps every variable in its type.
LEMMA TypeStep == IInv /\ [Next]_vars => TypeOK'
  <1> SUFFICES ASSUME IInv, [Next]_vars PROVE TypeOK'
    OBVIOUS
  <1> USE DEF TypeOK, IInv
  <1>a. Idle \in Updater /\ Blank \in Content /\ MaxFaults \in Nat /\ Len(Releases) \in Nat
    BY UpdaterFacts, UpdateAssumption
  <1>b. /\ \A step \in Steps : [updater EXCEPT !.pc = step] \in Updater
        /\ [updater EXCEPT !.pc = "local", !.file = "updater"] \in Updater
        /\ [Idle EXCEPT !.pc = "local"] \in Updater
    BY UpdaterFacts
  <1>c. Fault => faults' \in 0 .. MaxFaults
    BY <1>a DEF Fault
  <1>d. updater.file \in File /\ updater.new \in Content
    BY DEF Updater
  <1>e. NoBoot \in Boot /\ boot.new \in Content
    BY <1>a DEF NoBoot, Boot
  <1>1. CASE Deploy
    BY <1>a, <1>b, <1>1 DEF Deploy, File
  <1>2. CASE Copied
    <2>1. Release(release, copying) \in Content
      BY <1>a, <1>b, <1>2, ReleaseFacts DEF Copied
    <2> QED BY <1>a, <1>b, <1>2, <2>1 DEF Copied, File
  <1>3. CASE Start
    BY <1>a, <1>b, <1>3 DEF Start, server
  <1>4. CASE Local
    <2>1. disk[updater.file] \in Content
      BY DEF Updater
    <2>2. disk[updater.file].ver # NoVersion =>
              [updater EXCEPT !.pc = "fetch", !.local = disk[updater.file].ver] \in Updater
      BY <2>1 DEF Updater, Content, Steps
    <2> QED BY <1>a, <1>b, <1>d, <1>4, <2>2 DEF Local, Exit, server
  <1>5. ASSUME NEW c \in Content, Fetch(c) PROVE TypeOK'
    <2>1. [updater EXCEPT !.pc = "write", !.new = c] \in Updater
      BY DEF Updater, Steps
    <2> QED BY <1>a, <1>b, <1>d, <1>5, <2>1 DEF Fetch, NextFile, Exit, server
  <1>6. CASE FetchFails
    BY <1>a, <1>c, <1>d, <1>6 DEF FetchFails, Exit, server
  <1>7. CASE WriteTemp
    BY <1>a, <1>b, <1>d, <1>7 DEF WriteTemp, Move, Steps, server
  <1>8. CASE WriteFails
    BY <1>a, <1>c, <1>d, <1>8 DEF WriteFails, Exit, server
  <1>9. CASE Validate
    BY <1>a, <1>b, <1>d, <1>9 DEF Validate, Move, Exit, Steps, server
  <1>10. CASE Backup
    BY <1>a, <1>b, <1>d, <1>10 DEF Backup, Move, Steps, Updater, server
  <1>11. CASE ReplaceLinux
    BY <1>a, <1>b, <1>d, <1>11 DEF ReplaceLinux, Replace, Move, Steps, Updater, server
  <1>12. CASE ReplaceWindows
    <2>1. disk' \in [File -> Content] /\ previous' \in [File -> Content]
      BY <1>a, <1>b, <1>d, <1>12 DEF ReplaceWindows, Replace, Updater
    <2> QED BY <1>a, <1>b, <1>d, <1>12, <2>1 DEF ReplaceWindows, NextFile, Exit, server
  <1>13. CASE SetMode
    BY <1>a, <1>b, <1>d, <1>13 DEF SetMode, NextFile, Exit, server
  <1>14. ASSUME NEW c \in Content, FileFails(c) PROVE TypeOK'
    BY <1>a, <1>c, <1>d, <1>14 DEF FileFails, Exit, server
  <1>15. ASSUME NEW c \in Content, KillUpdater(c) PROVE TypeOK'
    BY <1>a, <1>c, <1>d, <1>15 DEF KillUpdater, Exit, server
  <1>16. CASE BootStart
    BY <1>16 DEF BootStart, Boot, server
  <1>17. ASSUME NEW c \in Content, BootFetch(c) PROVE TypeOK'
    BY <1>17 DEF BootFetch, Boot, server
  <1>18. CASE BootValidate
    BY <1>e, <1>18 DEF BootValidate, Boot, server
  <1>19. CASE BootReplace
    BY <1>e, <1>19 DEF BootReplace, File, server
  <1>20. CASE BootEnds
    BY <1>a, <1>c, <1>d, <1>20 DEF BootEnds, NoBoot, Boot, server
  <1>21. CASE UNCHANGED vars
    BY <1>21 DEF vars
  <1> QED BY <1>1, <1>2, <1>3, <1>4, <1>5, <1>6, <1>7, <1>8, <1>9, <1>10, <1>11,
             <1>12, <1>13, <1>14, <1>15, <1>16, <1>17, <1>18, <1>19, <1>20, <1>21
          DEF Next, UpdaterStep, BootStep, Faulty
-----------------------------------------------------------------------------
\* Where a step leaves the installed files, the releases and the migration
\* alone and check_update.py comes to its start, its next file or its end, what
\* it has in hand does not matter any more.
LEMMA EndStep ==
    ASSUME IInv, TypeOK', UNCHANGED <<server, disk, boot, previous>>,
           updater'.pc \in {"idle", "local"},
           updater'.pc # "idle" => updater.pc # "idle",
           \/ backup' = backup /\ (faults' = 0 => updater.pc # "replace" /\ faults = 0)
           \/ /\ faults' > 0
              /\ disk["updater"].form # "legacy"
              /\ \A f \in File : backup'[f] \in {backup[f], disk[f], Blank}
    PROVE  IInv'
  <1> USE DEF IInv
  <1>1. \A f \in File : Handed(f)' = Handed(f)
    BY DEF Handed, Release, server
  <1>2. StillRuns' /\ HandInv'
    BY DEF StillRuns, HandInv, InHand
  <1>3. MigrationInv'
    BY <1>1 DEF MigrationInv, File
  <1>4. ServedInv'
    BY DEF ServedInv, Release, server
  <1>5. BackupInv'
    <2>1. updater'.pc # "replace"
      OBVIOUS
    <2>2. \A f \in File : backup'[f] \in {previous'[f], disk'[f], Blank}
      BY DEF BackupInv
    <2>3. disk'["updater"].form = "legacy" => backup'["updater"] = previous'["updater"]
      BY DEF BackupInv
    <2>4. faults' = 0 => \A f \in File : backup'[f] = previous'[f]
      BY DEF BackupInv
    <2> QED BY <2>1, <2>2, <2>3, <2>4 DEF BackupInv
  <1> QED BY <1>2, <1>3, <1>4, <1>5

\* The steps of the server leave the host alone and only add to what it hands out.
LEMMA ServerStep ==
    ASSUME IInv, TypeOK', Deploy \/ Copied
    PROVE  IInv'
  <1> USE DEF IInv
  <1>1. release' \in {release, release + 1} /\ release \in Nat
    BY UpdateAssumption DEF Deploy, Copied, TypeOK
  <1>2. \A f \in File : Handed(f) \subseteq Handed(f)'
    BY <1>1, HandedGrows
  <1>3. UNCHANGED <<disk, backup, updater, boot, previous, faults>>
    BY DEF Deploy, Copied
  <1>4. updater.file \in File /\ "updater" \in File
    BY DEF TypeOK, Updater, File
  <1>5. StillRuns' /\ BackupInv'
    BY <1>3 DEF StillRuns, BackupInv
  <1>6. HandInv'
    BY <1>2, <1>3, <1>4 DEF HandInv, UpdateAvailable, Older
  <1>7. MigrationInv'
    BY <1>2, <1>3, <1>4 DEF MigrationInv
  <1>8. ServedInv'
    <2>1. release \in 1 .. Len(Releases) /\ release' \in 1 .. Len(Releases)
      BY DEF TypeOK
    <2>2. CASE Deploy
      BY <2>1, <2>2, <1>1 DEF Deploy, ServedInv, Release
    <2>3. CASE Copied
      <3>1. release \in 1 .. release
        BY <2>1
      <3> QED BY <2>3, <3>1 DEF Copied, ServedInv, Release, File, TypeOK
    <2> QED BY <2>2, <2>3
  <1> QED BY <1>5, <1>6, <1>7, <1>8
\* After a file (NextFile) the program is at the start of the next, or ends.
LEMMA NextFileFacts ==
    ASSUME TypeOK, NextFile
    PROVE  updater'.pc \in {"idle", "local"}
  <1>1. CASE updater.file = "run"
    <2>1. updater' = [[updater EXCEPT !.pc = "local"] EXCEPT !.file = "updater"]
      BY <1>1 DEF NextFile, TypeOK, Updater
    <2>2. [updater EXCEPT !.pc = "local"].pc = "local"
      BY DEF TypeOK, Updater
    <2> QED BY <2>1, <2>2 DEF TypeOK, Updater
  <1>2. CASE updater.file # "run"
    BY <1>2 DEF NextFile, Exit, Idle
  <1> QED BY <1>1, <1>2

\* The steps of check_update.py that do not fail.
LEMMA WorkStep ==
    ASSUME IInv, TypeOK',
           \/ Start \/ Local \/ WriteTemp \/ Validate \/ Backup \/ SetMode
           \/ ReplaceLinux \/ ReplaceWindows \/ \E c \in Content : Fetch(c)
    PROVE  IInv'
  <1> USE DEF IInv
  <1>1. /\ UNCHANGED <<server, boot, faults>>
        /\ release' = release
    BY DEF Start, Local, WriteTemp, Validate, Backup, SetMode, ReplaceLinux,
           ReplaceWindows, Fetch, server
  <1>2. \A f \in File : Handed(f)' = Handed(f)
    BY <1>1 DEF Handed, Release
  <1>3. updater.file \in File /\ updater \in Updater /\ File = {"run", "updater"}
    BY DEF TypeOK, Updater, File
  <1>4. ServedInv'
    BY <1>1 DEF ServedInv, Release, server
  <1>5. \A a, b : UpdateAvailable(a, b)' = UpdateAvailable(a, b)
    BY DEF UpdateAvailable
  <1>6. CASE Start
    <2>1. updater' = [Idle EXCEPT !.pc = "local"] /\ updater.pc = "idle"
      BY <1>6 DEF Start, AtFile
    <2>2. updater'.pc = "local" /\ disk["updater"].form = "whole"
      BY <1>6, <2>1 DEF Start, Idle
    <2>3. UNCHANGED <<disk, backup, previous>>
      BY <1>6 DEF Start
    <2>4. HandInv' /\ StillRuns'
      BY <2>2, <2>3 DEF HandInv, InHand, StillRuns
    <2>5. MigrationInv' /\ BackupInv'
      BY <1>1, <1>2, <1>3, <2>1, <2>2, <2>3 DEF MigrationInv, BackupInv
    <2> QED BY <1>4, <2>4, <2>5
  <1>7. CASE Local
    <2>1. CASE disk[updater.file].ver = NoVersion
      BY <1>1, <1>7, <2>1, EndStep DEF Local, Exit, AtFile, Idle
    <2>2. CASE disk[updater.file].ver # NoVersion
      <3>1. updater' = [updater EXCEPT !.pc = "fetch", !.local = disk[updater.file].ver]
        BY <1>7, <2>2 DEF Local
      <3>2. UNCHANGED <<disk, backup, previous>> /\ updater.pc = "local"
        BY <1>7 DEF Local, AtFile
      <3>3. /\ updater'.pc = "fetch" /\ updater'.file = updater.file
            /\ updater'.local = disk[updater.file].ver
        BY <3>1, <1>3 DEF Updater
      <3>4. HandInv' /\ StillRuns'
        BY <3>2, <3>3 DEF HandInv, InHand, StillRuns
      <3>5. MigrationInv' /\ BackupInv'
        BY <1>1, <1>2, <1>3, <3>2, <3>3 DEF MigrationInv, BackupInv
      <3> QED BY <1>4, <3>4, <3>5
    <2> QED BY <2>1, <2>2
  <1>8. CASE WriteTemp
    <2>1. /\ UNCHANGED <<disk, backup, previous>> /\ updater.pc = "write"
          /\ updater' = [updater EXCEPT !.pc = "check"]
      BY <1>8 DEF WriteTemp, AtFile, Move
    <2>2. /\ updater'.pc = "check" /\ updater'.file = updater.file
          /\ updater'.new = updater.new /\ updater'.local = updater.local
      BY <1>3, <2>1 DEF Updater
    <2>3. HandInv' /\ StillRuns'
      BY <1>2, <1>3, <1>5, <2>1, <2>2 DEF HandInv, InHand, StillRuns
    <2>4. MigrationInv' /\ BackupInv'
      BY <1>1, <1>2, <1>3, <2>1, <2>2 DEF MigrationInv, BackupInv
    <2> QED BY <1>4, <2>3, <2>4
  <1>9. CASE Validate
    <2>1. CASE updater.new.form = "broken"
      BY <1>1, <1>9, <2>1, EndStep DEF Validate, Exit, AtFile, Idle
    <2>2. CASE updater.new.form # "broken"
      <3>1. /\ UNCHANGED <<disk, backup, previous>> /\ updater.pc = "check"
            /\ updater' = [updater EXCEPT !.pc = "backup"]
        BY <1>9, <2>2 DEF Validate, AtFile, Move
      <3>2. /\ updater'.pc = "backup" /\ updater'.file = updater.file
            /\ updater'.new = updater.new /\ updater'.local = updater.local
        BY <1>3, <3>1 DEF Updater
      <3>3. HandInv' /\ StillRuns'
        BY <1>2, <1>3, <1>5, <2>2, <3>1, <3>2 DEF HandInv, InHand, StillRuns
      <3>4. MigrationInv' /\ BackupInv'
        BY <1>1, <1>2, <1>3, <3>1, <3>2 DEF MigrationInv, BackupInv
      <3> QED BY <1>4, <3>3, <3>4
    <2> QED BY <2>1, <2>2
  <1>10. CASE Backup
    <2>1. /\ UNCHANGED <<disk, previous>> /\ updater.pc = "backup"
          /\ updater' = [updater EXCEPT !.pc = "replace"]
          /\ backup' = [backup EXCEPT ![updater.file] = disk[updater.file]]
      BY <1>10 DEF Backup, AtFile, Move
    <2>2. /\ updater'.pc = "replace" /\ updater'.file = updater.file
          /\ updater'.new = updater.new /\ updater'.local = updater.local
      BY <1>3, <2>1 DEF Updater
    <2>3. HandInv' /\ StillRuns'
      BY <1>2, <1>3, <1>5, <2>1, <2>2 DEF HandInv, InHand, StillRuns
    <2>4. MigrationInv'
      BY <1>1, <1>2, <1>3, <2>1, <2>2 DEF MigrationInv
    <2>5. disk["updater"].form # "legacy"
      BY <2>1 DEF MigrationInv
    <2>6. BackupInv'
      BY <1>1, <1>3, <2>1, <2>2, <2>5 DEF BackupInv, TypeOK
    <2> QED BY <1>4, <2>3, <2>4, <2>6
  <1>11. CASE SetMode
    <2>1. UNCHANGED <<disk, backup, previous>> /\ updater.pc = "mode"
      BY <1>11 DEF SetMode, AtFile
    <2>2. updater'.pc \in {"idle", "local"}
      BY <1>11, NextFileFacts DEF SetMode
    <2> QED BY <1>1, <2>1, <2>2, EndStep
  <1>12. CASE ReplaceLinux \/ ReplaceWindows
    <2>1. /\ UNCHANGED backup /\ updater.pc = "replace"
          /\ disk' = [disk EXCEPT ![updater.file] = updater.new]
          /\ previous' = [previous EXCEPT ![updater.file] = disk[updater.file]]
      BY <1>12 DEF ReplaceLinux, ReplaceWindows, AtFile, Replace
    <2>2. updater'.pc \in {"idle", "local", "mode"}
      <3>1. ReplaceLinux => updater'.pc = "mode"
        BY <1>3 DEF ReplaceLinux, Move, Updater
      <3>2. ReplaceWindows => updater'.pc \in {"idle", "local"}
        BY NextFileFacts DEF ReplaceWindows
      <3> QED BY <1>12, <3>1, <3>2
    <2>3. updater.new \in Handed(updater.file) /\ updater.new.ver # NoVersion
          /\ updater.new.form # "broken"
      BY <2>1 DEF HandInv, InHand
    <2>4. updater.new.form \in {"whole", "torn"}
      BY <1>3, <2>3, HandedFacts
    <2>5. HandInv'
      BY <2>2 DEF HandInv, InHand
    <2>6. StillRuns'
      BY <1>3, <2>1, <2>3, <2>4 DEF StillRuns, TypeOK
    <2>7. boot.pc = "idle" /\ disk["updater"].form # "legacy"
      BY <2>1 DEF MigrationInv
    <2>8. disk'["updater"].form # "legacy"
      BY <1>3, <2>1, <2>4, <2>7 DEF TypeOK
    <2>9. MigrationInv'
      BY <1>1, <2>7, <2>8 DEF MigrationInv
    <2>10. BackupInv'
      <3>1. backup[updater.file] = disk[updater.file]
        BY <2>1 DEF BackupInv
      <3>2. updater'.pc # "replace" /\ faults' = faults
        BY <1>1, <2>2
      <3>3. \A f \in File : backup'[f] \in {previous'[f], disk'[f], Blank}
        BY <1>3, <2>1, <3>1 DEF BackupInv, TypeOK
      <3>4. faults = 0 => \A f \in File : backup'[f] = previous'[f]
        BY <1>3, <2>1, <3>1 DEF BackupInv, TypeOK
      <3> QED BY <2>8, <3>2, <3>3, <3>4 DEF BackupInv
    <2> QED BY <1>4, <2>5, <2>6, <2>9, <2>10
  <1>13. ASSUME NEW c \in Content, Fetch(c) PROVE IInv'
    <2>1. UNCHANGED <<disk, backup, previous>> /\ updater.pc = "fetch"
      BY <1>13 DEF Fetch, AtFile
    <2>2. CASE c.ver # NoVersion /\ UpdateAvailable(updater.local, c.ver)
      <3>1. updater' = [updater EXCEPT !.pc = "write", !.new = c]
        BY <1>13, <2>2 DEF Fetch
      <3>2. /\ updater'.pc = "write" /\ updater'.file = updater.file
            /\ updater'.new = c /\ updater'.local = updater.local
        BY <1>3, <3>1 DEF Updater
      <3>3. c \in Handed(updater.file)
        BY <1>3, <1>13, FetchedHanded DEF Fetch
      <3>4. HandInv' /\ StillRuns'
        BY <1>2, <1>3, <1>5, <2>1, <2>2, <3>2, <3>3 DEF HandInv, InHand, StillRuns
      <3>5. MigrationInv' /\ BackupInv'
        BY <1>1, <1>2, <1>3, <2>1, <3>2 DEF MigrationInv, BackupInv
      <3> QED BY <1>4, <3>4, <3>5
    <2>3. CASE ~(c.ver # NoVersion /\ UpdateAvailable(updater.local, c.ver))
      <3>1. updater'.pc \in {"idle", "local"}
        <4>1. Exit("failed") \/ NextFile
          BY <1>13, <2>3 DEF Fetch
        <4> QED BY <4>1, NextFileFacts DEF Exit, Idle
      <3> QED BY <1>1, <2>1, <3>1, EndStep
    <2> QED BY <2>2, <2>3
  <1> QED BY <1>6, <1>7, <1>8, <1>9, <1>10, <1>11, <1>12, <1>13
\* A download or an operation on a file that fails, and a kill.
LEMMA FaultStep ==
    ASSUME IInv, TypeOK',
           \/ FetchFails \/ WriteFails
           \/ \E c \in Content : FileFails(c) \/ KillUpdater(c)
    PROVE  IInv'
  <1> USE DEF IInv
  <1>1. updater'.pc = "idle"
    BY DEF FetchFails, WriteFails, FileFails, KillUpdater, Exit, Idle
  <1>2. faults' > 0
    <2>1. faults \in Nat /\ faults' = faults + 1
      BY DEF TypeOK, FetchFails, WriteFails, FileFails, KillUpdater, Fault
    <2> QED BY <2>1
  <1>3. updater.pc # "idle" /\ UNCHANGED <<server, disk, boot, previous>>
    BY DEF FetchFails, WriteFails, FileFails, KillUpdater, AtFile, server
  <1>4. disk["updater"].form # "legacy"
    BY <1>3 DEF MigrationInv
  <1>5. \A f \in File : backup'[f] \in {backup[f], disk[f], Blank}
    <2>1. CASE UNCHANGED backup
      BY <2>1
    <2>2. ASSUME NEW c \in {backup[updater.file], disk[updater.file], Blank},
                 backup' = [backup EXCEPT ![updater.file] = c]
          PROVE  \A f \in File : backup'[f] \in {backup[f], disk[f], Blank}
      BY <2>2 DEF TypeOK
    <2> QED BY <2>1, <2>2 DEF FetchFails, WriteFails, FileFails, KillUpdater
  <1> QED BY <1>1, <1>2, <1>3, <1>4, <1>5, EndStep

\* The migration: it has the legacy updater to itself until it replaces it.
LEMMA BootIInv ==
    ASSUME IInv, TypeOK', BootStep \/ BootEnds
    PROVE  IInv'
  <1> USE DEF IInv
  <1>1. UNCHANGED <<server, backup, updater, previous>> /\ release' = release
    BY DEF BootStep, BootStart, BootFetch, BootValidate, BootReplace, BootEnds, server
  <1>2. \A f \in File : Handed(f)' = Handed(f)
    BY <1>1 DEF Handed, Release
  <1>3. "updater" \in File /\ "run" \in File /\ updater.file \in File
    BY DEF TypeOK, Updater, File
  <1>4. disk["updater"].form = "legacy" /\ updater.pc = "idle"
    BY DEF BootStep, BootStart, BootFetch, BootValidate, BootReplace, BootEnds, MigrationInv
  <1>5. ServedInv' /\ HandInv'
    BY <1>1, <1>4 DEF ServedInv, HandInv, InHand, Release, server
  <1>6. faults' = 0 => faults = 0
    BY DEF BootStep, BootStart, BootFetch, BootValidate, BootReplace, BootEnds, Fault, TypeOK
  <1>7. CASE BootReplace
    <2>1. /\ boot.pc = "replace" /\ boot' = NoBoot
          /\ disk' = [disk EXCEPT !["updater"] = boot.new]
      BY <1>7 DEF BootReplace
    <2>2. boot.new \in Handed("updater")
      BY <2>1 DEF MigrationInv
    <2>3. disk'["updater"] = boot.new /\ disk'["run"] = disk["run"]
      BY <1>3, <2>1 DEF TypeOK
    <2>4. boot.new.form # "legacy"
      BY <1>3, <2>2, HandedFacts
    <2>5. StillRuns' /\ MigrationInv'
      BY <1>1, <1>4, <2>1, <2>3, <2>4 DEF StillRuns, MigrationInv, NoBoot
    <2>6. BackupInv'
      BY <1>1, <1>3, <1>4, <1>6, <2>1, <2>3, <2>4 DEF BackupInv, TypeOK
    <2> QED BY <1>5, <2>5, <2>6
  <1>8. CASE ~BootReplace
    <2>1. UNCHANGED disk
      BY <1>8 DEF BootStep, BootStart, BootFetch, BootValidate, BootEnds
    <2>2. StillRuns' /\ BackupInv'
      BY <1>1, <1>4, <1>6, <2>1 DEF StillRuns, BackupInv
    <2>3. MigrationInv'
      <3>1. CASE BootStart
        BY <1>4, <1>1, <2>1, <3>1 DEF BootStart, MigrationInv, TypeOK, Boot
      <3>2. ASSUME NEW c \in Content, BootFetch(c) PROVE MigrationInv'
        <4>1. c \in Handed("updater")
          BY <3>2, <1>3, FetchedHanded DEF BootFetch
        <4> QED BY <1>2, <1>3, <1>4, <1>1, <2>1, <3>2, <4>1 DEF BootFetch, MigrationInv
      <3>3. CASE BootValidate
        BY <1>2, <1>3, <1>4, <1>1, <2>1, <3>3
           DEF BootValidate, MigrationInv, NoBoot, TypeOK, Boot
      <3>4. CASE BootEnds
        BY <1>4, <1>1, <2>1, <3>4 DEF BootEnds, MigrationInv, NoBoot
      <3> QED BY <1>8, <3>1, <3>2, <3>3, <3>4 DEF BootStep
    <2> QED BY <1>5, <2>2, <2>3
  <1> QED BY <1>7, <1>8

LEMMA NextIInv == IInv /\ [Next]_vars => IInv'
  <1> SUFFICES ASSUME IInv, [Next]_vars PROVE IInv'
    OBVIOUS
  <1>1. TypeOK'
    BY TypeStep
  <1>2. CASE Deploy \/ Copied
    BY <1>1, <1>2, ServerStep
  <1>3. CASE UpdaterStep
    BY <1>1, <1>3, WorkStep DEF UpdaterStep
  <1>4. CASE BootStep \/ BootEnds
    BY <1>1, <1>4, BootIInv
  <1>5. CASE \/ FetchFails \/ WriteFails
            \/ \E c \in Content : FileFails(c) \/ KillUpdater(c)
    BY <1>1, <1>5, FaultStep
  <1>6. CASE UNCHANGED vars
    BY <1>6 DEF vars, IInv, TypeOK, StillRuns, HandInv, MigrationInv, ServedInv, BackupInv,
                Handed, Release, UpdateAvailable, Older
  <1> QED BY <1>2, <1>3, <1>4, <1>5, <1>6 DEF Next, Faulty

-----------------------------------------------------------------------------
\* Every variable keeps its type.
THEOREM TypeCorrect == Spec => []TypeOK
  <1>1. IInv => TypeOK
    BY DEF IInv
  <1> QED BY <1>1, InitIInv, NextIInv, PTL DEF Spec

\* The host never runs out of a run.py that Python accepts and that the next
\* update can compare (perform_update validates before it replaces).
THEOREM HostStillRuns == Spec => []StillRuns
  <1>1. IInv => StillRuns
    BY DEF IInv
  <1> QED BY <1>1, InitIInv, NextIInv, PTL DEF Spec

\* The .bak of a file is what the last update replaced, however an update
\* after it fails or is killed (perform_update copies before it replaces).
THEOREM BackupsKeepTheLastGood == Spec => []RollbackKept
  <1>1. IInv => RollbackKept
    <2> SUFFICES ASSUME IInv PROVE RollbackKept
      OBVIOUS
    <2>1. faults = 0 /\ updater.pc # "replace" => \A f \in File : backup[f] = previous[f]
      BY DEF IInv, BackupInv
    <2>2. (\A f \in File : backup[f] = previous[f]) => backup = previous
      BY DEF IInv, TypeOK
    <2> QED BY <2>1, <2>2 DEF IInv, BackupInv, RollbackKept
  <1> QED BY <1>1, InitIInv, NextIInv, PTL DEF Spec
-----------------------------------------------------------------------------
\* A replacement is an Upgrade of AgentFiles.
LEMMA ReplaceIsUpgrade ==
    ASSUME IInv, ReplaceLinux \/ ReplaceWindows
    PROVE  F!Upgrade(updater.file, updater.new)
  <1> DEFINE f == updater.file
             c == updater.new
  <1>1. f \in File /\ c \in Content
    BY DEF IInv, TypeOK, Updater
  <1>2. updater.pc = "replace" /\ disk' = [disk EXCEPT ![f] = c] /\ release' = release
    BY DEF ReplaceLinux, ReplaceWindows, AtFile, Replace, server
  <1>3. c \in Handed(f) /\ c.form # "broken"
    BY <1>2 DEF IInv, HandInv, InHand
  <1>4. F!Older(disk[f].ver, c.ver) /\ c.ver[1] <= MaxMajor
    BY <1>2 DEF IInv, HandInv, InHand, UpdateAvailable, Older
  <1>5. [g \in File |-> Handed(g)]' = [g \in File |-> Handed(g)]
    BY <1>2 DEF Handed, Release
  <1> QED BY <1>1, <1>2, <1>3, <1>4, <1>5 DEF F!Upgrade

\* A replacement by the migration is a Migrate of AgentFiles.
LEMMA BootReplaceIsMigrate ==
    ASSUME IInv, BootReplace
    PROVE  boot.new \in Content /\ F!Migrate(boot.new)
  <1>1. boot.pc = "replace" /\ boot.new \in Content /\ "updater" \in File
    BY DEF BootReplace, IInv, TypeOK, Boot, File
  <1>2. /\ disk["updater"].form = "legacy"
        /\ boot.new \in Handed("updater") /\ boot.new.form # "broken"
    BY <1>1 DEF IInv, MigrationInv
  <1>3. disk' = [disk EXCEPT !["updater"] = boot.new] /\ release' = release
    BY DEF BootReplace, server
  <1>4. [g \in File |-> Handed(g)]' = [g \in File |-> Handed(g)]
    BY <1>3 DEF Handed, Release
  <1> QED BY <1>1, <1>2, <1>3, <1>4 DEF F!Migrate

\* Whatever is deployed, fails or is killed, the two installed files only change
\* as AgentFiles allows: to a valid file of the server with a higher version of
\* the same major one, or once in the migration of a legacy updater.
THEOREM KeepsItsPromise == Spec => Promised
  <1>1. Init => F!Init
    <2> SUFFICES ASSUME Init PROVE F!Init
      OBVIOUS
    <2>1. TypeOK
      BY InitIInv DEF IInv
    <2>2. \A f \in File : Handed(f) \subseteq Content
      BY <2>1, HandedFacts
    <2> QED BY <2>1, <2>2 DEF F!Init, TypeOK
  <1>2. IInv /\ [Next]_vars => [F!Next]_<<disk, [f \in File |-> Handed(f)]>>
    <2> SUFFICES ASSUME IInv, [Next]_vars
                 PROVE  F!Next \/ UNCHANGED <<disk, [f \in File |-> Handed(f)]>>
      OBVIOUS
    <2>1. CASE Deploy
      <3>1. release' = release + 1 /\ UNCHANGED disk /\ TypeOK
        BY <2>1 DEF Deploy, IInv
      <3>2. \A f \in File : Handed(f) \subseteq Handed(f)'
        BY <3>1, HandedGrows
      <3> QED BY <3>1, <3>2 DEF F!Next, F!Offer
    <2>2. CASE ReplaceLinux \/ ReplaceWindows
      <3>1. updater.file \in File /\ updater.new \in Content
        BY DEF IInv, TypeOK, Updater
      <3> QED BY <2>2, <3>1, ReplaceIsUpgrade DEF F!Next
    <2>3. CASE BootReplace
      BY <2>3, BootReplaceIsMigrate DEF F!Next
    <2>4. CASE UNCHANGED <<disk, release>>
      BY <2>4 DEF Handed, Release
    <2>5. CASE Copied
      BY <2>4, <2>5 DEF Copied
    <2>6. CASE \/ Start \/ Local \/ WriteTemp \/ Validate \/ Backup \/ SetMode
               \/ \E c \in Content : Fetch(c)
      BY <2>4, <2>6 DEF Start, Local, WriteTemp, Validate, Backup, SetMode, Fetch, server
    <2>7. CASE BootStart \/ BootValidate \/ \E c \in Content : BootFetch(c)
      BY <2>4, <2>7 DEF BootStart, BootValidate, BootFetch, server
    <2>8. CASE Faulty
      BY <2>4, <2>8
         DEF Faulty, FetchFails, WriteFails, FileFails, KillUpdater, BootEnds, server
    <2>9. CASE UNCHANGED vars
      BY <2>4, <2>9 DEF vars
    <2> QED BY <2>1, <2>2, <2>3, <2>5, <2>6, <2>7, <2>8, <2>9 DEF Next, UpdaterStep, BootStep
  <1> QED BY <1>1, <1>2, InitIInv, NextIInv, PTL DEF Spec, Promised, F!Spec

-----------------------------------------------------------------------------
(***************************************************************************)
(* The rig and its payloads.                                               *)
(***************************************************************************)
Entry     == [uuid : STRING, model : STRING, bus : STRING \cup {None}, temp : Nat \cup {None},
              fan : Nat \cup {None}, power : Nat \cup {None}]
Line      == [at : Nat, msg : Nat]
StoredRow == [at : Nat, gpus : Seq(Entry), errors : SUBSET Line]

GpusOf(m)           == IF m.windows THEN WindowsGpus(m.cards) ELSE LinuxGpus(m.cards)
ErrorsOf(w, log, t) == IF w THEN WindowsErrors(log, t) ELSE LinuxErrors(log, t)

\* The snapshot is that of a payload of `source`, a state of the hardware of this rig; a row
\* has the errors that the journal has of the window before it.
SnapshotOfSource ==
    latest # None =>
        /\ source \in Machines
        /\ \E log, t : latest = Snapshot(PayloadOf(source, log, t))

ErrorsOfRows ==
    \A r \in 1 .. Len(rows) :
        rows[r].at < minute /\ rows[r].errors = ErrorsOf(machine.windows, journal, rows[r].at)

DevicesInv ==
    /\ machine \in Machines /\ minute \in Nat
    /\ journal \in Seq(Line) /\ rows \in Seq(StoredRow)
    /\ SnapshotOfSource /\ ErrorsOfRows

LEMMA LargestIs ==
    ASSUME NEW S, S \subseteq Int, IsFiniteSet(S), S # {}
    PROVE  Largest(S) \in S /\ \A y \in S : y <= Largest(S)
  <1> DEFINE n == Cardinality(S)
             order == Ascending(S)
  <1>1. /\ n \in Nat /\ \A k \in 1 .. n : order[k] \in S
        /\ \A i \in S : \E k \in 1 .. n : order[k] = i
        /\ \A k, l \in 1 .. n : k < l => order[k] < order[l]
    BY AscendingFacts
  <1> HIDE DEF n, order
  <1>2. n \in 1 .. n
    <2>1. PICK x \in S : TRUE
      OBVIOUS
    <2>2. PICK k \in 1 .. n : order[k] = x
      BY <1>1, <2>1
    <2> QED BY <1>1, <2>2
  <1>3. ASSUME NEW y \in S PROVE y <= order[n]
    <2>1. PICK k \in 1 .. n : order[k] = y
      BY <1>1
    <2>2. k = n \/ k < n
      BY <1>1
    <2>3. order[k] = order[n] \/ order[k] < order[n]
      BY <1>1, <1>2, <2>2
    <2>4. order[k] \in Int /\ order[n] \in Int
      BY <1>1, <1>2
    <2> QED BY <2>1, <2>3, <2>4
  <1>4. \E x \in S : \A y \in S : y <= x
    BY <1>1, <1>2, <1>3
  <1> QED BY <1>4 DEF Largest

LEMMA CutFacts ==
    ASSUME NEW T, NEW s \in Seq(T), NEW n \in Nat
    PROVE  /\ Cut(s, n) \in Seq(T)
           /\ Len(Cut(s, n)) = IF Len(s) <= n THEN Len(s) ELSE n
           /\ \A k \in 1 .. Len(Cut(s, n)) : Cut(s, n)[k] = s[k]
  <1>1. Len(s) \in Nat
    BY LenProperties
  <1>2. CASE Len(s) <= n
    BY <1>2 DEF Cut
  <1>3. CASE ~(Len(s) <= n)
    <2>1. Cut(s, n) = SubSeq(s, 1, n)
      BY <1>3 DEF Cut
    <2>2. n \in 0 .. Len(s)
      BY <1>1, <1>3
    <2>3. \A k \in 1 .. n : s[k] \in T
      BY <1>1, <2>2, ElementOfSeq
    <2>4. SubSeq(s, 1, n) = [k \in 1 .. n |-> s[k]]
      BY <1>1, <2>2
    <2>5. SubSeq(s, 1, n) \in Seq(T) /\ Len(SubSeq(s, 1, n)) = n
      BY <2>3, <2>4
    <2>6. \A k \in 1 .. n : SubSeq(s, 1, n)[k] = s[k]
      BY <2>4
    <2> QED BY <1>3, <2>1, <2>5, <2>6
  <1> QED BY <1>2, <1>3

\* The card of each entry of a payload.
OfCards(m, gpus) ==
    gpus # <<>> =>
        /\ DOMAIN gpus = 1 .. Len(m.cards)
        /\ \A i \in 1 .. Len(m.cards) :
              /\ ~m.cards[i].lost
              /\ gpus[i].uuid = m.cards[i].uuid /\ gpus[i].model = m.cards[i].model
              /\ gpus[i].temp = Optional(m.cards[i], "temp", m.cards[i].temp)
              /\ gpus[i].fan = Optional(m.cards[i], "fan", m.cards[i].fan)
              /\ gpus[i].power = Optional(m.cards[i], "power", m.cards[i].power)
              /\ ~m.windows => gpus[i].bus = Optional(m.cards[i], "pci", m.cards[i].bus)

LEMMA EntryType ==
    ASSUME NEW card \in CardFacts, NEW bus \in STRING \cup {None}
    PROVE  GpuEntry(card, bus) \in Entry
  <1>1. card.uuid \in STRING /\ card.model \in STRING /\ card.temp \in Nat /\ card.fan \in Nat /\ card.power \in Nat
    BY DEF CardFacts
  <1> QED BY <1>1 DEF GpuEntry, Entry, Optional

LEMMA CardsOfMachine ==
    ASSUME NEW m \in Machines
    PROVE  /\ m.windows \in BOOLEAN /\ m.cards \in Seq(CardFacts) /\ Len(m.cards) \in Nat
           /\ DOMAIN m.cards = 1 .. Len(m.cards)
           /\ \A i \in 1 .. Len(m.cards) :
                 m.cards[i] \in CardFacts /\ m.cards[i].bus \in STRING /\ m.cards[i].power \in Nat
  <1>1. m.windows \in BOOLEAN /\ m.cards \in Seq(CardFacts)
    BY DevicesAssumption DEF MachineFacts
  <1>2. Len(m.cards) \in Nat /\ DOMAIN m.cards = 1 .. Len(m.cards)
    BY <1>1, LenProperties
  <1>3. \A i \in 1 .. Len(m.cards) : m.cards[i] \in CardFacts
    BY <1>1, ElementOfSeq
  <1>4. \A card \in CardFacts : card.bus \in STRING /\ card.power \in Nat
    BY DEF CardFacts
  <1> QED BY <1>1, <1>2, <1>3, <1>4

LEMMA GpusFacts ==
    ASSUME NEW m \in Machines
    PROVE  GpusOf(m) \in Seq(Entry) /\ OfCards(m, GpusOf(m))
  <1> DEFINE n == Len(m.cards)
             gpus == GpusOf(m)
             bus(i) == IF m.windows THEN WindowsBus(m.cards, i) ELSE Optional(m.cards[i], "pci", m.cards[i].bus)
             all == [i \in 1 .. n |-> GpuEntry(m.cards[i], bus(i))]
  <1>1. /\ m.windows \in BOOLEAN /\ n \in Nat /\ DOMAIN m.cards = 1 .. n
        /\ \A i \in 1 .. n : m.cards[i] \in CardFacts /\ m.cards[i].bus \in STRING
    BY CardsOfMachine
  <1>2. gpus = <<>> \/ (gpus = all /\ \A i \in 1 .. n : ~m.cards[i].lost)
    BY <1>1 DEF GpusOf, WindowsGpus, LinuxGpus
  <1>3. ASSUME NEW i \in 1 .. n PROVE bus(i) \in STRING \cup {None}
    <2>1. CASE m.windows
      <3> DEFINE answered == {j \in 1..i : "pci" \notin m.cards[j].mute}
      <3>1. WindowsBus(m.cards, i) = IF answered = {} THEN None ELSE m.cards[Largest(answered)].bus
        BY DEF WindowsBus
      <3>2. CASE answered = {}
        BY <2>1, <3>1, <3>2
      <3>3. CASE answered # {}
        <4>1. IsFiniteSet(1 .. i) /\ answered \in SUBSET (1 .. i)
          <5>1. i \in Int /\ 1 \in Int
            BY <1>1
          <5>2. IsFiniteSet(1 .. i)
            BY <5>1, FS_Interval
          <5> QED BY <5>2
        <4>2. IsFiniteSet(answered) /\ answered \subseteq Int /\ answered \subseteq 1 .. n
          <5>1. IsFiniteSet(answered)
            BY <4>1, FS_Subset
          <5>2. answered \subseteq Int /\ answered \subseteq 1 .. n
            BY <1>1
          <5> QED BY <5>1, <5>2
        <4> HIDE DEF answered
        <4>3. Largest(answered) \in answered
          BY <3>3, <4>2, LargestIs
        <4>4. m.cards[Largest(answered)].bus \in STRING
          BY <1>1, <4>2, <4>3
        <4> QED BY <2>1, <3>1, <3>3, <4>4
      <3> QED BY <3>2, <3>3
    <2>2. CASE ~m.windows
      BY <1>1, <2>2 DEF Optional
    <2> QED BY <2>1, <2>2
  <1>4. all \in Seq(Entry) /\ DOMAIN all = 1 .. n
    <2>1. \A i \in 1 .. n : GpuEntry(m.cards[i], bus(i)) \in Entry
      <3> HIDE DEF bus
      <3> QED BY <1>1, <1>3, EntryType
    <2>2. all \in [1 .. n -> Entry]
      BY <2>1
    <2> QED BY <1>1, <2>2
  <1>5. \A i \in 1 .. n : all[i] = GpuEntry(m.cards[i], bus(i))
    OBVIOUS
  <1>6. gpus \in Seq(Entry)
    <2> HIDE DEF all, gpus
    <2> QED BY <1>2, <1>4, EmptySeq
  <1>7. OfCards(m, gpus)
    <2> SUFFICES ASSUME gpus # <<>> PROVE OfCards(m, gpus)
      BY DEF OfCards
    <2>1. gpus = all /\ \A i \in 1 .. n : ~m.cards[i].lost
      BY <1>2
    <2>2. \A i \in 1 .. n : ~m.windows => bus(i) = Optional(m.cards[i], "pci", m.cards[i].bus)
      OBVIOUS
    <2> HIDE DEF gpus, all, bus
    <2>3. ASSUME NEW i \in 1 .. n
          PROVE  /\ gpus[i].uuid = m.cards[i].uuid /\ gpus[i].model = m.cards[i].model
                 /\ gpus[i].temp = Optional(m.cards[i], "temp", m.cards[i].temp)
                 /\ gpus[i].fan = Optional(m.cards[i], "fan", m.cards[i].fan)
                 /\ gpus[i].power = Optional(m.cards[i], "power", m.cards[i].power)
                 /\ gpus[i].bus = bus(i)
      <3>1. gpus[i] = GpuEntry(m.cards[i], bus(i))
        BY <1>5, <2>1
      <3> QED BY <3>1 DEF GpuEntry
    <2>4. DOMAIN gpus = 1 .. n
      BY <1>4, <2>1
    <2> QED BY <2>1, <2>2, <2>3, <2>4 DEF OfCards
  <1> QED BY <1>6, <1>7

LEMMA PayloadSections ==
    ASSUME NEW m \in Machines, NEW log, NEW t
    PROVE  LET p == PayloadOf(m, log, t)
           IN /\ p.gpus = GpusOf(m) /\ p.errors = ErrorsOf(m.windows, log, t)
              /\ p.power = IF m.windows THEN WindowsPower(m) ELSE LinuxPower(m)
              /\ p.cores = IF m.windows THEN WindowsCoreTemps(m) ELSE LinuxCoreTemps(m)
              /\ p.cpuTemp = IF m.windows THEN WindowsCpuTemp(m) ELSE LinuxCpuTemp(m)
              /\ p.disks = IF m.windows THEN WindowsStorage(m) ELSE LinuxStorage(m)
              /\ p.nics = IF m.windows THEN WindowsNetwork(m) ELSE LinuxNetwork(m)
              /\ p.procs = LinuxTopProcesses(m)
  <1>1. CASE m.windows
    BY <1>1 DEF PayloadOf, GpusOf, ErrorsOf, WindowsTopProcesses
  <1>2. CASE ~m.windows
    BY <1>2 DEF PayloadOf, GpusOf, ErrorsOf
  <1> QED BY <1>1, <1>2

-----------------------------------------------------------------------------
\* The lines of the journal in the window before t.
InWindowOf(log, t) == {i \in DOMAIN log : log[i].at > t - ErrorWindow /\ log[i].at <= t}

LEMMA RecentFacts ==
    ASSUME NEW log \in Seq(Line), NEW t
    PROVE  /\ Recent(log, t) = At(log, InWindowOf(log, t)) /\ InWindowOf(log, t) \subseteq 1 .. Len(log)
           /\ Recent(log, t) \in Seq(Line)
           /\ Picks(Recent(log, t), Ascending(InWindowOf(log, t)), log, InWindowOf(log, t))
  <1> DEFINE I == InWindowOf(log, t)
  <1>1. Recent(log, t) = At(log, I)
    BY DEF Recent, Where, InWindowOf
  <1>2. I \subseteq 1 .. Len(log)
    BY LenProperties DEF InWindowOf
  <1> HIDE DEF I
  <1>3. At(log, I) \in Seq(Line) /\ Picks(At(log, I), Ascending(I), log, I)
    BY <1>2, AtFacts
  <1> QED BY <1>1, <1>2, <1>3 DEF I

LEMMA ReverseFacts ==
    ASSUME NEW T, NEW s \in Seq(T)
    PROVE  /\ Reverse(s) \in Seq(T) /\ Len(Reverse(s)) = Len(s)
           /\ \A k \in 1 .. Len(s) : Reverse(s)[(Len(s) - k) + 1] = s[k]
  <1> DEFINE n == Len(s)
  <1>1. n \in Nat /\ \A k \in 1 .. n : s[k] \in T
    BY LenProperties, ElementOfSeq
  <1>2. Reverse(s) = [k \in 1 .. n |-> s[(n - k) + 1]]
    BY DEF Reverse
  <1>3. \A k \in 1 .. n : (n - k) + 1 \in 1 .. n /\ (n - ((n - k) + 1)) + 1 = k
    BY <1>1
  <1> HIDE DEF n
  <1>4. \A k \in 1 .. n : s[(n - k) + 1] \in T
    BY <1>1, <1>3
  <1>5. Reverse(s) \in [1 .. n -> T]
    BY <1>2, <1>4
  <1>6. Reverse(s) \in Seq(T) /\ Len(Reverse(s)) = n
    BY <1>1, <1>5
  <1>7. \A k \in 1 .. n : Reverse(s)[(n - k) + 1] = s[k]
    BY <1>2, <1>3
  <1> QED BY <1>6, <1>7 DEF n

LEMMA ToSetFacts ==
    ASSUME NEW T, NEW s \in Seq(T)
    PROVE  /\ ToSet(s) \subseteq T /\ \A k \in 1 .. Len(s) : s[k] \in ToSet(s)
           /\ \A x \in ToSet(s) : \E k \in 1 .. Len(s) : x = s[k]
  <1>1. DOMAIN s = 1 .. Len(s)
    BY LenProperties
  <1>2. \A k \in 1 .. Len(s) : s[k] \in T
    BY ElementOfSeq
  <1> QED BY <1>1, <1>2 DEF ToSet

\* The errors of a payload are lines of the window, and all of them if they fit.
LEMMA ErrorsFacts ==
    ASSUME NEW w \in BOOLEAN, NEW log \in Seq(Line), NEW t
    PROVE  /\ ErrorsOf(w, log, t) \subseteq Line
           /\ Len(Recent(log, t)) <= Lines =>
                 \A k \in 1 .. Len(Recent(log, t)) : Recent(log, t)[k] \in ErrorsOf(w, log, t)
  <1> DEFINE s == Recent(log, t)
             r == Reverse(s)
             n == Len(s)
  <1>1. s \in Seq(Line)
    BY RecentFacts
  <1> HIDE DEF s
  <1>2. r \in Seq(Line) /\ Len(r) = n /\ n \in Nat /\ \A k \in 1 .. n : r[(n - k) + 1] = s[k]
    BY <1>1, ReverseFacts, LenProperties
  <1> HIDE DEF r
  <1>3. Lines \in Nat
    BY CollectorsAssumption
  <1>4. Cut(s, Lines) \in Seq(Line) /\ Cut(r, Lines) \in Seq(Line)
    BY <1>1, <1>2, <1>3, CutFacts
  <1>5. ErrorsOf(w, log, t) = IF w THEN ToSet(Cut(r, Lines)) ELSE ToSet(Cut(s, Lines))
    BY DEF ErrorsOf, WindowsErrors, LinuxErrors, r, s
  <1>6. ErrorsOf(w, log, t) \subseteq Line
    BY <1>4, <1>5, ToSetFacts
  <1>7. ASSUME n <= Lines, NEW k \in 1 .. n PROVE s[k] \in ErrorsOf(w, log, t)
    <2>1. Cut(s, Lines) = s /\ Cut(r, Lines) = r
      BY <1>2, <1>7 DEF Cut
    <2>2. s[k] \in ToSet(s)
      BY <1>1, ToSetFacts
    <2>3. (n - k) + 1 \in 1 .. Len(r)
      BY <1>2
    <2>4. r[(n - k) + 1] \in ToSet(r)
      BY <1>2, <2>3, ToSetFacts
    <2>5. s[k] \in ToSet(r)
      BY <1>2, <2>4
    <2> QED BY <1>5, <2>1, <2>2, <2>5
  <1> QED BY <1>6, <1>7 DEF s

\* A line that is logged after t is none of the window before t.
LEMMA ErrorsStay ==
    ASSUME NEW w, NEW log \in Seq(Line), NEW e \in Line, NEW t \in Nat, t < e.at
    PROVE  ErrorsOf(w, Append(log, e), t) = ErrorsOf(w, log, t)
  <1> DEFINE more == Append(log, e)
             n == Len(log)
             I == InWindowOf(log, t)
  <1>1. n \in Nat /\ DOMAIN log = 1 .. n
    BY LenProperties
  <1>2. /\ more \in Seq(Line) /\ Len(more) = n + 1 /\ \A i \in 1 .. n : more[i] = log[i]
        /\ more[n + 1] = e
    BY <1>1
  <1>3. DOMAIN more = 1 .. n + 1
    BY <1>2, LenProperties
  <1>4. e.at \in Nat /\ ~(e.at <= t)
    BY DEF Line
  <1> HIDE DEF more
  <1>5. InWindowOf(more, t) = I
    <2>1. \A i \in DOMAIN more : (more[i].at > t - ErrorWindow /\ more[i].at <= t) => i \in 1 .. n
      BY <1>1, <1>2, <1>3, <1>4
    <2> QED BY <1>1, <1>2, <1>3, <2>1 DEF InWindowOf
  <1>6. I \subseteq 1 .. n
    BY RecentFacts
  <1> HIDE DEF I
  <1>7. At(more, I) = At(log, I)
    <2>1. IsFiniteSet(I) /\ I \subseteq Int
      <3>1. IsFiniteSet(I)
        BY <1>6, AtFacts
      <3> QED BY <1>1, <1>6, <3>1
    <2>2. \A k \in 1 .. Cardinality(I) : Ascending(I)[k] \in 1 .. n
      BY <1>6, <2>1, AscendingFacts
    <2>3. \A k \in 1 .. Cardinality(I) : more[Ascending(I)[k]] = log[Ascending(I)[k]]
      BY <1>2, <2>2
    <2> QED BY <2>3 DEF At
  <1>8. Recent(more, t) = Recent(log, t)
    <2>1. Recent(more, t) = At(more, I)
      BY <1>2, <1>5, RecentFacts
    <2>2. Recent(log, t) = At(log, I)
      BY RecentFacts DEF I
    <2> QED BY <1>7, <2>1, <2>2
  <1> QED BY <1>8 DEF ErrorsOf, WindowsErrors, LinuxErrors, more

-----------------------------------------------------------------------------
LEMMA DevicesInit == DInit => DevicesInv
  <1> SUFFICES ASSUME DInit PROVE DevicesInv
    OBVIOUS
  <1>1. machine \in Machines /\ minute = 1 /\ journal = <<>> /\ rows = <<>> /\ latest = None
    BY DEF DInit
  <1>2. journal \in Seq(Line) /\ rows \in Seq(StoredRow) /\ Len(rows) = 0
    BY <1>1, EmptySeq
  <1>3. SnapshotOfSource /\ ErrorsOfRows
    BY <1>1, <1>2 DEF SnapshotOfSource, ErrorsOfRows
  <1> QED BY <1>1, <1>2, <1>3 DEF DevicesInv

LEMMA DevicesStep == DevicesInv /\ [DNext]_dvVars => DevicesInv'
  <1> SUFFICES ASSUME DevicesInv, [DNext]_dvVars PROVE DevicesInv'
    OBVIOUS
  <1>1. /\ machine \in Machines /\ minute \in Nat /\ journal \in Seq(Line)
        /\ rows \in Seq(StoredRow) /\ SnapshotOfSource /\ ErrorsOfRows /\ machine.windows \in BOOLEAN
    BY CardsOfMachine DEF DevicesInv
  <1>2. \A r \in 1 .. Len(rows) : /\ rows[r] \in StoredRow /\ rows[r].at \in Nat /\ rows[r].at < minute
                                  /\ rows[r].errors = ErrorsOf(machine.windows, journal, rows[r].at)
    <2>1. \A r \in 1 .. Len(rows) : rows[r] \in StoredRow
      BY <1>1, ElementOfSeq
    <2>2. \A row \in StoredRow : row.at \in Nat
      BY DEF StoredRow
    <2> QED BY <1>1, <2>1, <2>2 DEF ErrorsOfRows
  <1>3. CASE UNCHANGED dvVars
    BY <1>1, <1>3 DEF dvVars, DevicesInv, SnapshotOfSource, ErrorsOfRows
  <1>4. CASE Silence
    <2>1. minute' = minute + 1 /\ UNCHANGED <<machine, journal, rows, latest, source>>
      BY <1>4 DEF Silence
    <2>2. SnapshotOfSource'
      BY <1>1, <2>1 DEF SnapshotOfSource
    <2>3. \A r \in 1 .. Len(rows) : rows[r].at < minute + 1
      BY <1>1, <1>2
    <2>4. ErrorsOfRows'
      BY <1>2, <2>1, <2>3 DEF ErrorsOfRows
    <2>5. minute' \in Nat
      BY <1>1, <2>1
    <2> QED BY <1>1, <2>1, <2>2, <2>4, <2>5 DEF DevicesInv
  <1>5. CASE Change
    <2>1. /\ machine' \in Machines /\ machine'.windows = machine.windows
          /\ UNCHANGED <<minute, journal, rows, latest, source>>
      BY <1>5 DEF Change
    <2>2. SnapshotOfSource'
      BY <1>1, <2>1 DEF SnapshotOfSource
    <2>3. ErrorsOfRows'
      BY <1>2, <2>1 DEF ErrorsOfRows
    <2> QED BY <1>1, <2>1, <2>2, <2>3 DEF DevicesInv
  <1>6. CASE LogError
    <2> DEFINE e == [at |-> minute, msg |-> Len(journal) + 1]
    <2>1. journal' = Append(journal, e) /\ UNCHANGED <<machine, minute, rows, latest, source>>
      BY <1>6 DEF LogError
    <2>2. e \in Line /\ e.at = minute
      <3>1. Len(journal) \in Nat
        BY <1>1, LenProperties
      <3>2. Len(journal) + 1 \in Nat
        BY <3>1
      <3> QED BY <1>1, <3>2 DEF Line
    <2> HIDE DEF e
    <2>3. journal' \in Seq(Line)
      BY <1>1, <2>1, <2>2
    <2>4. SnapshotOfSource'
      BY <1>1, <2>1 DEF SnapshotOfSource
    <2>5. \A r \in 1 .. Len(rows) :
            rows[r].errors = ErrorsOf(machine.windows, Append(journal, e), rows[r].at)
      BY <1>1, <1>2, <2>2, ErrorsStay
    <2>6. ErrorsOfRows'
      BY <1>2, <2>1, <2>5 DEF ErrorsOfRows
    <2> QED BY <1>1, <2>1, <2>3, <2>4, <2>6 DEF DevicesInv
  <1>7. CASE Beat /\ Raises(Payload.gpus)
    <2>1. minute' = minute + 1 /\ UNCHANGED <<machine, journal, rows, latest, source>>
      BY <1>7 DEF Beat
    <2>2. SnapshotOfSource'
      BY <1>1, <2>1 DEF SnapshotOfSource
    <2>3. \A r \in 1 .. Len(rows) : rows[r].at < minute + 1
      BY <1>1, <1>2
    <2>4. ErrorsOfRows'
      BY <1>2, <2>1, <2>3 DEF ErrorsOfRows
    <2>5. minute' \in Nat
      BY <1>1, <2>1
    <2> QED BY <1>1, <2>1, <2>2, <2>4, <2>5 DEF DevicesInv
  <1>8. CASE Beat /\ ~Raises(Payload.gpus)
    <2> DEFINE row == [at |-> minute, gpus |-> Payload.gpus, errors |-> Payload.errors]
               n == Len(rows)
    <2>1. /\ minute' = minute + 1 /\ rows' = Append(rows, row) /\ latest' = Snapshot(Payload)
          /\ source' = machine /\ UNCHANGED <<machine, journal>>
      BY <1>8 DEF Beat
    <2>2. Payload = PayloadOf(machine, journal, minute)
      BY DEF Payload
    <2>3. Payload.gpus = GpusOf(machine) /\ Payload.errors = ErrorsOf(machine.windows, journal, minute)
      BY <1>1, <2>2, PayloadSections
    <2>4. row \in StoredRow /\ row.at = minute /\ row.errors = ErrorsOf(machine.windows, journal, minute)
      <3>1. GpusOf(machine) \in Seq(Entry)
        BY <1>1, GpusFacts
      <3>2. ErrorsOf(machine.windows, journal, minute) \in SUBSET Line
        BY <1>1, ErrorsFacts
      <3> QED BY <1>1, <2>3, <3>1, <3>2 DEF StoredRow
    <2> HIDE DEF row
    <2>5. /\ n \in Nat /\ rows' \in Seq(StoredRow) /\ Len(rows') = n + 1
          /\ \A r \in 1 .. n : rows'[r] = rows[r]
          /\ rows'[n + 1] = row
      <3>1. n \in Nat
        BY <1>1, LenProperties
      <3> QED BY <1>1, <2>1, <2>4, <3>1
    <2>6. ErrorsOfRows'
      <3> SUFFICES ASSUME NEW r \in 1 .. n + 1
                   PROVE  rows'[r].at < minute + 1
                          /\ rows'[r].errors = ErrorsOf(machine.windows, journal, rows'[r].at)
        BY <2>1, <2>5 DEF ErrorsOfRows
      <3>1. CASE r \in 1 .. n
        <4>1. rows[r].at < minute + 1
          BY <1>1, <1>2, <3>1
        <4> QED BY <1>2, <2>5, <3>1, <4>1
      <3>2. CASE r = n + 1
        <4>1. minute < minute + 1
          BY <1>1
        <4> QED BY <2>4, <2>5, <3>2, <4>1
      <3> QED BY <2>5, <3>1, <3>2
    <2>7. SnapshotOfSource'
      BY <1>1, <2>1, <2>2 DEF SnapshotOfSource
    <2>8. minute' \in Nat
      BY <1>1, <2>1
    <2> QED BY <1>1, <2>1, <2>5, <2>6, <2>7, <2>8 DEF DevicesInv
  <1> QED BY <1>3, <1>4, <1>5, <1>6, <1>7, <1>8 DEF DNext

\* The rig reports what one of its states was, and each stored row has the errors
\* of its own window (process_ingest, collect_metrics of both agents).
THEOREM DevicesTyped == DSpec => []DevicesInv
  <1> QED BY DevicesInit, DevicesStep, PTL DEF DSpec

-----------------------------------------------------------------------------
(***************************************************************************)
(* The pages.                                                              *)
(***************************************************************************)

\* Each place of the page shows one card.
LEMMA OneCard == DevicesInv => PageShowsOneCard
  <1> SUFFICES ASSUME DevicesInv, NEW i \in DOMAIN GpuCards
               PROVE  LET shown == GpuCards[i]
                          card  == source.cards[i]
                      IN  /\ shown.uuid = card.uuid /\ shown.model = card.model
                          /\ LabelUuid(i) = card.uuid /\ HeaderUuid(i) = card.uuid
                          /\ shown.temp \in {None, card.temp} /\ shown.fan \in {None, card.fan}
                          /\ shown.power \in {None, card.power}
                          /\ source.windows \/ shown.bus \in {"", card.bus}
    BY DEF PageShowsOneCard
  <1>1. latest # None
    BY DEF GpuCards
  <1>2. source \in Machines /\ \E log, t : latest = Snapshot(PayloadOf(source, log, t))
    BY <1>1 DEF DevicesInv, SnapshotOfSource
  <1>3. PICK log, t : latest = Snapshot(PayloadOf(source, log, t))
    BY <1>2
  <1> DEFINE g == GpusOf(source)
             a == latest.arrays
             shown == GpuCards[i]
             card == source.cards[i]
  <1>4. PayloadOf(source, log, t).gpus = g
    BY <1>2, PayloadSections
  <1>5. a = Arrays(g) /\ latest.count = Len(g)
    BY <1>3, <1>4 DEF Snapshot
  <1>6. g \in Seq(Entry) /\ OfCards(source, g) /\ source.windows \in BOOLEAN
    BY <1>2, GpusFacts, CardsOfMachine
  <1> HIDE DEF g
  <1>7. DOMAIN g = 1 .. Len(g) /\ Len(g) \in Nat
    BY <1>6, LenProperties
  <1>8. i \in 1 .. Len(g)
    BY <1>1, <1>5 DEF GpuCards
  <1>9. shown = [uuid |-> JsonGet(a.uuids, i, ""), model |-> JsonGet(a.models, i, ""),
                 bus |-> JsonGet(a.buses, i, ""), temp |-> JsonGet(a.temps, i, None),
                 fan |-> JsonGet(a.fans, i, None), power |-> JsonGet(a.powers, i, None)]
    BY <1>1, <1>5, <1>8 DEF GpuCards
  <1>10. /\ DOMAIN a.uuids = 1 .. Len(g) /\ a.uuids[i] = g[i].uuid
         /\ DOMAIN a.models = 1 .. Len(g) /\ a.models[i] = g[i].model
         /\ DOMAIN a.buses = 1 .. Len(g) /\ a.buses[i] = (IF g[i].bus = None THEN "" ELSE g[i].bus)
         /\ DOMAIN a.temps = 1 .. Len(g) /\ a.temps[i] = g[i].temp
         /\ DOMAIN a.fans = 1 .. Len(g) /\ a.fans[i] = g[i].fan
         /\ DOMAIN a.powers = 1 .. Len(g) /\ a.powers[i] = g[i].power
    <2> HIDE DEF a
    <2>1. /\ DOMAIN a.uuids = DOMAIN g /\ DOMAIN a.models = DOMAIN g /\ DOMAIN a.buses = DOMAIN g
          /\ DOMAIN a.temps = DOMAIN g /\ DOMAIN a.fans = DOMAIN g /\ DOMAIN a.powers = DOMAIN g
      BY <1>5 DEF Arrays
    <2>2. i \in DOMAIN g
      BY <1>7, <1>8
    <2>3. /\ a.uuids[i] = g[i].uuid /\ a.models[i] = g[i].model
          /\ a.temps[i] = g[i].temp /\ a.fans[i] = g[i].fan /\ a.powers[i] = g[i].power
      BY <1>5, <2>2 DEF Arrays
    <2>4. a.buses[i] = (IF g[i].bus = None THEN "" ELSE g[i].bus)
      BY <1>5, <2>2 DEF Arrays
    <2> QED BY <1>7, <2>1, <2>3, <2>4
  <1> HIDE DEF a, shown
  <1>11. /\ shown.uuid = g[i].uuid /\ shown.model = g[i].model
         /\ shown.bus = (IF g[i].bus = None THEN "" ELSE g[i].bus)
         /\ shown.temp = g[i].temp /\ shown.fan = g[i].fan /\ shown.power = g[i].power
    BY <1>8, <1>9, <1>10 DEF JsonGet
  <1>12. LabelUuid(i) = g[i].uuid
    BY <1>1, <1>8, <1>10 DEF LabelUuid, JsonGet, a
  <1>13. HeaderUuid(i) = g[i].uuid
    BY <1>1, <1>8, <1>10 DEF HeaderUuid, a
  <1>14. g # <<>>
    BY <1>8, EmptySeq
  <1>15. i \in 1 .. Len(source.cards)
    BY <1>6, <1>7, <1>8, <1>14 DEF OfCards
  <1>16. /\ g[i].uuid = card.uuid /\ g[i].model = card.model
         /\ g[i].temp = Optional(card, "temp", card.temp)
         /\ g[i].fan = Optional(card, "fan", card.fan)
         /\ g[i].power = Optional(card, "power", card.power)
         /\ ~source.windows => g[i].bus = Optional(card, "pci", card.bus)
    BY <1>6, <1>14, <1>15 DEF OfCards
  <1> HIDE DEF card
  <1>17. g[i].temp \in {None, card.temp} /\ g[i].fan \in {None, card.fan} /\ g[i].power \in {None, card.power}
    BY <1>16 DEF Optional
  <1>18. source.windows \/ shown.bus \in {"", card.bus}
    BY <1>6, <1>11, <1>16 DEF Optional
  <1> QED BY <1>11, <1>12, <1>13, <1>16, <1>17, <1>18 DEF card, shown

\* What does not change from one place to the next is at the end what it was.
LEMMA Steady ==
    ASSUME NEW h, NEW a \in Nat, NEW b \in Nat, a <= b, \A k \in a + 1 .. b : h[k] = h[k - 1]
    PROVE  h[b] = h[a]
  <1> DEFINE T == {j \in Nat : a + j <= b => h[a + j] = h[a]}
  <1>1. 0 \in T
    OBVIOUS
  <1>2. ASSUME NEW j \in T PROVE j + 1 \in T
    <2> SUFFICES ASSUME a + (j + 1) <= b PROVE h[a + (j + 1)] = h[a]
      BY <1>2
    <2>1. a + (j + 1) \in a + 1 .. b /\ (a + (j + 1)) - 1 = a + j /\ a + j <= b
      BY <1>2
    <2>2. h[a + (j + 1)] = h[a + j]
      BY <2>1
    <2> QED BY <1>2, <2>1, <2>2
  <1>3. T = Nat
    <2>1. T \in SUBSET Nat
      OBVIOUS
    <2> HIDE DEF T
    <2> QED BY <1>1, <1>2, <2>1, Induction
  <1>4. b - a \in T /\ a + (b - a) = b
    <2>1. b - a \in Nat /\ a + (b - a) = b
      OBVIOUS
    <2> HIDE DEF T
    <2> QED BY <1>3, <2>1
  <1> QED BY <1>4

\* The changes in a list, from the first value to the last.
ChangesOf(h) == {k \in DOMAIN h : k > 1 /\ h[k] # h[k - 1]}

\* Changes that lead, one after the other, from the first of n values to the last.
LeadFrom(h, n, ids, order) ==
    /\ order = <<>> => h[1] = h[n]
    /\ order # <<>> => ids[order[1]].from = h[1] /\ ids[order[Len(order)]].to = h[n]
    /\ \A k \in DOMAIN order :
          /\ ids[order[k]].from # ids[order[k]].to
          /\ k > 1 => ids[order[k]].from = ids[order[k-1]].to

LEMMA ChangesLead ==
    ASSUME NEW n \in Nat \ {0}, NEW h, DOMAIN h = 1 .. n,
           NEW ids, ids = [k \in ChangesOf(h) |-> [from |-> h[k - 1], to |-> h[k]]]
    PROVE  LeadFrom(h, n, ids, Ascending(ChangesOf(h)))
  <1> DEFINE D == ChangesOf(h)
             order == Ascending(D)
             c == Cardinality(D)
  <1>1. \A k \in D : k \in 2 .. n /\ h[k] # h[k - 1]
    BY DEF ChangesOf
  <1>2. \A k \in 2 .. n : k \notin D => h[k] = h[k - 1]
    BY DEF ChangesOf
  <1>3. \A k \in D : ids[k].from = h[k - 1] /\ ids[k].to = h[k]
    OBVIOUS
  <1> HIDE DEF D
  <1>4. IsFiniteSet(D) /\ D \subseteq Int
    <2>1. IsFiniteSet(1 .. n) /\ D \in SUBSET (1 .. n)
      BY <1>1, FS_Interval
    <2>2. IsFiniteSet(D)
      BY <2>1, FS_Subset
    <2>3. D \subseteq Int
      BY <1>1
    <2> QED BY <2>2, <2>3
  <1>5. /\ c \in Nat /\ DOMAIN order = 1 .. c
        /\ \A k \in 1 .. c : order[k] \in D
        /\ \A i \in D : \E k \in 1 .. c : order[k] = i
        /\ \A k, l \in 1 .. c : k < l => order[k] < order[l]
    BY <1>4, AscendingFacts
  <1>6. order \in Seq(D) /\ Len(order) = c
    <2> DEFINE R == {p \in D \X D : p[1] < p[2]}
               at(k) == CHOOSE x \in D : Cardinality({y \in D : <<y, x>> \in R}) = k - 1
    <2>0. order = Ranked(D, R)
      BY DEF Ascending, Sorted
    <2>a. Ranked(D, R) = [k \in 1 .. c |-> at(k)]
      BY DEF Ranked
    <2> HIDE DEF at, R
    <2>1. order = [k \in 1 .. c |-> order[k]]
      <3> HIDE DEF order, c
      <3> QED BY <2>0, <2>a
    <2> HIDE DEF order, c
    <2>2. order \in [1 .. c -> D]
      BY <1>5, <2>1
    <2> QED BY <1>5, <2>2
  <1> HIDE DEF order, c
  <1>7. \A k \in 1 .. c : order[k] \in 2 .. n /\ order[k] - 1 \in 1 .. n
    BY <1>1, <1>5
  <1>8. ASSUME NEW a \in 1 .. n, NEW b \in 1 .. n, a <= b, \A x \in D : ~(a < x /\ x <= b)
        PROVE  h[b] = h[a]
    <2>1. \A x \in a + 1 .. b : x \in 2 .. n /\ x \notin D
      BY <1>8
    <2>2. \A x \in a + 1 .. b : h[x] = h[x - 1]
      BY <1>2, <2>1
    <2>3. a \in Nat /\ b \in Nat
      OBVIOUS
    <2> QED BY <1>8, <2>2, <2>3, Steady
  <1>9. order = <<>> => h[1] = h[n]
    <2> SUFFICES ASSUME order = <<>> PROVE h[n] = h[1]
      OBVIOUS
    <2>1. c = 0
      BY <1>6, EmptySeq
    <2>2. \A x \in D : FALSE
      BY <1>5, <2>1
    <2>3. 1 \in 1 .. n /\ n \in 1 .. n /\ 1 <= n
      OBVIOUS
    <2> QED BY <1>8, <2>2, <2>3
  <1>10. order # <<>> => ids[order[1]].from = h[1] /\ ids[order[c]].to = h[n]
    <2> SUFFICES ASSUME order # <<>> PROVE h[order[1] - 1] = h[1] /\ h[n] = h[order[c]]
                                            /\ order[1] \in D /\ order[c] \in D
      BY <1>3
    <2>1. 1 \in 1 .. c /\ c \in 1 .. c
      BY <1>5, <1>6, EmptySeq
    <2>2. \A x \in D : order[1] <= x /\ x <= order[c]
      <3> SUFFICES ASSUME NEW x \in D PROVE order[1] <= x /\ x <= order[c]
        OBVIOUS
      <3>1. PICK k \in 1 .. c : order[k] = x
        BY <1>5
      <3>2. (k = 1 \/ 1 < k) /\ (k = c \/ k < c)
        BY <2>1
      <3>3. (k = 1 \/ order[1] < order[k]) /\ (k = c \/ order[k] < order[c])
        BY <1>5, <2>1, <3>2
      <3>4. order[1] \in Int /\ order[k] \in Int /\ order[c] \in Int
        BY <1>7, <2>1
      <3> QED BY <3>1, <3>3, <3>4
    <2>3. order[1] - 1 \in 1 .. n /\ order[c] \in 1 .. n /\ order[1] \in 2 .. n
      BY <1>7, <2>1
    <2>4. h[order[1] - 1] = h[1]
      <3>1. \A x \in D : ~(1 < x /\ x <= order[1] - 1)
        BY <1>1, <2>2, <2>3
      <3>2. 1 \in 1 .. n /\ 1 <= order[1] - 1
        BY <2>3
      <3> QED BY <1>8, <2>3, <3>1, <3>2
    <2>5. h[n] = h[order[c]]
      <3>1. \A x \in D : ~(order[c] < x /\ x <= n)
        BY <1>1, <2>2, <2>3
      <3>2. n \in 1 .. n /\ order[c] <= n
        BY <2>3
      <3> QED BY <1>8, <2>3, <3>1, <3>2
    <2> QED BY <1>5, <2>1, <2>4, <2>5
  <1>11. ASSUME NEW k \in 1 .. c
         PROVE  /\ ids[order[k]].from # ids[order[k]].to
                /\ k > 1 => ids[order[k]].from = ids[order[k-1]].to
    <2>1. ids[order[k]].from = h[order[k] - 1] /\ ids[order[k]].to = h[order[k]]
          /\ h[order[k]] # h[order[k] - 1]
      BY <1>1, <1>3, <1>5
    <2>2. ASSUME k > 1 PROVE h[order[k] - 1] = h[order[k - 1]]
      <3> DEFINE p == order[k - 1]
                 q == order[k]
      <3>1. k - 1 \in 1 .. c /\ k - 1 < k
        BY <1>5, <2>2
      <3>2. p < q /\ p \in 2 .. n /\ q \in 2 .. n
        BY <1>5, <1>7, <3>1
      <3>3. ASSUME NEW x \in D PROVE ~(p < x /\ x <= q - 1)
        <4>1. PICK l \in 1 .. c : order[l] = x
          BY <1>5
        <4>2. l < k - 1 \/ l = k - 1 \/ l = k \/ k < l
          BY <1>5, <4>1
        <4>3. x < p \/ x = p \/ x = q \/ q < x
          BY <1>5, <3>1, <4>1, <4>2
        <4>4. x \in Int
          BY <1>4
        <4> HIDE DEF p, q
        <4> QED BY <3>2, <4>3, <4>4
      <3> HIDE DEF p, q
      <3>4. q - 1 \in 1 .. n /\ p \in 1 .. n /\ p <= q - 1
        BY <3>2
      <3>5. h[q - 1] = h[p]
        BY <1>8, <3>3, <3>4
      <3> QED BY <3>5 DEF p, q
    <2>3. k > 1 => ids[order[k - 1]].to = h[order[k - 1]]
      <3>1. k > 1 => k - 1 \in 1 .. c
        BY <1>5
      <3> QED BY <1>3, <1>5, <3>1
    <2> QED BY <2>1, <2>2, <2>3
  <1> QED BY <1>5, <1>6, <1>9, <1>10, <1>11 DEF D, order, LeadFrom

LEMMA ChangesNow == DevicesInv => ChangesLeadToTheCardNow
  <1> SUFFICES ASSUME DevicesInv, NEW i \in UNION {DOMAIN rows[k].gpus : k \in DOMAIN rows}
               PROVE  LET h     == HistoryOf(i)
                          ids   == IdentityChanges(i)
                          order == Ascending(DOMAIN ids)
                      IN  LeadFrom(h, Len(h), ids, order)
    BY DEF ChangesLeadToTheCardNow, LeadFrom
  <1> DEFINE with == Where(rows, LAMBDA r : i \in DOMAIN r.gpus)
             K == {k \in DOMAIN rows : i \in DOMAIN rows[k].gpus}
             h == HistoryOf(i)
             n == Len(with)
             ids == IdentityChanges(i)
  <1>1. rows \in Seq(StoredRow)
    BY DEF DevicesInv
  <1>2. with = At(rows, K)
    BY DEF Where
  <1>3. K \subseteq 1 .. Len(rows) /\ K # {}
    BY <1>1, LenProperties
  <1>4. h = [k \in DOMAIN with |-> [uuid |-> with[k].gpus[i].uuid, model |-> with[k].gpus[i].model]]
    BY DEF HistoryOf
  <1> HIDE DEF with, K
  <1>5. with \in Seq(StoredRow) /\ Picks(with, Ascending(K), rows, K)
    BY <1>1, <1>2, <1>3, AtFacts
  <1>6. DOMAIN with = 1 .. n /\ n \in Nat
    BY <1>5, LenProperties
  <1>7. n # 0
    <2>1. PICK k \in K : TRUE
      BY <1>3
    <2>2. \E l \in 1 .. n : TRUE
      BY <1>5, <2>1 DEF Picks
    <2> QED BY <1>6, <2>2
  <1> HIDE DEF n
  <1>8. n \in Nat \ {0} /\ DOMAIN h = 1 .. n
    BY <1>4, <1>6, <1>7
  <1>9. Len(h) = n
    <2>1. h \in [1 .. n -> {h[k] : k \in 1 .. n}]
      <3>1. h = [k \in 1 .. n |-> h[k]]
        BY <1>4, <1>6
      <3> HIDE DEF h
      <3> QED BY <3>1
    <2> HIDE DEF h
    <2>2. h \in Seq({h[k] : k \in 1 .. n})
      BY <1>8, <2>1
    <2>3. DOMAIN h = 1 .. Len(h) /\ Len(h) \in Nat
      BY <2>2, LenProperties
    <2> QED BY <1>8, <2>3
  <1>10. ids = [k \in ChangesOf(h) |-> [from |-> h[k - 1], to |-> h[k]]]
    BY DEF IdentityChanges, ChangesOf
  <1>11. DOMAIN ids = ChangesOf(h)
    BY <1>10
  <1> HIDE DEF h, ids
  <1>12. LeadFrom(h, n, ids, Ascending(ChangesOf(h)))
    BY <1>8, <1>10, ChangesLead
  <1> QED BY <1>9, <1>11, <1>12 DEF h, ids

-----------------------------------------------------------------------------
\* The interfaces of m that have an address of their own.
Up(m)     == {i \in DOMAIN m.nics : m.nics[i].ip \notin {None, "loopback"}}
NicsOf(m) == IF m.windows THEN WindowsNetwork(m) ELSE LinuxNetwork(m)
Parts(s)  == {s[k] : k \in DOMAIN s}

\* x shows the interface y.
IsNic(x, y) == x.ip = y.ip /\ x.virtual = y.virtual

LEMMA NicTypes ==
    ASSUME NEW m \in Machines
    PROVE  /\ m.nics \in Seq(NicFacts) /\ DOMAIN m.nics = 1 .. Len(m.nics) /\ Len(m.nics) \in Nat
           /\ \A i \in 1 .. Len(m.nics) :
                 /\ m.nics[i] \in NicFacts /\ m.nics[i].virtual \in BOOLEAN
                 /\ m.nics[i].ip # None => m.nics[i].ip # ""
  <1>1. m.nics \in Seq(NicFacts)
    BY DevicesAssumption DEF MachineFacts
  <1>2. DOMAIN m.nics = 1 .. Len(m.nics) /\ Len(m.nics) \in Nat
    BY <1>1, LenProperties
  <1>3. \A i \in 1 .. Len(m.nics) : m.nics[i] \in NicFacts
    BY <1>1, ElementOfSeq
  <1>4. \A nic \in NicFacts : nic.virtual \in BOOLEAN /\ (nic.ip # None => nic.ip # "")
    BY DEF NicFacts
  <1> QED BY <1>1, <1>2, <1>3, <1>4

LEMMA NetworkFacts ==
    ASSUME NEW m \in Machines
    PROVE  /\ NicsOf(m) \in Seq(Parts(NicsOf(m))) /\ Len(NicsOf(m)) \in Nat
           /\ \A k \in 1 .. Len(NicsOf(m)) : \E i \in Up(m) : IsNic(NicsOf(m)[k], m.nics[i])
           /\ \A i \in Up(m) : \E k \in 1 .. Len(NicsOf(m)) : IsNic(NicsOf(m)[k], m.nics[i])
  <1> DEFINE s == m.nics
             U == Up(m)
             a == Addressed(m)
             n == Len(a)
             N == NicsOf(m)
             order == Ascending(U)
  <1>1. s \in Seq(NicFacts) /\ DOMAIN s = 1 .. Len(s) /\ m.windows \in BOOLEAN
    BY NicTypes, CardsOfMachine
  <1>2. a = At(s, U) /\ U \subseteq 1 .. Len(s)
    BY <1>1 DEF Addressed, Where, Up
  <1> HIDE DEF U, a
  <1>3. a \in Seq(NicFacts) /\ Picks(a, order, s, U)
    BY <1>1, <1>2, AtFacts
  <1>4. n \in Nat /\ DOMAIN a = 1 .. n /\ \A k \in 1 .. n : a[k] \in NicFacts
    BY <1>3, LenProperties, ElementOfSeq
  <1>5. /\ \A k \in 1 .. n : order[k] \in U /\ a[k] = s[order[k]]
        /\ \A i \in U : \E k \in 1 .. n : a[k] = s[i]
    BY <1>3 DEF Picks
  <1>6. DOMAIN N = 1 .. n /\ \A k \in 1 .. n : IsNic(N[k], a[k])
    <2>1. CASE ~m.windows
      BY <1>4, <2>1 DEF NicsOf, LinuxNetwork, a, IsNic
    <2>2. CASE m.windows
      <3> DEFINE speed == First(Where(m.nics, LAMBDA x : x.speed # None), [speed |-> None]).speed
      <3>1. N = [i \in DOMAIN a |-> [a[i] EXCEPT !.speed = speed]]
        BY <2>2 DEF NicsOf, WindowsNetwork, a
      <3> HIDE DEF N, speed
      <3>2. \A nic \in NicFacts : IsNic([nic EXCEPT !.speed = speed], nic)
        BY DEF NicFacts, IsNic
      <3>3. DOMAIN N = 1 .. n /\ \A k \in 1 .. n : N[k] = [a[k] EXCEPT !.speed = speed]
        BY <1>4, <3>1
      <3> QED BY <1>4, <3>2, <3>3
    <2> QED BY <1>1, <2>1, <2>2
  <1>7. N \in Seq(Parts(N)) /\ Len(N) = n
    <2>1. N = [k \in 1 .. n |-> N[k]]
      <3>1. CASE ~m.windows
        <4>1. a = [k \in 1 .. n |-> a[k]]
          <5>1. a \in [1 .. n -> NicFacts]
            BY <1>3, LenProperties
          <5> QED BY <5>1
        <4>2. N = a
          BY <3>1 DEF NicsOf, LinuxNetwork, a
        <4> HIDE DEF N
        <4> QED BY <4>1, <4>2
      <3>2. CASE m.windows
        <4> DEFINE speed == First(Where(m.nics, LAMBDA x : x.speed # None), [speed |-> None]).speed
        <4>1. N = [i \in DOMAIN a |-> [a[i] EXCEPT !.speed = speed]]
          BY <3>2 DEF NicsOf, WindowsNetwork, a
        <4> HIDE DEF N, speed
        <4> QED BY <1>4, <4>1
      <3> QED BY <1>1, <3>1, <3>2
    <2> HIDE DEF N
    <2>2. N \in [1 .. n -> Parts(N)]
      <3>1. \A k \in 1 .. n : N[k] \in Parts(N)
        BY <1>6 DEF Parts
      <3> QED BY <2>1, <3>1
    <2>3. N \in Seq(Parts(N))
      BY <1>4, <2>2
    <2>4. DOMAIN N = 1 .. Len(N) /\ Len(N) \in Nat
      BY <2>3, LenProperties
    <2> QED BY <1>4, <1>6, <2>3, <2>4
  <1> HIDE DEF N, order
  <1>8. \A k \in 1 .. n : \E i \in U : IsNic(N[k], s[i])
    BY <1>5, <1>6
  <1>9. \A i \in U : \E k \in 1 .. n : IsNic(N[k], s[i])
    BY <1>5, <1>6
  <1> QED BY <1>4, <1>7, <1>8, <1>9 DEF N, U

\* Which interface the address of the rig is that of.
LEMMA PrimaryNic ==
    ASSUME NEW N, N \in Seq(Parts(N)), Len(N) \in Nat
    PROVE  LET ip == First(Where(N, LAMBDA x : ~x.virtual), First(N, [ip |-> ""])).ip
           IN /\ (\E k \in 1 .. Len(N) : ~N[k].virtual) =>
                     \E k \in 1 .. Len(N) : ~N[k].virtual /\ ip = N[k].ip
              /\ N # <<>> => \E k \in 1 .. Len(N) : ip = N[k].ip
              /\ N = <<>> => ip = ""
  <1> DEFINE P == {k \in DOMAIN N : ~N[k].virtual}
             W == Where(N, LAMBDA x : ~x.virtual)
             order == Ascending(P)
             n == Len(N)
             ip == First(W, First(N, [ip |-> ""])).ip
  <1>1. DOMAIN N = 1 .. n
    BY LenProperties
  <1>2. W = At(N, P) /\ P \subseteq 1 .. n
    BY <1>1 DEF Where
  <1>3. \A k \in 1 .. n : ~N[k].virtual <=> k \in P
    BY <1>1
  <1> HIDE DEF P, W
  <1>4. W \in Seq(Parts(N)) /\ Picks(W, order, N, P)
    <2> DEFINE T == Parts(N)
    <2> HIDE DEF T
    <2>1. N \in Seq(T)
      BY DEF T
    <2>2. At(N, P) \in Seq(T) /\ Picks(At(N, P), Ascending(P), N, P)
      BY <1>2, <2>1, AtFacts
    <2> QED BY <1>2, <2>2 DEF T
  <1>5. CASE W # <<>>
    <2>1. Len(W) \in Nat /\ Len(W) # 0
      BY <1>4, <1>5, LenProperties, EmptySeq
    <2>2. 1 \in 1 .. Len(W)
      BY <2>1
    <2>3. order[1] \in P /\ W[1] = N[order[1]]
      BY <1>4, <2>2 DEF Picks
    <2>4. ip = W[1].ip
      BY <1>5 DEF First
    <2>5. order[1] \in 1 .. n /\ ~N[order[1]].virtual /\ ip = N[order[1]].ip
      BY <1>2, <1>3, <2>3, <2>4
    <2> HIDE DEF ip, order
    <2>6. N # <<>>
      <3>1. n \in Nat /\ n # 0
        BY <2>5
      <3> QED BY <3>1, EmptySeq
    <2>7. \E k \in 1 .. n : ~N[k].virtual /\ ip = N[k].ip
      BY <2>5
    <2>8. \E k \in 1 .. n : ip = N[k].ip
      BY <2>5
    <2> QED BY <2>6, <2>7, <2>8 DEF ip, W
  <1>6. CASE W = <<>>
    <2>1. Len(W) = 0
      BY <1>6, EmptySeq
    <2>2. P = {}
      BY <1>4, <2>1 DEF Picks
    <2>3. ip = First(N, [ip |-> ""]).ip
      BY <1>6 DEF First
    <2>4. CASE N = <<>>
      <3>1. ip = ""
        BY <2>3, <2>4 DEF First
      <3> HIDE DEF ip
      <3> QED BY <1>3, <2>2, <2>4, <3>1 DEF ip, W
    <2>5. CASE N # <<>>
      <3>1. ip = N[1].ip
        BY <2>3, <2>5 DEF First
      <3>2. 1 \in 1 .. n
        BY <2>5, EmptySeq, LenProperties
      <3> HIDE DEF ip
      <3>3. \E k \in 1 .. n : ip = N[k].ip
        BY <3>1, <3>2
      <3> QED BY <1>3, <2>2, <2>5, <3>3 DEF ip, W
    <2> QED BY <2>4, <2>5
  <1> QED BY <1>5, <1>6

LEMMA PhysicalIp == DevicesInv => PrimaryIpIsPhysical
  <1> SUFFICES ASSUME DevicesInv, latest # None
               PROVE  /\ (PrimaryIp = "") = (Up(source) = {})
                      /\ (\E i \in Up(source) : ~source.nics[i].virtual) =>
                           \E i \in Up(source) : ~source.nics[i].virtual /\ source.nics[i].ip = PrimaryIp
    BY DEF PrimaryIpIsPhysical, Up
  <1>1. source \in Machines /\ \E log, t : latest = Snapshot(PayloadOf(source, log, t))
    BY DEF DevicesInv, SnapshotOfSource
  <1>2. PICK log, t : latest = Snapshot(PayloadOf(source, log, t))
    BY <1>1
  <1> DEFINE N == NicsOf(source)
             n == Len(N)
             s == source.nics
             U == Up(source)
  <1>3. latest.rest.nics = N
    <2>1. latest.rest = PayloadOf(source, log, t)
      BY <1>2 DEF Snapshot
    <2>2. PayloadOf(source, log, t).nics = N
      BY <1>1, PayloadSections DEF NicsOf
    <2> QED BY <2>1, <2>2
  <1>4. PrimaryIp = First(Where(N, LAMBDA x : ~x.virtual), First(N, [ip |-> ""])).ip
    BY <1>3 DEF PrimaryIp
  <1>5. /\ N \in Seq(Parts(N)) /\ n \in Nat
        /\ \A k \in 1 .. n : \E i \in U : IsNic(N[k], s[i])
        /\ \A i \in U : \E k \in 1 .. n : IsNic(N[k], s[i])
    BY <1>1, NetworkFacts
  <1>6. \A i \in U : s[i].ip # ""
    <2>1. \A i \in U : i \in DOMAIN s /\ s[i].ip # None
      BY DEF Up
    <2>2. \A i \in DOMAIN s : s[i].ip # None => s[i].ip # ""
      BY <1>1, NicTypes
    <2> QED BY <2>1, <2>2
  <1> HIDE DEF N, U, s
  <1>7. /\ (\E k \in 1 .. n : ~N[k].virtual) => \E k \in 1 .. n : ~N[k].virtual /\ PrimaryIp = N[k].ip
        /\ N # <<>> => \E k \in 1 .. n : PrimaryIp = N[k].ip
        /\ N = <<>> => PrimaryIp = ""
    BY <1>4, <1>5, PrimaryNic
  <1>8. N = <<>> <=> U = {}
    <2>1. N = <<>> <=> n = 0
      BY <1>5, EmptySeq
    <2>2. n = 0 => U = {}
      BY <1>5
    <2>3. U = {} => n = 0
      <3>1. 1 \in 1 .. n => \E i \in U : TRUE
        BY <1>5
      <3>2. n # 0 => 1 \in 1 .. n
        BY <1>5
      <3> QED BY <3>1, <3>2
    <2> QED BY <2>1, <2>2, <2>3
  <1>9. U # {} => PrimaryIp # ""
    <2> SUFFICES ASSUME U # {} PROVE PrimaryIp # ""
      OBVIOUS
    <2>1. PICK k \in 1 .. n : PrimaryIp = N[k].ip
      BY <1>7, <1>8
    <2>2. PICK i \in U : IsNic(N[k], s[i])
      BY <1>5
    <2> QED BY <1>6, <2>1, <2>2 DEF IsNic
  <1>10. (\E i \in U : ~s[i].virtual) => \E i \in U : ~s[i].virtual /\ s[i].ip = PrimaryIp
    <2> SUFFICES ASSUME NEW j \in U, ~s[j].virtual PROVE \E i \in U : ~s[i].virtual /\ s[i].ip = PrimaryIp
      OBVIOUS
    <2>1. PICK l \in 1 .. n : IsNic(N[l], s[j])
      BY <1>5
    <2>2. ~N[l].virtual
      BY <2>1 DEF IsNic
    <2>3. PICK k \in 1 .. n : ~N[k].virtual /\ PrimaryIp = N[k].ip
      BY <1>7, <2>2
    <2>4. PICK i \in U : IsNic(N[k], s[i])
      BY <1>5
    <2> QED BY <2>3, <2>4 DEF IsNic
  <1>11. (PrimaryIp = "") = (U = {})
    BY <1>7, <1>8, <1>9
  <1> QED BY <1>10, <1>11 DEF U, s

-----------------------------------------------------------------------------
LEMMA RankedList ==
    ASSUME NEW S, NEW R, IsFiniteSet(S), StrictOrder(S, R)
    PROVE  /\ Ranked(S, R) \in Seq(S) /\ Len(Ranked(S, R)) = Cardinality(S)
           /\ ToSet(Ranked(S, R)) = S
  <1> DEFINE at(k) == CHOOSE x \in S : Cardinality({y \in S : <<y, x>> \in R}) = k - 1
             c == Cardinality(S)
             list == Ranked(S, R)
  <1>1. list = [k \in 1 .. c |-> at(k)]
    BY DEF Ranked
  <1>2. c \in Nat /\ DOMAIN list = 1 .. c /\ (\A k \in 1 .. c : list[k] \in S)
        /\ \A x \in S : \E k \in 1 .. c : list[k] = x
    BY Ranking
  <1> HIDE DEF at, c, list
  <1>3. list = [k \in 1 .. c |-> list[k]]
    BY <1>1
  <1>4. list \in [1 .. c -> S]
    BY <1>2, <1>3
  <1>5. list \in Seq(S) /\ Len(list) = c
    BY <1>2, <1>4
  <1>6. ToSet(list) = S
    BY <1>2 DEF ToSet
  <1> QED BY <1>5, <1>6 DEF list, c

\* The part of a ranking that a page shows, cut twice.
ShownOf(S, R) == Cut(Cut(Ranked(S, R), TopLimit), Shown)

LEMMA ShownFirst ==
    ASSUME NEW S, NEW R, IsFiniteSet(S), StrictOrder(S, R)
    PROVE  /\ ToSet(ShownOf(S, R)) \subseteq S
           /\ \A x \in S : Cardinality(Ahead(S, R, x)) < Shown => x \in ToSet(ShownOf(S, R))
  <1> DEFINE list == Ranked(S, R)
             top == Cut(list, TopLimit)
             first == Cut(top, Shown)
             c == Cardinality(S)
  <1>1. TopLimit \in Nat /\ Shown \in Nat /\ Shown <= TopLimit
    BY CollectorsAssumption, DevicesAssumption
  <1>2. list \in Seq(S) /\ Len(list) = c /\ c \in Nat
    BY RankedList, FS_CardinalityType
  <1>3. /\ \A x \in S : \E k \in 1 .. c : list[k] = x
        /\ \A k \in 1 .. c : Cardinality(Ahead(S, R, list[k])) = k - 1
    BY Ranking
  <1> HIDE DEF list, c
  <1>4. /\ top \in Seq(S) /\ Len(top) = (IF c <= TopLimit THEN c ELSE TopLimit)
        /\ \A k \in 1 .. Len(top) : top[k] = list[k]
    BY <1>1, <1>2, CutFacts
  <1> HIDE DEF top
  <1>5. /\ first \in Seq(S) /\ Len(first) = (IF Len(top) <= Shown THEN Len(top) ELSE Shown)
        /\ \A k \in 1 .. Len(first) : first[k] = top[k]
    BY <1>1, <1>4, CutFacts
  <1> HIDE DEF first
  <1>6. ToSet(first) \subseteq S /\ \A k \in 1 .. Len(first) : first[k] \in ToSet(first)
    BY <1>5, ToSetFacts
  <1>7. ASSUME NEW x \in S, Cardinality(Ahead(S, R, x)) < Shown PROVE x \in ToSet(first)
    <2>1. PICK k \in 1 .. c : list[k] = x
      BY <1>3
    <2>2. k - 1 < Shown
      BY <1>3, <1>7, <2>1
    <2>3. k \in 1 .. Len(top) /\ k \in 1 .. Len(first)
      BY <1>1, <1>2, <1>4, <1>5, <2>2
    <2>4. first[k] = x
      BY <1>4, <1>5, <2>1, <2>3
    <2> QED BY <1>6, <2>3, <2>4
  <1> QED BY <1>6, <1>7 DEF ShownOf, first, top, list

LEMMA ProcTypes ==
    ASSUME NEW m \in Machines
    PROVE  /\ IsFiniteSet(m.procs) /\ \A p, q \in m.procs : p.pid = q.pid => p = q
           /\ \A p \in m.procs : p.pid \in Nat /\ p.cpu \in Nat /\ p.mem \in Nat /\ p.cmdline \in BOOLEAN
  <1>1. /\ m.procs \in SUBSET ProcFacts /\ IsFiniteSet(m.procs)
        /\ \A p, q \in m.procs : p.pid = q.pid => p = q
    BY DevicesAssumption DEF MachineFacts
  <1>2. \A p \in ProcFacts : p.pid \in Nat /\ p.cpu \in Nat /\ p.mem \in Nat /\ p.cmdline \in BOOLEAN
    BY DEF ProcFacts
  <1> QED BY <1>1, <1>2

\* The orders of the two lists of a payload and of the table.
ByCpu(S)  == {p \in S \X S : p[1].cpu > p[2].cpu \/ (p[1].cpu = p[2].cpu /\ p[1].pid < p[2].pid)}
ByMem(S)  == {p \in S \X S : p[1].mem > p[2].mem \/ (p[1].mem = p[2].mem /\ p[1].pid < p[2].pid)}
ByLoad(S) == {p \in S \X S : \/ p[1].cpu > p[2].cpu
                             \/ p[1].cpu = p[2].cpu /\ p[1].mem > p[2].mem
                             \/ p[1].cpu = p[2].cpu /\ p[1].mem = p[2].mem /\ p[1].pid < p[2].pid}

LEMMA LoadOrders ==
    ASSUME NEW S, \A p, q \in S : p.pid = q.pid => p = q,
           \A p \in S : p.pid \in Nat /\ p.cpu \in Nat /\ p.mem \in Nat
    PROVE  StrictOrder(S, ByCpu(S)) /\ StrictOrder(S, ByMem(S)) /\ StrictOrder(S, ByLoad(S))
  <1>1. \A x, y \in S : x # y => x.pid < y.pid \/ y.pid < x.pid
    OBVIOUS
  <1>2. \A x, y \in S : /\ x.cpu > y.cpu \/ x.cpu = y.cpu \/ y.cpu > x.cpu
                        /\ x.mem > y.mem \/ x.mem = y.mem \/ y.mem > x.mem
    OBVIOUS
  <1>3. StrictOrder(S, ByCpu(S))
    <2> DEFINE R == ByCpu(S)
    <2>1. \A x, y \in S : <<x, y>> \in R <=> (x.cpu > y.cpu \/ (x.cpu = y.cpu /\ x.pid < y.pid))
      BY DEF ByCpu
    <2> HIDE DEF R
    <2>2. \A x \in S : <<x, x>> \notin R
      BY <2>1
    <2>3. \A x, y \in S : x # y => <<x, y>> \in R \/ <<y, x>> \in R
      BY <1>1, <1>2, <2>1
    <2>4. \A x, y, z \in S : <<x, y>> \in R /\ <<y, z>> \in R => <<x, z>> \in R
      BY <2>1
    <2> QED BY <2>2, <2>3, <2>4 DEF StrictOrder, R
  <1>4. StrictOrder(S, ByMem(S))
    <2> DEFINE R == ByMem(S)
    <2>1. \A x, y \in S : <<x, y>> \in R <=> (x.mem > y.mem \/ (x.mem = y.mem /\ x.pid < y.pid))
      BY DEF ByMem
    <2> HIDE DEF R
    <2>2. \A x \in S : <<x, x>> \notin R
      BY <2>1
    <2>3. \A x, y \in S : x # y => <<x, y>> \in R \/ <<y, x>> \in R
      BY <1>1, <1>2, <2>1
    <2>4. \A x, y, z \in S : <<x, y>> \in R /\ <<y, z>> \in R => <<x, z>> \in R
      BY <2>1
    <2> QED BY <2>2, <2>3, <2>4 DEF StrictOrder, R
  <1>5. StrictOrder(S, ByLoad(S))
    <2> DEFINE R == ByLoad(S)
    <2>1. \A x, y \in S : <<x, y>> \in R <=>
             \/ x.cpu > y.cpu
             \/ x.cpu = y.cpu /\ x.mem > y.mem
             \/ x.cpu = y.cpu /\ x.mem = y.mem /\ x.pid < y.pid
      BY DEF ByLoad
    <2> HIDE DEF R
    <2>2. \A x \in S : <<x, x>> \notin R
      BY <2>1
    <2>3. \A x, y \in S : x # y => <<x, y>> \in R \/ <<y, x>> \in R
      BY <1>1, <1>2, <2>1
    <2>4. \A x, y, z \in S : <<x, y>> \in R /\ <<y, z>> \in R => <<x, z>> \in R
      BY <2>1
    <2> QED BY <2>2, <2>3, <2>4 DEF StrictOrder, R
  <1> QED BY <1>3, <1>4, <1>5

LEMMA ProcessTable == DevicesInv => ProcessesOnce
  <1> SUFFICES ASSUME DevicesInv, latest # None
               PROVE  /\ \A i, j \in DOMAIN ProcessDetails :
                            ProcessDetails[i].pid = ProcessDetails[j].pid => i = j
                      /\ \A p \in source.procs :
                           /\ p \in ToSet(ProcessDetails) => p.cmdline
                           /\ p.cmdline /\ Cardinality({q \in source.procs : q # p /\ q.cpu >= p.cpu}) < Shown =>
                                 p \in ToSet(ProcessDetails)
                           /\ p.cmdline /\ Cardinality({q \in source.procs : q # p /\ q.mem >= p.mem}) < Shown =>
                                 p \in ToSet(ProcessDetails)
    BY DEF ProcessesOnce
  <1>1. source \in Machines /\ \E log, t : latest = Snapshot(PayloadOf(source, log, t))
    BY DEF DevicesInv, SnapshotOfSource
  <1>2. PICK log, t : latest = Snapshot(PayloadOf(source, log, t))
    BY <1>1
  <1> DEFINE S == source.procs
             cpu == ToSet(ShownOf(S, ByCpu(S)))
             mem == ToSet(ShownOf(S, ByMem(S)))
             K == {p \in cpu \cup mem : p.cmdline}
             details == ProcessDetails
  <1>3. /\ IsFiniteSet(S) /\ \A p, q \in S : p.pid = q.pid => p = q
        /\ \A p \in S : p.pid \in Nat /\ p.cpu \in Nat /\ p.mem \in Nat /\ p.cmdline \in BOOLEAN
    BY <1>1, ProcTypes
  <1>4. latest.rest.procs = LinuxTopProcesses(source)
    <2>1. latest.rest = PayloadOf(source, log, t)
      BY <1>2 DEF Snapshot
    <2> QED BY <1>1, <2>1, PayloadSections
  <1>5. /\ cpu = ToSet(Cut(latest.rest.procs.byCpu, Shown))
        /\ mem = ToSet(Cut(latest.rest.procs.byMem, Shown))
    BY <1>4 DEF LinuxTopProcesses, Sorted, ByCpu, ByMem, ShownOf
  <1>6. details = Ranked(K, ByLoad(K))
    BY <1>5 DEF ProcessDetails, Sorted, ByLoad
  <1>7. StrictOrder(S, ByCpu(S)) /\ StrictOrder(S, ByMem(S))
    <2> HIDE DEF S
    <2> QED BY <1>3, LoadOrders
  <1>8. /\ cpu \subseteq S /\ mem \subseteq S
        /\ \A p \in S : /\ Cardinality(Ahead(S, ByCpu(S), p)) < Shown => p \in cpu
                        /\ Cardinality(Ahead(S, ByMem(S), p)) < Shown => p \in mem
    <2> HIDE DEF S
    <2> QED BY <1>3, <1>7, ShownFirst
  <1> HIDE DEF cpu, mem, details
  <1>9. K \in SUBSET S /\ IsFiniteSet(K) /\ \A p \in K : p.cmdline
    <2>1. K \in SUBSET S /\ \A p \in K : p.cmdline
      BY <1>8
    <2> HIDE DEF K
    <2> QED BY <1>3, <2>1, FS_Subset
  <1>10. \A p \in S : p.cmdline /\ (p \in cpu \/ p \in mem) => p \in K
    OBVIOUS
  <1> HIDE DEF K, S
  <1>11. StrictOrder(K, ByLoad(K))
    BY <1>3, <1>9, LoadOrders
  <1>12. ToSet(details) = K /\ Len(details) = Cardinality(K) /\ details \in Seq(K)
    BY <1>6, <1>9, <1>11, RankedList
  <1>13. DOMAIN details = 1 .. Cardinality(K) /\ Cardinality(K) \in Nat
    BY <1>9, <1>12, LenProperties, FS_CardinalityType
  <1>14. ASSUME NEW i \in DOMAIN details, NEW j \in DOMAIN details, details[i].pid = details[j].pid
         PROVE  i = j
    <2>1. details[i] \in K /\ details[j] \in K
      BY <1>12, <1>13, ElementOfSeq
    <2>2. details[i] = details[j]
      BY <1>3, <1>9, <1>14, <2>1
    <2>3. \A k, l \in 1 .. Cardinality(K) : k < l => <<details[k], details[l]>> \in ByLoad(K)
      BY <1>6, <1>9, <1>11, Ranking
    <2>4. <<details[i], details[i]>> \notin ByLoad(K)
      BY <1>11, <2>1 DEF StrictOrder
    <2>5. ~(i < j) /\ ~(j < i)
      BY <1>13, <2>2, <2>3, <2>4
    <2>6. i \in Int /\ j \in Int
      BY <1>13
    <2> QED BY <2>5, <2>6
  <1>15. ASSUME NEW p \in S
         PROVE  /\ Cardinality({q \in S : q # p /\ q.cpu >= p.cpu}) < Shown => p \in cpu
                /\ Cardinality({q \in S : q # p /\ q.mem >= p.mem}) < Shown => p \in mem
    <2> DEFINE A == Ahead(S, ByCpu(S), p)
               B == {q \in S : q # p /\ q.cpu >= p.cpu}
               C == Ahead(S, ByMem(S), p)
               D == {q \in S : q # p /\ q.mem >= p.mem}
    <2>1. A \in SUBSET B /\ C \in SUBSET D
      <3>1. \A q \in S : <<q, p>> \in ByCpu(S) => q # p /\ q.cpu >= p.cpu
        BY <1>3 DEF ByCpu
      <3>2. \A q \in S : <<q, p>> \in ByMem(S) => q # p /\ q.mem >= p.mem
        BY <1>3 DEF ByMem
      <3> QED BY <3>1, <3>2 DEF Ahead
    <2>2. B \in SUBSET S /\ D \in SUBSET S
      OBVIOUS
    <2> HIDE DEF A, B, C, D
    <2>3. IsFiniteSet(B) /\ IsFiniteSet(D)
      BY <1>3, <2>2, FS_Subset
    <2>4. Cardinality(A) <= Cardinality(B) /\ Cardinality(C) <= Cardinality(D)
      BY <2>1, <2>3, FS_Subset
    <2>5. Cardinality(A) \in Nat /\ Cardinality(B) \in Nat /\ Cardinality(C) \in Nat /\ Cardinality(D) \in Nat
      <3>1. IsFiniteSet(A) /\ IsFiniteSet(C)
        BY <2>1, <2>3, FS_Subset
      <3> QED BY <2>3, <3>1, FS_CardinalityType
    <2>6. Shown \in Nat
      BY CollectorsAssumption, DevicesAssumption
    <2>7. (Cardinality(A) < Shown => p \in cpu) /\ (Cardinality(C) < Shown => p \in mem)
      BY <1>8 DEF A, C
    <2>8. /\ Cardinality(B) < Shown => Cardinality(A) < Shown
          /\ Cardinality(D) < Shown => Cardinality(C) < Shown
      BY <2>4, <2>5, <2>6
    <2> QED BY <2>7, <2>8 DEF B, D
  <1> QED BY <1>9, <1>10, <1>12, <1>14, <1>15 DEF S, details

-----------------------------------------------------------------------------
(***************************************************************************)
(* The payload.                                                            *)
(***************************************************************************)

\* The sections of the newest snapshot and what they were made of.
LEMMA LatestSections ==
    ASSUME DevicesInv, latest # None
    PROVE  LET m == source
           IN /\ m \in Machines /\ latest.count = Len(GpusOf(m)) /\ latest.arrays = Arrays(GpusOf(m))
              /\ latest.rest.power = IF m.windows THEN WindowsPower(m) ELSE LinuxPower(m)
              /\ latest.rest.cores = IF m.windows THEN WindowsCoreTemps(m) ELSE LinuxCoreTemps(m)
              /\ latest.rest.cpuTemp = IF m.windows THEN WindowsCpuTemp(m) ELSE LinuxCpuTemp(m)
              /\ latest.rest.disks = IF m.windows THEN WindowsStorage(m) ELSE LinuxStorage(m)
  <1>1. source \in Machines /\ \E log, t : latest = Snapshot(PayloadOf(source, log, t))
    BY DEF DevicesInv, SnapshotOfSource
  <1>2. PICK log, t : latest = Snapshot(PayloadOf(source, log, t))
    BY <1>1
  <1> DEFINE p == PayloadOf(source, log, t)
  <1>3. latest.rest = p /\ latest.count = Len(p.gpus) /\ latest.arrays = Arrays(p.gpus)
    <2> HIDE DEF p
    <2> QED BY <1>2 DEF Snapshot, p
  <1>4. p.gpus = GpusOf(source)
    BY <1>1, PayloadSections
  <1> QED BY <1>1, <1>3, <1>4, PayloadSections

LEMMA ModOnce ==
    ASSUME NEW a \in Nat, NEW r \in Nat, 0 < r, a < r + r
    PROVE  a % r = IF a < r THEN a ELSE a - r
  <1> DEFINE q == a \div r
             m == a % r
  <1>1. q \in Int /\ m \in 0 .. r - 1 /\ a = (r * q) + m
    OBVIOUS
  <1> HIDE DEF q, m
  <1>2. q < 0 => r * q <= -r
    BY <1>1
  <1>3. q > 1 => r * q >= r + r
    BY <1>1
  <1>4. q = 0 \/ q = 1
    BY <1>1, <1>2, <1>3
  <1>5. q = 0 => r * q = 0
    BY <1>1
  <1>6. q = 1 => r * q = r
    BY <1>1
  <1> QED BY <1>1, <1>4, <1>5, <1>6 DEF m

\* An energy counter that wraps once says what was used.
LEMMA RaplUsed ==
    ASSUME NEW rapl, RaplFacts(rapl), rapl # None, RaplPower(rapl) # None
    PROVE  RaplPower(rapl) = rapl.used
  <1> DEFINE s == rapl.start
             u == rapl.used
             r == rapl.range
             e == rapl.end
  <1>1. r \in Nat /\ s \in 0 .. r - 1 /\ u \in 0 .. r - 1 /\ e = (s + u) % r
    BY DEF RaplFacts
  <1>2. RaplPower(rapl) = (IF e < s THEN e + r ELSE e) - s
    BY DEF RaplPower
  <1> HIDE DEF s, u, r, e
  <1>3. s + u \in Nat /\ 0 < r /\ s + u < r + r
    BY <1>1
  <1>4. e = IF s + u < r THEN s + u ELSE (s + u) - r
    BY <1>1, <1>3, ModOnce
  <1>5. (IF e < s THEN e + r ELSE e) - s = u
    BY <1>1, <1>4
  <1> QED BY <1>2, <1>5 DEF u

WattsOf(cards) == [i \in 1 .. Len(cards) |-> cards[i].power]
Summed(cards)  == {i \in DOMAIN cards : \A j \in 1..i : ~cards[j].lost /\ "power" \notin cards[j].mute}

LEMMA PowerSum ==
    ASSUME NEW m \in Machines
    PROVE  /\ Summed(m.cards) \in SUBSET (1 .. Len(m.cards)) /\ Weights(WattsOf(m.cards), 1 .. Len(m.cards))
           /\ GpuPower(m.cards) = SumOf(WattsOf(m.cards), Summed(m.cards))
  <1> DEFINE c == m.cards
             n == Len(c)
             S == Summed(c)
             w == WattsOf(c)
             Is(g) == g = [s \in SUBSET S |->
                              IF s = {} THEN 0 ELSE c[Taken(s)].power + g[s \ {Taken(s)}]]
             z == CHOOSE g : Is(g)
  <1>1. n \in Nat /\ DOMAIN c = 1 .. n /\ \A i \in 1 .. n : c[i].power \in Nat
    BY CardsOfMachine
  <1> HIDE DEF c
  <1>2. GpuPower(c) = z[S]
    <2>1. GpuPower(c) = MapThenSumSet(LAMBDA i : c[i].power, S)
      BY DEF GpuPower, Summed
    <2> HIDE DEF S
    <2> QED BY <2>1 DEF MapThenSumSet, MapThenFoldSet, Taken
  <1>3. S \in SUBSET (1 .. n)
    BY <1>1 DEF Summed
  <1>4. \A i \in 1 .. n : w[i] = c[i].power /\ w[i] \in Nat
    BY <1>1 DEF WattsOf
  <1> HIDE DEF S, w
  <1>5. IsFiniteSet(1 .. n)
    BY <1>1, FS_Interval
  <1>6. Weights(w, 1 .. n) /\ Weights(w, S)
    <2>1. IsFiniteSet(S)
      BY <1>3, <1>5, FS_Subset
    <2> QED BY <1>3, <1>4, <1>5, <2>1 DEF Weights
  <1>7. \A s \in SUBSET S : s # {} => w[Taken(s)] = c[Taken(s)].power
    BY <1>3, <1>4 DEF Taken
  <1>8. PICK g : Adds(g, S, w) /\ SumOf(w, S) = g[S]
    BY <1>6, SumIs
  <1>9. Is(g)
    BY <1>7, <1>8 DEF Adds
  <1>10. Is(z)
    <2> HIDE DEF Is
    <2> QED BY <1>9
  <1> HIDE DEF z
  <1>11. Adds(z, S, w)
    BY <1>7, <1>10 DEF Adds
  <1>12. z[S] = g[S]
    <2>1. S \in SUBSET S /\ IsFiniteSet(S)
      BY <1>6 DEF Weights
    <2> QED BY <1>8, <1>11, <2>1, AddsAgree
  <1> QED BY <1>2, <1>3, <1>6, <1>8, <1>12 DEF c, S, w

LEMMA PowerTotals == DevicesInv => PowerAddsUp
  <1> SUFFICES ASSUME DevicesInv, latest # None
               PROVE  LET power  == latest.rest.power
                          powers == latest.arrays.powers
                          sum    == SumOf(powers, {i \in DOMAIN powers : powers[i] # None})
                      IN  /\ latest.count > 0 => power.gpu <= sum
                          /\ latest.count > 0 /\ (\A i \in DOMAIN powers : powers[i] # None) => power.gpu = sum
                          /\ power.source = "rapl" => power.cpu = 10 * source.rapl.used
    BY DEF PowerAddsUp, SumOf
  <1> DEFINE power == latest.rest.power
             a == latest.arrays
             v == a.powers
             K == {i \in DOMAIN v : v[i] # None}
             c == source.cards
             n == Len(c)
             w == WattsOf(c)
             S == Summed(c)
             g == GpusOf(source)
  <1>1. /\ source \in Machines /\ latest.count = Len(g) /\ latest.arrays = Arrays(g)
        /\ power = IF source.windows THEN WindowsPower(source) ELSE LinuxPower(source)
    BY LatestSections
  <1>2. g \in Seq(Entry) /\ OfCards(source, g)
    BY <1>1, GpusFacts
  <1>3. /\ n \in Nat /\ DOMAIN c = 1 .. n /\ \A i \in 1 .. n : c[i].power \in Nat
    BY <1>1, CardsOfMachine
  <1>4. power.gpu = GpuPower(c)
    BY <1>1 DEF WindowsPower, LinuxPower
  <1>5. power.source = "rapl" => power.cpu = 10 * source.rapl.used
    <2> SUFFICES ASSUME power.source = "rapl" PROVE power.cpu = 10 * source.rapl.used
      OBVIOUS
    <2>1. ~source.windows
      BY <1>1 DEF WindowsPower
    <2>2. power = LinuxPower(source)
      BY <1>1, <2>1
    <2> HIDE DEF power
    <2>3. RaplPower(source.rapl) # None /\ power.cpu = 10 * RaplPower(source.rapl)
      BY <2>2 DEF LinuxPower
    <2>4. source.rapl # None
      BY <2>3 DEF RaplPower
    <2>5. RaplFacts(source.rapl)
      BY <1>1, <2>4, DevicesAssumption DEF MachineFacts
    <2>6. RaplPower(source.rapl) = source.rapl.used
      BY <2>3, <2>4, <2>5, RaplUsed
    <2> QED BY <2>3, <2>6
  <1>6. ASSUME latest.count > 0
        PROVE  power.gpu <= SumOf(v, K) /\ ((\A i \in DOMAIN v : v[i] # None) => power.gpu = SumOf(v, K))
    <2>1. /\ S \in SUBSET (1 .. n) /\ Weights(w, 1 .. n)
          /\ GpuPower(c) = SumOf(w, S)
      BY <1>1, PowerSum
    <2> HIDE DEF g
    <2>2. g # <<>>
      BY <1>1, <1>6, EmptySeq
    <2>3. /\ DOMAIN g = 1 .. n
          /\ \A i \in 1 .. n : ~c[i].lost /\ g[i].power = Optional(c[i], "power", c[i].power)
      BY <1>2, <2>2 DEF OfCards
    <2>4. DOMAIN v = 1 .. n /\ \A i \in 1 .. n : v[i] = g[i].power
      <3>1. a = Arrays(g)
        BY <1>1
      <3> HIDE DEF a
      <3>2. DOMAIN v = DOMAIN g
        BY <3>1 DEF Arrays
      <3>3. \A i \in DOMAIN g : v[i] = g[i].power
        BY <3>1 DEF Arrays
      <3> HIDE DEF v
      <3> QED BY <2>3, <3>2, <3>3
    <2>5. \A i \in 1 .. n : v[i] = None <=> "power" \in c[i].mute
      BY <1>3, <2>3, <2>4, CollectorsAssumption DEF Optional
    <2>6. \A i \in 1 .. n : v[i] # None => v[i] = w[i]
      BY <1>3, <2>3, <2>4 DEF Optional, WattsOf
    <2>7. \A i \in 1 .. n : (\A j \in 1 .. i : "power" \notin c[j].mute) => i \in S
      <3>1. \A i \in 1 .. n : \A j \in 1 .. i : j \in 1 .. n
        BY <1>3
      <3> QED BY <1>3, <2>3, <3>1 DEF Summed
    <2>8. \A i \in S : "power" \notin c[i].mute
      <3>1. \A i \in S : i \in 1 .. i
        BY <1>3, <2>1
      <3> QED BY <3>1 DEF Summed
    <2>9. K = {i \in 1 .. n : v[i] # None}
      BY <2>4
    <2> HIDE DEF S, w, v, K
    <2>10. S \in SUBSET K /\ K \in SUBSET (1 .. n)
      BY <2>1, <2>5, <2>8, <2>9
    <2>11. Weights(v, K) /\ Weights(w, K) /\ Weights(w, S)
      <3>1. IsFiniteSet(K) /\ IsFiniteSet(S)
        BY <2>1, <2>10, FS_Subset DEF Weights
      <3>2. \A i \in 1 .. n : w[i] \in Nat
        BY <2>1 DEF Weights
      <3>3. \A i \in K : v[i] = w[i] /\ w[i] \in Nat
        BY <2>6, <2>9, <3>2
      <3>4. \A i \in S : w[i] \in Nat
        BY <2>1, <3>2
      <3> QED BY <3>1, <3>3, <3>4 DEF Weights
    <2>12. \A i \in S : w[i] \in Nat /\ w[i] <= v[i]
      <3>1. \A i \in S : w[i] = v[i] /\ w[i] \in Nat
        BY <2>6, <2>9, <2>10, <2>11 DEF Weights
      <3>2. \A x, y : x \in Nat /\ x = y => x <= y
        OBVIOUS
      <3> QED BY <3>1, <3>2
    <2>13. SumOf(w, S) <= SumOf(v, K)
      BY <2>10, <2>11, <2>12, SumGrows
    <2>14. ASSUME \A i \in 1 .. n : v[i] # None PROVE SumOf(w, S) = SumOf(v, K)
      <3>1. K = 1 .. n /\ S = 1 .. n
        <4>1. \A i \in 1 .. n : \A j \in 1 .. i : "power" \notin c[j].mute
          <5>1. \A i \in 1 .. n : \A j \in 1 .. i : j \in 1 .. n
            BY <1>3
          <5> QED BY <2>5, <2>14, <5>1
        <4>2. 1 .. n \subseteq S
          BY <2>7, <4>1
        <4> QED BY <2>1, <2>9, <2>14, <4>2
      <3>2. \A i \in K : v[i] \in Nat /\ v[i] <= w[i]
        <4>1. \A i \in K : w[i] = v[i] /\ v[i] \in Nat
          BY <2>6, <2>9, <2>11 DEF Weights
        <4>2. \A x, y : x \in Nat /\ x = y => x <= y
          OBVIOUS
        <4> QED BY <4>1, <4>2
      <3>3. SumOf(v, K) <= SumOf(w, K)
        <4>1. K \in SUBSET K
          OBVIOUS
        <4> QED BY <2>11, <3>2, <4>1, SumGrows
      <3>4. SumOf(v, K) \in Nat /\ SumOf(w, K) \in Nat
        BY <2>11, SumFacts
      <3> HIDE DEF n
      <3>5. SumOf(w, K) <= SumOf(v, K)
        BY <2>13, <3>1
      <3> QED BY <3>1, <3>3, <3>4, <3>5
    <2> QED BY <1>4, <2>1, <2>4, <2>13, <2>14
  <1> QED BY <1>5, <1>6

-----------------------------------------------------------------------------
LEMMA SensorTypes ==
    ASSUME NEW m \in Machines
    PROVE  /\ m.sensors \in Seq(SensorFacts) /\ DOMAIN m.sensors = 1 .. Len(m.sensors)
           /\ \A i \in 1 .. Len(m.sensors) : m.sensors[i].temp # None => m.sensors[i].temp \in Int
           /\ m.logical \in Nat
  <1>1. m.sensors \in Seq(SensorFacts) /\ m.logical \in Nat
    BY DevicesAssumption DEF MachineFacts
  <1>2. DOMAIN m.sensors = 1 .. Len(m.sensors)
    BY <1>1, LenProperties
  <1>3. \A i \in 1 .. Len(m.sensors) : m.sensors[i] \in SensorFacts
    BY <1>1, ElementOfSeq
  <1>4. \A r \in SensorFacts : r.temp # None => r.temp \in Int
    BY DEF SensorFacts
  <1> QED BY <1>1, <1>2, <1>3, <1>4

\* The places of the known readings of the two chips that are looked at first.
Preferred(m) == {i \in DOMAIN m.sensors :
                   m.sensors[i].temp # None /\ m.sensors[i].chip \in {"coretemp", "k10temp"}}

LEMMA HottestPreferred ==
    ASSUME NEW m \in Machines, NEW i \in Preferred(m)
    PROVE  LinuxCpuTemp(m) >= m.sensors[i].temp
  <1> DEFINE s == m.sensors
             I == Preferred(m)
             p == Readings(m, LAMBDA r : r.chip \in {"coretemp", "k10temp"})
             T == TempsOf(p)
  <1>1. s \in Seq(SensorFacts) /\ DOMAIN s = 1 .. Len(s) /\ \A j \in 1 .. Len(s) : s[j].temp # None => s[j].temp \in Int
    BY SensorTypes
  <1>2. p = At(s, I) /\ I \subseteq 1 .. Len(s) /\ \A j \in I : s[j].temp \in Int
    BY <1>1 DEF Readings, Where, Preferred
  <1>3. p # <<>> => LinuxCpuTemp(m) = Largest(T)
    BY DEF LinuxCpuTemp
  <1> HIDE DEF I, p
  <1>4. p \in Seq(SensorFacts) /\ Picks(p, Ascending(I), s, I)
    BY <1>1, <1>2, AtFacts
  <1>5. DOMAIN p = 1 .. Len(p) /\ Len(p) \in Nat
    BY <1>4, LenProperties
  <1>6. /\ \A k \in 1 .. Len(p) : \E j \in I : p[k] = s[j]
        /\ \A j \in I : \E k \in 1 .. Len(p) : p[k] = s[j]
    BY <1>4 DEF Picks
  <1>7. PICK k \in 1 .. Len(p) : p[k] = s[i]
    BY <1>6 DEF I
  <1>8. p # <<>>
    BY <1>5, <1>7, EmptySeq
  <1>9. s[i].temp \in T
    BY <1>5, <1>7 DEF TempsOf
  <1>10. T \subseteq Int
    <2> SUFFICES ASSUME NEW x \in T PROVE x \in Int
      OBVIOUS
    <2>1. PICK l \in 1 .. Len(p) : x = p[l].temp
      BY <1>5 DEF TempsOf
    <2> QED BY <1>2, <1>6, <2>1
  <1>11. IsFiniteSet(T)
    <2> DEFINE f == [l \in 1 .. Len(p) |-> p[l].temp]
    <2>1. IsFiniteSet(1 .. Len(p))
      BY <1>5, FS_Interval
    <2>2. T = {f[l] : l \in 1 .. Len(p)}
      BY <1>5 DEF TempsOf
    <2> HIDE DEF f, T
    <2> QED BY <2>1, <2>2, ImageFinite
  <1> HIDE DEF T
  <1>12. Largest(T) \in Int /\ s[i].temp <= Largest(T) /\ s[i].temp \in Int
    BY <1>9, <1>10, <1>11, LargestIs
  <1> QED BY <1>3, <1>8, <1>12

Three == {"coretemp", "k10temp", "zenpower"}

LEMMA ThreeLong ==
    ASSUME NEW T, NEW a \in T, NEW b \in T, NEW c \in T
    PROVE  <<a, b, c>> \in Seq(T)
  OBVIOUS

\* A chip that is found has readings with the label, each of them a known one of the rig.
LEMMA ChipReadings ==
    ASSUME NEW m \in Machines, NEW label, ChipWith(m, label) # None,
           \A i \in DOMAIN m.sensors : m.sensors[i].chip # "zenpower"
    PROVE  LET list == Labelled(m, ChipWith(m, label), label)
           IN  /\ list \in Seq(SensorFacts) /\ list # <<>>
               /\ \A k \in 1 .. Len(list) : \E i \in Preferred(m) : list[k] = m.sensors[i]
  <1> DEFINE s == m.sensors
             chips == <<"coretemp", "k10temp", "zenpower">>
             J == {j \in DOMAIN chips : Labelled(m, chips[j], label) # <<>>}
             W == Where(chips, LAMBDA c : Labelled(m, c, label) # <<>>)
             chip == ChipWith(m, label)
             list == Labelled(m, chip, label)
             I == {i \in DOMAIN s : s[i].temp # None /\ (s[i].chip = chip /\ s[i].label = label)}
  <1>1. s \in Seq(SensorFacts) /\ DOMAIN s = 1 .. Len(s)
    BY SensorTypes
  <1>2. chips \in Seq(Three) /\ Len(chips) = 3 /\ DOMAIN chips = 1 .. 3
        /\ \A j \in 1 .. 3 : chips[j] \in {"coretemp", "k10temp", "zenpower"}
    <2>1. chips \in Seq(Three)
      <3>1. "coretemp" \in Three /\ "k10temp" \in Three /\ "zenpower" \in Three
        BY DEF Three
      <3> QED BY <3>1, ThreeLong
    <2>2. Len(chips) = 3
      OBVIOUS
    <2>3. chips[1] = "coretemp" /\ chips[2] = "k10temp" /\ chips[3] = "zenpower"
      OBVIOUS
    <2>4. \A j \in 1 .. 3 : j = 1 \/ j = 2 \/ j = 3
      OBVIOUS
    <2> HIDE DEF chips
    <2>5. \A j \in 1 .. 3 : chips[j] \in {"coretemp", "k10temp", "zenpower"}
      BY <2>3, <2>4
    <2> QED BY <2>1, <2>2, <2>5, LenProperties
  <1> HIDE DEF chips
  <1>3. W = At(chips, J) /\ J \subseteq 1 .. Len(chips)
    BY <1>2 DEF Where
  <1>4. chip = First(W, None)
    BY DEF ChipWith, chips
  <1>5. \A j \in J : Labelled(m, chips[j], label) # <<>> /\ j \in 1 .. 3
    BY <1>2
  <1> HIDE DEF W, J
  <1>6. W \in Seq(Three) /\ Picks(W, Ascending(J), chips, J)
    BY <1>2, <1>3, AtFacts
  <1>7. W # <<>> /\ chip = W[1]
    <2> HIDE DEF chip
    <2> QED BY <1>4 DEF First, chip
  <1>8. 1 \in 1 .. Len(W)
    BY <1>6, <1>7, EmptySeq, LenProperties
  <1>9. PICK j \in J : chip = chips[j]
    BY <1>6, <1>7, <1>8 DEF Picks
  <1>10. list # <<>> /\ chip \in {"coretemp", "k10temp", "zenpower"}
    BY <1>2, <1>5, <1>9
  <1> HIDE DEF chip
  <1>11. list = At(s, I) /\ I \subseteq 1 .. Len(s)
    BY <1>1 DEF Labelled, Readings, Where
  <1>12. I \subseteq Preferred(m)
    BY <1>1, <1>10 DEF Preferred
  <1> HIDE DEF I, list
  <1>13. list \in Seq(SensorFacts) /\ Picks(list, Ascending(I), s, I)
    BY <1>1, <1>11, AtFacts
  <1>14. \A k \in 1 .. Len(list) : \E i \in I : list[k] = s[i]
    BY <1>13 DEF Picks
  <1> QED BY <1>10, <1>12, <1>13, <1>14 DEF list, chip

LEMMA CoreOfPreferred ==
    ASSUME NEW m \in Machines, NEW i \in DOMAIN LinuxCoreTemps(m), LinuxCoreTemps(m)[i] # None,
           \A j \in DOMAIN m.sensors : m.sensors[j].chip # "zenpower"
    PROVE  \E j \in Preferred(m) : LinuxCoreTemps(m)[i] = m.sensors[j].temp
  <1> DEFINE chip == ChipWith(m, "core")
             package == ChipWith(m, "package")
             list == Labelled(m, chip, "core")
             C == {k \in DOMAIN list : list[k].core = i}
             core == Where(list, LAMBDA r : r.core = i)
             t == LinuxCoreTemps(m)[i]
  <1>1. t = IF chip # None THEN (IF core = <<>> THEN None ELSE Last(core).temp)
            ELSE IF package # None THEN Labelled(m, package, "package")[1].temp
            ELSE None
    BY DEF LinuxCoreTemps
  <1>2. CASE chip # None
    <2>1. t = Last(core).temp /\ core # <<>>
      BY <1>1, <1>2
    <2>2. /\ list \in Seq(SensorFacts)
          /\ \A k \in 1 .. Len(list) : \E j \in Preferred(m) : list[k] = m.sensors[j]
      BY <1>2, ChipReadings
    <2> HIDE DEF list, t
    <2>3. core = At(list, C) /\ C \subseteq 1 .. Len(list)
      BY <2>2, LenProperties DEF Where
    <2> HIDE DEF core, C
    <2>4. core \in Seq(SensorFacts) /\ Picks(core, Ascending(C), list, C)
      BY <2>2, <2>3, AtFacts
    <2>5. Len(core) \in 1 .. Len(core)
      BY <2>1, <2>4, EmptySeq, LenProperties
    <2>6. PICK k \in C : core[Len(core)] = list[k]
      BY <2>4, <2>5 DEF Picks
    <2>7. Last(core) = list[k]
      BY <2>6 DEF Last
    <2>8. k \in 1 .. Len(list)
      BY <2>3
    <2> QED BY <2>1, <2>2, <2>7, <2>8 DEF t
  <1>3. CASE chip = None
    <2> DEFINE named == Labelled(m, package, "package")
    <2>1. package # None /\ t = named[1].temp
      BY <1>1, <1>3
    <2>2. /\ named \in Seq(SensorFacts) /\ named # <<>>
          /\ \A k \in 1 .. Len(named) : \E j \in Preferred(m) : named[k] = m.sensors[j]
      BY <2>1, ChipReadings
    <2> HIDE DEF named, t
    <2>3. 1 \in 1 .. Len(named)
      BY <2>2, EmptySeq, LenProperties
    <2> QED BY <2>1, <2>2, <2>3 DEF t
  <1> QED BY <1>2, <1>3

LEMMA CoresCooler == DevicesInv => HottestCore
  <1> SUFFICES ASSUME DevicesInv, latest # None, ~source.windows,
                      \A i \in DOMAIN source.sensors : source.sensors[i].chip # "zenpower",
                      NEW i \in DOMAIN latest.rest.cores, latest.rest.cores[i] # None
               PROVE  latest.rest.cpuTemp >= latest.rest.cores[i]
    BY DEF HottestCore
  <1>1. /\ source \in Machines /\ latest.rest.cores = LinuxCoreTemps(source)
        /\ latest.rest.cpuTemp = LinuxCpuTemp(source)
    BY LatestSections
  <1>2. i \in DOMAIN LinuxCoreTemps(source) /\ LinuxCoreTemps(source)[i] # None
    BY <1>1
  <1>3. PICK j \in Preferred(source) : LinuxCoreTemps(source)[i] = source.sensors[j].temp
    BY <1>1, <1>2, CoreOfPreferred
  <1> QED BY <1>1, <1>3, HottestPreferred

-----------------------------------------------------------------------------
\* The partitions that the loops of the two agents report.
ReportedParts(m) ==
    IF m.windows THEN Where(Mounted(m, {"virtual"}), LAMBDA p : p.state = "ok")
    ELSE Where(Mounted(m, {"virtual"}), LAMBDA p : p.state # "denied")

LEMMA PartsKept ==
    ASSUME NEW m \in Machines
    PROVE  /\ ReportedParts(m) \in Seq(PartFacts) /\ DOMAIN m.parts = 1 .. Len(m.parts)
           /\ DOMAIN ReportedParts(m) = 1 .. Len(ReportedParts(m))
           /\ \A k \in DOMAIN ReportedParts(m) : \E i \in DOMAIN m.parts : ReportedParts(m)[k] = m.parts[i]
           /\ \A i \in DOMAIN m.parts : m.parts[i].disk \in Nat
  <1> DEFINE s == m.parts
             I == {i \in DOMAIN s : s[i].fs \notin {"virtual"}}
             u == At(s, I)
             J == {j \in DOMAIN u : IF m.windows THEN u[j].state = "ok" ELSE u[j].state # "denied"}
             r == ReportedParts(m)
  <1>1. s \in Seq(PartFacts) /\ m.windows \in BOOLEAN
    BY DevicesAssumption DEF MachineFacts
  <1>2. DOMAIN s = 1 .. Len(s) /\ \A i \in 1 .. Len(s) : s[i] \in PartFacts
    BY <1>1, LenProperties, ElementOfSeq
  <1>3. I \subseteq 1 .. Len(s) /\ Mounted(m, {"virtual"}) = u
    BY <1>2 DEF Mounted, Where
  <1> HIDE DEF I
  <1>4. u \in Seq(PartFacts) /\ Picks(u, Ascending(I), s, I)
    BY <1>1, <1>3, AtFacts
  <1>5. r = At(u, J)
    BY <1>1, <1>3 DEF ReportedParts, Where
  <1> HIDE DEF u
  <1>6. J \subseteq 1 .. Len(u)
    BY <1>4, LenProperties
  <1> HIDE DEF J, r
  <1>7. r \in Seq(PartFacts) /\ \A k \in 1 .. Len(r) : \E i \in 1 .. Len(s) : r[k] = s[i]
    <2>1. r \in Seq(PartFacts) /\ Picks(r, Ascending(J), u, J)
      BY <1>4, <1>5, <1>6, AtFacts
    <2>2. \A k \in 1 .. Len(r) : \E j \in J : r[k] = u[j]
      BY <2>1 DEF Picks
    <2>3. \A j \in 1 .. Len(u) : \E i \in I : u[j] = s[i]
      BY <1>4 DEF Picks
    <2>4. \A k \in 1 .. Len(r) : \E i \in 1 .. Len(s) : r[k] = s[i]
      <3> TAKE k \in 1 .. Len(r)
      <3>1. PICK j \in J : r[k] = u[j]
        BY <2>2
      <3>2. PICK i \in I : u[j] = s[i]
        BY <1>6, <2>3
      <3> QED BY <1>3, <3>1, <3>2
    <2> QED BY <2>1, <2>4
  <1>8. DOMAIN r = 1 .. Len(r)
    BY <1>7, LenProperties
  <1>9. \A p \in PartFacts : p.disk \in Nat
    BY DEF PartFacts
  <1> QED BY <1>2, <1>7, <1>8, <1>9 DEF r

LEMMA OwnCounters == DevicesInv => CountersAreOwn
  <1> SUFFICES ASSUME DevicesInv, latest # None,
                      NEW i \in DOMAIN latest.rest.disks, NEW j \in DOMAIN source.parts,
                      latest.rest.disks[i].device = source.parts[j].device
               PROVE  /\ latest.rest.disks[i].bytes # None =>
                            latest.rest.disks[i].bytes = source.io[source.parts[j].disk]
                      /\ ~source.windows /\ source.io # None /\ source.parts[j].name # "other" =>
                            latest.rest.disks[i].bytes # None
    BY DEF CountersAreOwn
  <1> DEFINE disks == latest.rest.disks
             m == source
             s == m.parts
             r == ReportedParts(m)
  <1>1. m \in Machines /\ disks = IF m.windows THEN WindowsStorage(m) ELSE LinuxStorage(m)
    BY LatestSections
  <1>2. /\ DOMAIN r = 1 .. Len(r)
        /\ \A k \in DOMAIN r : \E q \in DOMAIN s : r[k] = s[q]
        /\ \A q \in DOMAIN s : s[q].disk \in Nat
    BY <1>1, PartsKept
  <1>3. /\ m.windows \in BOOLEAN
        /\ m.io # None => \A q \in DOMAIN s : m.io[s[q].disk] \in Nat
        /\ \A p, q \in DOMAIN s : s[p].device = s[q].device => s[p].disk = s[q].disk /\ s[p].name = s[q].name
    BY <1>1, DevicesAssumption DEF MachineFacts
  <1>4. None \notin Nat
    BY CollectorsAssumption
  <1>5. CASE ~m.windows
    <2> DEFINE bytes(p) == IF m.io = None \/ WholeDisk(p) = None THEN None ELSE m.io[WholeDisk(p)]
               list == [k \in DOMAIN r |-> [device |-> r[k].device, bytes |-> bytes(r[k])]]
    <2>1. disks = <<>> \/ disks = list
      BY <1>1, <1>5 DEF LinuxStorage, ReportedParts
    <2>2. disks = list
      <3>1. DOMAIN disks # {}
        OBVIOUS
      <3>2. DOMAIN << >> = {}
        OBVIOUS
      <3> HIDE DEF disks, list
      <3> QED BY <2>1, <3>1, <3>2
    <2>3. i \in DOMAIN r
      BY <2>2
    <2>4. disks[i] = [device |-> r[i].device, bytes |-> bytes(r[i])]
      <3> HIDE DEF disks, bytes
      <3> QED BY <2>2, <2>3
    <2>5. disks[i].device = r[i].device /\ disks[i].bytes = bytes(r[i])
      <3> HIDE DEF disks, bytes
      <3> QED BY <2>4
    <2>6. PICK q \in DOMAIN s : r[i] = s[q]
      BY <1>2, <2>3
    <2>7. r[i].disk = s[j].disk /\ r[i].name = s[j].name /\ r[i].disk \in Nat
      BY ZenonT(60), <1>2, <1>3, <2>5, <2>6
    <2>8. bytes(r[i]) # None => bytes(r[i]) = m.io[s[j].disk]
      BY <2>7 DEF WholeDisk
    <2>9. m.io # None /\ s[j].name # "other" => bytes(r[i]) # None
      <3>1. m.io # None => m.io[s[j].disk] # None
        BY <1>3, <1>4
      <3>2. s[j].name # "other" => WholeDisk(r[i]) = s[j].disk /\ s[j].disk # None
        BY <1>4, <2>7 DEF WholeDisk
      <3> QED BY <3>1, <3>2
    <2> QED BY <2>5, <2>8, <2>9
  <1>6. CASE m.windows
    <2> DEFINE map == DriveMap(m)
               name(p) == IF map = {} THEN First(m.models, p.device) ELSE p.device
               bytes(p) == IF p.device \in map THEN m.io[p.disk] ELSE None
    <2>1. disks = [k \in DOMAIN r |-> [device |-> name(r[k]), bytes |-> bytes(r[k])]]
      BY <1>1, <1>6 DEF WindowsStorage, ReportedParts
    <2>2. i \in DOMAIN r
      BY <2>1
    <2>3. disks[i].device = name(r[i]) /\ disks[i].bytes = bytes(r[i])
      <3> HIDE DEF disks, bytes, name
      <3> QED BY <2>1, <2>2
    <2>4. PICK q \in DOMAIN s : r[i] = s[q]
      BY <1>2, <2>2
    <2>5. ASSUME bytes(r[i]) # None PROVE bytes(r[i]) = m.io[s[j].disk]
      <3>1. r[i].device \in map /\ bytes(r[i]) = m.io[r[i].disk]
        BY <2>5
      <3>2. name(r[i]) = r[i].device
        BY <3>1
      <3>3. r[i].disk = s[j].disk
        <4>1. s[q].device = s[j].device
          <5> HIDE DEF name, disks
          <5> QED BY <2>3, <2>4, <3>2 DEF disks
        <4>2. s[q].disk = s[j].disk
          BY <1>3, <4>1
        <4> QED BY <2>4, <4>2
      <3> QED BY <3>1, <3>3
    <2> QED BY <1>6, <2>3, <2>5
  <1> QED BY <1>3, <1>5, <1>6

LEMMA ErrorsReported == DevicesInv => NoErrorMissed
  <1> SUFFICES ASSUME DevicesInv, NEW k \in DOMAIN journal, NEW r \in DOMAIN rows,
                      rows[r].at \in journal[k].at .. journal[k].at + ErrorWindow - 1,
                      Len(Recent(journal, rows[r].at)) <= Lines
               PROVE  \E q \in DOMAIN rows : journal[k] \in rows[q].errors
    BY DEF NoErrorMissed
  <1> DEFINE t == rows[r].at
             I == InWindowOf(journal, t)
             s == Recent(journal, t)
  <1>1. /\ machine \in Machines /\ journal \in Seq(Line) /\ rows \in Seq(StoredRow)
        /\ ErrorsOfRows
    BY DEF DevicesInv
  <1>2. machine.windows \in BOOLEAN
    BY <1>1, CardsOfMachine
  <1>3. r \in 1 .. Len(rows) /\ k \in 1 .. Len(journal) /\ rows[r] \in StoredRow /\ journal[k] \in Line
    BY <1>1, LenProperties, ElementOfSeq
  <1>4. rows[r].errors = ErrorsOf(machine.windows, journal, t)
    BY <1>1, <1>3 DEF ErrorsOfRows
  <1>5. t \in Nat /\ journal[k].at \in Nat /\ ErrorWindow \in Nat
    BY <1>3, CollectorsAssumption DEF StoredRow, Line
  <1>6. k \in I
    <2>1. journal[k].at > t - ErrorWindow /\ journal[k].at <= t
      <3> DEFINE a == journal[k].at
      <3>1. t \in a .. (a + ErrorWindow) - 1 /\ a \in Nat
        BY <1>5
      <3> HIDE DEF a, t
      <3>2. a > t - ErrorWindow /\ a <= t
        BY <1>5, <3>1
      <3> QED BY <3>2 DEF a, t
    <2> QED BY <2>1 DEF InWindowOf
  <1>7. Picks(s, Ascending(I), journal, I)
    BY <1>1, RecentFacts
  <1> HIDE DEF s, I
  <1>8. PICK l \in 1 .. Len(s) : s[l] = journal[k]
    BY <1>6, <1>7 DEF Picks
  <1>9. \A n \in 1 .. Len(s) : s[n] \in ErrorsOf(machine.windows, journal, t)
    BY <1>1, <1>2, ErrorsFacts DEF s
  <1> QED BY <1>4, <1>8, <1>9

\* What a payload says of the rig was measured (collect_metrics of both agents).
THEOREM PayloadReal == DSpec => []PayloadIsOfTheRig
  <1>1. DevicesInv => PayloadIsOfTheRig
    BY PowerTotals, CoresCooler, OwnCounters, ErrorsReported DEF PayloadIsOfTheRig
  <1> QED BY <1>1, DevicesTyped, PTL

\* The pages show the rig of the newest payload (rig_detail, the report).
THEOREM PagesShow == DSpec => []PagesShowTheRig
  <1>1. DevicesInv => PagesShowTheRig
    BY OneCard, ChangesNow, PhysicalIp, ProcessTable DEF PagesShowTheRig
  <1> QED BY <1>1, DevicesTyped, PTL
================================================================================
