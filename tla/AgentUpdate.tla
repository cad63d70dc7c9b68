------------------------------ MODULE AgentUpdate ------------------------------
(***************************************************************************)
(* The automatic update of one host: the daily run of check_update.py,      *)
(* which updates run.py and then itself, the migration of an old            *)
(* check_update.py by run.py, and the server, where a deployment copies the *)
(* new files in place into the directory nginx serves them from.  A fetch   *)
(* in the middle of such a copy gets a file that is cut short or mixed.     *)
(*                                                                          *)
(* A process may be killed between any two of its steps, and a download or  *)
(* an operation on a file may fail; MaxFaults bounds how often.             *)
(***************************************************************************)
EXTENDS Integers, Sequences

CONSTANTS
    Releases,   \* the successive releases: for each file its version string
    MaxMajor,   \* MAX_MAJOR_VERSION
    MaxFaults   \* bound: kills, failed downloads and failed file operations

File == {"run", "updater"}

(***************************************************************************)
(* A version string, without its suffix, is the sequence of its numbers.    *)
(***************************************************************************)
ParseVersion(s) == SubSeq(s, 1, IF Len(s) < 3 THEN Len(s) ELSE 3)

NoVersion == <<>>

(***************************************************************************)
(* The content of a file.  "legacy" is a check_update.py with the GitHub    *)
(* URL in it.  Of a copy in progress a reader may see the beginning: a file *)
(* that Python rejects ("broken"), one it accepts although the end is       *)
(* missing ("torn"), or nothing at all ("blank"), which it accepts too.     *)
(***************************************************************************)
Form    == {"whole", "legacy", "torn", "broken", "blank", "none"}
Version == {ParseVersion(Releases[r][f]) : r \in 1 .. Len(Releases), f \in File}
Content == [ver : Version \cup {NoVersion}, form : Form]

Blank  == [ver |-> NoVersion, form |-> "blank"]
NoFile == [ver |-> NoVersion, form |-> "none"]

\* Mutant: the version is compared as it is written.
ReleaseRaw(r, f) == [ver |-> Releases[r][f], form |-> "whole"]

Release(r, f) == [ver |-> ParseVersion(Releases[r][f]), form |-> "whole"]

ASSUME UpdateAssumption ==
    /\ MaxMajor \in Nat /\ MaxFaults \in Nat
    /\ Len(Releases) \in Nat \ {0}
    /\ \A r \in 1 .. Len(Releases), f \in File :
           ParseVersion(Releases[r][f]) \in Seq(Nat) \ {NoVersion}

VARIABLES
    platform, \* "linux" or "windows"
    release,  \* the release being deployed, or deployed last
    copying,  \* the file its copy has reached, or "done"
    served,   \* served[f]: the file in the directory of nginx
    disk,     \* disk[f]: the installed file
    backup,   \* backup[f]: its .bak
    updater,  \* the run of check_update.py
    boot,     \* bootstrap_check_update of the run of run.py
    exit,     \* the exit code of the last run of check_update.py
    previous, \* history: what the last replacement of a file replaced
    faults

vars == <<platform, release, copying, served, disk, backup, updater,
          boot, exit, previous, faults>>
server == <<platform, release, copying, served>>

Steps   == {"idle", "local", "fetch", "write", "check", "backup", "replace", "mode"}
Updater == [pc : Steps, file : File, local : Version, new : Content]
Idle    == [pc |-> "idle", file |-> "run", local |-> Release(1, "run").ver, new |-> Blank]

Boot   == [pc : {"idle", "fetch", "check", "replace"}, new : Content]
NoBoot == [pc |-> "idle", new |-> Blank]

\* A host installed with the first release, or an older one that has already
\* got its run.py.
Init ==
    /\ platform \in {"linux", "windows"}
    /\ release = 1 /\ copying = "done"
    /\ served = [f \in File |-> Release(1, f)]
    /\ disk \in {served, [served EXCEPT !["updater"].form = "legacy"]}
    /\ backup = [f \in File |-> NoFile]
    /\ updater = Idle /\ boot = NoBoot
    /\ exit = "none"
    /\ previous = [f \in File |-> NoFile]
    /\ faults = 0

\* All that the server may have handed out for f.
Handed(f) ==
    {Release(r, f) : r \in 1 .. release} \cup
    (IF release > 1
     THEN {Blank} \cup {[ver |-> Release(r, f).ver, form |-> form] :
                            r \in 1 .. release, form \in {"torn", "broken"}}
     ELSE {})

F == INSTANCE AgentFiles WITH files <- disk, offered <- [f \in File |-> Handed(f)]

Older(a, b) == F!Older(a, b)

-----------------------------------------------------------------------------
(***************************************************************************)
(* The server.  sync_to_opt.sh copies run.py, then check_update.py.         *)
(***************************************************************************)
Deploy ==
    /\ copying = "done" /\ release < Len(Releases)
    /\ release' = release + 1 /\ copying' = "run"
    /\ UNCHANGED <<platform, served, disk, backup, updater, boot, exit,
                   previous, faults>>

Copied ==
    /\ copying \in File
    /\ served' = [served EXCEPT ![copying] = Release(release, copying)]
    /\ copying' = IF copying = "run" THEN "updater" ELSE "done"
    /\ UNCHANGED <<platform, release, disk, backup, updater, boot, exit,
                   previous, faults>>

\* What a fetch of f can return now.
Fetched(f) ==
    {served[f]} \cup
    (IF copying = f
     THEN {Blank, Release(release, f)} \cup
          {[ver |-> v, form |-> form] : v \in {served[f].ver, Release(release, f).ver},
                                        form \in {"torn", "broken"}}
     ELSE {})

Fault == faults < MaxFaults /\ faults' = faults + 1

-----------------------------------------------------------------------------
(***************************************************************************)
(* check_update.py.  A legacy updater asks GitHub, and one that is cut      *)
(* short does nothing.                                                      *)
(***************************************************************************)
AtFile(step) == updater.pc = step

Move(step) == updater' = [updater EXCEPT !.pc = step]

Exit(code) == updater' = Idle /\ exit' = code

Start ==
    /\ AtFile("idle") /\ disk["updater"].form = "whole"
    /\ updater' = [Idle EXCEPT !.pc = "local"]
    /\ UNCHANGED <<server, disk, backup, boot, exit, previous, faults>>

\* get_local_version
Local ==
    /\ AtFile("local")
    /\ IF disk[updater.file].ver = NoVersion
       THEN Exit("failed")
       ELSE /\ updater' = [updater EXCEPT !.pc = "fetch", !.local = disk[updater.file].ver]
            /\ UNCHANGED exit
    /\ UNCHANGED <<server, disk, backup, boot, previous, faults>>

\* Mutant: main returns after run.py.
NextFileNone == Exit("ok")

\* main updates check_update.py once run.py is up to date, and ends after it.
NextFile ==
    IF updater.file = "run"
    THEN /\ updater' = [updater EXCEPT !.pc = "local", !.file = "updater"]
         /\ UNCHANGED exit
    ELSE Exit("ok")

\* Mutant: the major version is not looked at.
UpdateAnyMajor(local, new) == Older(local, new)

UpdateAvailable(local, new) == Older(local, new) /\ new[1] <= MaxMajor

\* fetch_remote_version, and the comparisons of update_single_file
Fetch(c) ==
    /\ AtFile("fetch") /\ c \in Fetched(updater.file)
    /\ IF c.ver = NoVersion
       THEN Exit("failed")
       ELSE IF UpdateAvailable(updater.local, c.ver)
            THEN /\ updater' = [updater EXCEPT !.pc = "write", !.new = c]
                 /\ UNCHANGED exit
            ELSE NextFile
    /\ UNCHANGED <<server, disk, backup, boot, previous, faults>>

FetchFails ==
    /\ AtFile("fetch") /\ Fault
    /\ Exit("failed")
    /\ UNCHANGED <<server, disk, backup, boot, previous>>

WriteTemp ==
    /\ AtFile("write")
    /\ Move("check")
    /\ UNCHANGED <<server, disk, backup, boot, exit, previous, faults>>

\* Linux asks for space first, both may run out of it.
WriteFails ==
    /\ AtFile("write") /\ Fault
    /\ Exit("failed")
    /\ UNCHANGED <<server, disk, backup, boot, previous>>

\* Mutant: a download is installed unseen.
ValidateNothing ==
    /\ AtFile("check")
    /\ Move("backup")
    /\ UNCHANGED <<server, disk, backup, boot, exit, previous, faults>>

\* validate_python_file; the version is read again from the same content.
Validate ==
    /\ AtFile("check")
    /\ IF updater.new.form = "broken" THEN Exit("failed")
                                      ELSE Move("backup") /\ UNCHANGED exit
    /\ UNCHANGED <<server, disk, backup, boot, previous, faults>>

\* Mutant: the download is copied to the backup.
BackupNew ==
    /\ AtFile("backup")
    /\ backup' = [backup EXCEPT ![updater.file] = updater.new]
    /\ Move("replace")
    /\ UNCHANGED <<server, disk, boot, exit, previous, faults>>

Backup ==
    /\ AtFile("backup")
    /\ backup' = [backup EXCEPT ![updater.file] = disk[updater.file]]
    /\ Move("replace")
    /\ UNCHANGED <<server, disk, boot, exit, previous, faults>>

Replace ==
    /\ disk' = [disk EXCEPT ![updater.file] = updater.new]
    /\ previous' = [previous EXCEPT ![updater.file] = disk[updater.file]]

ReplaceLinux ==
    /\ AtFile("replace") /\ platform = "linux"
    /\ Replace
    /\ Move("mode")
    /\ UNCHANGED <<server, backup, boot, exit, faults>>

ReplaceWindows ==
    /\ AtFile("replace") /\ platform = "windows"
    /\ Replace
    /\ NextFile
    /\ UNCHANGED <<server, backup, boot, faults>>

\* chmod of the new file and of the backup
SetMode ==
    /\ AtFile("mode")
    /\ NextFile
    /\ UNCHANGED <<server, disk, backup, boot, previous, faults>>

\* py_compile times out, or copying, replacing or chmod raises OSError: the
\* temporary file is removed, the copy may be incomplete.
FileFails(c) ==
    /\ updater.pc \in {"check", "backup", "replace", "mode"} /\ Fault
    /\ IF AtFile("backup")
       THEN /\ c \in {backup[updater.file], Blank}
            /\ backup' = [backup EXCEPT ![updater.file] = c]
       ELSE c = Blank /\ UNCHANGED backup
    /\ Exit("failed")
    /\ UNCHANGED <<server, disk, boot, previous>>

KillUpdater(c) ==
    /\ ~AtFile("idle") /\ Fault
    /\ IF AtFile("backup")
       THEN /\ c \in {backup[updater.file], disk[updater.file], Blank}
            /\ backup' = [backup EXCEPT ![updater.file] = c]
       ELSE c = Blank /\ UNCHANGED backup
    /\ Exit("failed")
    /\ UNCHANGED <<server, disk, boot, previous>>

-----------------------------------------------------------------------------
(***************************************************************************)
(* bootstrap_check_update, at the start of each run of run.py (the lock of  *)
(* the cron line, or the Task Scheduler, keeps the runs apart).             *)
(***************************************************************************)
BootStart ==
    /\ boot.pc = "idle" /\ disk["updater"].form = "legacy"
    /\ boot' = [boot EXCEPT !.pc = "fetch"]
    /\ UNCHANGED <<server, disk, backup, updater, exit, previous, faults>>

BootFetch(c) ==
    /\ boot.pc = "fetch" /\ c \in Fetched("updater")
    /\ boot' = [pc |-> "check", new |-> c]
    /\ UNCHANGED <<server, disk, backup, updater, exit, previous, faults>>

BootValidate ==
    /\ boot.pc = "check"
    /\ boot' = IF boot.new.form = "broken" THEN NoBoot ELSE [boot EXCEPT !.pc = "replace"]
    /\ UNCHANGED <<server, disk, backup, updater, exit, previous, faults>>

BootReplace ==
    /\ boot.pc = "replace"
    /\ disk' = [disk EXCEPT !["updater"] = boot.new]
    /\ boot' = NoBoot
    /\ UNCHANGED <<server, backup, updater, exit, previous, faults>>

\* An exception or a kill ends it quietly.
BootEnds ==
    /\ boot.pc # "idle" /\ Fault
    /\ boot' = NoBoot
    /\ UNCHANGED <<server, disk, backup, updater, exit, previous>>

-----------------------------------------------------------------------------
UpdaterStep ==
    \/ Start \/ Local \/ WriteTemp \/ Validate \/ Backup
    \/ ReplaceLinux \/ ReplaceWindows \/ SetMode
    \/ \E c \in Content : Fetch(c)

BootStep == BootStart \/ BootValidate \/ BootReplace \/ \E c \in Content : BootFetch(c)

Faulty ==
    \/ FetchFails \/ WriteFails \/ BootEnds
    \/ \E c \in Content : FileFails(c) \/ KillUpdater(c)

Next == Deploy \/ Copied \/ UpdaterStep \/ BootStep \/ Faulty

\* cron starts both programs again and again.
Spec == Init /\ [][Next]_vars /\ WF_vars(UpdaterStep) /\ WF_vars(BootStep)

-----------------------------------------------------------------------------
TypeOK ==
    /\ platform \in {"linux", "windows"}
    /\ release \in 1 .. Len(Releases) /\ copying \in File \cup {"done"}
    /\ served \in [File -> Content]
    /\ disk \in [File -> Content] /\ backup \in [File -> Content]
    /\ faults \in 0 .. MaxFaults
    /\ updater \in Updater /\ boot \in Boot
    /\ exit \in {"none", "ok", "failed"}
    /\ previous \in [File -> Content]

\* The two files keep what AgentFiles promises of them, whatever is deployed,
\* fails or is killed.
Promised == F!Spec

\* After check_update.py replaced a file there is a way back: the backup is the
\* file it replaced, unless the next update has reached its own backup, or
\* failed after it, and then the installed file is the one to keep.
RollbackKept ==
    /\ \A f \in File : backup[f] \in {previous[f], disk[f], Blank}
    /\ faults = 0 /\ updater.pc # "replace" => backup = previous

\* A host never runs out of a run.py that Python accepts, with a version the
\* next update can compare.
StillRuns ==
    disk["run"].form \in {"whole", "torn"} /\ disk["run"].ver # NoVersion

\* Once deployments are over, a host whose updater is whole gets every file as
\* new as the served one, unless that has another major version.
UpToDate(f) ==
    \/ ~Older(disk[f].ver, served[f].ver)
    \/ served[f].ver[1] > MaxMajor

CatchesUp ==
    <>[](copying = "done") =>
        <>[](disk["updater"].form = "whole" => \A f \in File : UpToDate(f))
================================================================================
