------------------------------- MODULE AgentRun -------------------------------
(***************************************************************************)
(* The agent's run of every minute (main of agent/run.py and of            *)
(* agent_windows/run.py): the jitter, the lock, one call after the other   *)
(* to tools that answer, fail or hang until their time limit, the alarm of *)
(* the Linux agent, and the POST with its retries.                         *)
(*                                                                         *)
(* Time is in seconds and advances from event to event: the run whose next *)
(* step is due first makes it.  What a section contains is the subject of  *)
(* Collectors; here a section has been collected or not.                   *)
(***************************************************************************)
EXTENDS Integers, Sequences, FiniteSets

CONSTANTS
    Jitters,        \* the delays random.uniform(0, 25) is taken to choose from
    AlarmAfter,     \* collection_timeout_s (30 without a configuration)
    Tries,          \* retry_attempts (3)
    Delays,         \* the seconds between an attempt and the next, 2^attempt
    RunMinutes,     \* bound: the minutes 1..RunMinutes start a run
    MaxFaults       \* bound: calls that fail or hang

\* The jitter is 0 to 25 seconds, so that no run is still asleep when the next one starts.
ASSUME RunAssumption ==
    /\ Jitters \subseteq 0..25
    /\ AlarmAfter \in Nat \ {0} /\ Tries \in Nat \ {0}
    /\ RunMinutes \in Nat /\ MaxFaults \in Nat
    /\ Delays \in [0 .. (Tries - 1) -> Nat]

Runs == 1..RunMinutes

VARIABLES
    onWindows,  \* which of the two agents
    truth,      \* what runs on the rig: GPU processes, and the one container it has
    runs,       \* per minute: [pc, at, alarm, try, got, hurt, from]
    lock,       \* the run that holds the lock, or 0
    posts,      \* the minutes whose payload reached the server, in that order
    faults      \* number of faults so far

arVars == <<onWindows, truth, runs, lock, posts, faults>>

NoAlarm == 0
Over == {"done", "skipped", "died", "timeout", "gave_up"}

ARInit ==
    /\ onWindows \in BOOLEAN
    /\ truth \in [procs : BOOLEAN, running : BOOLEAN]
    /\ runs = [m \in Runs |-> [pc |-> "cron", at |-> 60 * m, alarm |-> NoAlarm, try |-> 0,
                              got |-> {}, hurt |-> {}, from |-> 0]]
    /\ lock = 0
    /\ posts = <<>>
    /\ faults = 0

-----------------------------------------------------------------------------
(***************************************************************************)
(* The calls of build_payload in their order.  A call belongs to a section *)
(* and takes `busy` seconds if it answers, `limit` seconds if it hangs (0: *)
(* it cannot); answered, failed and late name the call after an answer,    *)
(* after an error and after the limit, and `gives` says that its answer is *)
(* what the section is made of.                                            *)
(***************************************************************************)
Call(name, section, gives, busy, limit, answered, failed, late) ==
    [name |-> name, section |-> section, gives |-> IF gives THEN {section} ELSE {}, busy |-> busy,
     limit |-> limit, answered |-> answered, failed |-> failed, late |-> late]

\* A call whose every exception is caught around it.
Guarded(name, section, busy, limit, next) == Call(name, section, TRUE, busy, limit, next, next, next)
Extra(name, section, limit, next) == Call(name, section, FALSE, 0, limit, next, next, next)

LinuxGpuProcesses == {Guarded("nvidia_smi", "processes", 0, 10, "docker")}

\* Only FileNotFoundError and OSError of the two test calls are caught: one that hangs ends the
\* run.  TimeoutError, which the alarm raises, is an OSError.
LinuxDocker ==
    {Call("docker", "containers", FALSE, 0, 10, "docker_ps", "sudo_docker", "died"),
     Call("sudo_docker", "containers", FALSE, 0, 10, "docker_ps", "cpu", "died"),
     Call("docker_ps", "containers", TRUE, 0, 15, "inspect", "cpu", "cpu")}

\* Once per running container; an error or a timeout leaves out its manifest or its logs.
LinuxDockerInspect ==
    {Call("inspect", "details", FALSE, 0, 5, "logs", "cpu", "cpu"),
     Guarded("logs", "details", 0, 10, "cpu")}

LinuxCpu == {Guarded("cpu", "cpu", 1, 0, "memory")}
LinuxMemory == {Guarded("memory", "memory", 0, 0, "usage")}

\* (mutant) an error in one disk skips the sections after it
LinuxStorageSkips ==
    {Call("usage", "storage", TRUE, 0, 0, "smartctl", "driver", "driver"),
     Call("smartctl", "smart", TRUE, 0, 5, "network", "nvme", "nvme"),
     Guarded("nvme", "smart", 0, 5, "network")}

\* nvme is asked only if smartctl gave no temperature.
LinuxStorage ==
    {Call("usage", "storage", TRUE, 0, 0, "smartctl", "network", "network"),
     Call("smartctl", "smart", TRUE, 0, 5, "network", "nvme", "nvme"),
     Guarded("nvme", "smart", 0, 5, "network")}

LinuxNetwork == {Guarded("network", "network", 0, 0, "nvml")}
LinuxGpus == {Guarded("nvml", "gpus", 0, 0, "processes")}
LinuxTopProcesses == {Guarded("processes", "top", 1, 0, "board")}
LinuxMotherboard == {Guarded("board", "board", 0, 0, "driver")}

LinuxSoftware ==
    {Guarded("driver", "software", 0, 5, "docker_version"),
     Extra("docker_version", "software", 5, "errors")}

\* (mutant) the time limit of the journal not caught
LinuxErrorsRaises == {Call("errors", "errors", TRUE, 0, 10, "power", "power", "died")}

LinuxErrors == {Guarded("errors", "errors", 0, 10, "power")}
LinuxPower == {Guarded("power", "power", 0, 0, "log")}

LinuxCalls ==
    LinuxGpuProcesses \cup LinuxDocker \cup LinuxDockerInspect \cup LinuxCpu \cup LinuxMemory \cup LinuxStorage \cup
    LinuxNetwork \cup LinuxGpus \cup LinuxTopProcesses \cup LinuxMotherboard \cup LinuxSoftware \cup LinuxErrors \cup
    LinuxPower

WindowsGpuProcesses == LinuxGpuProcesses

\* No sudo: one test call, whose limit is not caught either.
WindowsDocker ==
    {Call("docker", "containers", FALSE, 0, 10, "docker_ps", "cpu", "died"),
     Call("docker_ps", "containers", TRUE, 0, 15, "inspect", "cpu", "cpu")}

WindowsDockerInspect == LinuxDockerInspect
WindowsCpu == {Guarded("cpu", "cpu", 1, 0, "memory")}
WindowsMemory == {Guarded("memory", "memory", 0, 0, "wmic")}

\* The two commands that lead from a drive to its disk; the WMI module is asked if one fails.
WindowsDriveMap ==
    {Call("wmic", "drives", FALSE, 0, 15, "wmic_disks", "wmi", "wmi"),
     Call("wmic_disks", "drives", TRUE, 0, 15, "usage", "wmi", "wmi"),
     Guarded("wmi", "drives", 0, 0, "usage")}

WindowsStorage == {Guarded("usage", "storage", 0, 0, "network")}
WindowsNetwork == {Guarded("network", "network", 0, 0, "nvml")}
WindowsGpus == {Guarded("nvml", "gpus", 0, 0, "processes")}
WindowsTopProcesses == {Guarded("processes", "top", 1, 0, "board")}
WindowsMotherboard == {Guarded("board", "board", 0, 0, "driver")}

WindowsSoftware ==
    {Guarded("driver", "software", 0, 5, "docker_version"),
     Extra("docker_version", "software", 5, "errors")}

WindowsErrors == {Guarded("errors", "errors", 0, 15, "power")}
WindowsPower == {Guarded("power", "power", 0, 0, "log")}

WindowsCalls ==
    WindowsGpuProcesses \cup WindowsDocker \cup WindowsDockerInspect \cup WindowsCpu \cup WindowsMemory \cup
    WindowsDriveMap \cup WindowsStorage \cup WindowsNetwork \cup WindowsGpus \cup WindowsTopProcesses \cup
    WindowsMotherboard \cup WindowsSoftware \cup WindowsErrors \cup WindowsPower

Calls == IF onWindows THEN WindowsCalls ELSE LinuxCalls

\* (mutant) any container that is listed counts as a job
HasActiveJobListed(r) ==
    \/ "processes" \in r.got /\ truth.procs
    \/ "containers" \in r.got

\* A GPU process, or a running container, in what was collected.
HasActiveJob(r) ==
    \/ "processes" \in r.got /\ truth.procs
    \/ "containers" \in r.got /\ truth.running

-----------------------------------------------------------------------------
\* The run of minute m makes the next step: no other run is due before.
Due(m) == /\ runs[m].pc \notin Over
          /\ \A k \in Runs : runs[k].pc \in Over \/ runs[m].at <= runs[k].at

\* (mutant) the lock is released by a run that ended as it should, only
EndReleasing(m, r, pc, at) ==
    /\ runs' = [runs EXCEPT ![m] = [r EXCEPT !.pc = pc, !.at = at]]
    /\ lock' = IF lock = m /\ pc \in {"done", "gave_up"} THEN 0 ELSE lock

\* Run m ends: flock ends with the process, and main releases the AcquisitionLock in a finally.
End(m, r, pc, at) ==
    /\ runs' = [runs EXCEPT ![m] = [r EXCEPT !.pc = pc, !.at = at]]
    /\ lock' = IF lock = m THEN 0 ELSE lock

\* (mutant) the run does not ask for the lock
EnterAnyway(m, r, pc) ==
    /\ runs' = [runs EXCEPT ![m] = [r EXCEPT !.pc = pc]]
    /\ lock' = m

\* Run m takes the lock and goes on, or ends because another run has it.
Enter(m, r, pc) ==
    IF lock # 0 THEN End(m, r, "skipped", r.at)
    ELSE /\ runs' = [runs EXCEPT ![m] = [r EXCEPT !.pc = pc]]
         /\ lock' = m

\* The scheduler starts run m: cron through flock -n, the Task Scheduler without a lock.
Start(m) ==
    /\ Due(m) /\ runs[m].pc = "cron"
    /\ \E j \in Jitters :
         LET r == [runs[m] EXCEPT !.at = @ + j]
         IN  IF onWindows
             THEN runs' = [runs EXCEPT ![m] = [r EXCEPT !.pc = "jitter"]] /\ UNCHANGED lock
             ELSE Enter(m, r, "jitter")
    /\ UNCHANGED <<onWindows, truth, posts, faults>>

\* The jitter is over: Windows asks for the lock, Linux sets the alarm.
Wake(m) ==
    /\ Due(m) /\ runs[m].pc = "jitter"
    /\ LET r == [runs[m] EXCEPT !.from = runs[m].at]
       IN  IF onWindows THEN Enter(m, r, "nvidia_smi")
           ELSE /\ runs' = [runs EXCEPT ![m] = [r EXCEPT !.pc = "nvidia_smi", !.alarm = r.at + AlarmAfter]]
                /\ UNCHANGED lock
    /\ UNCHANGED <<onWindows, truth, posts, faults>>

\* The alarm goes off before `end`; it is not set again.
Rings(r, end) == r.alarm # NoAlarm /\ end > r.at /\ r.alarm <= end

\* Where a call leads: past the enrichment if no container runs, and out of the loop after the last.
After(r, next) ==
    IF next = "inspect" /\ ~truth.running THEN "cpu" ELSE next

\* One call.  The alarm raises inside it, where the handler of the call takes it for an error.
Collect(m, outcome) ==
    /\ Due(m)
    /\ \E c \in Calls :
       LET r    == runs[m]
           end  == r.at + (CASE outcome = "answers" -> c.busy [] outcome = "fails" -> 0 [] outcome = "hangs" -> c.limit)
           rung == Rings(r, end)
           next == IF rung THEN c.failed
                   ELSE CASE outcome = "answers" -> c.answered
                          [] outcome = "fails"   -> c.failed
                          [] outcome = "hangs"   -> c.late
           good == outcome = "answers" /\ ~rung
           then == [r EXCEPT !.at = IF rung THEN r.alarm ELSE end,
                             !.alarm = IF rung THEN NoAlarm ELSE @,
                             !.got = IF good THEN @ \cup c.gives ELSE @,
                             !.hurt = IF good THEN @ ELSE @ \cup {c.section}]
       IN  /\ c.name = r.pc
           /\ outcome = "hangs" => c.limit > 0
           /\ outcome # "answers" => faults < MaxFaults
           /\ faults' = IF outcome = "answers" THEN faults ELSE faults + 1
           /\ IF next = "died" THEN End(m, then, "died", then.at)
              ELSE runs' = [runs EXCEPT ![m] = [then EXCEPT !.pc = After(r, next)]] /\ UNCHANGED lock
    /\ UNCHANGED <<onWindows, truth, posts>>

\* log_payload: an error other than a PermissionError ends the run (on Windows that one too).
LogPayload(m) ==
    /\ Due(m) /\ runs[m].pc = "log"
    /\ \/ /\ runs' = [runs EXCEPT ![m].pc = "post"]
          /\ UNCHANGED <<lock, faults>>
       \/ /\ faults < MaxFaults
          /\ faults' = faults + 1
          /\ End(m, [runs[m] EXCEPT !.hurt = @ \cup {"log"}], "died", runs[m].at)
    /\ UNCHANGED <<onWindows, truth, posts>>

\* One request: answered at once, no connection in 3 s, or stored and no answer in 10 s.  The
\* alarm raises inside requests, which wraps it in the exception the loop retries after.
Post(m, outcome) ==
    /\ Due(m) /\ runs[m].pc = "post"
    /\ LET r    == runs[m]
           end  == r.at + (CASE outcome = "answered" -> 0 [] outcome = "unreachable" -> 3 [] outcome = "late" -> 10)
           rung == Rings(r, end)
           then == [r EXCEPT !.at = IF rung THEN r.alarm ELSE end, !.try = @ + 1,
                             !.alarm = IF rung THEN NoAlarm ELSE @]
       IN  /\ outcome # "answered" => faults < MaxFaults
           /\ faults' = IF outcome = "answered" THEN faults ELSE faults + 1
           /\ posts' = IF outcome = "unreachable" THEN posts ELSE Append(posts, m)
           /\ CASE outcome = "answered"    -> End(m, then, "done", then.at)
                [] outcome # "answered" /\ then.try = Tries -> End(m, then, "gave_up", then.at)
                [] OTHER -> runs' = [runs EXCEPT ![m] = [then EXCEPT !.pc = "backoff"]] /\ UNCHANGED lock
    /\ UNCHANGED <<onWindows, truth>>

\* The wait before the next attempt; the alarm in it ends the run.
Backoff(m) ==
    /\ Due(m) /\ runs[m].pc = "backoff"
    /\ LET r == runs[m]
           end == r.at + Delays[r.try - 1]
       IN  IF Rings(r, end) THEN End(m, r, "timeout", r.alarm)
           ELSE runs' = [runs EXCEPT ![m] = [r EXCEPT !.pc = "post", !.at = end]] /\ UNCHANGED lock
    /\ UNCHANGED <<onWindows, truth, posts, faults>>

ARNext ==
    \E m \in Runs :
        \/ Start(m) \/ Wake(m) \/ LogPayload(m) \/ Backoff(m)
        \/ \E outcome \in {"answers", "fails", "hangs"} : Collect(m, outcome)
        \/ \E outcome \in {"answered", "unreachable", "late"} : Post(m, outcome)

ARSpec == ARInit /\ [][ARNext]_arVars

-----------------------------------------------------------------------------
\* Properties.

SectionsOf(calls) == UNION {c.gives : c \in calls}
LinuxSections     == SectionsOf(LinuxCalls)
WindowsSections   == SectionsOf(WindowsCalls)
Sections          == IF onWindows THEN WindowsSections ELSE LinuxSections

\* A run is somewhere between cron and its end, or at one of its calls.
RunTypeOK ==
    /\ runs \in [Runs -> [pc    : {"cron", "jitter", "log", "post", "backoff"} \cup Over \cup {c.name : c \in Calls},
                         at    : Nat, alarm : Nat, from : Nat,
                         try   : 0 .. Tries,
                         got   : SUBSET Sections, hurt : SUBSET ({c.section : c \in Calls} \cup {"log"})]]
    /\ lock \in Runs \cup {0}
    /\ posts \in Seq(Runs)
    /\ faults \in 0 .. MaxFaults

Posted(m) == \E i \in DOMAIN posts : posts[i] = m

\* A source that fails or hangs costs its own section of the payload and no other, also when
\* the alarm goes off in it.  The details of containers need their list, and on Linux the
\* disks are asked for their health one by one while they are listed.
FaultsStayInTheirSection ==
    \A m \in Runs : Posted(m) =>
        \A s \in Sections \ runs[m].got :
            \/ s \in runs[m].hurt
            \/ s = "details" /\ ("containers" \notin runs[m].got \/ ~truth.running)
            \/ s = "smart" /\ "storage" \notin runs[m].got

\* A run ends without a request only because another one has the lock, because the test for
\* docker hangs, or because the log cannot be written; the alarm alone never does it.
RunsReachThePost ==
    \A m \in Runs : runs[m].pc \in Over /\ runs[m].try = 0 =>
        \/ runs[m].pc = "skipped"
        \/ runs[m].pc = "died" /\ runs[m].hurt \cap {"containers", "log"} # {}

\* The job state of a payload is never invented, and it is right if both sources answered.
JobStateIsRight ==
    \A m \in Runs : Posted(m) =>
        LET r == runs[m]
        IN  /\ HasActiveJob(r) => truth.procs \/ truth.running
            /\ {"processes", "containers"} \subseteq r.got =>
                  (HasActiveJob(r) <=> truth.procs \/ truth.running)

\* The server gets the payloads in the order of their timestamps, repetitions included: the
\* deltas it computes against the newest snapshot rely on it.
PostsInOrder == \A i, j \in DOMAIN posts : i < j => posts[i] <= posts[j]

\* A minute is skipped only while the run of an earlier minute is still at work: no way out
\* of a run leaves the lock behind.
SkippedOnlyWhileAtWork ==
    \A m \in Runs : runs[m].pc = "skipped" =>
        \E k \in 1..(m-1) : runs[k].pc \notin Over \/ runs[k].at >= 60 * m

\* A call that fails or hangs costs its section, not the run, and what the
\* payload says of the jobs is still true (collect_metrics and main).
FaultsAreContained == FaultsStayInTheirSection /\ RunsReachThePost /\ JobStateIsRight

\* The runs of one rig take turns (flock of the cron line, the lock file of the
\* Windows agent).
RunsTakeTurns == PostsInOrder /\ SkippedOnlyWhileAtWork

\* collection_timeout_s is a hard limit on the Linux agent's collection and upload.
HardLimit ==
    \A m \in Runs : ~onWindows /\ runs[m].from # 0 => runs[m].at <= runs[m].from + AlarmAfter
=============================================================================
