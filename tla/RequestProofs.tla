----------------------------- MODULE RequestProofs -----------------------------
(***************************************************************************)
(* Proofs about AgentRun, for all jitters up to 25 s, all limits, all       *)
(* numbers of attempts, minutes and faults; about RateLimits, for all       *)
(* windows, limits and rates; about AuditTrail, for all sets of workers,    *)
(* accounts, tags and keys and any number of requests; and what MCRequests, *)
(* which puts them beside each other, inherits from the three.              *)
(*                                                                          *)
(* AgentRun: sections and calls get a number: a run at a call has settled   *)
(* every section with a smaller one (Covered), which each row of the two    *)
(* tables of calls keeps true (LinuxRows, WindowsRows).  The turns rest on  *)
(* the lock, on the times at which runs wait, and on the step that is due   *)
(* first (TurnInv); what a step does to them is Turn, whatever action it is.*)
(*                                                                          *)
(* RateLimits: the list in the cache is the end of the list of all that was *)
(* served (IsEndOf), and what is missing from it was dropped by an          *)
(* eviction.  An agent is answered once in a period (AnsweredOnce), and no  *)
(* more than two periods reach into a window.                               *)
(*                                                                          *)
(* AuditTrail: the log is compared with what answered requests changed.     *)
(* The invariant adds what a request that is not yet answered has changed   *)
(* and attached, and that a view which goes on has found an account or a    *)
(* tag that some request created.                                           *)
(***************************************************************************)
EXTENDS MCRequests, FiniteSetTheorems, TLAPS


\* The sections of a payload, on both platforms and on each of them.
Anywhere  == {"processes", "containers", "details", "cpu", "memory", "storage", "network",
              "gpus", "top", "board", "software", "errors", "power"}
OnLinux   == Anywhere \cup {"smart"}
OnWindows == Anywhere \cup {"drives"}

\* The order in which a payload is put together, the same on both platforms but
\* for what one of them does not collect.
Place == [processes |-> 1, containers |-> 2, details |-> 3, cpu |-> 4, memory |-> 5,
          drives |-> 6, storage |-> 7, smart |-> 8, network |-> 9, gpus |-> 10, top |-> 11,
          board |-> 12, software |-> 13, errors |-> 14, power |-> 15]

\* The calls, on both platforms and on each of them; the log comes after the last.
CallsAnywhere  == {"nvidia_smi", "docker", "docker_ps", "inspect", "logs", "cpu", "memory", "usage",
                   "network", "nvml", "processes", "board", "driver", "docker_version", "errors",
                   "power", "log"}
CallsOnLinux   == CallsAnywhere \cup {"sudo_docker", "smartctl", "nvme"}
CallsOnWindows == CallsAnywhere \cup {"wmic", "wmic_disks", "wmi"}

\* The place up to which everything is settled when a run comes to a call.
Reached == [nvidia_smi |-> 1, docker |-> 2, sudo_docker |-> 2, docker_ps |-> 2, inspect |-> 3,
            logs |-> 3, cpu |-> 4, memory |-> 5, wmic |-> 6, wmic_disks |-> 6, wmi |-> 6,
            usage |-> 7, smartctl |-> 8, nvme |-> 8, network |-> 9, nvml |-> 10,
            processes |-> 11, board |-> 12, driver |-> 13, docker_version |-> 14,
            errors |-> 14, power |-> 15, log |-> 16]

\* The places of the sections, one by one.
LEMMA PlaceIs ==
    /\ \A s \in OnLinux \cup OnWindows : Place[s] \in 1..15
    /\ Place["processes"] = 1
    /\ Place["containers"] = 2
    /\ Place["details"] = 3
    /\ Place["cpu"] = 4
    /\ Place["memory"] = 5
    /\ Place["drives"] = 6
    /\ Place["storage"] = 7
    /\ Place["smart"] = 8
    /\ Place["network"] = 9
    /\ Place["gpus"] = 10
    /\ Place["top"] = 11
    /\ Place["board"] = 12
    /\ Place["software"] = 13
    /\ Place["errors"] = 14
    /\ Place["power"] = 15
  BY DEF Place, OnLinux, OnWindows, Anywhere

\* The places of the calls, one by one.
LEMMA ReachedIs ==
    /\ \A n \in CallsOnLinux \cup CallsOnWindows : Reached[n] \in 1..16
    /\ Reached["nvidia_smi"] = 1
    /\ Reached["docker"] = 2
    /\ Reached["sudo_docker"] = 2
    /\ Reached["docker_ps"] = 2
    /\ Reached["inspect"] = 3
    /\ Reached["logs"] = 3
    /\ Reached["cpu"] = 4
    /\ Reached["memory"] = 5
    /\ Reached["wmic"] = 6
    /\ Reached["wmic_disks"] = 6
    /\ Reached["wmi"] = 6
    /\ Reached["usage"] = 7
    /\ Reached["smartctl"] = 8
    /\ Reached["nvme"] = 8
    /\ Reached["network"] = 9
    /\ Reached["nvml"] = 10
    /\ Reached["processes"] = 11
    /\ Reached["board"] = 12
    /\ Reached["driver"] = 13
    /\ Reached["docker_version"] = 14
    /\ Reached["errors"] = 14
    /\ Reached["power"] = 15
    /\ Reached["log"] = 16
  BY DEF Reached, CallsOnLinux, CallsOnWindows, CallsAnywhere

\* What is lost with a section.
Costs(section) == {section} \cup (IF section = "containers" THEN {"details"} ELSE {})
                            \cup (IF section = "storage" THEN {"smart"} ELSE {})

\* From call c to the call `next` a run passes no other sections than `missed`.
Passes(c, next, missed, names, sections) ==
    /\ next \in names
    /\ Reached[c.name] <= Reached[next]
    /\ \A s \in sections : Reached[c.name] <= Place[s] /\ Place[s] < Reached[next] => s \in missed

\* What a row of the table keeps: the order, and that a call costs no more than its section.
InPlace(c, names, sections) ==
    /\ c.busy \in Nat /\ c.limit \in Nat /\ c.name \in names /\ c.section \in sections
    /\ c.gives \in {{}, {c.section}}
    /\ c.gives # {} \/ c.section \in {"containers", "storage"} => Place[c.section] = Reached[c.name]
    /\ c.gives # {} => Reached[c.name] < Reached[c.answered]
    /\ Passes(c, c.answered, c.gives, names, sections)
    /\ Passes(c, c.failed, Costs(c.section), names, sections)
    /\ c.late = "died" => c.section = "containers"
    /\ c.late # "died" => Passes(c, c.late, Costs(c.section), names, sections)

\* Every call of the Linux agent does (collectors of agent/run.py).
LEMMA LinuxRows == \A c \in LinuxCalls : InPlace(c, CallsOnLinux, OnLinux)
  BY PlaceIs, ReachedIs DEF LinuxCalls, LinuxGpuProcesses, LinuxDocker, LinuxDockerInspect, LinuxCpu,
     LinuxMemory, LinuxStorage, LinuxNetwork, LinuxGpus, LinuxTopProcesses, LinuxMotherboard,
     LinuxSoftware, LinuxErrors, LinuxPower, Call, Guarded, Extra,
     InPlace, Passes, Costs, OnLinux, Anywhere, CallsOnLinux, CallsAnywhere

\* Every call of the Windows agent does (collectors of agent_windows/run.py).
LEMMA WindowsRows == \A c \in WindowsCalls : InPlace(c, CallsOnWindows, OnWindows)
  BY PlaceIs, ReachedIs DEF WindowsCalls, WindowsGpuProcesses, WindowsDocker, WindowsDockerInspect,
     WindowsCpu, WindowsMemory, WindowsDriveMap, WindowsStorage, WindowsNetwork, WindowsGpus,
     WindowsTopProcesses, WindowsMotherboard, WindowsSoftware, WindowsErrors, WindowsPower,
     LinuxGpuProcesses, LinuxDockerInspect, Call, Guarded, Extra,
     InPlace, Passes, Costs, OnWindows, Anywhere, CallsOnWindows, CallsAnywhere

\* The calls of the Linux agent by their names.
LEMMA LinuxNames == CallsOnLinux = {c.name : c \in LinuxCalls} \cup {"log"}
  BY DEF LinuxCalls, LinuxGpuProcesses, LinuxDocker, LinuxDockerInspect, LinuxCpu,
     LinuxMemory, LinuxStorage, LinuxNetwork, LinuxGpus, LinuxTopProcesses, LinuxMotherboard,
     LinuxSoftware, LinuxErrors, LinuxPower, Call, Guarded, Extra, CallsOnLinux, CallsAnywhere

\* The calls of the Windows agent by their names.
LEMMA WindowsNames == CallsOnWindows = {c.name : c \in WindowsCalls} \cup {"log"}
  BY DEF WindowsCalls, WindowsGpuProcesses, WindowsDocker, WindowsDockerInspect,
     WindowsCpu, WindowsMemory, WindowsDriveMap, WindowsStorage, WindowsNetwork, WindowsGpus,
     WindowsTopProcesses, WindowsMotherboard, WindowsSoftware, WindowsErrors, WindowsPower,
     LinuxGpuProcesses, LinuxDockerInspect, Call, Guarded, Extra, CallsOnWindows, CallsAnywhere

\* The calls and the sections of the rig's agent.
AgentCalls    == IF onWindows THEN CallsOnWindows ELSE CallsOnLinux
AgentSections == IF onWindows THEN OnWindows ELSE OnLinux

\* Both tables at once, for the rig's agent.
LEMMA Rows ==
    /\ \A c \in Calls : InPlace(c, AgentCalls, AgentSections)
    /\ AgentCalls = {c.name : c \in Calls} \cup {"log"}
    /\ Sections \subseteq AgentSections
  <1>1. \A c \in Calls : InPlace(c, AgentCalls, AgentSections)
    BY LinuxRows, WindowsRows DEF Calls, AgentCalls, AgentSections
  <1>2. AgentCalls = {c.name : c \in Calls} \cup {"log"}
    BY LinuxNames, WindowsNames DEF Calls, AgentCalls
  <1>3. Sections = SectionsOf(Calls)
    BY DEF Sections, LinuxSections, WindowsSections, Calls
  <1>4. \A c \in Calls : c.gives \subseteq AgentSections
    BY <1>1 DEF InPlace
  <1> QED BY <1>1, <1>2, <1>3, <1>4 DEF SectionsOf

\* A call is none of the other places of a run.
LEMMA Names ==
    /\ AgentCalls \cap ({"cron", "jitter", "post", "backoff", "died"} \cup Over) = {}
    /\ "nvidia_smi" \in AgentCalls /\ "log" \in AgentCalls /\ "cpu" \in AgentCalls
  BY DEF AgentCalls, CallsOnWindows, CallsOnLinux, CallsAnywhere, Over

-----------------------------------------------------------------------------
\* Run m has not asked for the lock yet, or it has it.
Waits(m)  == runs[m].pc = "cron" \/ (onWindows /\ runs[m].pc = "jitter")
AtWork(m) == ~Waits(m) /\ runs[m].pc \notin Over

\* The lock, the times of the runs, and the payloads so far.
TurnInv ==
    /\ \A m \in Runs : AtWork(m) => lock = m
    /\ lock # 0 => AtWork(lock)
    /\ \A m \in Runs :
         /\ runs[m].at >= 60 * m
         /\ Waits(m) => runs[m].at <= 60 * m + 25
         /\ runs[m].alarm # NoAlarm => runs[m].alarm >= runs[m].at
    /\ \A k, m \in Runs : k < m /\ Waits(k) => Waits(m)
    /\ \A m \in Runs : runs[m].pc \notin Over => \A i \in DOMAIN posts : posts[i] <= m
    /\ PostsInOrder
    /\ \A m \in Runs : runs[m].pc = "skipped" => \E k \in 1..(m-1) : runs[k].at >= 60 * m

\* The attempts of run m, and why it may have ended.
TryOf(m) ==
    /\ runs[m].pc \notin {"post", "backoff"} \cup Over => runs[m].try = 0
    /\ runs[m].pc \notin Over => runs[m].try < Tries
    /\ runs[m].pc \in {"done", "gave_up", "timeout", "backoff"} => runs[m].try > 0
    /\ runs[m].pc = "died" => runs[m].hurt \cap {"containers", "log"} # {}
    /\ runs[m].pc = "cron" => runs[m].at = 60 * m
    /\ runs[m].pc \in {"cron", "jitter"} => runs[m].alarm = NoAlarm

TryInv == \A m \in Runs : TryOf(m)

\* A section that a rig without containers or disks does not have.
Excused(r, s) ==
    \/ s = "details" /\ ("containers" \notin r.got \/ ~truth.running)
    \/ s = "smart" /\ "storage" \notin r.got

\* Every section before `place` is collected, hurt or excused.
Covered(r, place) ==
    \A s \in AgentSections : s \in r.got \/ s \in r.hurt \/ Excused(r, s) \/ Place[s] >= place

\* What run m has collected where it is.
FaultOf(m) ==
    /\ runs[m].pc \in {"cron", "jitter"} => runs[m].got = {} /\ runs[m].hurt = {}
    /\ runs[m].pc \in AgentCalls =>
         /\ \A s \in runs[m].got : s \in AgentSections /\ Place[s] < Reached[runs[m].pc]
         /\ Covered(runs[m], Reached[runs[m].pc])
    /\ runs[m].pc \in {"post", "backoff"} => Covered(runs[m], 16)
    /\ Posted(m) => runs[m].pc \in {"post", "backoff"} \cup Over /\ Covered(runs[m], 16)

FaultInv == \A m \in Runs : FaultOf(m)

\* The inductive invariant.
RunInv == /\ RunTypeOK /\ onWindows \in BOOLEAN /\ TurnInv
          /\ TryInv /\ FaultInv

-----------------------------------------------------------------------------
\* What a step of the run of minute m may do to the turns.
Posting(m) == posts' \in {posts, Append(posts, m)}
Freed(m)   == lock' = (IF lock = m THEN 0 ELSE lock)

Turn(m) ==
    /\ Due(m) /\ UNCHANGED onWindows
    /\ \A k \in Runs : k # m => runs'[k] = runs[k]
    /\ runs'[m].at >= runs[m].at
    /\ runs'[m].alarm # NoAlarm => runs'[m].alarm >= runs'[m].at
    /\ \/ AtWork(m) /\ AtWork(m)' /\ UNCHANGED lock /\ Posting(m)
       \/ AtWork(m) /\ runs'[m].pc \in Over \ {"skipped"} /\ Freed(m) /\ Posting(m)
       \/ Waits(m) /\ Waits(m)' /\ runs'[m].at <= 60 * m + 25 /\ UNCHANGED <<lock, posts>>
       \/ Waits(m) /\ AtWork(m)' /\ lock = 0 /\ lock' = m /\ UNCHANGED posts
       \/ Waits(m) /\ runs'[m].pc = "skipped" /\ lock # 0 /\ Freed(m) /\ UNCHANGED posts

\* Such a step keeps the turns.
LEMMA TurnStep ==
  ASSUME RunTypeOK, RunTypeOK', TurnInv, NEW m \in Runs, Turn(m)
  PROVE  TurnInv'
  <1> USE DEF Runs
  <1>0. RunMinutes \in Nat /\ 0 \notin Runs
    BY RunAssumption
  <1>1. /\ \A k \in Runs : runs[k].at \in Nat /\ runs'[k].at \in Nat /\ runs'[k].alarm \in Nat
        /\ \A k \in Runs : k # m => (Waits(k)' <=> Waits(k)) /\ (AtWork(k)' <=> AtWork(k))
    BY DEF RunTypeOK, Turn, Waits, AtWork
  <1>2. Waits(m) => \A k \in Runs : k < m => ~Waits(k)
    <2> SUFFICES ASSUME Waits(m), NEW k \in Runs, k < m, Waits(k) PROVE FALSE
      OBVIOUS
    <2>1. runs[k].pc \notin Over /\ runs[k].at <= 60 * k + 25 /\ runs[m].at >= 60 * m
      BY DEF TurnInv, Waits, Over
    <2>2. runs[m].at <= runs[k].at
      BY <2>1 DEF Turn, Due
    <2> QED BY <2>1, <2>2, <1>0, <1>1
  <1>3. Waits(m) /\ lock # 0 => lock \in Runs /\ lock < m /\ runs[lock].at >= 60 * m
    <2> SUFFICES ASSUME Waits(m), lock # 0 PROVE lock \in Runs /\ lock < m /\ runs[lock].at >= 60 * m
      OBVIOUS
    <2>1. lock \in Runs /\ AtWork(lock)
      BY DEF TurnInv, RunTypeOK
    <2>2. lock # m /\ ~(m < lock)
      BY <2>1 DEF TurnInv, AtWork
    <2>3. runs[m].at <= runs[lock].at /\ runs[m].at >= 60 * m
      BY <2>1 DEF Turn, Due, TurnInv, AtWork
    <2> QED BY <2>1, <2>2, <2>3, <1>0, <1>1
  <1>4. AtWork(m) => \A k \in Runs : k # m => ~AtWork(k)
    BY <1>0 DEF TurnInv
  <1>5. (\A k \in Runs : AtWork(k) => lock = k)' /\ (lock # 0 => AtWork(lock))'
    <2>1. CASE AtWork(m) /\ AtWork(m)' /\ UNCHANGED lock
      BY <2>1, <1>0, <1>1 DEF TurnInv
    <2>2. CASE AtWork(m) /\ runs'[m].pc \in Over \ {"skipped"} /\ Freed(m)
      <3>1. lock = m /\ lock' = 0 /\ ~AtWork(m)'
        BY <2>2 DEF TurnInv, Freed, AtWork
      <3> QED BY <3>1, <2>2, <1>1, <1>4
    <2>3. CASE Waits(m) /\ Waits(m)' /\ UNCHANGED lock
      <3>1. ~AtWork(m) /\ ~AtWork(m)'
        BY <2>3 DEF AtWork
      <3>2. lock # 0 => lock # m
        BY <3>1 DEF TurnInv
      <3>3. \A k \in Runs : AtWork(k)' <=> AtWork(k)
        BY <3>1, <1>1
      <3>4. lock # 0 => lock \in Runs
        BY DEF RunTypeOK
      <3> QED BY <3>3, <3>4, <2>3 DEF TurnInv
    <2>4. CASE Waits(m) /\ AtWork(m)' /\ lock = 0 /\ lock' = m
      BY <2>4, <1>0, <1>1 DEF TurnInv
    <2>5. CASE Waits(m) /\ runs'[m].pc = "skipped" /\ lock # 0 /\ Freed(m)
      <3>1. ~AtWork(m) /\ ~AtWork(m)'
        BY <2>5 DEF AtWork, Over
      <3>2. lock # m /\ lock' = lock
        BY <2>5, <1>3, <1>0 DEF Freed
      <3>3. \A k \in Runs : AtWork(k)' <=> AtWork(k)
        BY <3>1, <1>1
      <3>4. lock \in Runs
        BY <2>5, <1>3
      <3> QED BY <3>2, <3>3, <3>4 DEF TurnInv
    <2> QED BY <2>1, <2>2, <2>3, <2>4, <2>5 DEF Turn
  <1>6. \A k \in Runs : /\ runs'[k].at >= 60 * k
                        /\ Waits(k)' => runs'[k].at <= 60 * k + 25
                        /\ runs'[k].alarm # NoAlarm => runs'[k].alarm >= runs'[k].at
    <2> SUFFICES ASSUME NEW k \in Runs
                 PROVE  /\ runs'[k].at >= 60 * k
                        /\ Waits(k)' => runs'[k].at <= 60 * k + 25
                        /\ runs'[k].alarm # NoAlarm => runs'[k].alarm >= runs'[k].at
      OBVIOUS
    <2>1. CASE k # m
      BY <2>1, <1>1 DEF TurnInv, Turn
    <2>2. CASE k = m
      <3>1. Waits(m)' => runs'[m].at <= 60 * m + 25
        BY DEF Turn, AtWork, Waits, Over
      <3>2. runs'[m].at >= runs[m].at /\ runs[m].at >= 60 * m
        BY DEF Turn, TurnInv
      <3> QED BY <3>1, <3>2, <2>2, <1>0, <1>1 DEF Turn
    <2> QED BY <2>1, <2>2
  <1>7. \A j, k \in Runs : j < k /\ Waits(j)' => Waits(k)'
    <2> SUFFICES ASSUME NEW j \in Runs, NEW k \in Runs, j < k, Waits(j)' PROVE Waits(k)'
      OBVIOUS
    <2>1. Waits(j)
      BY <1>1 DEF Turn, AtWork, Waits, Over
    <2>2. Waits(k)
      BY <2>1 DEF TurnInv
    <2>3. CASE k = m
      BY <2>1, <2>2, <2>3, <1>2
    <2> QED BY <2>2, <2>3, <1>1
  <1>8. /\ \A k \in Runs : runs'[k].pc \notin Over => \A i \in DOMAIN posts' : posts'[i] <= k
        /\ PostsInOrder'
    <2>0. \A k \in Runs : runs'[k].pc \notin Over => runs[k].pc \notin Over
      BY DEF Turn, Due
    <2>1. CASE UNCHANGED posts
      BY <2>0, <2>1 DEF TurnInv, PostsInOrder
    <2>2. CASE AtWork(m) /\ posts' = Append(posts, m)
      <3>1. /\ DOMAIN posts' = 1 .. (Len(posts) + 1) /\ DOMAIN posts = 1 .. Len(posts) /\ Len(posts) \in Nat
            /\ posts'[Len(posts) + 1] = m
            /\ \A i \in DOMAIN posts : posts'[i] = posts[i]
        BY <2>2 DEF RunTypeOK
      <3>2. \A i \in DOMAIN posts : posts[i] <= m
        BY DEF Turn, Due, TurnInv
      <3>3. ASSUME NEW k \in Runs, runs'[k].pc \notin Over PROVE m <= k
        <4>1. CASE k < m
          <5>1. runs[k].pc \notin Over
            BY <3>3, <2>0
          <5>2. ~Waits(k)
            BY <2>2, <4>1 DEF TurnInv, AtWork
          <5> QED BY <5>1, <5>2, <4>1, <1>4, <2>2, <1>0 DEF AtWork
        <4> QED BY <4>1, <1>0
      <3>4. \A k \in Runs : runs'[k].pc \notin Over => \A i \in DOMAIN posts : posts[i] <= k
        BY <2>0 DEF TurnInv
      <3>5. \A k \in Runs : runs'[k].pc \notin Over => \A i \in DOMAIN posts' : posts'[i] <= k
        BY <3>1, <3>3, <3>4
      <3>6. PostsInOrder'
        <4> SUFFICES ASSUME NEW i \in DOMAIN posts', NEW j \in DOMAIN posts', i < j
                     PROVE  posts'[i] <= posts'[j]
          BY DEF PostsInOrder
        <4>1. i \in DOMAIN posts
          BY <3>1
        <4>2. CASE j = Len(posts) + 1
          BY <4>1, <4>2, <3>1, <3>2
        <4>3. CASE j # Len(posts) + 1
          <5>1. j \in DOMAIN posts
            BY <4>3, <3>1
          <5> QED BY <4>1, <5>1, <3>1 DEF TurnInv, PostsInOrder
        <4> QED BY <4>2, <4>3
      <3> QED BY <3>5, <3>6
    <2> QED BY <2>1, <2>2 DEF Turn, Posting
  <1>9. \A k \in Runs : runs'[k].pc = "skipped" => \E j \in 1..(k-1) : runs'[j].at >= 60 * k
    <2> SUFFICES ASSUME NEW k \in Runs, runs'[k].pc = "skipped"
                 PROVE  \E j \in 1..(k-1) : runs'[j].at >= 60 * k
      OBVIOUS
    <2>1. \A j \in Runs : runs'[j].at >= runs[j].at
      BY <1>1 DEF Turn
    <2>2. \E j \in 1..(k-1) : runs[j].at >= 60 * k
      <3>1. CASE k # m
        BY <3>1 DEF Turn, TurnInv
      <3>2. CASE k = m
        <4>1. Waits(m) /\ lock # 0
          BY <3>2 DEF Turn, Due, AtWork, Waits, Over
        <4> QED BY <4>1, <3>2, <1>3, <1>0
      <3> QED BY <3>1, <3>2
    <2>3. PICK j \in 1..(k-1) : runs[j].at >= 60 * k
      BY <2>2
    <2>4. j \in Runs
      BY <1>0
    <2> QED BY <2>1, <2>3, <2>4, <1>1
  <1> QED BY <1>5, <1>6, <1>7, <1>8, <1>9 DEF TurnInv

-----------------------------------------------------------------------------
\* The record of a run.
Hurts  == {c.section : c \in Calls} \cup {"log"}
RunRec == [pc : {"cron", "jitter", "post", "backoff"} \cup Over \cup AgentCalls,
           at : Nat, alarm : Nat, from : Nat, try : 0 .. Tries, got : SUBSET Sections, hurt : SUBSET Hurts]

\* The type invariant by the names of the calls.
LEMMA RunTypes == RunTypeOK <=> /\ runs \in [Runs -> RunRec] /\ lock \in Runs \cup {0}
                                /\ posts \in Seq(Runs) /\ faults \in 0 .. MaxFaults
  <1>1. {"cron", "jitter", "log", "post", "backoff"} \cup Over \cup {c.name : c \in Calls} =
        {"cron", "jitter", "post", "backoff"} \cup Over \cup AgentCalls
    BY Rows
  <1> QED BY <1>1 DEF RunTypeOK, RunRec, Hurts

\* And after a step.
LEMMA RunTypesNext == UNCHANGED onWindows =>
                        (RunTypeOK' <=> /\ runs' \in [Runs -> RunRec] /\ lock' \in Runs \cup {0}
                                        /\ posts' \in Seq(Runs) /\ faults' \in 0 .. MaxFaults)
  <1>1. UNCHANGED onWindows => Calls' = Calls /\ Sections' = Sections
    BY DEF Calls, Sections
  <1>2. {"cron", "jitter", "log", "post", "backoff"} \cup Over \cup {c.name : c \in Calls} =
        {"cron", "jitter", "post", "backoff"} \cup Over \cup AgentCalls
    BY Rows
  <1> QED BY <1>1, <1>2 DEF RunTypeOK, RunRec, Hurts

\* What is to be shown of a step of run m that makes its record `new`.
LEMMA Moved ==
  ASSUME RunInv, NEW m \in Runs, NEW new \in RunRec, Due(m), UNCHANGED onWindows,
         runs' = [runs EXCEPT ![m] = new]
  PROVE  /\ runs' \in [Runs -> RunRec] /\ runs'[m] = new
         /\ \A k \in Runs : k # m => runs'[k] = runs[k]
         /\ Calls' = Calls /\ AgentCalls' = AgentCalls /\ AgentSections' = AgentSections
         /\ Sections' = Sections
  <1>1. runs \in [Runs -> RunRec]
    BY RunTypes DEF RunInv
  <1> QED BY <1>1 DEF Calls, AgentCalls, AgentSections, Sections

\* What Start does.
LEMMA StartFacts ==
  ASSUME RunInv, NEW m \in Runs, Start(m)
  PROVE  /\ RunTypeOK' /\ Turn(m) /\ UNCHANGED <<truth, posts>>
         /\ runs'[m].try = runs[m].try /\ runs'[m].got = runs[m].got /\ runs'[m].hurt = runs[m].hurt
         /\ runs'[m].pc \in {"jitter", "skipped"} /\ runs'[m].alarm = NoAlarm
  <1> DEFINE r == runs[m]
  <1>1. /\ r \in RunRec /\ r.pc = "cron" /\ r.at = 60 * m /\ m \in Nat /\ r.alarm = NoAlarm
        /\ lock \in Runs \cup {0} /\ posts \in Seq(Runs) /\ faults \in 0 .. MaxFaults
        /\ UNCHANGED <<onWindows, truth, posts, faults>> /\ Due(m)
    BY RunTypes, RunAssumption DEF RunInv, TryInv, TryOf, Start, Runs
  <1>2. PICK j \in 0..25 :
           LET s == [runs[m] EXCEPT !.at = @ + j]
           IN  IF onWindows
               THEN runs' = [runs EXCEPT ![m] = [s EXCEPT !.pc = "jitter"]] /\ UNCHANGED lock
               ELSE Enter(m, s, "jitter")
    BY RunAssumption DEF Start
  <1>20. j \in 0..25 /\ r.at \in Nat /\ r.at + j \in Nat
    <2>1. j \in 0..25
      BY <1>2
    <2>2. r.at \in Nat
      BY <1>1 DEF RunRec
    <2> QED BY <2>1, <2>2
  <1> DEFINE new(pc) == [r EXCEPT !.pc = pc, !.at = r.at + j]
  <1>3. \A pc \in {"jitter", "skipped"} :
           /\ new(pc) \in RunRec /\ new(pc).pc = pc /\ new(pc).at = r.at + j
           /\ new(pc).alarm = r.alarm
           /\ new(pc).try = r.try /\ new(pc).got = r.got /\ new(pc).hurt = r.hurt
    BY <1>1, <1>20 DEF RunRec, Over
  <1>4. /\ [[r EXCEPT !.at = @ + j] EXCEPT !.pc = "jitter"] = new("jitter")
        /\ [[r EXCEPT !.at = @ + j] EXCEPT !.pc = "skipped", !.at = [r EXCEPT !.at = @ + j].at] = new("skipped")
    BY <1>1 DEF RunRec
  <1>5. PICK pc \in {"jitter", "skipped"} :
           /\ runs' = [runs EXCEPT ![m] = new(pc)]
           /\ pc = "skipped" => ~onWindows /\ lock # 0 /\ Freed(m)
           /\ pc = "jitter" => IF onWindows THEN UNCHANGED lock ELSE lock = 0 /\ lock' = m
    BY <1>2, <1>4 DEF Enter, End, Freed
  <1> HIDE DEF new
  <1>6. /\ runs' \in [Runs -> RunRec] /\ runs'[m] = new(pc)
        /\ \A k \in Runs : k # m => runs'[k] = runs[k]
    BY <1>1, <1>3, <1>5, Moved
  <1>7. RunTypeOK'
    BY <1>1, <1>5, <1>6, RunTypesNext DEF Freed
  <1>8. Turn(m)
    <2> USE <1>20
    <2>1. Waits(m)
      BY <1>1 DEF Waits
    <2>2. CASE pc = "skipped"
      BY <2>1, <2>2, <1>1, <1>3, <1>5, <1>6 DEF Turn
    <2>3. CASE pc = "jitter" /\ onWindows
      <3>1. Waits(m)'
        BY <2>3, <1>1, <1>3, <1>6 DEF Waits
      <3> QED BY <2>1, <2>3, <3>1, <1>1, <1>3, <1>5, <1>6 DEF Turn
    <2>4. CASE pc = "jitter" /\ ~onWindows
      <3>1. AtWork(m)'
        BY <2>4, <1>1, <1>3, <1>6 DEF AtWork, Waits, Over
      <3> QED BY <2>1, <2>4, <3>1, <1>1, <1>3, <1>5, <1>6 DEF Turn
    <2> QED BY <2>2, <2>3, <2>4
  <1> QED BY <1>1, <1>3, <1>6, <1>7, <1>8

\* What Wake does.
LEMMA WakeFacts ==
  ASSUME RunInv, NEW m \in Runs, Wake(m)
  PROVE  /\ RunTypeOK' /\ Turn(m) /\ UNCHANGED <<truth, posts>>
         /\ runs'[m].try = runs[m].try /\ runs'[m].got = runs[m].got /\ runs'[m].hurt = runs[m].hurt
         /\ runs'[m].pc \in {"nvidia_smi", "skipped"} /\ runs[m].pc = "jitter"
  <1> DEFINE r == runs[m]
  <1>1. /\ r \in RunRec /\ r.pc = "jitter" /\ r.alarm = NoAlarm /\ r.at \in Nat
        /\ lock \in Runs \cup {0} /\ posts \in Seq(Runs) /\ faults \in 0 .. MaxFaults
        /\ UNCHANGED <<onWindows, truth, posts, faults>> /\ Due(m)
    BY RunTypes DEF RunInv, TryInv, TryOf, Wake, RunRec
  <1>2. r.at + AlarmAfter \in Nat /\ r.at + AlarmAfter >= r.at /\ NoAlarm \in Nat
    BY <1>1, RunAssumption DEF NoAlarm
  <1> DEFINE new(pc, alarm) == [r EXCEPT !.pc = pc, !.at = r.at, !.alarm = alarm, !.from = r.at]
  <1>3. \A pc \in {"nvidia_smi", "skipped"}, alarm \in {NoAlarm, r.at + AlarmAfter} :
           /\ new(pc, alarm) \in RunRec /\ new(pc, alarm).pc = pc /\ new(pc, alarm).at = r.at
           /\ new(pc, alarm).alarm = alarm
           /\ new(pc, alarm).try = r.try /\ new(pc, alarm).got = r.got /\ new(pc, alarm).hurt = r.hurt
    BY <1>1, <1>2, Names DEF RunRec, Over
  <1>4. PICK pc \in {"nvidia_smi", "skipped"}, alarm \in {NoAlarm, r.at + AlarmAfter} :
           /\ runs' = [runs EXCEPT ![m] = new(pc, alarm)]
           /\ pc = "skipped" => onWindows /\ lock # 0 /\ Freed(m)
           /\ pc = "nvidia_smi" => IF onWindows THEN lock = 0 /\ lock' = m ELSE UNCHANGED lock
    <2> DEFINE s == [r EXCEPT !.from = r.at]
    <2>1. /\ [s EXCEPT !.pc = "nvidia_smi"] = new("nvidia_smi", NoAlarm)
          /\ [s EXCEPT !.pc = "skipped", !.at = s.at] = new("skipped", NoAlarm)
          /\ [s EXCEPT !.pc = "nvidia_smi", !.alarm = s.at + AlarmAfter] =
                 new("nvidia_smi", r.at + AlarmAfter)
      BY <1>1 DEF RunRec
    <2>2. IF onWindows THEN Enter(m, s, "nvidia_smi")
          ELSE /\ runs' = [runs EXCEPT ![m] = [s EXCEPT !.pc = "nvidia_smi", !.alarm = s.at + AlarmAfter]]
               /\ UNCHANGED lock
      BY DEF Wake
    <2> HIDE DEF s, new
    <2> QED BY <2>1, <2>2 DEF Enter, End, Freed
  <1> HIDE DEF new
  <1>5. /\ runs' \in [Runs -> RunRec] /\ runs'[m] = new(pc, alarm)
        /\ \A k \in Runs : k # m => runs'[k] = runs[k]
    BY <1>1, <1>3, <1>4, Moved
  <1>6. RunTypeOK'
    BY <1>1, <1>4, <1>5, RunTypesNext DEF Freed
  <1>7. /\ runs'[m].pc = pc /\ runs'[m].at = r.at /\ runs'[m].alarm = alarm
        /\ runs'[m].try = r.try /\ runs'[m].got = r.got /\ runs'[m].hurt = r.hurt
        /\ pc \in {"nvidia_smi", "skipped"} /\ alarm \in {NoAlarm, r.at + AlarmAfter}
    BY <1>3, <1>4, <1>5
  <1>8. Turn(m)
    <2>1. runs'[m].at >= r.at /\ (runs'[m].alarm # NoAlarm => runs'[m].alarm >= runs'[m].at)
      BY <1>1, <1>2, <1>7
    <2>2. CASE pc = "skipped"
      <3>1. Waits(m) /\ lock # 0 /\ Freed(m)
        BY <2>2, <1>1, <1>4 DEF Waits
      <3> QED BY <2>1, <2>2, <3>1, <1>1, <1>5, <1>7 DEF Turn
    <2>3. CASE pc = "nvidia_smi"
      <3>1. AtWork(m)'
        BY <2>3, <1>1, <1>7 DEF AtWork, Waits, Over
      <3>2. IF onWindows THEN Waits(m) /\ lock = 0 /\ lock' = m ELSE AtWork(m) /\ UNCHANGED lock
        BY <2>3, <1>1, <1>4 DEF AtWork, Waits, Over
      <3> QED BY <2>1, <3>1, <3>2, <1>1, <1>5, <1>7 DEF Turn, Posting
    <2> QED BY <2>2, <2>3, <1>7
  <1> QED BY <1>1, <1>6, <1>7, <1>8

\* What LogPayload does.
LEMMA LogFacts ==
  ASSUME RunInv, NEW m \in Runs, LogPayload(m)
  PROVE  /\ RunTypeOK' /\ Turn(m) /\ UNCHANGED <<truth, posts>>
         /\ runs'[m].try = runs[m].try /\ runs'[m].got = runs[m].got /\ runs[m].pc = "log"
         /\ \/ runs'[m].pc = "post" /\ runs'[m].hurt = runs[m].hurt
            \/ runs'[m].pc = "died" /\ runs'[m].hurt = runs[m].hurt \cup {"log"}
  <1> DEFINE r == runs[m]
  <1>1. /\ r \in RunRec /\ r.pc = "log" /\ r.at \in Nat /\ r.hurt \in SUBSET Hurts
        /\ r.alarm # NoAlarm => r.alarm >= r.at
        /\ lock \in Runs \cup {0} /\ posts \in Seq(Runs) /\ faults \in 0 .. MaxFaults
        /\ UNCHANGED <<onWindows, truth, posts>> /\ Due(m)
    BY RunTypes DEF RunInv, TurnInv, LogPayload, RunRec
  <1> DEFINE new(pc, hurt) == [r EXCEPT !.pc = pc, !.at = r.at, !.hurt = hurt]
  <1>2. \A pc \in {"post", "died"}, hurt \in SUBSET Hurts :
           /\ new(pc, hurt) \in RunRec /\ new(pc, hurt).pc = pc /\ new(pc, hurt).at = r.at
           /\ new(pc, hurt).alarm = r.alarm
           /\ new(pc, hurt).try = r.try /\ new(pc, hurt).got = r.got /\ new(pc, hurt).hurt = hurt
    BY <1>1 DEF RunRec, Over
  <1>3. r.hurt \cup {"log"} \in SUBSET Hurts
    BY <1>1 DEF Hurts
  <1>4. \E pc \in {"post", "died"}, hurt \in SUBSET Hurts :
           /\ runs' = [runs EXCEPT ![m] = new(pc, hurt)]
           /\ pc = "post" => UNCHANGED lock /\ hurt = r.hurt
           /\ pc = "died" => Freed(m) /\ hurt = r.hurt \cup {"log"}
    <2>1. /\ [r EXCEPT !.pc = "post"] = new("post", r.hurt)
          /\ [[r EXCEPT !.hurt = @ \cup {"log"}] EXCEPT !.pc = "died", !.at = r.at]
              = new("died", r.hurt \cup {"log"})
      BY <1>1 DEF RunRec
    <2>2. \/ runs' = [runs EXCEPT ![m] = [r EXCEPT !.pc = "post"]] /\ UNCHANGED lock
          \/ End(m, [r EXCEPT !.hurt = @ \cup {"log"}], "died", r.at)
      BY RunTypes DEF LogPayload, RunInv
    <2> HIDE DEF new
    <2> QED BY <2>1, <2>2, <1>1, <1>3 DEF End, Freed
  <1>5. PICK pc \in {"post", "died"}, hurt \in SUBSET Hurts :
           /\ runs' = [runs EXCEPT ![m] = new(pc, hurt)]
           /\ pc = "post" => UNCHANGED lock /\ hurt = r.hurt
           /\ pc = "died" => Freed(m) /\ hurt = r.hurt \cup {"log"}
    BY <1>4
  <1> HIDE DEF new
  <1>6. /\ runs' \in [Runs -> RunRec] /\ runs'[m] = new(pc, hurt)
        /\ \A k \in Runs : k # m => runs'[k] = runs[k]
    BY <1>1, <1>2, <1>5, Moved
  <1>7. faults' \in 0 .. MaxFaults
    BY <1>1, RunAssumption DEF LogPayload
  <1>8. RunTypeOK'
    BY <1>1, <1>5, <1>6, <1>7, RunTypesNext DEF Freed
  <1>9. /\ runs'[m].pc = pc /\ runs'[m].at = r.at /\ runs'[m].alarm = r.alarm
        /\ runs'[m].try = r.try /\ runs'[m].got = r.got /\ runs'[m].hurt = hurt /\ pc \in {"post", "died"}
    BY <1>2, <1>5, <1>6
  <1>10. Turn(m)
    <2>1. runs'[m].at >= r.at /\ (runs'[m].alarm # NoAlarm => runs'[m].alarm >= runs'[m].at)
      BY <1>1, <1>9
    <2>2. AtWork(m)
      BY <1>1 DEF AtWork, Waits, Over
    <2>3. CASE pc = "died"
      <3>1. runs'[m].pc \in Over \ {"skipped"} /\ Freed(m)
        BY <2>3, <1>5, <1>9 DEF Over
      <3> QED BY <2>1, <2>2, <3>1, <1>1, <1>6 DEF Turn, Posting
    <2>4. CASE pc = "post"
      <3>1. AtWork(m)' /\ UNCHANGED lock
        BY <2>4, <1>1, <1>5, <1>9 DEF AtWork, Waits, Over
      <3> QED BY <2>1, <2>2, <3>1, <1>1, <1>6 DEF Turn, Posting
    <2> QED BY <2>3, <2>4, <1>9
  <1> QED BY <1>1, <1>5, <1>8, <1>9, <1>10

\* What Backoff does.
LEMMA BackoffFacts ==
  ASSUME RunInv, NEW m \in Runs, Backoff(m)
  PROVE  /\ RunTypeOK' /\ Turn(m) /\ UNCHANGED <<truth, posts>>
         /\ runs'[m].try = runs[m].try /\ runs'[m].got = runs[m].got /\ runs'[m].hurt = runs[m].hurt
         /\ runs[m].pc = "backoff" /\ runs'[m].pc \in {"post", "timeout"}
  <1> DEFINE r   == runs[m]
             end == r.at + Delays[r.try - 1]
  <1>1. /\ r \in RunRec /\ r.pc = "backoff" /\ r.at \in Nat /\ r.try \in 1 .. (Tries - 1) /\ r.alarm \in Nat
        /\ r.alarm # NoAlarm => r.alarm >= r.at
        /\ lock \in Runs \cup {0} /\ posts \in Seq(Runs) /\ faults \in 0 .. MaxFaults
        /\ UNCHANGED <<onWindows, truth, posts, faults>> /\ Due(m)
    <2>1. Due(m) /\ r.pc = "backoff" /\ UNCHANGED <<onWindows, truth, posts, faults>>
      BY DEF Backoff
    <2>2. r \in RunRec /\ lock \in Runs \cup {0} /\ posts \in Seq(Runs) /\ faults \in 0 .. MaxFaults
      BY RunTypes DEF RunInv
    <2>3. r.at \in Nat /\ r.alarm \in Nat /\ r.try \in 0 .. Tries
      BY <2>2 DEF RunRec
    <2>4. r.try > 0 /\ r.try < Tries
      BY <2>1 DEF RunInv, TryInv, TryOf, Over
    <2>5. r.alarm # NoAlarm => r.alarm >= r.at
      BY DEF RunInv, TurnInv
    <2> QED BY <2>1, <2>2, <2>3, <2>4, <2>5, RunAssumption
  <1>2. end \in Nat /\ end >= r.at
    <2>1. r.try - 1 \in 0 .. (Tries - 1)
      BY <1>1, RunAssumption
    <2>2. Delays[r.try - 1] \in Nat
      BY <2>1, RunAssumption
    <2> QED BY <2>2, <1>1
  <1> DEFINE new(pc, at) == [r EXCEPT !.pc = pc, !.at = at]
  <1>3. \A pc \in {"post", "timeout"}, at \in Nat :
           /\ new(pc, at) \in RunRec /\ new(pc, at).pc = pc /\ new(pc, at).at = at
           /\ new(pc, at).alarm = r.alarm
           /\ new(pc, at).try = r.try /\ new(pc, at).got = r.got /\ new(pc, at).hurt = r.hurt
    BY <1>1 DEF RunRec, Over
  <1>4. \E pc \in {"post", "timeout"}, at \in Nat :
           /\ runs' = [runs EXCEPT ![m] = new(pc, at)]
           /\ pc = "post" => UNCHANGED lock /\ at = end /\ ~Rings(r, end)
           /\ pc = "timeout" => Freed(m) /\ at = r.alarm /\ r.alarm # NoAlarm
    <2>1. IF Rings(r, end) THEN End(m, r, "timeout", r.alarm)
          ELSE runs' = [runs EXCEPT ![m] = new("post", end)] /\ UNCHANGED lock
      BY DEF Backoff
    <2>2. CASE Rings(r, end)
      <3>1. runs' = [runs EXCEPT ![m] = new("timeout", r.alarm)] /\ Freed(m) /\ r.alarm # NoAlarm
        BY <2>1, <2>2 DEF End, Freed, Rings
      <3> HIDE DEF new
      <3> QED BY <3>1, <1>1
    <2>3. CASE ~Rings(r, end)
      <3> HIDE DEF new, end
      <3> QED BY <2>1, <2>3, <1>2
    <2> QED BY <2>2, <2>3
  <1>5. PICK pc \in {"post", "timeout"}, at \in Nat :
           /\ runs' = [runs EXCEPT ![m] = new(pc, at)]
           /\ pc = "post" => UNCHANGED lock /\ at = end /\ ~Rings(r, end)
           /\ pc = "timeout" => Freed(m) /\ at = r.alarm /\ r.alarm # NoAlarm
    BY <1>4
  <1> HIDE DEF new, end
  <1>6. /\ runs' \in [Runs -> RunRec] /\ runs'[m] = new(pc, at)
        /\ \A k \in Runs : k # m => runs'[k] = runs[k]
    BY <1>1, <1>3, <1>5, Moved
  <1>7. /\ runs'[m].pc = pc /\ runs'[m].at = at /\ runs'[m].alarm = r.alarm
        /\ runs'[m].try = r.try /\ runs'[m].got = r.got /\ runs'[m].hurt = r.hurt
        /\ pc \in {"post", "timeout"} /\ at \in Nat
    BY <1>3, <1>5, <1>6
  <1>8. RunTypeOK'
    BY <1>1, <1>5, <1>6, <1>7, RunTypesNext DEF Freed
  <1>9. Turn(m)
    <2>1. AtWork(m)
      BY <1>1 DEF AtWork, Waits, Over
    <2>2. CASE pc = "timeout"
      <3>1. /\ runs'[m].pc \in Over \ {"skipped"} /\ Freed(m)
            /\ runs'[m].at >= r.at /\ (runs'[m].alarm # NoAlarm => runs'[m].alarm >= runs'[m].at)
        BY <2>2, <1>1, <1>5, <1>7 DEF Over
      <3> QED BY <2>1, <3>1, <1>1, <1>6 DEF Turn, Posting
    <2>3. CASE pc = "post"
      <3>1. AtWork(m)' /\ UNCHANGED lock
        BY <2>3, <1>1, <1>5, <1>7 DEF AtWork, Waits, Over
      <3>2. runs'[m].at >= r.at
        BY <2>3, <1>2, <1>5, <1>7
      <3>3. runs'[m].alarm # NoAlarm => runs'[m].alarm >= runs'[m].at
        BY <2>3, <1>1, <1>2, <1>5, <1>7 DEF Rings
      <3> QED BY <2>1, <3>1, <3>2, <3>3, <1>1, <1>6 DEF Turn, Posting
    <2> QED BY <2>2, <2>3, <1>7
  <1> QED BY <1>1, <1>7, <1>8, <1>9

\* Whether the alarm rings in a step to `end` or not, it does not stay behind.
LEMMA Ringing ==
  ASSUME NEW r, r.at \in Nat, r.alarm \in Nat, r.alarm # NoAlarm => r.alarm >= r.at,
         NEW end \in Nat, end >= r.at,
         NEW at, at = (IF Rings(r, end) THEN r.alarm ELSE end),
         NEW alarm, alarm = (IF Rings(r, end) THEN NoAlarm ELSE r.alarm)
  PROVE  at \in Nat /\ alarm \in Nat /\ at >= r.at /\ (alarm # NoAlarm => alarm >= at)
  BY DEF Rings, NoAlarm

\* What Post does.
LEMMA PostFacts ==
  ASSUME RunInv, NEW m \in Runs, NEW outcome \in {"answered", "unreachable", "late"}, Post(m, outcome)
  PROVE  /\ RunTypeOK' /\ Turn(m) /\ UNCHANGED truth
         /\ runs'[m].got = runs[m].got /\ runs'[m].hurt = runs[m].hurt /\ Posting(m)
         /\ runs[m].pc = "post" /\ runs'[m].try = runs[m].try + 1 /\ runs[m].try \in Nat
         /\ runs'[m].pc \in {"done", "gave_up", "backoff"} /\ (runs'[m].pc = "backoff" => runs'[m].try < Tries)
  <1> DEFINE r     == runs[m]
             end   == r.at + (CASE outcome = "answered" -> 0 [] outcome = "unreachable" -> 3 [] outcome = "late" -> 10)
             at    == IF Rings(r, end) THEN r.alarm ELSE end
             alarm == IF Rings(r, end) THEN NoAlarm ELSE r.alarm
  <1>1. /\ r \in RunRec /\ r.pc = "post" /\ r.at \in Nat /\ r.try \in 0 .. (Tries - 1) /\ r.alarm \in Nat
        /\ r.alarm # NoAlarm => r.alarm >= r.at
        /\ lock \in Runs \cup {0} /\ posts \in Seq(Runs) /\ faults \in 0 .. MaxFaults
        /\ UNCHANGED <<onWindows, truth>> /\ Due(m)
    BY SMTT(30), RunTypes, RunAssumption DEF RunInv, TurnInv, TryInv, TryOf, Post, RunRec, Over
  <1>2. end \in Nat /\ end >= r.at
    BY <1>1
  <1>3. at \in Nat /\ alarm \in Nat /\ at >= r.at /\ (alarm # NoAlarm => alarm >= at)
    <2> HIDE DEF end
    <2> QED BY <1>1, <1>2, Ringing
  <1> DEFINE then    == [r EXCEPT !.at = at, !.try = @ + 1, !.alarm = alarm]
             new(pc) == [r EXCEPT !.pc = pc, !.at = at, !.try = r.try + 1, !.alarm = alarm]
  <1>4. /\ Posting(m) /\ faults' \in 0 .. MaxFaults
        /\ CASE outcome = "answered"    -> End(m, then, "done", then.at)
             [] outcome # "answered" /\ then.try = Tries -> End(m, then, "gave_up", then.at)
             [] OTHER -> runs' = [runs EXCEPT ![m] = [then EXCEPT !.pc = "backoff"]] /\ UNCHANGED lock
    <2>1. /\ outcome # "answered" => faults < MaxFaults
          /\ faults' = IF outcome = "answered" THEN faults ELSE faults + 1
      BY DEF Post
    <2>4. faults' \in 0 .. MaxFaults
      BY <2>1, <1>1, RunAssumption
    <2>2. Posting(m)
      BY DEF Post, Posting
    <2>3. (CASE outcome = "answered"    -> End(m, then, "done", then.at)
            [] outcome # "answered" /\ then.try = Tries -> End(m, then, "gave_up", then.at)
            [] OTHER -> runs' = [runs EXCEPT ![m] = [then EXCEPT !.pc = "backoff"]] /\ UNCHANGED lock)
      BY DEF Post
    <2> HIDE DEF then
    <2> QED BY <2>2, <2>3, <2>4
  <1> HIDE DEF at, alarm
  <1>5. \A pc \in {"done", "gave_up", "backoff"} :
           /\ new(pc) \in RunRec /\ new(pc).pc = pc /\ new(pc).at = at
           /\ new(pc).alarm = alarm
           /\ new(pc).try = r.try + 1 /\ new(pc).got = r.got /\ new(pc).hurt = r.hurt
    <2>1. r.try + 1 \in 0 .. Tries
      BY <1>1, RunAssumption
    <2> QED BY <2>1, <1>1, <1>3 DEF RunRec, Over
  <1>6. \E pc \in {"done", "gave_up", "backoff"} :
           /\ runs' = [runs EXCEPT ![m] = new(pc)]
           /\ pc = "backoff" => UNCHANGED lock /\ r.try + 1 # Tries
           /\ pc # "backoff" => Freed(m)
    <2>1. /\ then.at = at /\ then.try = r.try + 1
          /\ \A pc \in {"done", "gave_up"} : [then EXCEPT !.pc = pc, !.at = at] = new(pc)
          /\ [then EXCEPT !.pc = "backoff"] = new("backoff")
      BY <1>1 DEF RunRec
    <2> HIDE DEF then, new
    <2>2. CASE outcome = "answered"
      <3>1. End(m, then, "done", then.at)
        BY <1>4, <2>2
      <3> QED BY <3>1, <2>1 DEF End, Freed
    <2>3. CASE outcome # "answered" /\ then.try = Tries
      <3>1. End(m, then, "gave_up", then.at)
        BY <1>4, <2>3
      <3> QED BY <3>1, <2>1 DEF End, Freed
    <2>4. CASE outcome # "answered" /\ then.try # Tries
      <3>1. runs' = [runs EXCEPT ![m] = [then EXCEPT !.pc = "backoff"]] /\ UNCHANGED lock
        BY <1>4, <2>4
      <3> QED BY <3>1, <2>1, <2>4
    <2> QED BY <2>2, <2>3, <2>4
  <1>7. PICK pc \in {"done", "gave_up", "backoff"} :
           /\ runs' = [runs EXCEPT ![m] = new(pc)]
           /\ pc = "backoff" => UNCHANGED lock /\ r.try + 1 # Tries
           /\ pc # "backoff" => Freed(m)
    BY <1>6
  <1> HIDE DEF new
  <1>8. /\ runs' \in [Runs -> RunRec] /\ runs'[m] = new(pc)
        /\ \A k \in Runs : k # m => runs'[k] = runs[k]
    BY <1>1, <1>5, <1>7, Moved
  <1>9. /\ runs'[m].pc = pc /\ runs'[m].at = at /\ runs'[m].alarm = alarm
        /\ runs'[m].try = r.try + 1 /\ runs'[m].got = r.got /\ runs'[m].hurt = r.hurt
        /\ pc \in {"done", "gave_up", "backoff"}
    BY <1>5, <1>7, <1>8
  <1>10. RunTypeOK'
    <2>1. posts' \in Seq(Runs)
      BY <1>1, <1>4 DEF Posting
    <2> QED BY <2>1, <1>1, <1>4, <1>7, <1>8, <1>9, RunTypesNext DEF Freed
  <1>11. Turn(m)
    <2>1. AtWork(m)
      BY <1>1 DEF AtWork, Waits, Over
    <2>2. runs'[m].at >= r.at /\ (runs'[m].alarm # NoAlarm => runs'[m].alarm >= runs'[m].at)
      BY <1>3, <1>9
    <2>3. CASE pc \in {"done", "gave_up"}
      <3>1. runs'[m].pc \in Over \ {"skipped"} /\ Freed(m)
        BY <2>3, <1>7, <1>9 DEF Over
      <3> QED BY <2>1, <2>2, <3>1, <1>1, <1>4, <1>8 DEF Turn
    <2>4. CASE pc = "backoff"
      <3>1. AtWork(m)' /\ UNCHANGED lock
        BY <2>4, <1>1, <1>7, <1>9 DEF AtWork, Waits, Over
      <3> QED BY <2>1, <2>2, <3>1, <1>1, <1>4, <1>8 DEF Turn
    <2> QED BY <2>3, <2>4, <1>9
  <1>12. runs'[m].pc = "backoff" => runs'[m].try < Tries
    BY SMTT(30), <1>1, <1>7, <1>9, RunAssumption
  <1> QED BY <1>1, <1>4, <1>9, <1>10, <1>11, <1>12

\* Run m has made call c, which has answered (good) or not, and goes on to `next`.
Called(m, c, good, next) ==
    LET r == runs[m] IN
    /\ c \in Calls /\ c.name = r.pc
    /\ IF good THEN next = c.answered ELSE next \in {c.failed, c.late}
    /\ runs'[m].got = IF good THEN r.got \cup c.gives ELSE r.got
    /\ runs'[m].hurt = IF good THEN r.hurt ELSE r.hurt \cup {c.section}
    /\ runs'[m].pc = IF next = "died" THEN "died" ELSE After(r, next)

\* What Collect does.
LEMMA CollectFacts ==
  ASSUME RunInv, NEW m \in Runs, NEW outcome \in {"answers", "fails", "hangs"}, Collect(m, outcome)
  PROVE  /\ RunTypeOK' /\ Turn(m) /\ UNCHANGED <<truth, posts>> /\ runs'[m].try = runs[m].try
         /\ \E c \in Calls, good \in BOOLEAN :
              \E next \in {c.answered, c.failed, c.late} : Called(m, c, good, next)
  <1> DEFINE r       == runs[m]
             End2(c) == r.at + (CASE outcome = "answers" -> c.busy [] outcome = "fails" -> 0 [] outcome = "hangs" -> c.limit)
             Good(c) == outcome = "answers" /\ ~Rings(r, End2(c))
             Next2(c) == IF Rings(r, End2(c)) THEN c.failed
                         ELSE CASE outcome = "answers" -> c.answered
                                [] outcome = "fails"   -> c.failed
                                [] outcome = "hangs"   -> c.late
             Then(c) == [r EXCEPT !.at = IF Rings(r, End2(c)) THEN r.alarm ELSE End2(c),
                                  !.alarm = IF Rings(r, End2(c)) THEN NoAlarm ELSE @,
                                  !.got = IF Good(c) THEN @ \cup c.gives ELSE @,
                                  !.hurt = IF Good(c) THEN @ ELSE @ \cup {c.section}]
  <1>1. PICK c \in Calls :
           /\ c.name = r.pc
           /\ outcome # "answers" => faults < MaxFaults
           /\ faults' = IF outcome = "answers" THEN faults ELSE faults + 1
           /\ IF Next2(c) = "died" THEN End(m, Then(c), "died", Then(c).at)
              ELSE runs' = [runs EXCEPT ![m] = [Then(c) EXCEPT !.pc = After(r, Next2(c))]] /\ UNCHANGED lock
    BY DEF Collect
  <1> DEFINE end   == End2(c)
             good  == Good(c)
             next  == Next2(c)
             at    == IF Rings(r, end) THEN r.alarm ELSE end
             alarm == IF Rings(r, end) THEN NoAlarm ELSE r.alarm
             got   == IF good THEN r.got \cup c.gives ELSE r.got
             hurt  == IF good THEN r.hurt ELSE r.hurt \cup {c.section}
             pc    == IF next = "died" THEN "died" ELSE After(r, next)
             new   == [r EXCEPT !.pc = pc, !.at = at, !.alarm = alarm, !.got = got, !.hurt = hurt]
  <1>2. /\ r \in RunRec /\ r.at \in Nat /\ r.alarm \in Nat
        /\ r.got \in SUBSET Sections /\ r.hurt \in SUBSET Hurts
        /\ lock \in Runs \cup {0} /\ posts \in Seq(Runs) /\ faults \in 0 .. MaxFaults
    BY RunTypes DEF RunInv, RunRec
  <1>3. /\ UNCHANGED <<onWindows, truth, posts>> /\ Due(m)
        /\ r.alarm # NoAlarm => r.alarm >= r.at
    BY DEF Collect, RunInv, TurnInv
  <1>4. InPlace(c, AgentCalls, AgentSections)
    BY Rows
  <1>5. /\ c.busy \in Nat /\ c.limit \in Nat /\ c.answered \in AgentCalls /\ c.failed \in AgentCalls
        /\ c.late = "died" \/ c.late \in AgentCalls
    BY <1>4 DEF InPlace, Passes
  <1>6. end \in Nat /\ end >= r.at
    BY <1>2, <1>5
  <1>7. at \in Nat /\ alarm \in Nat /\ at >= r.at /\ (alarm # NoAlarm => alarm >= at)
    <2> HIDE DEF end
    <2> QED BY <1>2, <1>3, <1>6, Ringing
  <1>8. next = "died" \/ next \in AgentCalls
    BY <1>5
  <1>9. IF good THEN next = c.answered ELSE next \in {c.failed, c.late}
    <2> HIDE DEF End2
    <2>1. CASE Rings(r, end)
      BY <2>1
    <2>2. CASE ~Rings(r, end) /\ outcome = "answers"
      BY <2>2
    <2>3. CASE ~Rings(r, end) /\ outcome = "fails"
      BY <2>3
    <2>4. CASE ~Rings(r, end) /\ outcome = "hangs"
      BY <2>4
    <2> QED BY <2>1, <2>2, <2>3, <2>4
  <1>10. pc = "died" \/ pc \in AgentCalls
    <2> HIDE DEF next
    <2> QED BY <1>8, Names DEF After
  <1>11. got \in SUBSET Sections /\ hurt \in SUBSET Hurts
    <2>1. c.gives \subseteq Sections
      BY DEF Sections, LinuxSections, WindowsSections, SectionsOf, Calls
    <2>2. c.section \in Hurts
      BY DEF Hurts
    <2> HIDE DEF good
    <2> QED BY <2>1, <2>2, <1>2
  <1>12. /\ [new EXCEPT !.pc = pc] = new
         /\ [[r EXCEPT !.at = at, !.alarm = alarm, !.got = got, !.hurt = hurt]
                EXCEPT !.pc = "died", !.at = at] = [new EXCEPT !.pc = "died"]
         /\ [[r EXCEPT !.at = at, !.alarm = alarm, !.got = got, !.hurt = hurt] EXCEPT !.pc = pc] = new
         /\ [r EXCEPT !.at = at, !.alarm = alarm, !.got = got, !.hurt = hurt].at = at
    <2> HIDE DEF at, alarm, got, hurt, pc
    <2> QED BY <1>2 DEF RunRec
  <1>13. Then(c) = [r EXCEPT !.at = at, !.alarm = alarm, !.got = got, !.hurt = hurt]
    <2> HIDE DEF Good, End2
    <2> QED BY <1>2
  <1>14. runs' = [runs EXCEPT ![m] = new] /\ (IF next = "died" THEN Freed(m) ELSE UNCHANGED lock)
    <2>1. CASE next = "died"
      <3>1. End(m, Then(c), "died", Then(c).at)
        BY <1>1, <2>1
      <3>2. pc = "died"
        BY <2>1
      <3> HIDE DEF Then, new, at, alarm, got, hurt, pc
      <3> QED BY <2>1, <3>1, <3>2, <1>12, <1>13 DEF End, Freed
    <2>2. CASE next # "died"
      <3>1. runs' = [runs EXCEPT ![m] = [Then(c) EXCEPT !.pc = pc]] /\ UNCHANGED lock
        BY <1>1, <2>2
      <3> HIDE DEF Then, new, at, alarm, got, hurt, pc
      <3> QED BY <2>2, <3>1, <1>12, <1>13
    <2> QED BY <2>1, <2>2
  <1>15. faults' \in 0 .. MaxFaults
    BY <1>1, <1>2, RunAssumption
  <1>16. /\ new \in RunRec /\ new.pc = pc /\ new.at = at /\ new.alarm = alarm
         /\ new.got = got /\ new.hurt = hurt /\ new.try = r.try
    <2> HIDE DEF at, alarm, got, hurt, pc
    <2> QED BY <1>2, <1>7, <1>10, <1>11 DEF RunRec, Over
  <1> HIDE DEF new
  <1>17. /\ runs' \in [Runs -> RunRec] /\ runs'[m] = new
         /\ \A k \in Runs : k # m => runs'[k] = runs[k]
    BY <1>3, <1>14, <1>16, Moved
  <1> HIDE DEF at, alarm, got, hurt
  <1>18. RunTypeOK'
    <2> HIDE DEF next
    <2> QED BY <1>2, <1>3, <1>14, <1>15, <1>17, RunTypesNext DEF Freed
  <1>19. Turn(m)
    <2>1. AtWork(m)
      <3>1. r.pc \in AgentCalls
        BY <1>1, <1>4 DEF InPlace
      <3> QED BY <3>1, Names DEF AtWork, Waits
    <2>2. runs'[m].at >= r.at /\ (runs'[m].alarm # NoAlarm => runs'[m].alarm >= runs'[m].at)
      BY <1>7, <1>16, <1>17
    <2>3. CASE next = "died"
      <3>1. runs'[m].pc \in Over \ {"skipped"} /\ Freed(m)
        BY <2>3, <1>14, <1>16, <1>17 DEF Over
      <3> QED BY <2>1, <2>2, <3>1, <1>3, <1>17 DEF Turn, Posting
    <2>4. CASE next # "died"
      <3>1. runs'[m].pc \in AgentCalls
        <4> HIDE DEF next
        <4>1. next \in AgentCalls
          BY <2>4, <1>8
        <4> QED BY <2>4, <4>1, <1>16, <1>17, Names DEF After
      <3>2. UNCHANGED lock
        BY <2>4, <1>14
      <3>3. AgentCalls' = AgentCalls /\ onWindows' = onWindows
        BY <1>3 DEF AgentCalls
      <3>4. AtWork(m)'
        BY <3>1, <3>3, Names DEF AtWork, Waits
      <3> QED BY <2>1, <2>2, <3>2, <3>4, <1>3, <1>17 DEF Turn, Posting
    <2> QED BY <2>3, <2>4
  <1>20. Called(m, c, good, next) /\ next \in {c.answered, c.failed, c.late}
    <2> HIDE DEF next, good
    <2> QED BY <1>1, <1>9, <1>16, <1>17 DEF Called, got, hurt
  <1> HIDE DEF next, good
  <1>21. good \in BOOLEAN
    BY DEF good
  <1> QED BY <1>3, <1>16, <1>17, <1>18, <1>19, <1>20, <1>21

\* A step of run m leaves the other runs as they are.
LEMMA OthersStep ==
  ASSUME RunInv, NEW m \in Runs, Turn(m), UNCHANGED truth, Posting(m), NEW k \in Runs, k # m
  PROVE  TryOf(k)' /\ FaultOf(k)'
  <1>1. runs'[k] = runs[k] /\ onWindows' = onWindows /\ TryOf(k) /\ FaultOf(k)
    BY DEF Turn, RunInv, TryInv, FaultInv
  <1>2. Posted(k)' => Posted(k)
    <2>1. posts \in Seq(Runs)
      BY RunTypes DEF RunInv
    <2>2. CASE posts' = posts
      BY <2>2 DEF Posted
    <2>3. CASE posts' = Append(posts, m)
      BY <2>1, <2>3 DEF Posted
    <2> QED BY <2>2, <2>3 DEF Posting
  <1>3. TryOf(k)'
    BY <1>1 DEF TryOf
  <1>4. \A place : Covered(runs[k], place) => Covered(runs[k], place)'
    BY <1>1 DEF Covered, Excused, AgentSections
  <1>5. FaultOf(k)'
    BY <1>1, <1>2, <1>4 DEF FaultOf, AgentCalls, AgentSections, Covered, Excused
  <1> QED BY <1>3, <1>5

\* Nothing is posted before the first attempt.
LEMMA NotPosted ==
  ASSUME RunInv, NEW m \in Runs, runs[m].pc \notin {"post", "backoff"} \cup Over
  PROVE  ~Posted(m)
  BY DEF RunInv, FaultInv, FaultOf

\* A run that has not collected anything has everything before it.
LEMMA NothingYet ==
  ASSUME NEW r, NEW place, place = 1
  PROVE  Covered(r, place)
  <1>1. \A s \in AgentSections : Place[s] \in 1..15
    BY PlaceIs DEF AgentSections
  <1> QED BY <1>1 DEF Covered

\* Start keeps what is said of its run.
LEMMA StartOwn ==
  ASSUME RunInv, NEW m \in Runs, Start(m)
  PROVE  TryOf(m)' /\ FaultOf(m)'
  <1>1. /\ runs[m].pc = "cron" /\ runs[m].try = 0 /\ runs[m].got = {} /\ runs[m].hurt = {}
        /\ ~Posted(m) /\ UNCHANGED posts /\ Tries > 0 /\ AgentCalls' = AgentCalls
    BY NotPosted, RunAssumption DEF Start, RunInv, TryInv, TryOf, FaultInv, FaultOf, Over, AgentCalls
  <1>2. /\ runs'[m].try = 0 /\ runs'[m].got = {} /\ runs'[m].hurt = {}
        /\ runs'[m].pc \in {"jitter", "skipped"} /\ runs'[m].alarm = NoAlarm /\ ~Posted(m)'
    BY <1>1, StartFacts DEF Posted
  <1> QED BY <1>1, <1>2, Names DEF TryOf, FaultOf, Over

\* Wake does, the first call having everything before it.
LEMMA WakeOwn ==
  ASSUME RunInv, NEW m \in Runs, Wake(m)
  PROVE  TryOf(m)' /\ FaultOf(m)'
  <1>1. /\ runs[m].pc = "jitter" /\ runs[m].try = 0 /\ runs[m].got = {} /\ runs[m].hurt = {}
        /\ ~Posted(m) /\ UNCHANGED posts /\ Tries > 0 /\ AgentCalls' = AgentCalls
    BY NotPosted, RunAssumption DEF Wake, RunInv, TryInv, TryOf, FaultInv, FaultOf, Over, AgentCalls
  <1>2. /\ runs'[m].try = 0 /\ runs'[m].got = {} /\ runs'[m].hurt = {}
        /\ runs'[m].pc \in {"nvidia_smi", "skipped"} /\ ~Posted(m)'
    BY <1>1, WakeFacts DEF Posted
  <1>3. TryOf(m)'
    BY <1>1, <1>2 DEF TryOf, Over
  <1>4. Covered(runs[m], Reached["nvidia_smi"])'
    BY NothingYet, ReachedIs, PlaceIs DEF Covered, AgentSections
  <1> QED BY <1>1, <1>2, <1>3, <1>4, Names DEF FaultOf, Over

\* LogPayload does.
LEMMA LogOwn ==
  ASSUME RunInv, NEW m \in Runs, LogPayload(m)
  PROVE  TryOf(m)' /\ FaultOf(m)'
  <1>1. /\ runs[m].pc = "log" /\ runs[m].try = 0 /\ Covered(runs[m], 16) /\ ~Posted(m)
        /\ Tries > 0 /\ UNCHANGED <<onWindows, posts, truth>>
    BY SMTT(30), NotPosted, ReachedIs, Names, RunAssumption
       DEF LogPayload, RunInv, TryInv, TryOf, FaultInv, FaultOf, Over
  <1>2. /\ runs'[m].try = 0 /\ runs'[m].got = runs[m].got /\ ~Posted(m)'
        /\ \/ runs'[m].pc = "post" /\ runs'[m].hurt = runs[m].hurt
           \/ runs'[m].pc = "died" /\ runs'[m].hurt = runs[m].hurt \cup {"log"}
    BY <1>1, LogFacts DEF Posted
  <1>3. TryOf(m)'
    BY <1>1, <1>2 DEF TryOf, Over
  <1>4. Covered(runs[m], 16)'
    BY <1>1, <1>2 DEF Covered, Excused, AgentSections
  <1>5. AgentCalls' = AgentCalls
    BY <1>1 DEF AgentCalls
  <1> QED BY <1>2, <1>3, <1>4, <1>5, Names DEF FaultOf

\* Post does.
LEMMA PostOwn ==
  ASSUME RunInv, NEW m \in Runs, NEW outcome \in {"answered", "unreachable", "late"}, Post(m, outcome)
  PROVE  TryOf(m)' /\ FaultOf(m)'
  <1>1. /\ runs[m].pc = "post" /\ Covered(runs[m], 16) /\ UNCHANGED <<onWindows, truth>>
    BY DEF Post, RunInv, FaultInv, FaultOf
  <1>2. /\ runs'[m].got = runs[m].got /\ runs'[m].hurt = runs[m].hurt
        /\ runs[m].try \in Nat /\ runs'[m].try = runs[m].try + 1
        /\ runs'[m].pc \in {"done", "gave_up", "backoff"} /\ (runs'[m].pc = "backoff" => runs'[m].try < Tries)
    BY PostFacts
  <1>3. TryOf(m)'
    BY <1>2 DEF TryOf, Over
  <1>4. Covered(runs[m], 16)'
    BY <1>1, <1>2 DEF Covered, Excused, AgentSections
  <1>5. AgentCalls' = AgentCalls
    BY <1>1 DEF AgentCalls
  <1> QED BY <1>2, <1>3, <1>4, <1>5, Names DEF FaultOf, Over

\* Backoff does.
LEMMA BackoffOwn ==
  ASSUME RunInv, NEW m \in Runs, Backoff(m)
  PROVE  TryOf(m)' /\ FaultOf(m)'
  <1>1. /\ runs[m].pc = "backoff" /\ Covered(runs[m], 16) /\ UNCHANGED <<onWindows, truth>>
        /\ runs[m].try < Tries /\ runs[m].try > 0
    BY DEF Backoff, RunInv, FaultInv, FaultOf, TryInv, TryOf, Over
  <1>2. /\ runs'[m].got = runs[m].got /\ runs'[m].hurt = runs[m].hurt
        /\ runs'[m].try = runs[m].try /\ runs'[m].pc \in {"post", "timeout"}
    BY BackoffFacts
  <1>3. TryOf(m)'
    BY <1>1, <1>2 DEF TryOf, Over
  <1>4. Covered(runs[m], 16)'
    BY <1>1, <1>2 DEF Covered, Excused, AgentSections
  <1>5. AgentCalls' = AgentCalls
    BY <1>1 DEF AgentCalls
  <1> QED BY <1>2, <1>3, <1>4, <1>5, Names DEF FaultOf, Over

\* What a call costs is its own section and what rests on it.
LEMMA CallCovers ==
  ASSUME RunInv, NEW m \in Runs, NEW c \in Calls, NEW good \in BOOLEAN, NEW next, next # "died",
         UNCHANGED <<onWindows, truth>>, Called(m, c, good, next)
  PROVE  LET pc == After(runs[m], next) IN
         /\ pc \in AgentCalls
         /\ \A s \in runs'[m].got : s \in AgentSections /\ Place[s] < Reached[pc]
         /\ Covered(runs'[m], Reached[pc])
  <1> DEFINE r   == runs[m]
             new == runs'[m]
             pc  == After(r, next)
  <1>1. /\ InPlace(c, AgentCalls, AgentSections) /\ c.name = r.pc /\ r.pc \in AgentCalls
        /\ \A s \in r.got : s \in AgentSections /\ Place[s] < Reached[r.pc]
        /\ Covered(r, Reached[r.pc])
    BY Rows DEF Called, InPlace, RunInv, FaultInv, FaultOf
  <1>2. \A s \in AgentSections : Place[s] \in 1..15
    BY PlaceIs DEF AgentSections
  <1>3. \A n \in AgentCalls : Reached[n] \in 1..16
    BY ReachedIs DEF AgentCalls
  <1>4. /\ IF good THEN next = c.answered ELSE next \in {c.failed, c.late}
        /\ new.got = IF good THEN r.got \cup c.gives ELSE r.got
        /\ new.hurt = IF good THEN r.hurt ELSE r.hurt \cup {c.section}
    BY DEF Called
  <1> DEFINE missed == IF good THEN c.gives ELSE Costs(c.section)
  <1>5. Passes(c, next, missed, AgentCalls, AgentSections)
    BY <1>1, <1>4 DEF InPlace
  <1>6. /\ pc \in AgentCalls /\ Reached[next] <= Reached[pc]
        /\ \A s \in AgentSections : Reached[next] <= Place[s] /\ Place[s] < Reached[pc] =>
              s = "details" /\ ~truth.running
    <2>1. next \in AgentCalls
      BY <1>5 DEF Passes
    <2>2. CASE pc = next
      BY <2>1, <2>2, <1>2, <1>3
    <2>3. CASE pc # next
      <3>1. next = "inspect" /\ pc = "cpu" /\ ~truth.running
        BY <2>3 DEF After
      <3>2. \A s \in AgentSections : Place[s] = 3 => s = "details"
        BY PlaceIs DEF AgentSections, OnLinux, OnWindows, Anywhere
      <3>3. Reached[next] = 3 /\ Reached[pc] = 4
        BY <3>1, ReachedIs
      <3> QED BY <3>1, <3>2, <3>3, <1>2, Names
    <2> QED BY <2>2, <2>3
  <1> HIDE DEF pc, new
  <1>7. /\ next \in AgentCalls /\ Reached[c.name] <= Reached[next]
        /\ \A s \in AgentSections : Reached[c.name] <= Place[s] /\ Place[s] < Reached[next] => s \in missed
    BY <1>5 DEF Passes
  <1>8. ASSUME NEW s \in new.got PROVE s \in AgentSections /\ Place[s] < Reached[pc]
    <2>1. CASE s \in r.got
      BY <2>1, <1>1, <1>2, <1>3, <1>6, <1>7
    <2>2. CASE s \notin r.got
      <3>1. good /\ s \in c.gives
        BY <2>2, <1>8, <1>4
      <3>2. s = c.section /\ c.section \in AgentSections /\ Place[c.section] = Reached[c.name] /\ Reached[c.name] < Reached[next]
        BY <3>1, <1>1, <1>4 DEF InPlace
      <3> QED BY <3>2, <1>1, <1>2, <1>3, <1>6, <1>7
    <2> QED BY <2>1, <2>2
  <1>9. ASSUME NEW s \in AgentSections, s \notin new.got, s \notin new.hurt, Place[s] < Reached[pc]
        PROVE  Excused(new, s)
    <2>1. s \notin r.got /\ s \notin r.hurt
      BY <1>9, <1>4
    <2>2. CASE Reached[next] <= Place[s]
      <3>1. s = "details" /\ ~truth.running
        BY <2>2, <1>6, <1>9
      <3> QED BY <3>1 DEF Excused
    <2>3. CASE Reached[c.name] <= Place[s] /\ Place[s] < Reached[next]
      <3>1. s \in missed
        BY <2>3, <1>7
      <3>2. ~good /\ s \in Costs(c.section) /\ s # c.section
        BY <3>1, <1>4, <1>9
      <3>3. \/ s = "details" /\ c.section = "containers"
            \/ s = "smart" /\ c.section = "storage"
        BY <3>2 DEF Costs
      <3>4. Place[c.section] = Reached[c.name] /\ new.got = r.got
        BY <3>2, <3>3, <1>1, <1>4 DEF InPlace
      <3>5. c.section \notin r.got
        BY <3>4, <1>1, <1>2, <1>3
      <3> QED BY <3>3, <3>4, <3>5 DEF Excused
    <2>4. CASE Place[s] < Reached[c.name]
      <3>1. Excused(r, s)
        BY <2>1, <2>4, <1>1, <1>2, <1>3 DEF Covered
      <3>2. CASE new.got = r.got
        BY <3>1, <3>2 DEF Excused
      <3>3. CASE new.got # r.got
        <4>1. good /\ new.got = r.got \cup {c.section} /\ Place[c.section] = Reached[c.name]
          BY <3>3, <1>1, <1>4 DEF InPlace
        <4>2. c.section # "containers" \/ s # "details"
          BY <4>1, <2>4, PlaceIs, <1>1
        <4>3. c.section # "storage" \/ s # "smart"
          BY <4>1, <2>4, PlaceIs, <1>1
        <4> QED BY <3>1, <4>1, <4>2, <4>3 DEF Excused
      <3> QED BY <3>2, <3>3
    <2> QED BY <2>2, <2>3, <2>4, <1>1, <1>2, <1>3, <1>7
  <1>10. Covered(new, Reached[pc])
    BY <1>2, <1>3, <1>6, <1>9 DEF Covered
  <1> QED BY <1>6, <1>8, <1>10 DEF new, pc

\* Collect does.
LEMMA CollectOwn ==
  ASSUME RunInv, NEW m \in Runs, NEW outcome \in {"answers", "fails", "hangs"}, Collect(m, outcome)
  PROVE  TryOf(m)' /\ FaultOf(m)'
  <1>1. /\ UNCHANGED <<onWindows, truth, posts>> /\ runs'[m].try = runs[m].try
        /\ \E c \in Calls, good \in BOOLEAN :
             \E next \in {c.answered, c.failed, c.late} : Called(m, c, good, next)
    BY CollectFacts DEF Turn
  <1>2. PICK c \in Calls, good \in BOOLEAN : \E next \in {c.answered, c.failed, c.late} : Called(m, c, good, next)
    BY <1>1
  <1>3. PICK next \in {c.answered, c.failed, c.late} : Called(m, c, good, next)
    BY <1>2
  <1>4. InPlace(c, AgentCalls, AgentSections) /\ runs[m].pc \in AgentCalls
    BY <1>3, Rows DEF Called, InPlace
  <1>5. ~Posted(m) /\ runs[m].try = 0 /\ Tries > 0 /\ AgentCalls' = AgentCalls
    BY <1>1, <1>4, Names, NotPosted, RunAssumption DEF RunInv, TryInv, TryOf, AgentCalls
  <1>6. ~Posted(m)' /\ runs'[m].try = 0
    BY <1>1, <1>5 DEF Posted
  <1>7. CASE next = "died"
    <2>1. ~good /\ c.section = "containers"
      BY <1>3, <1>4, <1>7, Names DEF Called, InPlace, Passes
    <2>2. runs'[m].pc = "died" /\ "containers" \in runs'[m].hurt
      BY <1>3, <1>7, <2>1 DEF Called
    <2> QED BY <2>2, <1>5, <1>6, Names DEF TryOf, FaultOf, Over
  <1>8. CASE next # "died"
    <2> DEFINE pc == After(runs[m], next)
    <2>1. /\ pc \in AgentCalls /\ runs'[m].pc = pc
          /\ \A s \in runs'[m].got : s \in AgentSections /\ Place[s] < Reached[pc]
          /\ Covered(runs'[m], Reached[pc])
      BY <1>1, <1>3, <1>8, CallCovers DEF Called
    <2> HIDE DEF pc
    <2>2. AgentSections' = AgentSections /\ Covered(runs[m], Reached[runs[m].pc])'
      BY <2>1, <1>1 DEF AgentSections, Covered, Excused
    <2>3. runs'[m].pc \notin {"cron", "jitter", "post", "backoff", "died"} \cup Over
      BY <2>1, Names
    <2>4. TryOf(m)'
      BY <2>3, <1>5, <1>6 DEF TryOf, Over
    <2> QED BY <2>1, <2>2, <2>3, <2>4, <1>5, <1>6 DEF FaultOf
  <1> QED BY <1>7, <1>8

-----------------------------------------------------------------------------
\* Every run still waits for its minute.
LEMMA RunInit == ARInit => RunInv
  <1> SUFFICES ASSUME ARInit PROVE RunInv
    OBVIOUS
  <1>1. /\ onWindows \in BOOLEAN /\ lock = 0 /\ posts = <<>> /\ faults = 0
        /\ RunMinutes \in Nat /\ MaxFaults \in Nat /\ Tries \in Nat \ {0}
    BY RunAssumption DEF ARInit
  <1>2. \A m \in Runs : /\ m \in Nat /\ runs[m].pc = "cron" /\ runs[m].at = 60 * m
                        /\ runs[m].alarm = NoAlarm /\ runs[m].try = 0
                        /\ runs[m].got = {} /\ runs[m].hurt = {}
    BY <1>1 DEF ARInit, Runs
  <1>3. RunTypeOK
    <2>1. \A m \in Nat : 60 * m \in Nat
      OBVIOUS
    <2>2. runs \in [Runs -> RunRec]
      BY <1>1, <2>1 DEF ARInit, RunRec, NoAlarm, Runs
    <2> QED BY <1>1, <2>2, RunTypes
  <1>4. TurnInv
    <2>1. \A m \in Runs : Waits(m) /\ ~AtWork(m)
      BY <1>2 DEF Waits, AtWork
    <2>2. DOMAIN posts = {}
      BY <1>1
    <2>3. PostsInOrder
      BY <2>2 DEF PostsInOrder
    <2> QED BY <1>1, <1>2, <2>1, <2>2, <2>3 DEF TurnInv
  <1>5. \A m \in Runs : ~Posted(m)
    BY <1>1 DEF Posted
  <1>6. TryInv
    BY <1>1, <1>2 DEF TryInv, TryOf, Over
  <1>7. FaultInv
    BY <1>2, <1>5, Names DEF FaultInv, FaultOf
  <1> QED BY <1>1, <1>3, <1>4, <1>6, <1>7 DEF RunInv

\* Whichever run makes the next step, the invariant holds after it.
LEMMA RunStep == RunInv /\ [ARNext]_arVars => RunInv'
  <1> SUFFICES ASSUME RunInv, [ARNext]_arVars PROVE RunInv'
    OBVIOUS
  <1>1. ASSUME NEW m \in Runs, RunTypeOK', Turn(m), UNCHANGED truth, Posting(m), TryOf(m)', FaultOf(m)'
        PROVE  RunInv'
    <2>1. TurnInv'
      BY <1>1, TurnStep DEF RunInv
    <2>2. \A k \in Runs : TryOf(k)' /\ FaultOf(k)'
      BY <1>1, OthersStep
    <2>3. onWindows' \in BOOLEAN
      BY <1>1 DEF RunInv, Turn
    <2> QED BY <1>1, <2>1, <2>2, <2>3 DEF RunInv, TryInv, FaultInv
  <1>2. CASE UNCHANGED arVars
    <2>1. Calls' = Calls /\ Sections' = Sections /\ AgentCalls' = AgentCalls /\ AgentSections' = AgentSections
      BY <1>2 DEF arVars, Calls, Sections, AgentCalls, AgentSections
    <2>2. RunTypeOK' /\ onWindows' \in BOOLEAN
      BY <1>2, <2>1 DEF RunInv, RunTypeOK, arVars
    <2>3. TurnInv'
      BY <1>2 DEF RunInv, TurnInv, Waits, AtWork, PostsInOrder, arVars
    <2>4. TryInv' /\ FaultInv'
      BY <1>2, <2>1 DEF RunInv, TryInv, TryOf, FaultInv, FaultOf, Covered, Excused, Posted, arVars
    <2> QED BY <2>2, <2>3, <2>4 DEF RunInv
  <1>3. ASSUME NEW m \in Runs, Start(m) PROVE RunInv'
    BY <1>1, <1>3, StartFacts, StartOwn DEF Posting
  <1>4. ASSUME NEW m \in Runs, Wake(m) PROVE RunInv'
    BY <1>1, <1>4, WakeFacts, WakeOwn DEF Posting
  <1>5. ASSUME NEW m \in Runs, LogPayload(m) PROVE RunInv'
    BY <1>1, <1>5, LogFacts, LogOwn DEF Posting
  <1>6. ASSUME NEW m \in Runs, Backoff(m) PROVE RunInv'
    BY <1>1, <1>6, BackoffFacts, BackoffOwn DEF Posting
  <1>7. ASSUME NEW m \in Runs, NEW outcome \in {"answers", "fails", "hangs"}, Collect(m, outcome)
        PROVE  RunInv'
    BY <1>1, <1>7, CollectFacts, CollectOwn DEF Posting
  <1>8. ASSUME NEW m \in Runs, NEW outcome \in {"answered", "unreachable", "late"}, Post(m, outcome)
        PROVE  RunInv'
    BY <1>1, <1>8, PostFacts, PostOwn
  <1> QED BY <1>2, <1>3, <1>4, <1>5, <1>6, <1>7, <1>8 DEF ARNext

\* The types, the turns, the attempts and the coverage of every run, in every state.
THEOREM RunInvariance == ARSpec => []RunInv
  BY RunInit, RunStep, PTL DEF ARSpec

\* A call that fails or hangs costs its own section of the payload, and never the
\* run, except for the two calls that ask whether docker is there and for the
\* log (collect_metrics and main of the agents).
THEOREM FaultsContained == ARSpec => []FaultsAreContained
  <1>1. RunInv => FaultsAreContained
    <2> SUFFICES ASSUME RunInv PROVE FaultsAreContained
      OBVIOUS
    <2>1. FaultsStayInTheirSection
      <3> SUFFICES ASSUME NEW m \in Runs, Posted(m), NEW s \in Sections \ runs[m].got
                   PROVE  \/ s \in runs[m].hurt
                          \/ s = "details" /\ ("containers" \notin runs[m].got \/ ~truth.running)
                          \/ s = "smart" /\ "storage" \notin runs[m].got
        BY DEF FaultsStayInTheirSection
      <3>1. s \in AgentSections /\ Place[s] \in 1..15
        BY Rows, PlaceIs DEF AgentSections
      <3>2. Covered(runs[m], 16)
        BY DEF RunInv, FaultInv, FaultOf
      <3> QED BY <3>1, <3>2 DEF Covered, Excused
    <2>2. RunsReachThePost
      BY DEF RunInv, TryInv, TryOf, RunsReachThePost, Over
    <2>3. JobStateIsRight
      BY DEF JobStateIsRight, HasActiveJob
    <2> QED BY <2>1, <2>2, <2>3 DEF FaultsAreContained
  <1> QED BY <1>1, RunInvariance, PTL

\* The server gets the payloads of a rig in the order of their minutes, and a
\* minute is left out only while an earlier run is at work (the lock of the cron
\* line and of the Windows agent).
THEOREM TurnsAreTaken == ARSpec => []RunsTakeTurns
  <1>1. RunInv => RunsTakeTurns
    <2> SUFFICES ASSUME RunInv PROVE RunsTakeTurns
      OBVIOUS
    <2>1. PostsInOrder /\ SkippedOnlyWhileAtWork
      BY DEF RunInv, TurnInv, SkippedOnlyWhileAtWork
    <2> QED BY <2>1 DEF RunsTakeTurns
  <1> QED BY <1>1, RunInvariance, PTL

\* The variables of the runs keep their types.
THEOREM RunTyped == ARSpec => []RunTypeOK
  <1>1. RunInv => RunTypeOK
    BY DEF RunInv
  <1> QED BY <1>1, RunInvariance, PTL


-----------------------------------------------------------------------------
(***************************************************************************)
(* RateLimits                                                              *)
(***************************************************************************)
Ordered(list) == \A i, j \in 1 .. Len(list) : i <= j => list[i].age >= list[j].age

IsEndOf(list, all) ==
    /\ Len(list) <= Len(all)
    /\ \A i \in 1 .. Len(list) : list[i] = all[i + Len(all) - Len(list)]

ListInv(key) ==
    /\ stamps[key] \in Seq(Stamp) /\ served[key] \in Seq(Stamp)
    /\ Ordered(served[key]) /\ IsEndOf(stamps[key], served[key])
    /\ Len(stamps[key]) <= MaxLimit(key)
    /\ Len(served[key]) - Len(stamps[key]) <= evicted * MaxLimit(key)

\* Of the reports of one run of the agent one is answered, and none as long as
\* the run goes on.
AnsweredOnce ==
    LET list == served["rig"] IN
    /\ \A i, j \in 1 .. Len(list) :
         /\ list[i].answered /\ list[j].answered
         /\ list[i].age <= phase <=> list[j].age <= phase
         => i = j
    /\ agent > 0 => \A i \in 1 .. Len(list) : list[i].answered => list[i].age > phase

LimitInv ==
    /\ LimitsTypeOK /\ AnsweredOnce
    /\ \A key \in Key : ListInv(key)
    /\ refused \notin {"early", "unprovoked"}

-----------------------------------------------------------------------------
\* An initial segment of the positions of a list is an interval.
LEMMA FirstOnes ==
    ASSUME NEW n \in Nat, NEW T \in SUBSET (1 .. n), \A i \in T : 1 .. i \subseteq T
    PROVE  Cardinality(T) \in 0 .. n /\ T = 1 .. Cardinality(T)
  <1> DEFINE c == Cardinality(T)
  <1>1. IsFiniteSet(1 .. n) /\ Cardinality(1 .. n) = n
    BY FS_Interval
  <1>2. IsFiniteSet(T) /\ c <= n
    BY <1>1, FS_Subset
  <1>3. c \in Nat
    BY <1>2, FS_CardinalityType
  <1>4. ASSUME NEW i \in T PROVE i <= c
    <2>1. i \in 1 .. n /\ 1 .. i \in SUBSET T
      BY <1>4
    <2>2. Cardinality(1 .. i) = i
      BY <2>1, FS_Interval
    <2>3. Cardinality(1 .. i) <= c
      BY <1>2, <2>1, FS_Subset
    <2> QED BY <2>2, <2>3
  <1>5. T \in SUBSET (1 .. c)
    BY <1>3, <1>4
  <1>6. IsFiniteSet(1 .. c) /\ Cardinality(1 .. c) = c
    BY <1>3, FS_Interval
  <1>7. T = 1 .. c
    BY <1>5, <1>6, FS_Subset
  <1> QED BY <1>2, <1>3, <1>7

\* The largest limit is a limit, and every limit is a positive number.
LEMMA LimitFacts ==
    /\ \A key \in Key : MaxLimit(key) \in Nat \ {0}
    /\ \A v \in View : Limit[v] \in Nat \ {0} /\ Limit[v] <= MaxLimit("user")
    /\ MaxLimit("rig") = IngestRate
  <1>1. PICK v \in View : \A w \in View : Limit[w] <= Limit[v]
    BY LimitAssumption DEF View
  <1>2. Limit[v] \in Range(Limit) /\ \A m \in Range(Limit) : m <= Limit[v]
    BY <1>1 DEF Range, View
  <1>3. /\ MaxLimit("user") \in Range(Limit)
        /\ \A m \in Range(Limit) : m <= MaxLimit("user")
    BY <1>2 DEF MaxLimit
  <1>4. \A w \in View : Limit[w] \in Range(Limit) /\ Limit[w] \in Nat \ {0}
    BY LimitAssumption DEF Range, View
  <1>5. Range(Limit) \subseteq Nat \ {0}
    BY LimitAssumption DEF Range
  <1>6. MaxLimit("rig") = IngestRate
    BY DEF MaxLimit
  <1> QED BY <1>3, <1>4, <1>5, <1>6, LimitAssumption DEF Key

\* A stamp that is still in the window after a tick.
LEMMA StampFacts ==
    /\ Window \in Nat \ {0}
    /\ \A s \in Stamp : s.age \in 0 .. Window - 1 /\ s.age \in Nat /\ s.age <= Window - 1
    /\ \A s \in Stamp : /\ [s EXCEPT !.age = @ + 1].age = s.age + 1
                        /\ [s EXCEPT !.age = @ + 1].answered = s.answered
                        /\ s.age < Window - 1 => [s EXCEPT !.age = @ + 1] \in Stamp
  BY LimitAssumption DEF Stamp

\* What is left of a list when its oldest entries are past the window.
LEMMA OlderFacts ==
    ASSUME NEW list \in Seq(Stamp), NEW n \in 0 .. Len(list),
           \A i \in 1 .. Len(list) : i > n => list[i].age < Window - 1
    PROVE  /\ Older(list, n) \in Seq(Stamp) /\ Len(Older(list, n)) = Len(list) - n
           /\ \A i \in 1 .. Len(list) - n :
                /\ Older(list, n)[i] = [list[i + n] EXCEPT !.age = @ + 1]
                /\ Older(list, n)[i].age = list[i + n].age + 1
                /\ Older(list, n)[i].answered = list[i + n].answered
  <1>1. Len(list) \in Nat /\ n \in Nat /\ Len(list) - n \in Nat /\ Window \in Nat \ {0}
    BY LimitAssumption
  <1>2. ASSUME NEW i \in 1 .. Len(list) - n
        PROVE  /\ [list[i + n] EXCEPT !.age = @ + 1] \in Stamp
               /\ [list[i + n] EXCEPT !.age = @ + 1].age = list[i + n].age + 1
               /\ [list[i + n] EXCEPT !.age = @ + 1].answered = list[i + n].answered
    <2>1. i + n \in 1 .. Len(list) /\ i + n > n
      BY <1>1
    <2>2. list[i + n] \in Stamp /\ list[i + n].age < Window - 1
      BY <2>1
    <2> QED BY <2>2, StampFacts
  <1>3. Older(list, n) \in [1 .. Len(list) - n -> Stamp]
    BY <1>2 DEF Older
  <1>4. Older(list, n) \in Seq(Stamp) /\ Len(Older(list, n)) = Len(list) - n
    BY <1>1, <1>3
  <1> QED BY <1>2, <1>4 DEF Older

\* A tick drops the entries that were as old as the window allows, which are the
\* oldest, and no other.
LEMMA AgedFacts ==
    ASSUME NEW list \in Seq(Stamp), Ordered(list)
    PROVE  \E n \in 0 .. Len(list) :
             /\ Aged(list) = Older(list, n)
             /\ \A i \in 1 .. Len(list) : i <= n <=> list[i].age = Window - 1
             /\ \A i \in 1 .. Len(list) : i > n => list[i].age < Window - 1
  <1> DEFINE T == {i \in DOMAIN list : list[i].age = Window - 1}
             n == Cardinality(T)
  <1>1. /\ Len(list) \in Nat /\ DOMAIN list = 1 .. Len(list) /\ Window \in Nat \ {0}
        /\ \A i \in 1 .. Len(list) : list[i].age \in Nat /\ list[i].age <= Window - 1
    BY StampFacts
  <1>2. T \in SUBSET (1 .. Len(list))
    BY <1>1
  <1>3. ASSUME NEW i \in T PROVE 1 .. i \subseteq T
    <2> SUFFICES ASSUME NEW k \in 1 .. i PROVE k \in T
      OBVIOUS
    <2>1. i \in 1 .. Len(list) /\ list[i].age = Window - 1 /\ k \in 1 .. Len(list) /\ k <= i
      BY <1>1
    <2>2. list[k].age >= list[i].age
      BY <2>1 DEF Ordered
    <2> QED BY <1>1, <2>1, <2>2
  <1>4. n \in 0 .. Len(list) /\ T = 1 .. n
    <2> HIDE DEF T
    <2> QED BY <1>1, <1>2, <1>3, FirstOnes
  <1>5. \A i \in 1 .. Len(list) : i <= n <=> list[i].age = Window - 1
    <2>1. \A i \in 1 .. Len(list) : i \in T <=> list[i].age = Window - 1
      BY <1>1
    <2> HIDE DEF T, n
    <2> QED BY <1>1, <1>4, <2>1
  <1>6. Aged(list) = Older(list, n)
    BY DEF Aged
  <1>7. \A i \in 1 .. Len(list) : i > n => list[i].age < Window - 1
    <2> HIDE DEF n, T
    <2> QED BY <1>1, <1>4, <1>5
  <1> HIDE DEF n, T
  <1> QED BY <1>4, <1>5, <1>6, <1>7

-----------------------------------------------------------------------------
\* A tick leaves a list in order, and the list in the cache the end of it.
LEMMA TickKeepsLists ==
    ASSUME NEW key \in Key, ListInv(key), Tick, evicted \in Nat,
           stamps \in [Key -> Seq(Stamp)], served \in [Key -> Seq(Stamp)]
    PROVE  ListInv(key)'
  <1> DEFINE st == stamps[key]
             se == served[key]
  <1>1. /\ st \in Seq(Stamp) /\ se \in Seq(Stamp) /\ Ordered(se) /\ IsEndOf(st, se)
        /\ Len(st) \in Nat /\ Len(se) \in Nat
        /\ stamps'[key] = Aged(st) /\ served'[key] = Aged(se) /\ evicted' = evicted
    BY DEF ListInv, Tick
  <1> HIDE DEF st, se
  <1>2. /\ \A i \in 1 .. Len(st) : st[i] \in Stamp /\ st[i].age \in Nat
        /\ \A i \in 1 .. Len(se) : se[i] \in Stamp /\ se[i].age \in Nat
    BY <1>1, StampFacts
  <1>3. Ordered(st)
    <2> SUFFICES ASSUME NEW i \in 1 .. Len(st), NEW j \in 1 .. Len(st), i <= j
                 PROVE  st[i].age >= st[j].age
      BY DEF Ordered
    <2> DEFINE d == Len(se) - Len(st)
    <2>1. d \in Nat /\ i + d \in 1 .. Len(se) /\ j + d \in 1 .. Len(se) /\ i + d <= j + d
      BY <1>1 DEF IsEndOf
    <2>2. st[i] = se[i + d] /\ st[j] = se[j + d]
      BY <1>1 DEF IsEndOf
    <2> QED BY <1>1, <2>1, <2>2 DEF Ordered
  <1>4. PICK n \in 0 .. Len(st) :
          /\ Aged(st) = Older(st, n)
          /\ \A i \in 1 .. Len(st) : i <= n <=> st[i].age = Window - 1
          /\ \A i \in 1 .. Len(st) : i > n => st[i].age < Window - 1
    BY <1>1, <1>3, AgedFacts
  <1>5. PICK k \in 0 .. Len(se) :
          /\ Aged(se) = Older(se, k)
          /\ \A i \in 1 .. Len(se) : i <= k <=> se[i].age = Window - 1
          /\ \A i \in 1 .. Len(se) : i > k => se[i].age < Window - 1
    BY <1>1, AgedFacts
  <1> DEFINE d == Len(se) - Len(st)
             e == (Len(se) - k) - (Len(st) - n)
  <1>6. d \in Nat /\ \A i \in 1 .. Len(st) : i + d \in 1 .. Len(se) /\ st[i] = se[i + d]
    BY <1>1 DEF IsEndOf
  <1>7. e \in Nat /\ e <= d
    <2>1. CASE n = Len(st)
      <3>1. n > 0 => n <= k
        <4> SUFFICES ASSUME n > 0 PROVE n <= k
          OBVIOUS
        <4>1. n \in 1 .. Len(st) /\ st[n].age = Window - 1 /\ n + d \in 1 .. Len(se) /\ st[n] = se[n + d]
          BY <1>1, <1>4, <1>6
        <4>2. n + d <= k
          BY <1>5, <4>1
        <4> QED BY <1>1, <1>6, <4>2
      <3> QED BY <1>1, <2>1, <3>1
    <2>2. CASE n # Len(st)
      <3>1. n + 1 \in 1 .. Len(st) /\ ~(st[n + 1].age = Window - 1)
        BY <1>1, <1>4, <2>2
      <3>2. n + 1 + d \in 1 .. Len(se) /\ st[n + 1] = se[n + 1 + d]
        BY <1>6, <3>1
      <3>3. ~(n + 1 + d <= k)
        BY <1>5, <3>1, <3>2
      <3>4. n > 0 => n <= k
        <4> SUFFICES ASSUME n > 0 PROVE n <= k
          OBVIOUS
        <4>1. n \in 1 .. Len(st) /\ st[n].age = Window - 1 /\ n + d \in 1 .. Len(se) /\ st[n] = se[n + d]
          BY <1>1, <1>4, <1>6
        <4>2. n + d <= k
          BY <1>5, <4>1
        <4> QED BY <1>1, <1>6, <4>2
      <3> QED BY <1>1, <1>6, <3>3, <3>4
    <2> QED BY <2>1, <2>2
  <1>8. /\ Older(st, n) \in Seq(Stamp) /\ Len(Older(st, n)) = Len(st) - n
        /\ \A i \in 1 .. Len(st) - n : Older(st, n)[i] = [st[i + n] EXCEPT !.age = @ + 1]
    BY ZenonT(60), <1>1, <1>4, OlderFacts
  <1>9. /\ Older(se, k) \in Seq(Stamp) /\ Len(Older(se, k)) = Len(se) - k
        /\ \A i \in 1 .. Len(se) - k : /\ Older(se, k)[i] = [se[i + k] EXCEPT !.age = @ + 1]
                                       /\ Older(se, k)[i].age = se[i + k].age + 1
    BY SMTT(30), <1>1, <1>5, OlderFacts
  <1>10. IsEndOf(Older(st, n), Older(se, k))
    <2>1. ASSUME NEW i \in 1 .. Len(st) - n
          PROVE  Older(st, n)[i] = Older(se, k)[i + e]
      <3>1. i + n \in 1 .. Len(st) /\ i + e \in 1 .. Len(se) - k /\ i + e + k = i + n + d
        BY <1>1, <1>6, <1>7
      <3>2. st[i + n] = se[i + e + k]
        BY <1>6, <3>1
      <3> QED BY ZenonT(60), <1>8, <1>9, <3>1, <3>2
    <2> QED BY <1>1, <1>7, <1>8, <1>9, <2>1 DEF IsEndOf
  <1>11. Ordered(Older(se, k))
    <2> SUFFICES ASSUME NEW i \in 1 .. Len(se) - k, NEW j \in 1 .. Len(se) - k, i <= j
                 PROVE  Older(se, k)[i].age >= Older(se, k)[j].age
      BY <1>9 DEF Ordered
    <2>1. i + k \in 1 .. Len(se) /\ j + k \in 1 .. Len(se) /\ i + k <= j + k
      BY <1>1
    <2>2. se[i + k].age >= se[j + k].age
      BY <1>1, <2>1 DEF Ordered
    <2>3. Older(se, k)[i].age = se[i + k].age + 1 /\ Older(se, k)[j].age = se[j + k].age + 1
      BY <1>9
    <2> QED BY SMTT(30), <1>2, <2>1, <2>2, <2>3
  <1>12. /\ Len(st) <= MaxLimit(key) /\ Len(se) - Len(st) <= evicted * MaxLimit(key)
         /\ MaxLimit(key) \in Nat /\ evicted * MaxLimit(key) \in Nat
    <2>1. MaxLimit(key) \in Nat
      BY LimitFacts
    <2> QED BY <2>1 DEF ListInv, st, se
  <1> DEFINE most == MaxLimit(key)
             lost == evicted * MaxLimit(key)
  <1>13. Len(st) - n <= most /\ (Len(se) - k) - (Len(st) - n) <= lost
    <2>1. Len(st) <= most /\ d <= lost /\ most \in Nat /\ lost \in Nat
      BY <1>12
    <2> HIDE DEF most, lost
    <2> QED BY <1>1, <1>6, <1>7, <2>1
  <1> QED BY <1>1, <1>4, <1>5, <1>8, <1>9, <1>10, <1>11, <1>12, <1>13 DEF ListInv

\* A request that is served is added to both lists.
LEMMA ServeKeepsLists ==
    ASSUME NEW who \in Key, NEW answered \in BOOLEAN, NEW limit \in Nat, limit <= MaxLimit(who),
           MayServe(who, limit), Serve(who, answered), evicted' = evicted, evicted \in Nat,
           stamps \in [Key -> Seq(Stamp)], served \in [Key -> Seq(Stamp)],
           NEW key \in Key, ListInv(key)
    PROVE  ListInv(key)'
  <1>1. CASE key # who
    <2>1. stamps'[key] = stamps[key] /\ served'[key] = served[key]
      BY <1>1 DEF Serve, Recorded
    <2> QED BY <2>1 DEF ListInv, MaxLimit
  <1>2. CASE key = who
    <2> DEFINE st == stamps[key]
               se == served[key]
               new == [age |-> 0, answered |-> answered]
               most == MaxLimit(key)
               lost == evicted * MaxLimit(key)
    <2>1. /\ st \in Seq(Stamp) /\ se \in Seq(Stamp) /\ Ordered(se) /\ IsEndOf(st, se)
          /\ Len(st) \in Nat /\ Len(se) \in Nat /\ Len(st) < limit /\ limit <= most
          /\ Len(se) - Len(st) <= lost /\ most \in Nat
          /\ stamps'[key] = Append(st, new) /\ served'[key] = Append(se, new)
      BY <1>2, LimitFacts DEF ListInv, Serve, Recorded, MayServe
    <2>2. new \in Stamp /\ new.age = 0
      BY LimitAssumption DEF Stamp
    <2>3. lost' = lost /\ most' = most /\ lost \in Int
      BY <2>1 DEF MaxLimit
    <2> HIDE DEF st, se, new, most, lost
    <2> DEFINE st1 == Append(st, new)
               se1 == Append(se, new)
    <2>4. /\ st1 \in Seq(Stamp) /\ se1 \in Seq(Stamp)
          /\ Len(st1) = Len(st) + 1 /\ Len(se1) = Len(se) + 1
          /\ \A i \in 1 .. Len(st) : st1[i] = st[i]
          /\ \A i \in 1 .. Len(se) : se1[i] = se[i]
          /\ st1[Len(st) + 1] = new /\ se1[Len(se) + 1] = new
      BY <2>1, <2>2
    <2> HIDE DEF st1, se1
    <2>5. Ordered(se1)
      <3> SUFFICES ASSUME NEW i \in 1 .. Len(se) + 1, NEW j \in 1 .. Len(se) + 1, i <= j
                   PROVE  se1[i].age >= se1[j].age
        BY <2>4 DEF Ordered
      <3>1. CASE j \in 1 .. Len(se)
        <4>1. i \in 1 .. Len(se)
          BY <2>1, <3>1
        <4> QED BY <2>1, <2>4, <3>1, <4>1 DEF Ordered
      <3>2. CASE j = Len(se) + 1
        <4>1. se1[i] \in Stamp /\ se1[j].age = 0
          BY <2>1, <2>2, <2>4, <3>2
        <4> QED BY <4>1, StampFacts
      <3> QED BY <2>1, <3>1, <3>2
    <2>6. IsEndOf(st1, se1)
      <3> DEFINE d == Len(se) - Len(st)
      <3>0. Len(st) \in Nat /\ Len(se) \in Nat /\ Len(st) <= Len(se)
        BY <2>1 DEF IsEndOf
      <3>1. d \in Nat /\ \A i \in 1 .. Len(st) : i + d \in 1 .. Len(se) /\ st[i] = se[i + d]
        BY <3>0, <2>1 DEF IsEndOf
      <3>2. Len(se1) - Len(st1) = d /\ Len(st1) <= Len(se1)
        BY <2>1, <2>4, <3>1
      <3>3. ASSUME NEW i \in 1 .. Len(st) + 1 PROVE st1[i] = se1[i + d]
        <4>1. CASE i \in 1 .. Len(st)
          BY <2>4, <3>1, <4>1
        <4>2. CASE i = Len(st) + 1
          <5>1. i + d = Len(se) + 1
            BY <2>1, <4>2
          <5> QED BY <2>4, <4>2, <5>1
        <4> QED BY <2>1, <4>1, <4>2
      <3>4. \A i \in 1 .. Len(st1) : i + Len(se1) - Len(st1) = i + d
        BY <2>1, <2>4
      <3> QED BY <2>4, <3>2, <3>3, <3>4 DEF IsEndOf
    <2>7. Len(st1) <= most /\ Len(se1) - Len(st1) <= lost
      BY <2>1, <2>3, <2>4
    <2> QED BY <2>1, <2>3, <2>4, <2>5, <2>6, <2>7 DEF ListInv, st1, se1, most, lost
  <1> QED BY <1>1, <1>2

\* After an eviction all that was served is missing from the list in the cache.
LEMMA EvictKeepsLists ==
    ASSUME NEW dropped \in Key, Evict(dropped), evicted \in Nat, stamps \in [Key -> Seq(Stamp)],
           NEW key \in Key, ListInv(key)
    PROVE  ListInv(key)'
  <1> DEFINE most == MaxLimit(key)
             lost == evicted * MaxLimit(key)
  <1>1. /\ served'[key] = served[key] /\ served[key] \in Seq(Stamp) /\ Ordered(served[key])
        /\ Len(served[key]) \in Nat /\ Len(stamps[key]) \in Nat /\ most \in Nat
        /\ evicted' = evicted + 1 /\ Len(stamps[key]) <= most
        /\ Len(served[key]) - Len(stamps[key]) <= lost
    BY LimitFacts DEF ListInv, Evict
  <1>2. most' = most /\ lost \in Nat /\ lost' = lost + most
    <2>1. most' = most /\ lost' = (evicted + 1) * most
      BY <1>1 DEF MaxLimit
    <2> HIDE DEF most
    <2>2. (evicted + 1) * most = evicted * most + most /\ evicted * most \in Nat
      BY <1>1
    <2> QED BY <2>1, <2>2 DEF most
  <1>3. CASE key = dropped
    <2>1. stamps'[key] = <<>>
      BY <1>3 DEF Evict
    <2> DEFINE n == Len(served[key])
               k == Len(stamps[key])
    <2>2. n <= lost + most
      <3>1. n \in Nat /\ k \in Nat /\ most \in Nat /\ lost \in Nat /\ k <= most /\ n - k <= lost
        BY <1>1, <1>2
      <3> HIDE DEF n, k, most, lost
      <3> QED BY <3>1
    <2>3. <<>> \in Seq(Stamp) /\ Len(<<>>) = 0
      OBVIOUS
    <2>4. IsEndOf(<<>>, served[key])
      BY <1>1 DEF IsEndOf
    <2>5. 0 <= most /\ n - 0 <= lost + most
      BY <1>1, <1>2, <2>2
    <2> QED BY <1>1, <1>2, <2>1, <2>3, <2>4, <2>5 DEF ListInv
  <1>4. CASE key # dropped
    <2>1. stamps'[key] = stamps[key]
      BY <1>4 DEF Evict
    <2>2. Len(served[key]) - Len(stamps[key]) <= lost + most
      <3> DEFINE d == Len(served[key]) - Len(stamps[key])
      <3>1. d \in Int /\ most \in Nat /\ lost \in Nat /\ d <= lost
        BY <1>1, <1>2
      <3> HIDE DEF d, most, lost
      <3>2. d <= lost + most
        BY <3>1
      <3> QED BY <3>2 DEF d
    <2> QED BY <1>1, <1>2, <2>1, <2>2 DEF ListInv
  <1> QED BY <1>3, <1>4

\* Every step keeps the lists.
LEMMA ListStep ==
    ASSUME LimitsTypeOK, \A key \in Key : ListInv(key), [Next]_rlVars
    PROVE  \A key \in Key : ListInv(key)'
  <1>0. stamps \in [Key -> Seq(Stamp)] /\ served \in [Key -> Seq(Stamp)] /\ evicted \in Nat
    BY LimitAssumption DEF LimitsTypeOK
  <1>1. TAKE key \in Key
  <1>2. ASSUME NEW v \in View, RequestView(v) PROVE ListInv(key)'
    <2>1. Limit[v] \in Nat /\ Limit[v] <= MaxLimit("user") /\ "user" \in Key
      BY LimitFacts DEF Key
    <2>2. CASE MayServe("user", Limit[v])
      BY <1>0, <1>2, <2>1, <2>2, ServeKeepsLists DEF RequestView
    <2>3. CASE ~MayServe("user", Limit[v])
      BY <1>2, <2>3 DEF RequestView, Refuse, ListInv, MaxLimit
    <2> QED BY <2>2, <2>3
  <1>3. ASSUME NEW answered \in BOOLEAN, Attempt(answered) PROVE ListInv(key)'
    <2>1. IngestRate \in Nat /\ IngestRate <= MaxLimit("rig") /\ "rig" \in Key
      BY LimitFacts, LimitAssumption DEF Key
    <2>2. CASE MayServe("rig", IngestRate)
      BY <1>0, <1>3, <2>1, <2>2, ServeKeepsLists DEF Attempt
    <2>3. CASE ~MayServe("rig", IngestRate)
      BY <1>3, <2>3 DEF Attempt, Refuse, ListInv, MaxLimit
    <2> QED BY <2>2, <2>3
  <1>4. CASE Tick
    BY <1>0, <1>4, TickKeepsLists
  <1>5. ASSUME NEW dropped \in Key, Evict(dropped) PROVE ListInv(key)'
    BY <1>0, <1>5, EvictKeepsLists
  <1>6. CASE Unreachable \/ UNCHANGED rlVars
    BY <1>6 DEF Unreachable, rlVars, ListInv, MaxLimit
  <1> QED BY <1>2, <1>3, <1>4, <1>5, <1>6 DEF Next

\* Every step keeps every variable in its type.
LEMMA LimitsTypeStep ==
    ASSUME LimitsTypeOK, \A key \in Key : ListInv(key), [Next]_rlVars
    PROVE  LimitsTypeOK'
  <1>0. /\ stamps \in [Key -> Seq(Stamp)] /\ served \in [Key -> Seq(Stamp)]
        /\ phase \in 0 .. Period - 1 /\ agent \in 0 .. Attempts /\ evicted \in 0 .. MaxEvictions
        /\ refused \in {"none", "early", "unprovoked", "due"}
        /\ Period \in Nat \ {0} /\ Attempts \in Nat \ {0} /\ MaxEvictions \in Nat
    BY LimitAssumption DEF LimitsTypeOK
  <1>1. \A key \in Key : ListInv(key)'
    BY ListStep
  <1>2. ASSUME stamps' = [k \in Key |-> stamps'[k]], served' = [k \in Key |-> served'[k]]
        PROVE  stamps' \in [Key -> Seq(Stamp)] /\ served' \in [Key -> Seq(Stamp)]
    <2>1. \A k \in Key : stamps'[k] \in Seq(Stamp) /\ served'[k] \in Seq(Stamp)
      BY <1>1 DEF ListInv, Key, Stamp
    <2> QED BY <1>2, <2>1, Zenon
  <1>3. ASSUME NEW key \in Key, NEW answered \in BOOLEAN, Serve(key, answered)
        PROVE  stamps' = [k \in Key |-> stamps'[k]] /\ served' = [k \in Key |-> served'[k]]
    BY <1>0, <1>3 DEF Serve, Recorded
  <1>4. ASSUME NEW key \in Key, NEW limit, Refuse(key, limit)
        PROVE  /\ stamps' = [k \in Key |-> stamps'[k]] /\ served' = [k \in Key |-> served'[k]]
               /\ refused' \in {"none", "early", "unprovoked", "due"}
    BY <1>0, <1>4 DEF Refuse, Verdict
  <1>5. "user" \in Key /\ "rig" \in Key
    BY DEF Key
  <1>6. ASSUME NEW v \in View, RequestView(v) PROVE LimitsTypeOK'
    <2>1. CASE MayServe("user", Limit[v])
      BY <1>0, <1>2, <1>3, <1>5, <1>6, <2>1 DEF RequestView, Serve, LimitsTypeOK, Key, Stamp
    <2>2. CASE ~MayServe("user", Limit[v])
      BY <1>0, <1>2, <1>4, <1>5, <1>6, <2>2 DEF RequestView, LimitsTypeOK, Key, Stamp
    <2> QED BY <2>1, <2>2
  <1>7. ASSUME NEW answered \in BOOLEAN, Attempt(answered) PROVE LimitsTypeOK'
    <2>0. agent' \in 0 .. Attempts /\ phase' = phase /\ evicted' = evicted
      BY <1>0, <1>7 DEF Attempt
    <2>1. CASE MayServe("rig", IngestRate)
      BY <1>0, <1>2, <1>3, <1>5, <1>7, <2>0, <2>1 DEF Attempt, Serve, LimitsTypeOK, Key, Stamp
    <2>2. CASE ~MayServe("rig", IngestRate)
      BY <1>0, <1>2, <1>4, <1>5, <1>7, <2>0, <2>2 DEF Attempt, LimitsTypeOK, Key, Stamp
    <2> QED BY <2>1, <2>2
  <1>8. CASE Tick
    <2>1. stamps' = [k \in Key |-> stamps'[k]] /\ served' = [k \in Key |-> served'[k]]
      BY <1>8 DEF Tick
    <2>2. phase' \in 0 .. Period - 1 /\ agent' \in 0 .. Attempts
      <3>1. (phase + 1) % Period \in 0 .. Period - 1
        BY <1>0
      <3> QED BY <1>0, <1>8, <3>1 DEF Tick
    <2> QED BY <1>0, <1>2, <1>8, <2>1, <2>2 DEF Tick, LimitsTypeOK, Key, Stamp
  <1>9. ASSUME NEW dropped \in Key, Evict(dropped) PROVE LimitsTypeOK'
    <2>1. stamps' = [k \in Key |-> stamps'[k]] /\ served' = [k \in Key |-> served'[k]]
      BY <1>0, <1>9 DEF Evict
    <2>2. evicted' \in 0 .. MaxEvictions
      BY <1>0, <1>9 DEF Evict
    <2> QED BY <1>0, <1>2, <1>9, <2>1, <2>2 DEF Evict, LimitsTypeOK, Key, Stamp
  <1>10. CASE Unreachable
    <2>1. agent' \in 0 .. Attempts
      BY <1>0, <1>10 DEF Unreachable
    <2> QED BY <1>0, <1>10, <2>1 DEF Unreachable, LimitsTypeOK, Key, Stamp
  <1>11. CASE UNCHANGED rlVars
    BY <1>0, <1>11 DEF rlVars, LimitsTypeOK, Key, Stamp
  <1> QED BY <1>6, <1>7, <1>8, <1>9, <1>10, <1>11 DEF Next

\* The time since the agent was started, a tick later.
LEMMA NextPhase ==
    ASSUME NEW k \in Nat \ {0}, NEW p \in 0 .. k - 1
    PROVE  (p + 1) % k = IF p + 1 = k THEN 0 ELSE p + 1
  <1>1. CASE p + 1 = k
    <2>1. k % k = 0
      BY SMT
    <2> QED BY <1>1, <2>1
  <1>2. CASE p + 1 # k
    <2>1. p + 1 \in 0 .. k - 1
      BY <1>2
    <2> QED BY <1>2, <2>1
  <1> QED BY <1>1, <1>2

\* One report of a run is answered (send_payload returns with the answer).
LEMMA AnsweredStep ==
    ASSUME LimitsTypeOK, \A key \in Key : ListInv(key), AnsweredOnce, [Next]_rlVars
    PROVE  AnsweredOnce'
  <1> DEFINE list == served["rig"]
  <1>0. /\ list \in Seq(Stamp) /\ Ordered(list) /\ Len(list) \in Nat /\ "rig" \in Key /\ "user" \in Key
        /\ phase \in 0 .. Period - 1 /\ Period \in Nat \ {0} /\ Attempts \in Nat \ {0}
        /\ agent \in 0 .. Attempts /\ served \in [Key -> Seq(Stamp)]
        /\ \A i \in 1 .. Len(list) : list[i] \in Stamp
    BY LimitAssumption DEF LimitsTypeOK, ListInv, Key
  <1>1. ASSUME UNCHANGED <<list, phase>>, agent' \in 0 .. Attempts, agent' <= agent
        PROVE  AnsweredOnce'
    BY <1>0, <1>1 DEF AnsweredOnce
  <1>2. ASSUME NEW v \in View, RequestView(v) PROVE AnsweredOnce'
    <2>1. served'["rig"] = list
      BY <1>0, <1>2 DEF RequestView, Serve, Recorded, Refuse
    <2> QED BY <1>0, <1>1, <1>2, <2>1 DEF RequestView
  <1>3. ASSUME NEW answered \in BOOLEAN, Attempt(answered) PROVE AnsweredOnce'
    <2>1. CASE ~MayServe("rig", IngestRate)
      BY <1>0, <1>1, <1>3, <2>1 DEF Attempt, Refuse
    <2>2. CASE MayServe("rig", IngestRate)
      <3> DEFINE new == [age |-> 0, answered |-> answered]
      <3>1. /\ served'["rig"] = Append(list, new) /\ phase' = phase /\ agent > 0
            /\ agent' = IF answered THEN 0 ELSE agent - 1
        BY <1>0, <1>3, <2>2 DEF Attempt, Serve, Recorded
      <3>2. new \in Stamp /\ new.age = 0 /\ new.answered = answered
        BY LimitAssumption DEF Stamp
      <3> HIDE DEF new
      <3> DEFINE l1 == Append(list, new)
      <3>3. /\ l1 \in Seq(Stamp) /\ Len(l1) = Len(list) + 1
            /\ \A i \in 1 .. Len(list) : l1[i] = list[i]
            /\ l1[Len(list) + 1] = new
        BY <1>0, <3>2
      <3>4. \A i \in 1 .. Len(list) : list[i].answered => list[i].age > phase
        BY <3>1 DEF AnsweredOnce
      <3> HIDE DEF l1
      <3>5. ASSUME NEW i \in 1 .. Len(l1), NEW j \in 1 .. Len(l1), l1[i].answered, l1[j].answered,
                   l1[i].age <= phase <=> l1[j].age <= phase
            PROVE  i = j
        <4>1. \A k \in 1 .. Len(l1) : k \in 1 .. Len(list) \/ k = Len(list) + 1
          BY <1>0, <3>3
        <4>2. \A k \in 1 .. Len(list) : l1[k].answered => ~(l1[k].age <= phase)
          <5>1. \A k \in 1 .. Len(list) : list[k].age \in Nat
            BY <1>0, StampFacts
          <5> QED BY <1>0, <3>3, <3>4, <5>1
        <4>3. l1[Len(list) + 1].age <= phase
          BY <1>0, <3>2, <3>3
        <4>4. CASE i \in 1 .. Len(list) /\ j \in 1 .. Len(list)
          BY <3>3, <3>5, <4>4 DEF AnsweredOnce
        <4> QED BY <3>5, <4>1, <4>2, <4>3, <4>4
      <3>6. ASSUME agent' > 0, NEW i \in 1 .. Len(l1), l1[i].answered
            PROVE  l1[i].age > phase
        <4>1. ~answered
          BY <3>1, <3>6
        <4>2. i \in 1 .. Len(list)
          BY <1>0, <3>2, <3>3, <3>6, <4>1
        <4> QED BY <3>3, <3>4, <3>6, <4>2
      <3> QED BY <3>1, <3>5, <3>6 DEF AnsweredOnce, l1
    <2> QED BY <2>1, <2>2
  <1>4. CASE Tick
    <2>1. PICK n \in 0 .. Len(list) :
            /\ Aged(list) = Older(list, n)
            /\ \A i \in 1 .. Len(list) : i > n => list[i].age < Window - 1
      BY <1>0, AgedFacts
    <2> DEFINE l1 == Older(list, n)
    <2>2. /\ Len(l1) = Len(list) - n
          /\ \A i \in 1 .. Len(list) - n : /\ l1[i].age = list[i + n].age + 1
                                          /\ l1[i].answered = list[i + n].answered
                                          /\ i + n \in 1 .. Len(list)
      <3>1. /\ Len(l1) = Len(list) - n
            /\ \A i \in 1 .. Len(list) - n : /\ l1[i].age = list[i + n].age + 1
                                            /\ l1[i].answered = list[i + n].answered
        <4>1. list \in Seq(Stamp) /\ Len(list) \in Nat
          BY <1>0
        <4> HIDE DEF list
        <4>2. \A i \in 1 .. Len(list) - n : /\ Older(list, n)[i].age = list[i + n].age + 1
                                          /\ Older(list, n)[i].answered = list[i + n].answered
          BY <2>1, <4>1, OlderFacts
        <4>3. Len(Older(list, n)) = Len(list) - n
          BY <2>1, <4>1, OlderFacts
        <4> QED BY <4>2, <4>3
      <3>2. \A i \in 1 .. Len(list) - n : i + n \in 1 .. Len(list)
        BY <1>0
      <3> QED BY <3>1, <3>2
    <2>3. served'["rig"] = l1
      BY <1>0, <1>4, <2>1 DEF Tick
    <2> HIDE DEF l1
    <2>4. phase' = (IF phase + 1 = Period THEN 0 ELSE phase + 1)
          /\ agent' = (CASE phase' = 0 -> Attempts [] phase = Spread -> 0 [] OTHER -> agent)
      BY <1>0, <1>4, NextPhase DEF Tick
    <2>5. \A i \in 1 .. Len(list) : list[i].age \in Nat /\ list[i].age < Period
      BY <1>0, StampFacts, RateAssumption
    <2>6. ASSUME NEW i \in 1 .. Len(list), NEW j \in 1 .. Len(list),
                 list[i].age + 1 <= phase' <=> list[j].age + 1 <= phase'
          PROVE  list[i].age <= phase <=> list[j].age <= phase
      <3> DEFINE a == list[i].age
                 b == list[j].age
                 p == phase
                 q == phase'
      <3>1. /\ a \in Nat /\ b \in Nat /\ a < Period /\ b < Period
            /\ p \in Nat /\ p < Period /\ Period \in Nat
            /\ q = IF p + 1 = Period THEN 0 ELSE p + 1
        BY <1>0, <2>4, <2>5
      <3>2. a + 1 <= q <=> b + 1 <= q
        BY <2>6
      <3> HIDE DEF a, b, p, q
      <3>3. p + 1 = Period => a <= p /\ b <= p
        BY <3>1
      <3>4. p + 1 # Period => (a <= p <=> b <= p)
        BY <3>1, <3>2
      <3>5. a <= p <=> b <= p
        BY <3>3, <3>4
      <3> QED BY <3>5 DEF a, b, p
    <2>7. ASSUME NEW i \in 1 .. Len(l1), NEW j \in 1 .. Len(l1), l1[i].answered, l1[j].answered,
                 l1[i].age <= phase' <=> l1[j].age <= phase'
          PROVE  i = j
      <3>1. i + n \in 1 .. Len(list) /\ j + n \in 1 .. Len(list)
        BY <2>2
      <3>2. list[i + n].age + 1 <= phase' <=> list[j + n].age + 1 <= phase'
        BY <2>2, <2>7
      <3>3. list[i + n].age <= phase <=> list[j + n].age <= phase
        BY <2>6, <3>1, <3>2
      <3>4. list[i + n].answered /\ list[j + n].answered
        BY <2>2, <2>7
      <3>5. i + n = j + n
        BY <3>1, <3>3, <3>4 DEF AnsweredOnce
      <3> QED BY <1>0, <2>2, <3>5
    <2>8. ASSUME agent' > 0, NEW i \in 1 .. Len(l1), l1[i].answered
          PROVE  l1[i].age > phase'
      <3>1. /\ i + n \in 1 .. Len(list) /\ list[i + n].answered /\ l1[i].age = list[i + n].age + 1
            /\ list[i + n].age \in Nat
        BY <2>2, <2>5, <2>8
      <3>2. CASE phase' = 0
        BY <3>1, <3>2
      <3>3. CASE phase' # 0
        <4>1. agent > 0 /\ phase' = phase + 1
          BY <1>0, <2>4, <2>8, <3>3
        <4>2. list[i + n].age > phase
          BY <3>1, <4>1 DEF AnsweredOnce
        <4> QED BY <1>0, <3>1, <4>1, <4>2
      <3> QED BY <3>2, <3>3
    <2> QED BY <2>3, <2>7, <2>8 DEF AnsweredOnce
  <1>5. ASSUME NEW dropped \in Key, Evict(dropped) PROVE AnsweredOnce'
    BY <1>0, <1>1, <1>5 DEF Evict
  <1>6. CASE Unreachable \/ UNCHANGED rlVars
    BY <1>0, <1>1, <1>6 DEF Unreachable, rlVars
  <1> QED BY <1>2, <1>3, <1>4, <1>5, <1>6 DEF Next

\* Who is refused has been served that often, and a rig that is refused has a
\* report whose answer was lost.
LEMMA RefusedStep ==
    ASSUME LimitInv, [Next]_rlVars
    PROVE  refused' \notin {"early", "unprovoked"}
  <1>0. refused \notin {"early", "unprovoked"} /\ "rig" \in Key /\ "user" \in Key
    BY DEF LimitInv, Key
  <1>1. ASSUME NEW key \in Key, NEW limit \in Nat, ~MayServe(key, limit)
        PROVE  ~(Len(served[key]) < limit)
    <2>1. Len(stamps[key]) <= Len(served[key]) /\ Len(stamps[key]) \in Nat /\ Len(served[key]) \in Nat
      <3>1. ListInv(key)
        BY DEF LimitInv
      <3>2. stamps[key] \in Seq(Stamp) /\ served[key] \in Seq(Stamp)
        BY <3>1 DEF ListInv
      <3>3. Len(stamps[key]) <= Len(served[key])
        BY <3>1 DEF ListInv, IsEndOf
      <3> QED BY <3>2, <3>3
    <2> QED BY <1>1, <2>1 DEF MayServe
  <1>2. ASSUME NEW v \in View, RequestView(v) PROVE refused' \notin {"early", "unprovoked"}
    <2>1. CASE MayServe("user", Limit[v])
      BY <1>0, <1>2, <2>1 DEF RequestView, Serve
    <2>2. CASE ~MayServe("user", Limit[v])
      <3>1. ~(Len(served["user"]) < Limit[v])
        BY <1>0, <1>1, <2>2, LimitFacts
      <3>2. refused' = Verdict("user", Limit[v])
        BY <1>2, <2>2 DEF RequestView, Refuse
      <3> QED BY <3>1, <3>2 DEF Verdict
    <2> QED BY <2>1, <2>2
  <1>3. ASSUME NEW answered \in BOOLEAN, Attempt(answered) PROVE refused' \notin {"early", "unprovoked"}
    <2>1. CASE MayServe("rig", IngestRate)
      BY <1>0, <1>3, <2>1 DEF Attempt, Serve
    <2>2. CASE ~MayServe("rig", IngestRate)
      <3> DEFINE list == served["rig"]
      <3>1. ~(Len(list) < IngestRate) /\ IngestRate \in Nat /\ IngestRate >= 2
        BY <1>0, <1>1, <2>2, LimitAssumption, RateAssumption
      <3>2. list \in Seq(Stamp) /\ Len(list) \in Nat /\ DOMAIN list = 1 .. Len(list)
        <4>1. list \in Seq(Stamp)
          BY <1>0 DEF LimitInv, ListInv
        <4> HIDE DEF list
        <4> QED BY <4>1
      <3>3. 1 \in 1 .. Len(list) /\ 2 \in 1 .. Len(list)
        BY <3>1, <3>2
      <3>4. ~ \A i \in DOMAIN list : list[i].answered
        <4> SUFFICES ASSUME \A i \in DOMAIN list : list[i].answered PROVE FALSE
          OBVIOUS
        <4>1. \A i \in 1 .. Len(list) : list[i].answered /\ list[i].age > phase
          BY <1>3, <3>2 DEF LimitInv, AnsweredOnce, Attempt
        <4>2. list[1].age > phase /\ list[2].age > phase /\ list[1].answered /\ list[2].answered
          BY <3>3, <4>1
        <4>3. list[1].age \in Nat /\ list[2].age \in Nat /\ phase \in Nat
          <5>1. list[1] \in Stamp /\ list[2] \in Stamp
            BY <3>2, <3>3
          <5> QED BY <5>1, StampFacts, LimitAssumption DEF LimitInv, LimitsTypeOK
        <4>4. ~(list[1].age <= phase) /\ ~(list[2].age <= phase)
          BY <4>2, <4>3
        <4>5. 1 = 2
          BY <3>3, <4>2, <4>4 DEF LimitInv, AnsweredOnce
        <4> QED BY <4>5
      <3>5. refused' = Verdict("rig", IngestRate)
        BY <1>3, <2>2 DEF Attempt, Refuse
      <3> QED BY <3>1, <3>4, <3>5 DEF Verdict
    <2> QED BY <2>1, <2>2
  <1>4. CASE Tick \/ Unreachable \/ (\E dropped \in Key : Evict(dropped)) \/ UNCHANGED rlVars
    BY <1>0, <1>4 DEF Tick, Unreachable, Evict, rlVars
  <1> QED BY <1>2, <1>3, <1>4 DEF Next

\* The lists are empty, and the agent has all its attempts.
LEMMA LimitInit == Init => LimitInv
  <1> SUFFICES ASSUME Init PROVE LimitInv
    OBVIOUS
  <1>1. LimitsTypeOK
    BY LimitAssumption DEF Init, LimitsTypeOK
  <1>2. ASSUME NEW key \in Key PROVE ListInv(key)
    <2>1. stamps[key] = <<>> /\ served[key] = <<>> /\ evicted = 0
      BY DEF Init
    <2>2. <<>> \in Seq(Stamp) /\ Len(<<>>) = 0
      OBVIOUS
    <2>3. Ordered(<<>>) /\ IsEndOf(<<>>, <<>>)
      BY DEF Ordered, IsEndOf
    <2>4. MaxLimit(key) \in Nat /\ 0 * MaxLimit(key) = 0
      BY LimitFacts
    <2> QED BY <2>1, <2>2, <2>3, <2>4 DEF ListInv
  <1>3. AnsweredOnce
    <2>1. served["rig"] = <<>>
      BY DEF Init, Key
    <2> QED BY <2>1 DEF AnsweredOnce
  <1> QED BY <1>1, <1>2, <1>3 DEF LimitInv, Init

\* Nobody is refused who has not used up his limit, an agent whose reports are
\* answered is never refused, and a worker serves no more than the limit but for
\* what an eviction made it forget (rate_limit, IngestRateThrottle, send_payload).
THEOREM LimitsAreKept == Spec => []LimitsHold
  <1>1. LimitInv /\ [Next]_rlVars => LimitInv'
    BY ListStep, LimitsTypeStep, AnsweredStep, RefusedStep DEF LimitInv
  <1>2. LimitInv => LimitsHold
    <2> SUFFICES ASSUME LimitInv PROVE LimitsHold
      OBVIOUS
    <2>1. RefusalsDoNotCount /\ AnsweredAgentIsServed
      BY DEF LimitInv, RefusalsDoNotCount, AnsweredAgentIsServed
    <2>2. ASSUME NEW key \in Key PROVE Len(served[key]) <= (1 + evicted) * MaxLimit(key)
      <3> DEFINE most == MaxLimit(key)
                 n == Len(served[key])
                 k == Len(stamps[key])
      <3>1. /\ most \in Nat /\ n \in Nat /\ k \in Nat /\ evicted \in Nat
            /\ k <= most /\ n - k <= evicted * most
        BY LimitFacts, LimitAssumption DEF LimitInv, ListInv, LimitsTypeOK
      <3> HIDE DEF most, n, k
      <3>2. (1 + evicted) * most = evicted * most + most /\ evicted * most \in Nat
        BY <3>1
      <3>3. n <= (1 + evicted) * most
        BY <3>1, <3>2
      <3> QED BY <3>3 DEF n, most
    <2> QED BY <2>1, <2>2 DEF LimitsHold, BurstBounded
  <1> QED BY <1>1, <1>2, LimitInit, PTL DEF Spec

\* Every variable of RateLimits keeps its type.
THEOREM LimitsTyped == Spec => []LimitsTypeOK
  <1>1. LimitInv /\ [Next]_rlVars => LimitInv'
    BY ListStep, LimitsTypeStep, AnsweredStep, RefusedStep DEF LimitInv
  <1>2. LimitInv => LimitsTypeOK
    BY DEF LimitInv
  <1> QED BY <1>1, <1>2, LimitInit, PTL DEF Spec

-----------------------------------------------------------------------------
(***************************************************************************)
(* AuditTrail                                                              *)
(***************************************************************************)
\* Requests have numbers of their own, and nobody changes anything beforehand.
Numbered ==
    /\ \A w \in Workers :
         /\ req[w].pc = "idle" => req[w].n = 0
         /\ req[w].pc # "idle" => req[w].n \in 1 .. count /\ req[w].target \in Targets(req[w].kind)
    /\ \A v, w \in Workers : v # w /\ req[v].pc # "idle" => req[v].n # req[w].n
    /\ \A n \in 1 .. MaxRequests : n > count => changed[n] = {}
    /\ \A row \in rows : row.n <= count

\* Some request has changed t.
Touched(t) == \E n \in 1 .. count : t \in changed[n]

\* Before its view has written, and a transfer after each key.
Untouched(w) == changed[req[w].n] = {} /\ req[w].event = NoEvent
Halfway(w)   == req[w].kind = "transfer" /\ req[w].event \in changed[req[w].n]

\* What is attached when the view is done is true, and not missing.
Settled(w) ==
    LET r == req[w] IN
    \/ r.event = NoEvent /\ changed[r.n] \in {{}, {"newrig"}}
    \/ r.event # NoEvent /\ r.event \in changed[r.n]
    \/ /\ r.event # NoEvent /\ r.event \in Tags /\ changed[r.n] = {}
       /\ Touched(r.event)

Progress(w) ==
    LET r == req[w] IN
    /\ r.pc = "open" => Untouched(w)
    /\ r.pc = "change" => Untouched(w) \/ Halfway(w)
    /\ r.pc = "change" /\ r.kind \in {"update", "delete", "toggle"} => Touched(r.target)
    /\ r.pc = "change" /\ r.kind = "register" /\ ~r.seen => users # {}
    /\ r.pc = "respond" => Settled(w)

AuditInv ==
    /\ AuditTypeOK
    /\ Numbered
    /\ \A t \in tags : Touched(t)
    /\ \A w \in Workers : Progress(w)
    /\ FirstUserIsAdmin /\ ChangesAreLogged /\ RowsAreTrue

-----------------------------------------------------------------------------
LEMMA AuditInit == AInit => AuditInv
  <1> SUFFICES ASSUME AInit PROVE AuditInv
    OBVIOUS
  <1> USE AuditAssumption DEF AInit
  <1>1. Idle \in Request
    BY DEF Idle, Request, Kinds, Target, NoEvent
  <1>2. AuditTypeOK
    BY <1>1 DEF AuditTypeOK
  <1>3. Numbered /\ \A w \in Workers : Progress(w)
    BY DEF Numbered, Progress, Idle
  <1> QED BY <1>2, <1>3 DEF AuditInv, FirstUserIsAdmin, ChangesAreLogged, RowsAreTrue

\* The requests so far have numbers.
LEMMA Counted ==
    ASSUME AuditInv
    PROVE  /\ count \in Nat /\ MaxRequests \in Nat /\ count <= MaxRequests
           /\ \A n \in 1 .. count : n \in 1 .. MaxRequests
           /\ \A v \in Workers : req[v] \in Request /\ (req[v].pc # "idle" => req[v].n \in 1 .. count)
           /\ \A row \in rows : row.n \in 1 .. count
  <1>1. count \in Nat /\ MaxRequests \in Nat /\ count <= MaxRequests
    BY AuditAssumption DEF AuditInv, AuditTypeOK
  <1>2. \A row \in rows : row.n \in 1 .. MaxRequests
    BY DEF AuditInv, AuditTypeOK, Row
  <1> QED BY <1>1, <1>2 DEF AuditInv, AuditTypeOK, Numbered

\* A step of w leaves the requests of the others alone, and adds at most to what
\* its own has changed.
OnlyOwn(w) ==
    /\ req' = [req EXCEPT ![w] = req'[w]]
    /\ \A n \in 1 .. MaxRequests :
         changed[n] \subseteq changed'[n] /\ (n # req[w].n => changed'[n] = changed[n])
    /\ count <= count' /\ users \subseteq users' /\ rows \subseteq rows'

LEMMA StaysTouched ==
    ASSUME AuditInv, AuditTypeOK', NEW w \in Workers, OnlyOwn(w), NEW t, Touched(t)
    PROVE  Touched(t)'
  <1>1. PICK n \in 1 .. count : t \in changed[n]
    BY DEF Touched
  <1>2. count' \in Nat /\ count <= count'
    BY AuditAssumption DEF OnlyOwn, AuditTypeOK
  <1>3. n \in 1 .. count' /\ n \in 1 .. MaxRequests
    BY <1>2, Counted
  <1> QED BY <1>1, <1>3 DEF Touched, OnlyOwn

\* What the others have done so far is not disturbed.
LEMMA Others ==
    ASSUME AuditInv, AuditTypeOK', NEW w \in Workers, OnlyOwn(w),
           NEW v \in Workers, v # w
    PROVE  Progress(v)'
  <1>1. req'[v] = req[v] /\ req[v] \in Request
    BY DEF OnlyOwn, AuditInv, AuditTypeOK
  <1>2. CASE req[v].pc = "idle"
    BY <1>1, <1>2 DEF Progress
  <1>3. CASE req[v].pc # "idle"
    <2>1. req[v].n \in 1 .. MaxRequests /\ req[v].n # req[w].n
      BY <1>3, Counted DEF AuditInv, Numbered
    <2>2. changed'[req[v].n] = changed[req[v].n]
      BY <2>1 DEF OnlyOwn
    <2>3. \A t : Touched(t) => Touched(t)'
      BY StaysTouched
    <2>4. users # {} => users' # {}
      BY DEF OnlyOwn
    <2> QED BY <1>1, <2>2, <2>3, <2>4 DEF AuditInv, Progress, Untouched, Halfway, Settled
  <1> QED BY <1>2, <1>3

\* A request under way is not yet counted in the log, and the rows of the others
\* stay true.
LEMMA LogStays ==
    ASSUME AuditInv, AuditTypeOK', NEW w \in Workers, OnlyOwn(w),
           req'[w].pc # "idle", rows' = rows, cut' = cut,
           req[w].pc # "idle" => req'[w].n = req[w].n,
           count' = count \/ (count' = count + 1 /\ req'[w].n = count')
    PROVE  ChangesAreLogged' /\ RowsAreTrue'
  <1>1. ASSUME NEW n \in 1 .. count'
        PROVE  \/ n \in cut' \/ changed'[n] = {} \/ \E v \in Workers : req'[v].n = n
               \/ changed'[n] = {"newrig"}
               \/ \E row \in rows' : row.n = n /\ row.target \in changed'[n]
    <2>1. CASE req'[w].n = n
      BY <2>1
    <2>2. CASE req'[w].n # n
      <3>1. n \in 1 .. count /\ n \in 1 .. MaxRequests
        BY <1>1, <2>2, Counted
      <3>2. req[w].n # n
        BY <2>2, <3>1 DEF AuditInv, Numbered
      <3>3. changed'[n] = changed[n]
        BY <3>1, <3>2 DEF OnlyOwn
      <3>4. \A v \in Workers : req[v].n = n => req'[v].n = n
        BY <3>2 DEF OnlyOwn, AuditInv, AuditTypeOK
      <3> QED BY <3>1, <3>3, <3>4 DEF AuditInv, ChangesAreLogged
    <2> QED BY <2>1, <2>2
  <1>2. ASSUME NEW row \in rows
        PROVE  \/ row.target \in changed'[row.n]
               \/ /\ row.target \in Tags
                  /\ \E n \in 1 .. count' : n # row.n /\ row.target \in changed'[n]
    <2>1. CASE row.target \in changed[row.n]
      BY <1>2, <2>1, Counted DEF OnlyOwn
    <2>2. CASE /\ row.target \in Tags
               /\ \E n \in 1 .. count : n # row.n /\ row.target \in changed[n]
      <3>1. PICK n \in 1 .. count : n # row.n /\ row.target \in changed[n]
        BY <2>2
      <3>2. n \in 1 .. count' /\ row.target \in changed'[n]
        BY <3>1, Counted DEF OnlyOwn
      <3> QED BY <2>2, <3>1, <3>2
    <2> QED BY <1>2, <2>1, <2>2 DEF AuditInv, RowsAreTrue
  <1> QED BY <1>1, <1>2 DEF ChangesAreLogged, RowsAreTrue

-----------------------------------------------------------------------------
\* A request arrives.
LEMMA ReceiveStep ==
    ASSUME AuditInv, NEW w \in Workers, NEW kind \in Kinds, NEW t \in Target, Receive(w, kind, t)
    PROVE  AuditInv'
  <1> DEFINE r == [Idle EXCEPT !.pc = "open", !.kind = kind, !.n = count + 1, !.target = t,
                               !.left = IF kind = "transfer" THEN Keys ELSE {}]
  <1>1. /\ req[w].pc = "idle" /\ count < MaxRequests /\ t \in Targets(kind)
        /\ count' = count + 1 /\ req' = [req EXCEPT ![w] = r]
        /\ UNCHANGED <<users, tags, tagged, rows, changed, cut>>
    BY DEF Receive
  <1>2. /\ count \in Nat /\ MaxRequests \in Nat /\ req \in [Workers -> Request]
        /\ changed \in [1 .. MaxRequests -> SUBSET Target]
    BY AuditAssumption DEF AuditInv, AuditTypeOK
  <1>3. /\ r.pc = "open" /\ r.kind = kind /\ r.n = count + 1 /\ r.target = t
        /\ r.event = NoEvent /\ r \in Request
    <2>1. Idle \in Request
      BY <1>2 DEF Idle, Request, Kinds, Target
    <2>2. count + 1 \in 0 .. MaxRequests
      BY <1>1, <1>2
    <2>3. (IF kind = "transfer" THEN Keys ELSE {}) \in SUBSET Keys
      OBVIOUS
    <2>4. Idle.event = NoEvent
      BY DEF Idle
    <2> QED BY <2>1, <2>2, <2>3, <2>4 DEF Request
  <1> HIDE DEF r
  <1>4. req'[w] = r /\ req' \in [Workers -> Request]
    BY <1>1, <1>2, <1>3
  <1>5. AuditTypeOK'
    BY <1>1, <1>2, <1>4 DEF AuditInv, AuditTypeOK
  <1>6. OnlyOwn(w)
    BY <1>1, <1>2, <1>4 DEF OnlyOwn
  <1>7. Numbered'
    <2>1. \A v \in Workers : req[v].n <= count
      BY <1>2 DEF AuditInv, Numbered, Request
    <2>2. \A v \in Workers : v # w => req'[v] = req[v]
      BY <1>1, <1>2
    <2> QED BY <1>1, <1>2, <1>3, <1>4, <2>1, <2>2 DEF AuditInv, Numbered, AuditTypeOK, Row
  <1>8. Progress(w)'
    BY <1>1, <1>2, <1>3, <1>4 DEF Progress, Untouched, AuditInv, Numbered
  <1>9. \A s \in tags' : Touched(s)'
    BY <1>1, <1>2 DEF AuditInv, Touched
  <1>10. ChangesAreLogged' /\ RowsAreTrue'
    BY <1>1, <1>3, <1>4, <1>5, <1>6, LogStays
  <1>11. FirstUserIsAdmin'
    BY <1>1 DEF AuditInv, FirstUserIsAdmin
  <1> QED BY <1>5, <1>6, <1>7, <1>8, <1>9, <1>10, <1>11, Others DEF AuditInv

\* A step within a request: its record changes, its number, kind and target do not.
Within(w, r, S) ==
    /\ req[w].pc # "idle" /\ r.pc # "idle"
    /\ req' = [req EXCEPT ![w] = r]
    /\ r.n = req[w].n /\ r.kind = req[w].kind /\ r.target = req[w].target
    /\ changed' = [changed EXCEPT ![req[w].n] = @ \cup S]
    /\ users' \subseteq User /\ users \subseteq users' /\ FirstUserIsAdmin'
    /\ tags' \subseteq Tags /\ tagged' \subseteq Tags /\ tags' \subseteq tags \cup S
    /\ UNCHANGED <<count, rows, cut>>

LEMMA WithinStep ==
    ASSUME AuditInv, NEW w \in Workers, NEW r \in Request, NEW S \in SUBSET Target,
           Within(w, r, S), Progress(w)'
    PROVE  AuditInv'
  <1> USE DEF Within
  <1>1. /\ count \in Nat /\ MaxRequests \in Nat /\ req \in [Workers -> Request]
        /\ changed \in [1 .. MaxRequests -> SUBSET Target]
        /\ req[w].n \in 1 .. count /\ req[w].n \in 1 .. MaxRequests
    BY AuditAssumption DEF AuditInv, AuditTypeOK, Numbered
  <1>2. req'[w] = r /\ req' \in [Workers -> Request] /\ \A v \in Workers : v # w => req'[v] = req[v]
    BY <1>1
  <1>3. /\ changed' \in [1 .. MaxRequests -> SUBSET Target]
        /\ changed'[req[w].n] = changed[req[w].n] \cup S
        /\ \A n \in 1 .. MaxRequests : n # req[w].n => changed'[n] = changed[n]
    BY <1>1
  <1>4. AuditTypeOK'
    BY <1>2, <1>3 DEF AuditInv, AuditTypeOK
  <1>5. OnlyOwn(w)
    BY <1>1, <1>2, <1>3 DEF OnlyOwn
  <1>6. Numbered'
    BY <1>1, <1>2, <1>3 DEF AuditInv, Numbered
  <1>7. \A t \in tags' : Touched(t)'
    <2>1. \A t : Touched(t) => Touched(t)'
      BY <1>1, <1>5 DEF Touched, OnlyOwn, AuditInv, AuditTypeOK
    <2>2. \A t \in S : Touched(t)'
      BY <1>1, <1>3 DEF Touched
    <2> QED BY <2>1, <2>2 DEF AuditInv
  <1>8. ChangesAreLogged' /\ RowsAreTrue'
    BY <1>2, <1>4, <1>5, LogStays
  <1> QED BY <1>4, <1>5, <1>6, <1>7, <1>8, Others DEF AuditInv

\* A request ends, answered or killed.
LEMMA EndStep ==
    ASSUME AuditInv, NEW w \in Workers, Respond(w) \/ Kill(w)
    PROVE  AuditInv'
  <1>1. /\ req[w].pc # "idle" /\ req' = [req EXCEPT ![w] = Idle]
        /\ UNCHANGED <<users, tags, tagged, count, changed>>
        /\ rows \subseteq rows' /\ cut \subseteq cut'
    BY DEF Respond, Kill
  <1>2. /\ count \in Nat /\ MaxRequests \in Nat /\ req \in [Workers -> Request] /\ count <= MaxRequests
        /\ req[w] \in Request /\ req[w].n \in 1 .. count /\ req[w].n \in 1 .. MaxRequests
    BY <1>1, AuditAssumption DEF AuditInv, AuditTypeOK, Numbered
  <1>3. Idle \in Request /\ Idle.n = 0 /\ Idle.pc = "idle"
    BY AuditAssumption DEF Idle, Request, Kinds, Target, NoEvent
  <1>4. req'[w] = Idle /\ req' \in [Workers -> Request] /\ \A v \in Workers : v # w => req'[v] = req[v]
    BY <1>1, <1>2, <1>3
  <1> DEFINE new == [n |-> req[w].n, target |-> req[w].event]
  <1>5. \/ rows' = rows
        \/ rows' = rows \cup {new} /\ req[w].event # NoEvent /\ Respond(w)
    BY DEF Respond, Kill
  <1>6. AuditTypeOK'
    <2>1. rows' \subseteq Row
      BY <1>2, <1>5 DEF AuditInv, AuditTypeOK, Row, Request
    <2>2. cut' \subseteq 1 .. MaxRequests
      BY <1>2 DEF Respond, Kill, AuditInv, AuditTypeOK
    <2> QED BY <1>1, <1>4, <2>1, <2>2 DEF AuditInv, AuditTypeOK
  <1>7. OnlyOwn(w)
    BY <1>1, <1>2, <1>4 DEF OnlyOwn, AuditInv, AuditTypeOK
  <1>8. Numbered'
    BY <1>1, <1>2, <1>3, <1>4, <1>5 DEF AuditInv, Numbered
  <1>9. Progress(w)'
    BY <1>3, <1>4 DEF Progress
  <1>10. \A t \in tags' : Touched(t)'
    BY <1>1 DEF AuditInv, Touched
  <1>11. ChangesAreLogged'
    <2> SUFFICES ASSUME NEW n \in 1 .. count'
                 PROVE  \/ n \in cut' \/ changed'[n] = {} \/ \E v \in Workers : req'[v].n = n
                        \/ changed'[n] = {"newrig"}
                        \/ \E row \in rows' : row.n = n /\ row.target \in changed'[n]
      BY DEF ChangesAreLogged
    <2>1. CASE n # req[w].n
      BY <1>1, <1>4, <2>1 DEF AuditInv, ChangesAreLogged
    <2>2. CASE n = req[w].n /\ Kill(w)
      BY <2>2 DEF Kill
    <2>3. CASE n = req[w].n /\ Respond(w)
      <3>1. Settled(w)
        BY <2>3 DEF AuditInv, Progress, Respond
      <3>2. req[w].event # NoEvent => new \in rows'
        BY <2>3 DEF Respond
      <3> QED BY <1>1, <2>3, <3>1, <3>2 DEF Settled
    <2> QED BY <1>1, <2>1, <2>2, <2>3
  <1>12. RowsAreTrue'
    <2>1. \A row \in rows :
            \/ row.target \in changed[row.n]
            \/ row.target \in Tags /\ \E n \in 1 .. count : n # row.n /\ row.target \in changed[n]
      BY DEF AuditInv, RowsAreTrue
    <2>2. CASE rows' = rows
      BY <1>1, <2>1, <2>2 DEF RowsAreTrue
    <2>3. CASE rows' # rows
      <3>1. rows' = rows \cup {new} /\ req[w].event # NoEvent /\ Settled(w)
        BY <1>5, <2>3 DEF AuditInv, Progress, Respond
      <3>2. \/ new.target \in changed[new.n]
            \/ new.target \in Tags /\ \E n \in 1 .. count : n # new.n /\ new.target \in changed[n]
        BY <1>2, <3>1 DEF Settled, Touched
      <3> QED BY <1>1, <2>1, <3>1, <3>2 DEF RowsAreTrue
    <2> QED BY <2>2, <2>3
  <1>13. FirstUserIsAdmin'
    BY <1>1 DEF AuditInv, FirstUserIsAdmin
  <1> QED BY <1>6, <1>7, <1>8, <1>9, <1>10, <1>11, <1>12, <1>13, Others DEF AuditInv

-----------------------------------------------------------------------------
\* A view reads what it decides from.
LEMMA OpenStep ==
    ASSUME AuditInv, NEW w \in Workers, Open(w)
    PROVE  AuditInv'
  <1>1. /\ req[w].pc = "open"
        /\ UNCHANGED <<users, tags, tagged, count, rows, changed, cut>>
    BY DEF Open
  <1>2. /\ req \in [Workers -> Request] /\ req[w] \in Request
        /\ changed \in [1 .. MaxRequests -> SUBSET Target]
    BY DEF AuditInv, AuditTypeOK
  <1>3. Untouched(w) /\ req[w].target \in Targets(req[w].kind)
    BY <1>1 DEF AuditInv, Progress, Numbered
  <1>4. PICK pc \in {"respond", "change"}, seen \in BOOLEAN :
          /\ req' = [req EXCEPT ![w] = [req[w] EXCEPT !.pc = pc, !.seen = seen]]
          /\ pc = "change" =>
               /\ req[w].kind \in {"update", "delete", "toggle"} => req[w].target \in tags
               /\ req[w].kind = "register" /\ ~seen => users # {}
    <2> DEFINE t == req[w].target
               turnedAway == CASE req[w].kind = "register" -> \E u \in users : u.email = t
                            [] req[w].kind \in {"update", "delete", "toggle"} -> t \notin tags
                            [] OTHER -> FALSE
               seen == CASE req[w].kind = "register" -> users = {}
                         [] req[w].kind = "toggle"   -> t \in tagged
                         [] OTHER -> FALSE
    <2>1. req' = [req EXCEPT ![w].pc = IF turnedAway THEN "respond" ELSE "change", ![w].seen = seen]
      BY DEF Open
    <2>2. req' = [req EXCEPT ![w] = [req[w] EXCEPT !.pc = IF turnedAway THEN "respond" ELSE "change",
                                                    !.seen = seen]]
      BY <1>2, <2>1
    <2>3. seen \in BOOLEAN
      <3>1. CASE req[w].kind = "register"
        BY <3>1
      <3>2. CASE req[w].kind = "toggle"
        BY <3>2
      <3>3. CASE req[w].kind \notin {"register", "toggle"}
        BY <3>3
      <3> QED BY <3>1, <3>2, <3>3
    <2>4. /\ ~turnedAway /\ req[w].kind \in {"update", "delete", "toggle"} => req[w].target \in tags
          /\ req[w].kind = "register" /\ ~seen => users # {}
      OBVIOUS
    <2> HIDE DEF turnedAway, seen
    <2>5. CASE turnedAway
      BY <2>2, <2>3, <2>5
    <2>6. CASE ~turnedAway
      BY <2>2, <2>3, <2>4, <2>6
    <2> QED BY <2>5, <2>6
  <1> DEFINE r == [req[w] EXCEPT !.pc = pc, !.seen = seen]
  <1>5. /\ r \in Request /\ r.pc = pc /\ r.seen = seen /\ r.n = req[w].n
        /\ r.kind = req[w].kind /\ r.target = req[w].target /\ r.event = req[w].event
    BY <1>2 DEF Request
  <1>6. req'[w] = r
    BY <1>2, <1>4
  <1>7. changed' = [changed EXCEPT ![req[w].n] = @ \cup {}]
    BY <1>1, <1>2
  <1>8. Progress(w)'
    <2>1. Untouched(w)'
      BY <1>1, <1>3, <1>5, <1>6 DEF Untouched
    <2>2. pc = "change" /\ req[w].kind \in {"update", "delete", "toggle"} => Touched(req[w].target)'
      BY <1>1, <1>4 DEF AuditInv, Touched
    <2>3. pc = "respond" => Settled(w)'
      BY <2>1 DEF Untouched, Settled
    <2> QED BY <1>1, <1>4, <1>5, <1>6, <2>1, <2>2, <2>3 DEF Progress
  <1>9. FirstUserIsAdmin' /\ users' \subseteq User /\ tags' \subseteq Tags /\ tagged' \subseteq Tags
    BY <1>1 DEF AuditInv, FirstUserIsAdmin, AuditTypeOK
  <1> HIDE DEF r
  <1>10. Within(w, r, {})
    BY <1>1, <1>4, <1>5, <1>7, <1>9 DEF Within, r
  <1> QED BY <1>5, <1>8, <1>10, WithinStep

\* A view has done its work: it attaches e, or nothing.
Done(w, e, S) ==
    /\ req[w].pc = "change" /\ req[w].kind # "transfer"
    /\ req' = [req EXCEPT ![w].pc = "respond", ![w].event = e]
    /\ changed' = [changed EXCEPT ![req[w].n] = @ \cup S]
    /\ users' \subseteq User /\ users \subseteq users' /\ FirstUserIsAdmin'
    /\ tags' \subseteq Tags /\ tagged' \subseteq Tags /\ tags' \subseteq tags \cup S
    /\ UNCHANGED <<count, rows, cut>>
    /\ \/ e = NoEvent /\ S \in {{}, {"newrig"}}
       \/ e # NoEvent /\ e \in S
       \/ e # NoEvent /\ e \in Tags /\ S = {} /\ Touched(e)

LEMMA DoneStep ==
    ASSUME AuditInv, NEW w \in Workers, NEW e \in Target \cup {NoEvent}, NEW S \in SUBSET Target,
           Done(w, e, S)
    PROVE  AuditInv'
  <1> USE DEF Done
  <1>1. /\ req \in [Workers -> Request] /\ req[w] \in Request
        /\ changed \in [1 .. MaxRequests -> SUBSET Target]
        /\ req[w].n \in 1 .. count /\ req[w].n \in 1 .. MaxRequests
    BY AuditAssumption DEF AuditInv, AuditTypeOK, Numbered
  <1> DEFINE r == [req[w] EXCEPT !.pc = "respond", !.event = e]
  <1>2. /\ r \in Request /\ r.pc = "respond" /\ r.n = req[w].n
        /\ r.kind = req[w].kind /\ r.target = req[w].target /\ r.event = e
    BY <1>1 DEF Request
  <1>3. req' = [req EXCEPT ![w] = r] /\ req'[w] = r
    BY <1>1
  <1>4. Untouched(w)
    BY DEF AuditInv, Progress, Halfway
  <1>5. changed'[req[w].n] = S
    BY <1>1, <1>4 DEF Untouched
  <1>6. Touched(e) => Touched(e)'
    BY <1>1 DEF Touched, AuditInv, AuditTypeOK
  <1>7. Progress(w)'
    BY <1>2, <1>3, <1>5, <1>6 DEF Progress, Settled
  <1> HIDE DEF r
  <1>8. Within(w, r, S)
    BY <1>2, <1>3 DEF Within
  <1> HIDE DEF Done
  <1> QED BY <1>2, <1>7, <1>8, WithinStep

\* The views but the transfer, and the ingest that enrols a rig.
LEMMA ViewStep ==
    ASSUME AuditInv, NEW w \in Workers,
           \/ Register(w) \/ CreateTag(w) \/ UpdateTag(w) \/ DeleteTag(w) \/ ToggleTag(w)
           \/ Save(w) \/ Enrol(w)
    PROVE  AuditInv'
  <1> DEFINE t == req[w].target
             n == req[w].n
             NoChange == GiveUp(w) /\ UNCHANGED <<users, tags, tagged>>
  <1>1. /\ req \in [Workers -> Request] /\ req[w] \in Request /\ t \in Target
        /\ changed \in [1 .. MaxRequests -> SUBSET Target]
        /\ users \subseteq User /\ tags \subseteq Tags /\ tagged \subseteq Tags
        /\ FirstUserIsAdmin
    BY DEF AuditInv, AuditTypeOK, Request
  <1>2. /\ req[w].pc = "change" /\ req[w].kind # "transfer"
        /\ UNCHANGED <<count, rows, cut>>
    BY DEF Register, CreateTag, UpdateTag, DeleteTag, ToggleTag, Save, Enrol, At
  <1>3. t \in Targets(req[w].kind) /\ req[w].event = NoEvent
    BY <1>2 DEF AuditInv, Numbered, Progress, Untouched, Halfway
  <1>4. t # NoEvent
    BY <1>1, AuditAssumption DEF Target, NoEvent
  <1>5. req[w].kind \in {"update", "delete", "toggle"} => Touched(t)
    BY <1>2 DEF AuditInv, Progress
  <1>6. changed = [changed EXCEPT ![n] = @ \cup {}]
    BY <1>1
  <1>7. [req EXCEPT ![w].pc = "respond"] = [req EXCEPT ![w].pc = "respond", ![w].event = NoEvent]
    BY <1>1, <1>3 DEF Request
  <1>8. CASE NoChange
    <2>1. FirstUserIsAdmin'
      BY <1>1, <1>8 DEF FirstUserIsAdmin
    <2>2. Done(w, NoEvent, {})
      BY <1>1, <1>2, <1>6, <1>7, <1>8, <2>1 DEF Done, GiveUp
    <2> QED BY <2>2, DoneStep
  <1>9. CASE Register(w) /\ ~NoChange
    <2> DEFINE u == [email |-> t, staff |-> req[w].seen]
    <2>1. /\ req[w].kind = "register" /\ users' = users \cup {u}
          /\ Attach(w, t) /\ Change(w, t) /\ UNCHANGED <<tags, tagged>>
      BY <1>9 DEF Register, At
    <2>2. t \in Emails /\ req[w].seen \in BOOLEAN
      BY <1>1, <1>3, <2>1 DEF Targets, Request
    <2>3. u \in User /\ u.staff = req[w].seen
      BY <2>2 DEF User
    <2>4. FirstUserIsAdmin'
      <3>1. CASE req[w].seen
        BY <2>1, <2>3, <3>1 DEF FirstUserIsAdmin
      <3>2. CASE ~req[w].seen
        BY <1>1, <1>2, <2>1, <3>2 DEF FirstUserIsAdmin, AuditInv, Progress
      <3> QED BY <3>1, <3>2
    <2> HIDE DEF u
    <2>5. Done(w, t, {t})
      BY <1>1, <1>2, <1>4, <2>1, <2>3, <2>4 DEF Done, Attach, Change
    <2> QED BY <1>1, <2>5, DoneStep
  <1>10. CASE CreateTag(w) /\ ~NoChange
    <2>1. /\ req[w].kind = "create" /\ tags' = tags \cup {t}
          /\ Attach(w, t) /\ Change(w, t) /\ UNCHANGED <<users, tagged>>
      BY <1>10 DEF CreateTag, At
    <2>2. t \in Tags
      BY <1>3, <2>1 DEF Targets
    <2>3. FirstUserIsAdmin'
      BY <1>1, <2>1 DEF FirstUserIsAdmin
    <2>4. Done(w, t, {t})
      BY <1>1, <1>2, <1>4, <2>1, <2>2, <2>3 DEF Done, Attach, Change
    <2> QED BY <1>1, <2>4, DoneStep
  <1>11. CASE (UpdateTag(w) \/ Save(w)) /\ ~NoChange
    <2>1. Attach(w, t) /\ Change(w, t) /\ UNCHANGED <<users, tags, tagged>>
      BY <1>11 DEF UpdateTag, Save
    <2>2. FirstUserIsAdmin'
      BY <1>1, <2>1 DEF FirstUserIsAdmin
    <2>3. Done(w, t, {t})
      BY <1>1, <1>2, <1>4, <2>1, <2>2 DEF Done, Attach, Change
    <2> QED BY <1>1, <2>3, DoneStep
  <1>12. CASE (DeleteTag(w) \/ ToggleTag(w)) /\ ~NoChange
    <2>1. /\ req[w].kind \in {"delete", "toggle"}
          /\ Attach(w, t) /\ (Change(w, t) \/ UNCHANGED changed)
          /\ tags' \subseteq tags /\ users' = users
      BY <1>12 DEF DeleteTag, ToggleTag, At
    <2>2. t \in Tags
      BY <1>3, <2>1 DEF Targets
    <2>3. tagged' \subseteq Tags
      BY <1>1, <1>12, <2>2 DEF DeleteTag, ToggleTag
    <2>4. FirstUserIsAdmin' /\ Touched(t)
      BY <1>1, <1>5, <2>1 DEF FirstUserIsAdmin
    <2>5. CASE Change(w, t)
      <3>1. Done(w, t, {t})
        BY <1>1, <1>2, <1>4, <2>1, <2>3, <2>4, <2>5 DEF Done, Attach, Change
      <3> QED BY <1>1, <3>1, DoneStep
    <2>6. CASE UNCHANGED changed
      <3>1. Done(w, t, {})
        BY <1>1, <1>2, <1>4, <1>6, <2>1, <2>2, <2>3, <2>4, <2>6 DEF Done, Attach
      <3> QED BY <1>1, <3>1, DoneStep
    <2> QED BY <2>1, <2>5, <2>6
  <1>13. CASE Enrol(w)
    <2>1. t = "newrig"
      BY <1>3, <1>13 DEF Enrol, At, Targets
    <2>2. FirstUserIsAdmin'
      BY <1>1, <1>13 DEF FirstUserIsAdmin, Enrol
    <2>3. Done(w, NoEvent, {t})
      BY <1>1, <1>2, <1>7, <1>13, <2>1, <2>2 DEF Done, Enrol, Change
    <2> QED BY <1>1, <2>3, DoneStep
  <1> QED BY <1>8, <1>9, <1>10, <1>11, <1>12, <1>13

\* One key of a transfer.
LEMMA TransferStep ==
    ASSUME AuditInv, NEW w \in Workers, NEW k \in Keys, TransferKey(w, k)
    PROVE  AuditInv'
  <1> DEFINE pc == IF req[w].left = {k} THEN "respond" ELSE req[w].pc
             r  == [req[w] EXCEPT !.left = @ \ {k}, !.event = k, !.pc = pc]
  <1>1. /\ req \in [Workers -> Request] /\ req[w] \in Request
        /\ changed \in [1 .. MaxRequests -> SUBSET Target]
        /\ users \subseteq User /\ tags \subseteq Tags
    BY DEF AuditInv, AuditTypeOK
  <1>2. /\ req[w].pc = "change" /\ req[w].kind = "transfer"
        /\ req' = [req EXCEPT ![w].left = @ \ {k}, ![w].event = k, ![w].pc = IF req[w].left = {k} THEN "respond" ELSE @]
        /\ tagged' = {} /\ changed' = [changed EXCEPT ![req[w].n] = @ \cup {k}]
        /\ UNCHANGED <<users, tags, count, rows, cut>>
    BY DEF TransferKey, At, Change
  <1>3. req[w].n \in 1 .. count /\ req[w].n \in 1 .. MaxRequests /\ k \in Target /\ k # NoEvent
    BY <1>2, AuditAssumption DEF AuditInv, AuditTypeOK, Numbered, Target, NoEvent
  <1>4. req' = [req EXCEPT ![w] = r] /\ req'[w] = r
    BY <1>1, <1>2
  <1>5. /\ r \in Request /\ r.pc \in {"change", "respond"} /\ r.n = req[w].n
        /\ r.kind = "transfer" /\ r.target = req[w].target /\ r.event = k
    BY <1>1, <1>2, <1>3 DEF Request
  <1>6. k \in changed'[req[w].n]
    BY <1>1, <1>2, <1>3
  <1> HIDE DEF r
  <1>7. Progress(w)'
    BY <1>3, <1>4, <1>5, <1>6 DEF Progress, Halfway, Settled
  <1>8. FirstUserIsAdmin'
    BY <1>2 DEF AuditInv, FirstUserIsAdmin
  <1>9. Within(w, r, {k})
    BY <1>1, <1>2, <1>3, <1>4, <1>5, <1>8 DEF Within
  <1> QED BY <1>3, <1>5, <1>7, <1>9, WithinStep

LEMMA StutterStep == ASSUME AuditInv, UNCHANGED atVars PROVE AuditInv'
  BY DEF atVars, AuditInv, AuditTypeOK, Numbered, Touched, Untouched, Halfway, Settled, Progress,
         FirstUserIsAdmin, ChangesAreLogged, RowsAreTrue

\* The invariant holds throughout.
THEOREM AuditInvariance == ASpec => []AuditInv
  <1>1. AuditInv /\ [ANext]_atVars => AuditInv'
    BY ReceiveStep, OpenStep, ViewStep, TransferStep, EndStep, StutterStep DEF ANext
  <1> QED BY AuditInit, <1>1, PTL DEF ASpec

-----------------------------------------------------------------------------
\* There is an administrator as soon as there is an account, every answered
\* request that changed something has its row, and no row is invented.
THEOREM LogIsComplete == ASpec => []AuditHolds
  <1>1. AuditInv => AuditHolds
    BY DEF AuditInv, AuditHolds
  <1> QED BY AuditInvariance, <1>1, PTL

\* The variables of the log and the requests keep their types.
THEOREM AuditTyped == ASpec => []AuditTypeOK
  <1>1. AuditInv => AuditTypeOK
    BY DEF AuditInv
  <1> QED BY AuditInvariance, <1>1, PTL

-----------------------------------------------------------------------------
(***************************************************************************)
(* MCRequests                                                              *)
(***************************************************************************)

\* A step of one of the three is a step of it and leaves the other two alone.
LEMMA PartsStep ==
  [MCNext]_<<rlVars, atVars, arVars>> => [Next]_rlVars /\ [ANext]_atVars /\ [ARNext]_arVars
  BY DEF MCNext

\* Whatever holds of one of the three alone holds beside the others.
THEOREM PartsImplemented == MCSpec => Spec /\ ASpec /\ ARSpec
  <1>1. MCInit => Init /\ AInit /\ ARInit
    BY DEF MCInit
  <1> QED BY <1>1, PartsStep, PTL DEF MCSpec, Spec, ASpec, ARSpec

\* The variables of the limits, the log and the runs keep their types.
THEOREM RequestsTyped == MCSpec => []TypeOK
  <1>1. LimitsTypeOK /\ AuditTypeOK /\ RunTypeOK => TypeOK
    BY DEF TypeOK
  <1> QED BY <1>1, PartsImplemented, LimitsTyped, AuditTyped, RunTyped, PTL
================================================================================
