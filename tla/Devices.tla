-------------------------------- MODULE Devices --------------------------------
(***************************************************************************)
(* A rig whose hardware changes between heartbeats, the sections its agent *)
(* sends, the per-card rows and the latest snapshot that                   *)
(* IngestSerializer.process_ingest makes of them, and the lists that       *)
(* dashboard/views.py and metrics_app/views.py read back by index.         *)
(***************************************************************************)
EXTENDS Collectors

CONSTANTS
    Machines,       \* the states of the hardware of one rig
    Shown,          \* processes the page takes of each list (10)
    MaxBeats,       \* bound: heartbeats
    MaxChanges,     \* bound: changes of the hardware
    MaxLines        \* bound: lines of the journal

\* What NVML, psutil and the kernel promise of the facts of a machine.
CardFacts   == [uuid : STRING, model : STRING, bus : STRING, temp : Nat, fan : Nat, power : Nat,
                mute : SUBSET {"pci", "temp", "fan", "power"}, lost : BOOLEAN]
SensorFacts == [chip : STRING, label : {"core", "package", "other"}, core : Int \cup {None},
                temp : Int \cup {None}]
PartFacts   == [device : STRING, name : {"sata", "nvme", "other"}, disk : Nat,
                fs : {"disk", "virtual"}, state : {"ok", "denied", "broken"}]
NicFacts    == [name : STRING, virtual : BOOLEAN, ip : (STRING \ {""}) \cup {None},
                speed : Nat \cup {None}]
ProcFacts   == [pid : Nat, cpu : Nat, mem : Nat, cmdline : BOOLEAN]

\* The counter of RAPL wraps at most once between two readings of it.
RaplFacts(rapl) ==
    /\ {rapl.start, rapl.used} \subseteq 0 .. rapl.range - 1 /\ rapl.range \in Nat
    /\ rapl.end = (rapl.start + rapl.used) % rapl.range

\* A device is on one disk, which has counters if any has; a pid is that of one process.
MachineFacts(m) ==
    /\ m.windows \in BOOLEAN /\ m.logical \in Nat
    /\ m.cards \in Seq(CardFacts) /\ m.sensors \in Seq(SensorFacts)
    /\ m.parts \in Seq(PartFacts) /\ m.nics \in Seq(NicFacts)
    /\ m.procs \in SUBSET ProcFacts /\ IsFiniteSet(m.procs)
    /\ \A p, q \in m.procs : p.pid = q.pid => p = q
    /\ m.rapl # None => RaplFacts(m.rapl)
    /\ m.io # None => \A i \in DOMAIN m.parts : m.io[m.parts[i].disk] \in Nat
    /\ \A i, j \in DOMAIN m.parts : m.parts[i].device = m.parts[j].device =>
          m.parts[i].disk = m.parts[j].disk /\ m.parts[i].name = m.parts[j].name

ASSUME DevicesAssumption ==
    /\ Shown \in 0 .. TopLimit
    /\ \A m \in Machines : MachineFacts(m)

VARIABLES
    machine,    \* the hardware and its readings now
    minute,     \* the minute of the next heartbeat
    journal,    \* the errors logged so far
    rows,       \* GPUMetric: sequence of [at, gpus, errors], one per heartbeat stored
    latest,     \* LatestSnapshot: parallel arrays per card and the other sections, or None
    source,     \* history: the machine that `latest` was collected from
    refused,    \* history: a heartbeat was answered 500
    changes     \* number of changes so far

dvVars == <<machine, minute, journal, rows, latest, source, refused, changes>>

DInit ==
    /\ machine \in Machines
    /\ minute = 1
    /\ journal = <<>> /\ rows = <<>>
    /\ latest = None /\ source = None
    /\ refused = FALSE
    /\ changes = 0

-----------------------------------------------------------------------------
\* The payload of the agent that runs on the machine m.
PayloadOf(m, log, at) ==
    IF m.windows
    THEN [gpus |-> WindowsGpus(m.cards), power |-> WindowsPower(m),
          cores |-> WindowsCoreTemps(m), cpuTemp |-> WindowsCpuTemp(m),
          disks |-> WindowsStorage(m), nics |-> WindowsNetwork(m),
          procs |-> WindowsTopProcesses(m), errors |-> WindowsErrors(log, at)]
    ELSE [gpus |-> LinuxGpus(m.cards), power |-> LinuxPower(m),
          cores |-> LinuxCoreTemps(m), cpuTemp |-> LinuxCpuTemp(m),
          disks |-> LinuxStorage(m), nics |-> LinuxNetwork(m),
          procs |-> LinuxTopProcesses(m), errors |-> LinuxErrors(log, at)]

Payload == PayloadOf(machine, journal, minute)

-----------------------------------------------------------------------------
\* Ingest of the cards.

JsonGet(s, i, default) == IF i \in DOMAIN s THEN s[i] ELSE default

\* (mutant) a value that could not be read is not appended
ArraysOfKnown(gpus) ==
    LET known(s) == Where(s, LAMBDA v : v # None)
    IN  [uuids |-> [i \in DOMAIN gpus |-> gpus[i].uuid],
         models |-> [i \in DOMAIN gpus |-> gpus[i].model],
         buses |-> [i \in DOMAIN gpus |-> IF gpus[i].bus = None THEN "" ELSE gpus[i].bus],
         temps |-> known([i \in DOMAIN gpus |-> gpus[i].temp]),
         fans |-> known([i \in DOMAIN gpus |-> gpus[i].fan]),
         powers |-> known([i \in DOMAIN gpus |-> gpus[i].power])]

\* The summary arrays, one element per card in each.
Arrays(gpus) ==
    [uuids |-> [i \in DOMAIN gpus |-> gpus[i].uuid],
     models |-> [i \in DOMAIN gpus |-> gpus[i].model],
     buses |-> [i \in DOMAIN gpus |-> IF gpus[i].bus = None THEN "" ELSE gpus[i].bus],
     temps |-> [i \in DOMAIN gpus |-> gpus[i].temp],
     fans |-> [i \in DOMAIN gpus |-> gpus[i].fan],
     powers |-> [i \in DOMAIN gpus |-> gpus[i].power]]

\* The reading of card i in the snapshot before this payload.
Before(i) ==
    IF latest = None THEN [temp |-> None, power |-> None, fan |-> None]
    ELSE [temp |-> JsonGet(latest.arrays.temps, i, None),
          power |-> JsonGet(latest.arrays.powers, i, None),
          fan |-> JsonGet(latest.arrays.fans, i, None)]

\* MIN_POWER_DELTA_W for a smaller difference (readings here are whole watts).
EffectiveDelta(delta) == IF delta = 0 THEN 1 ELSE delta

\* The quotient of the cooling efficiency index: what is divided, by what, and the fan's divisor in percent.
Cooling(gpus, i) ==
    LET before == Before(i)
        card   == gpus[i]
    IN  [known |-> None \notin {before.temp, before.power, card.temp, card.power},
         withFan |-> None \notin {before.temp, before.power, card.temp, card.power, before.fan, card.fan},
         by |-> IF None \in {before.power, card.power} THEN 1 ELSE EffectiveDelta(card.power - before.power),
         fanBy |-> IF None \in {before.fan, card.fan} THEN 100 ELSE 100 + card.fan - before.fan]

\* A division by zero for one card is an exception that undoes the whole payload.
Raises(gpus) ==
    \E i \in DOMAIN gpus : LET c == Cooling(gpus, i)
                           IN  (c.known /\ c.by = 0) \/ (c.withFan /\ c.fanBy = 0)

\* The row of LatestSnapshot for a payload.
Snapshot(payload) ==
    [arrays |-> Arrays(payload.gpus), count |-> Len(payload.gpus), rest |-> payload]

\* The minute's heartbeat, stored or refused as a whole.
Beat ==
    /\ minute <= MaxBeats
    /\ minute' = minute + 1
    /\ IF Raises(Payload.gpus)
       THEN refused' = TRUE /\ UNCHANGED <<rows, latest, source>>
       ELSE /\ rows' = Append(rows, [at |-> minute, gpus |-> Payload.gpus, errors |-> Payload.errors])
            /\ latest' = Snapshot(Payload)
            /\ source' = machine
            /\ UNCHANGED refused
    /\ UNCHANGED <<machine, journal, changes>>

\* A minute without a heartbeat: the run was skipped, or its payload lost.
Silence ==
    /\ minute <= MaxBeats
    /\ minute' = minute + 1
    /\ UNCHANGED <<machine, journal, rows, latest, source, refused, changes>>

\* Readings change, a card falls off the bus, or the rig is rebuilt and boots again.
Change ==
    /\ changes < MaxChanges
    /\ machine' \in {m \in Machines : m.windows = machine.windows} \ {machine}
    /\ changes' = changes + 1
    /\ UNCHANGED <<minute, journal, rows, latest, source, refused>>

LogError ==
    /\ Len(journal) < MaxLines
    /\ journal' = Append(journal, [at |-> minute, msg |-> Len(journal) + 1])
    /\ UNCHANGED <<machine, minute, rows, latest, source, refused, changes>>

DNext == Beat \/ Silence \/ Change \/ LogError

DSpec == DInit /\ [][DNext]_dvVars

-----------------------------------------------------------------------------
\* What the pages read.

\* _build_gpu_metrics
GpuCards ==
    IF latest = None THEN <<>>
    ELSE [i \in 1..latest.count |->
            [uuid |-> JsonGet(latest.arrays.uuids, i, ""), model |-> JsonGet(latest.arrays.models, i, ""),
             bus |-> JsonGet(latest.arrays.buses, i, ""),
             temp |-> JsonGet(latest.arrays.temps, i, None), fan |-> JsonGet(latest.arrays.fans, i, None),
             power |-> JsonGet(latest.arrays.powers, i, None)]]

\* (mutant) the process lists read to their end, whatever was shown before
ProcessDetailsAll ==
    IF latest = None THEN <<>>
    ELSE Where(Cut(latest.rest.procs.byCpu, Shown) \o Cut(latest.rest.procs.byMem, Shown),
                   LAMBDA p : p.cmdline)

\* _build_process_details: the first of each list that have a command line, by load.
ProcessDetails ==
    IF latest = None THEN <<>>
    ELSE LET both == ToSet(Cut(latest.rest.procs.byCpu, Shown)) \cup ToSet(Cut(latest.rest.procs.byMem, Shown))
         IN  Sorted({p \in both : p.cmdline},
                          LAMBDA a, b : \/ a.cpu > b.cpu
                                        \/ a.cpu = b.cpu /\ a.mem > b.mem
                                        \/ a.cpu = b.cpu /\ a.mem = b.mem /\ a.pid < b.pid)

\* (mutant) the first address, whatever its interface
PrimaryIpFirst == IF latest = None THEN "" ELSE First(latest.rest.nics, [ip |-> ""]).ip

\* _derive_primary_ip: the first address that is not of a virtual interface, else the first.
PrimaryIp ==
    LET nics == IF latest = None THEN <<>> ELSE latest.rest.nics
    IN  First(Where(nics, LAMBDA n : ~n.virtual), First(nics, [ip |-> ""])).ip

\* The rows of one index, oldest first, and the changes of identity in them.
HistoryOf(i) == LET with == Where(rows, LAMBDA r : i \in DOMAIN r.gpus)
                IN  [k \in DOMAIN with |-> [uuid |-> with[k].gpus[i].uuid, model |-> with[k].gpus[i].model]]

\* (mutant) every entry compared with the first
IdentityChangesFromFirst(i) ==
    LET h == HistoryOf(i)
    IN  [k \in {k \in DOMAIN h : k > 1 /\ h[k] # h[1]} |-> [from |-> h[1], to |-> h[k]]]

IdentityChanges(i) ==
    LET h == HistoryOf(i)
    IN  [k \in {k \in DOMAIN h : k > 1 /\ h[k] # h[k-1]} |-> [from |-> h[k-1], to |-> h[k]]]

\* The uuid in the header of the report: that of the snapshot, else of the newest row.
HeaderUuid(i) ==
    LET h == HistoryOf(i)
    IN  IF latest # None /\ i \in DOMAIN latest.arrays.uuids THEN latest.arrays.uuids[i]
        ELSE IF h # <<>> THEN h[Len(h)].uuid ELSE ""

\* _safe_gpu_label; an index that the snapshot lacks is labelled with the word None.
LabelUuid(i) == IF latest = None THEN i ELSE JsonGet(latest.arrays.uuids, i, "None")

-----------------------------------------------------------------------------
\* Properties.

\* Each place of the page, of the label of a chart and of the report's header shows the
\* values of one card, the one that was at that place when the newest stored payload was
\* collected (process_ingest appends to all arrays in one loop, and the pages read them by
\* index).  A bus id of the card before is possible on Windows only.
PageShowsOneCard ==
    \A i \in DOMAIN GpuCards :
        LET shown == GpuCards[i]
            card  == source.cards[i]
        IN  /\ shown.uuid = card.uuid /\ shown.model = card.model
            /\ LabelUuid(i) = card.uuid /\ HeaderUuid(i) = card.uuid
            /\ shown.temp \in {None, card.temp} /\ shown.fan \in {None, card.fan}
            /\ shown.power \in {None, card.power}
            /\ source.windows \/ shown.bus \in {"", card.bus}

\* The identity changes the report lists for a place lead, one after the other, from the
\* card first seen there to the one of the newest row, each a real change (views.py:1110).
ChangesLeadToTheCardNow ==
    \A i \in UNION {DOMAIN rows[k].gpus : k \in DOMAIN rows} :
        LET h     == HistoryOf(i)
            ids   == IdentityChanges(i)
            order == Ascending(DOMAIN ids)
        IN  /\ order = <<>> => h[1] = h[Len(h)]
            /\ order # <<>> => ids[order[1]].from = h[1] /\ ids[order[Len(order)]].to = h[Len(h)]
            /\ \A k \in DOMAIN order :
                  /\ ids[order[k]].from # ids[order[k]].to
                  /\ k > 1 => ids[order[k]].from = ids[order[k-1]].to

\* The power section and the list of cards agree although they are read by two loops: the
\* total of the cards is never more than what they report, and all of it if each of them
\* reports; a CPU measured by RAPL has used what is reported, also when its counter wrapped.
PowerAddsUp ==
    latest # None =>
        LET power  == latest.rest.power
            powers == latest.arrays.powers
            sum    == MapThenSumSet(LAMBDA i : powers[i], {i \in DOMAIN powers : powers[i] # None})
        IN  /\ latest.count > 0 => power.gpu <= sum
            /\ latest.count > 0 /\ (\A i \in DOMAIN powers : powers[i] # None) => power.gpu = sum
            /\ power.source = "rapl" => power.cpu = 10 * source.rapl.used

\* The CPU temperature that feeds alerts and charts is at least that of each core shown
\* beside it, although the two are chosen by different loops.  (On Linux; with zenpower
\* alone the second loop does not look at the chip the first one uses.)
HottestCore ==
    latest # None /\ ~source.windows
    /\ (\A i \in DOMAIN source.sensors : source.sensors[i].chip # "zenpower") =>
        \A i \in DOMAIN latest.rest.cores :
            latest.rest.cores[i] # None => latest.rest.cpuTemp >= latest.rest.cores[i]

\* A counter that is reported for a partition is that of the disk it lies on, and on Linux
\* a partition of a SATA or NVMe disk has one whenever there are counters: the server
\* computes deltas per device.
CountersAreOwn ==
    latest # None =>
        \A i \in DOMAIN latest.rest.disks, j \in DOMAIN source.parts :
            LET disk == latest.rest.disks[i]
                part == source.parts[j]
            IN  disk.device = part.device =>
                  /\ disk.bytes # None => disk.bytes = source.io[part.disk]
                  /\ ~source.windows /\ source.io # None /\ part.name # "other" => disk.bytes # None

\* The address shown for the rig is that of a physical interface if one has an address, and
\* is empty only if none has (views.py:560).
PrimaryIpIsPhysical ==
    latest # None =>
        LET up == {i \in DOMAIN source.nics : source.nics[i].ip \notin {None, "loopback"}}
        IN  /\ (PrimaryIp = "") = (up = {})
            /\ (\E i \in up : ~source.nics[i].virtual) =>
                 \E i \in up : ~source.nics[i].virtual /\ source.nics[i].ip = PrimaryIp

\* The process table has every process at most once and none without a command line, and a
\* process that is among the first Shown by CPU or by memory is in it (views.py:534).
ProcessesOnce ==
    latest # None =>
        /\ \A i, j \in DOMAIN ProcessDetails : ProcessDetails[i].pid = ProcessDetails[j].pid => i = j
        /\ \A p \in source.procs :
             /\ p \in ToSet(ProcessDetails) => p.cmdline
             /\ p.cmdline /\ Cardinality({q \in source.procs : q # p /\ q.cpu >= p.cpu}) < Shown =>
                   p \in ToSet(ProcessDetails)
             /\ p.cmdline /\ Cardinality({q \in source.procs : q # p /\ q.mem >= p.mem}) < Shown =>
                   p \in ToSet(ProcessDetails)

\* An error of the machine is reported if any heartbeat is stored within the window the
\* agent reads, and that window had no more lines than one payload takes: runs in between
\* may be skipped or lost (collect_errors of both agents).
NoErrorMissed ==
    \A k \in DOMAIN journal, r \in DOMAIN rows :
        /\ rows[r].at \in journal[k].at .. journal[k].at + ErrorWindow - 1
        /\ Len(Recent(journal, rows[r].at)) <= Lines
        => \E q \in DOMAIN rows : journal[k] \in rows[q].errors

\* Every heartbeat of a registered rig is stored: it is answered 200 or 202.
EveryHeartbeatIsStored == ~refused

\* A payload says of the rig what was measured, where one quantity is collected
\* by two loops or joined by name, and once a minute is enough for the errors
\* (collect_metrics of both agents).
PayloadIsOfTheRig == PowerAddsUp /\ HottestCore /\ CountersAreOwn /\ NoErrorMissed

\* The pages show the rig of the payload: place by place one card, its address
\* and each process once (rig_detail, the report and process_ingest's arrays).
PagesShowTheRig ==
    /\ PageShowsOneCard /\ ChangesLeadToTheCardNow
    /\ PrimaryIpIsPhysical /\ ProcessesOnce
=============================================================================
