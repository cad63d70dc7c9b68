------------------------------- MODULE Collectors -------------------------------
(***************************************************************************)
(* What the collectors of the two agents (agent/run.py, agent_windows/     *)
(* run.py) report for a given machine m: pure operators from the facts of  *)
(* the machine to the sections of a payload.  A value not read is None;    *)
(* units and rounding are left out.                                        *)
(***************************************************************************)
EXTENDS Absent, Listing, SequencesExt

CONSTANTS
    MaxWatts,   \* the RAPL power above which read_cpu_power_w reports nothing (1000)
    TopLimit,   \* processes in each of the two lists of collect_top_processes (20)
    Lines,      \* lines of the journal in one payload (20)
    ErrorWindow \* minutes of the journal in one payload (5)

ASSUME CollectorsAssumption ==
    MaxWatts \in Nat /\ TopLimit \in Nat /\ Lines \in Nat /\ ErrorWindow \in Nat /\ None \notin Int

Largest(S) == CHOOSE x \in S : \A y \in S : y <= x
First(s, default) == IF s = <<>> THEN default ELSE s[1]

-----------------------------------------------------------------------------
\* Cards.  A card is [uuid, model, bus, temp, fan, power, mute, lost]: `mute` are the optional
\* calls it does not support, and `lost` says that even the required ones fail.

Optional(card, call, value) == IF call \in card.mute THEN None ELSE value

\* The entry that collect_gpus appends for one card.
GpuEntry(card, bus) ==
    [uuid |-> card.uuid, model |-> card.model, bus |-> bus,
     temp |-> Optional(card, "temp", card.temp),
     fan |-> Optional(card, "fan", card.fan),
     power |-> Optional(card, "power", card.power)]

\* On Windows pci_info is not reset in the loop: a failed call leaves that of the card before.
WindowsBus(cards, i) ==
    LET answered == {j \in 1..i : "pci" \notin cards[j].mute}
    IN  IF answered = {} THEN None ELSE cards[Largest(answered)].bus

\* One failed required call ends the collection without any card, and so does reading
\* pci_info while it is unbound because the first card did not answer.
WindowsGpus(cards) ==
    IF \/ \E i \in DOMAIN cards : cards[i].lost
       \/ cards # <<>> /\ WindowsBus(cards, 1) = None
    THEN <<>>
    ELSE [i \in DOMAIN cards |-> GpuEntry(cards[i], WindowsBus(cards, i))]

LinuxGpus(cards) ==
    IF \E i \in DOMAIN cards : cards[i].lost THEN <<>>
    ELSE [i \in DOMAIN cards |-> GpuEntry(cards[i], Optional(cards[i], "pci", cards[i].bus))]

-----------------------------------------------------------------------------
\* Power.

\* (mutant) the energy counter taken as one that never wraps
RaplPowerNoWrap(rapl) ==
    IF rapl = None \/ rapl.end - rapl.start > MaxWatts THEN None ELSE rapl.end - rapl.start

\* The CPU's power between two readings of an energy counter that wraps at `range`.
RaplPower(rapl) ==
    IF rapl = None THEN None
    ELSE LET end   == IF rapl.end < rapl.start THEN rapl.end + rapl.range ELSE rapl.end
             watts == end - rapl.start
         IN  IF watts < 0 \/ watts > MaxWatts THEN None ELSE watts

\* 10 W, a tenth of the estimated TDP at rest, nine tenths of it by load; in tenths of a watt.
EstimatedPower(util, cores) ==
    LET tdp == 8 * cores + 25 IN 100 + tdp + (9 * tdp * util) \div 100

\* The sum over the cards before the first that does not answer: the exception ends the loop.
GpuPower(cards) ==
    LET summed == {i \in DOMAIN cards :
                     \A j \in 1..i : ~cards[j].lost /\ "power" \notin cards[j].mute}
    IN  MapThenSumSet(LAMBDA i : cards[i].power, summed)

\* The power section.  If the CPU collector failed, util is None and the estimate is that of an idle CPU.
LinuxPower(m) ==
    LET rapl == RaplPower(m.rapl)
    IN  [source |-> IF rapl = None THEN "estimate" ELSE "rapl",
         cpu |-> IF rapl = None THEN EstimatedPower(IF m.util = None THEN 0 ELSE m.util, m.cores)
                 ELSE 10 * rapl,
         gpu |-> GpuPower(m.cards)]

\* There is no /sys/class/powercap on Windows: always the estimate.
WindowsPower(m) ==
    [source |-> "estimate",
     cpu |-> EstimatedPower(IF m.util = None THEN 0 ELSE m.util, m.cores),
     gpu |-> GpuPower(m.cards)]

-----------------------------------------------------------------------------
\* Temperatures of the CPU.  m.sensors lists the readings in psutil's order, chip by chip:
\* [chip, label, core, temp] with label "core", "package" or "other".

Readings(m, ok(_)) == Where(m.sensors, LAMBDA r : r.temp # None /\ ok(r))
TempsOf(s) == {s[i].temp : i \in DOMAIN s}

\* The known readings of one chip with one label, and the first of the three chips that has any.
Labelled(m, chip, label) == Readings(m, LAMBDA r : r.chip = chip /\ r.label = label)
ChipWith(m, label) ==
    First(Where(<<"coretemp", "k10temp", "zenpower">>, LAMBDA c : Labelled(m, c, label) # <<>>), None)

\* The readings labelled with a core of the first of the three chips that has any, the last
\* one where two sockets have a core of the same number, else the
\* package temperature for every core; None for a logical core that no reading names.
LinuxCoreTemps(m) ==
    LET chip    == ChipWith(m, "core")
        package == ChipWith(m, "package")
        core(i) == Where(Labelled(m, chip, "core"), LAMBDA r : r.core = i)
    IN  [i \in 1..m.logical |->
            IF chip # None THEN (IF core(i) = <<>> THEN None ELSE Last(core(i)).temp)
            ELSE IF package # None THEN Labelled(m, package, "package")[1].temp
            ELSE None]

\* (mutant) the first reading, as on Windows
LinuxCpuTempFirst(m) == First(m.sensors, [temp |-> None]).temp

\* The hottest reading of coretemp and k10temp, else the hottest core of any chip, else the
\* first reading of the first chip whose first reading is known.
LinuxCpuTemp(m) ==
    LET preferred == Readings(m, LAMBDA r : r.chip \in {"coretemp", "k10temp"})
        cores     == Readings(m, LAMBDA r : r.label = "core")
        firsts    == Where([i \in DOMAIN m.sensors |->
                                  IF i = 1 \/ m.sensors[i].chip # m.sensors[i-1].chip
                                  THEN m.sensors[i].temp ELSE None], LAMBDA t : t # None)
    IN  IF preferred # <<>> THEN Largest(TempsOf(preferred))
        ELSE IF cores # <<>> THEN Largest(TempsOf(cores))
        ELSE First(firsts, None)

\* The readings of the first chip that has any, by their position; no list without sensors.
WindowsCoreTemps(m) ==
    LET known == Readings(m, LAMBDA r : TRUE)
        chip  == Where(m.sensors, LAMBDA r : r.chip = known[1].chip)
    IN  IF m.sensors = <<>> THEN <<>>
        ELSE [i \in 1..m.logical |->
                IF known # <<>> /\ i \in DOMAIN chip THEN chip[i].temp ELSE None]

WindowsCpuTemp(m) == First(m.sensors, [temp |-> None]).temp

-----------------------------------------------------------------------------
\* Disks.  m.parts lists the mounted partitions: [device, name, disk, fs, state], with name
\* "sata", "nvme" or "other" (mapper, md, mmcblk), fs "disk" or "virtual" and state "ok", "denied"
\* or "broken"; m.io is what each physical disk has read, or None.

\* (mutant) NVMe partitions not mapped to their namespace
WholeDiskSata(part) == IF part.name = "sata" THEN part.disk ELSE None

\* _disk_to_whole_disk and the filter of _get_disk_io_counters: only names of SATA and NVMe
\* disks lead from a partition to the counters of its disk.
WholeDisk(part) == IF part.name = "other" THEN None ELSE part.disk

Mounted(m, virtual) == Where(m.parts, LAMBDA p : p.fs \notin virtual)

\* A disk that cannot be read for another reason than its permissions empties the list.
LinuxStorage(m) ==
    LET parts == Where(Mounted(m, {"virtual"}), LAMBDA p : p.state # "denied")
    IN  IF \E i \in DOMAIN parts : parts[i].state = "broken" THEN <<>>
        ELSE [i \in DOMAIN parts |->
                [device |-> parts[i].device,
                 bytes |-> IF m.io = None \/ WholeDisk(parts[i]) = None THEN None
                           ELSE m.io[WholeDisk(parts[i])]]]

\* The drives that lead to a physical disk: those of both wmic commands, else those of the WMI
\* module up to where it failed; none without counters.
DriveMap(m) == IF m.io = None THEN {} ELSE IF m.wmic # {} THEN m.wmic ELSE m.wmi

\* Without a map every drive is named after the model of the first physical disk.
WindowsStorage(m) ==
    LET parts == Where(Mounted(m, {"virtual"}), LAMBDA p : p.state = "ok")
        map   == DriveMap(m)
    IN  [i \in DOMAIN parts |->
            [device |-> IF map = {} THEN First(m.models, parts[i].device) ELSE parts[i].device,
             bytes |-> IF parts[i].device \in map THEN m.io[parts[i].disk] ELSE None]]

-----------------------------------------------------------------------------
\* Network interfaces: [name, virtual, ip, speed], where ip is None, "loopback" or an address.

Addressed(m) == Where(m.nics, LAMBDA n : n.ip \notin {None, "loopback"})

LinuxNetwork(m) == Addressed(m)

\* The link speed of every interface is that of the first adapter that has one.
WindowsNetwork(m) ==
    LET speed == First(Where(m.nics, LAMBDA n : n.speed # None), [speed |-> None]).speed
        nics  == Addressed(m)
    IN  [i \in DOMAIN nics |-> [nics[i] EXCEPT !.speed = speed]]

-----------------------------------------------------------------------------
\* Processes: a set of [pid, cpu, mem, cmdline] with distinct pids, listed by pid.

Cut(s, n) == IF Len(s) <= n THEN s ELSE SubSeq(s, 1, n)

LinuxTopProcesses(m) ==
    [byCpu |-> Cut(Sorted(m.procs, LAMBDA a, b : a.cpu > b.cpu \/ (a.cpu = b.cpu /\ a.pid < b.pid)), TopLimit),
     byMem |-> Cut(Sorted(m.procs, LAMBDA a, b : a.mem > b.mem \/ (a.mem = b.mem /\ a.pid < b.pid)), TopLimit)]

WindowsTopProcesses(m) == LinuxTopProcesses(m)

-----------------------------------------------------------------------------
\* The journal of the machine: a sequence of [at, msg], oldest first.

Recent(journal, now) == Where(journal, LAMBDA e : e.at > now - ErrorWindow /\ e.at <= now)

\* (mutant) only what was logged since the last run
LinuxErrorsLastMinute(journal, now) == ToSet(Cut(Where(journal, LAMBDA e : e.at = now), Lines))

\* journalctl lists the oldest lines of the window first.
LinuxErrors(journal, now) == ToSet(Cut(Recent(journal, now), Lines))

\* Get-WinEvent lists the newest ones first.
WindowsErrors(journal, now) == ToSet(Cut(Reverse(Recent(journal, now)), Lines))
=============================================================================
