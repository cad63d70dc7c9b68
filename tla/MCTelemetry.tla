------------------------------ MODULE MCTelemetry ------------------------------
EXTENDS Report, Charts, Devices

Reading(temp, util, power, job) == [gpu |-> [temp |-> temp, util |-> util, power |-> power], job |-> job]
MCBeats == {Reading(90, 100, 100, 1), Reading(84, 95, 99, 1), Reading(86, 2, 101, 1), Reading(70, 4, 0, None),
            Reading(None, None, None, 0), [gpu |-> NoGpu, job |-> 1]}

MCBucket == <<1, 2, 4>>
MCAge    == <<2, 6, 12>>

Card(uuid, model, temp, fan, power, mute, lost) ==
    [uuid |-> uuid, model |-> model, bus |-> uuid, temp |-> temp, fan |-> fan, power |-> power,
     mute |-> mute, lost |-> lost]
A == Card("A", "X", 60, 100, 200, {}, FALSE)
B == Card("B", "Y", 70, 50, 300, {}, FALSE)

Part(device, name, disk, state) == [device |-> device, name |-> name, disk |-> disk, fs |-> "disk", state |-> state]
Nic(name, virtual, ip) == [name |-> name, virtual |-> virtual, ip |-> ip, speed |-> IF virtual THEN None ELSE 1]
Sensor(chip, label, core, temp) == [chip |-> chip, label |-> label, core |-> core, temp |-> temp]
Proc(pid, cpu, mem, cmdline) == [pid |-> pid, cpu |-> cpu, mem |-> mem, cmdline |-> cmdline]

Plain == [windows |-> FALSE, cards |-> <<A, B>>,
          rapl |-> [start |-> 900, end |-> 100, range |-> 1000, used |-> 200], util |-> 50, cores |-> 2,
          logical |-> 3,
          sensors |-> <<Sensor("coretemp", "other", None, 55), Sensor("coretemp", "core", 1, 60), Sensor("coretemp", "core", 2, None)>>,
          parts |-> <<Part("a", "sata", 1, "ok"), Part("b", "nvme", 2, "ok"), Part("c", "other", 2, "ok")>>,
          io |-> <<5, 7>>, wmic |-> {}, wmi |-> {"a"}, models |-> <<"M">>,
          nics |-> <<Nic("lo", FALSE, "loopback"), Nic("docker0", TRUE, "v"), Nic("eth0", FALSE, "p")>>,
          procs |-> {Proc(1, 9, 0, FALSE), Proc(2, 5, 8, TRUE), Proc(3, 1, 1, TRUE)}]

Cards == {<<>>, <<B, A>>, <<A, [B EXCEPT !.lost = TRUE]>>, <<[A EXCEPT !.fan = 0], B>>,
          <<A, [B EXCEPT !.mute = {"pci", "power", "temp"}]>>, <<[B EXCEPT !.mute = {"pci", "fan"}], A, Card("C", "X", 50, 0, 200, {}, FALSE)>>}
Variants ==
    {[Plain EXCEPT !.cards = c] : c \in Cards} \cup
    {[Plain EXCEPT !.rapl = None, !.util = None, !.io = None, !.wmic = {"a", "b"}, !.parts[1].state = "broken"],
     [Plain EXCEPT !.parts[2].state = "denied", !.wmi = {}, !.nics = <<Nic("docker0", TRUE, "v")>>, !.procs = {},
                   !.sensors = <<Sensor("nvme", "other", None, 40), Sensor("k10temp", "package", None, 65)>>],
     [Plain EXCEPT !.models = <<>>, !.wmi = {}, !.nics = <<>>, !.sensors = <<>>]}
MCMachines == {[m EXCEPT !.windows = w] : m \in Variants \cup {Plain}, w \in BOOLEAN}

\* A behaviour is one of the report, one of the charts, or one of the hardware.  The first
\* two run beside the plain Linux rig at its first minute.
Idle == DInit /\ machine = Plain

MCInit == RInit /\ CInit /\ DInit

MCNext ==
    \/ CInit /\ Idle /\ RNext /\ UNCHANGED <<ctVars, dvVars>>
    \/ RInit /\ Idle /\ CNext /\ UNCHANGED <<rpVars, dvVars>>
    \/ RInit /\ CInit /\ DNext /\ UNCHANGED <<rpVars, ctVars>>

MCSpec == MCInit /\ [][MCNext]_<<rpVars, ctVars, dvVars>>
================================================================================
