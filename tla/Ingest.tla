-------------------------------- MODULE Ingest --------------------------------
(***************************************************************************)
(* The ingest pipeline of one rig: the agent that reads cumulative I/O      *)
(* counters and posts a payload a minute, the network and the listen queue, *)
(* the Gunicorn workers that turn a payload into rows, and the dashboard's  *)
(* rig_delete.                                                              *)
(*                                                                          *)
(* A worker handles one request in steps, and other workers run in between: *)
(* it reads the rig row, reads the previous LatestSnapshot, opens a         *)
(* transaction that writes every table and, after the commit, writes the    *)
(* large JSON columns of the rig row in a second statement.  The database   *)
(* is READ COMMITTED: a statement sees what is committed when it starts.    *)
(*                                                                          *)
(* One disk stands for the disks and network interfaces, whose deltas are   *)
(* computed alike; an error or a container is its deduplication fingerprint.*)
(***************************************************************************)
EXTENDS Integers, FiniteSetsExt, SequencesExt

CONSTANTS
    Workers,      \* Gunicorn worker processes, one request at a time each
    Contents,     \* what payloads may carry: [errors : Seq, containers : Seq]
    MaxMinute,    \* bound: payloads built
    MaxAttempts,  \* retry_attempts of the agent
    MaxIO,        \* bound: disk I/O done by the rig
    MaxFaults,    \* bound: reboots, missing readings, losses, failures, deletions
    HistCap,      \* entries kept in a rolling history (1000)
    SeenCap,      \* fingerprints kept for deduplication (200)
    MaxPast,      \* minutes after which a payload is too old (60)
    Overlap       \* may a payload be built while older requests are under way?

ASSUME IngestAssumption ==
    /\ MaxMinute \in Nat /\ MaxAttempts \in Nat \ {0} /\ MaxIO \in Nat
    /\ MaxFaults \in Nat /\ HistCap \in Nat \ {0} /\ SeenCap \in Nat \ {0}
    /\ SeenCap <= HistCap /\ MaxPast \in Nat /\ Overlap \in BOOLEAN

\* The fingerprints the payloads carry: their lists are sequences of them.
Entry == UNION {ToSet(c.errors) \cup ToSet(c.containers) : c \in Contents}

ASSUME ContentAssumption ==
    \A c \in Contents : c.errors \in Seq(Entry) /\ c.containers \in Seq(Entry)

VARIABLES
    minute,     \* minutes passed, the timestamp of the newest payload
    counter,    \* the disk's cumulative I/O counter
    io,         \* history: the I/O the disk has done in all
    agent,      \* the attempt whose answer the agent waits for
    net,        \* requests on the way or in the listen queue
    worker,     \* the request each worker handles, and what it has read
    rig,        \* the rig row: latest errors, error and container histories
    snapshots,  \* timestamps of the MetricSnapshot rows
    disk,       \* the StorageMetric rows
    latest,     \* the LatestSnapshot row
    containers, \* the LatestDockerContainer rows, each with its payload's time
    deleting,   \* statements rig_delete has run, 0 when none is running
    faults,     \* how many faults there were
    acked,      \* history: payloads whose 200 or 202 reached the agent
    erased,     \* history: the minute of the last statement of a rig_delete
    first,      \* history: the reading of the first payload stored
    disturbed   \* history: was a reading lost, a counter reset or a row redone?

vars == <<minute, counter, io, agent, net, worker, rig, snapshots, disk, latest,
          containers, deleting, faults, acked, erased, first, disturbed>>

Minutes  == 0 .. MaxMinute
NoValue  == -1               \* null: no reading, no delta
Counters == 0 .. MaxIO
Payload  == [ts : Minutes, ctr : Counters \cup {NoValue}, content : Contents]

NoLatest   == [ts |-> 0, ctr |-> NoValue]    \* no LatestSnapshot row
EmptyLog   == [history |-> <<>>, seen |-> <<>>]
NewRig     == [present |-> TRUE, latestErrors |-> <<>>,
               errors |-> EmptyLog, containers |-> EmptyLog]
NoRig      == [NewRig EXCEPT !.present = FALSE]
AgentIdle  == [attempt |-> 0]
Idle       == [pc |-> "idle"]

Waiting == agent.attempt # 0
Busy    == {w \in Workers : worker[w].pc # "idle"}
WaitsFor(req) == Waiting /\ agent = req

Init ==
    /\ minute = 0 /\ counter \in {0, 1} \cap Counters /\ io = 0
    /\ agent = AgentIdle /\ net = {} /\ worker = [w \in Workers |-> Idle]
    /\ rig = NoRig /\ snapshots = {} /\ disk = {} /\ latest = NoLatest
    /\ containers = {} /\ deleting = 0
    /\ faults = 0 /\ acked = {} /\ erased = 0
    /\ first = NoValue /\ disturbed = FALSE

LastN(n, s) == SubSeq(s, IF Len(s) > n THEN Len(s) - n + 1 ELSE 1, Len(s))

Fault == faults < MaxFaults /\ faults' = faults + 1

database == <<rig, snapshots, disk, latest, containers, deleting>>
machine  == <<minute, counter, io>>
history  == <<acked, erased, first, disturbed>>

-----------------------------------------------------------------------------
(***************************************************************************)
(* The rig's machine and the agent.                                        *)
(***************************************************************************)

\* The counters start again from zero; a running agent is gone.  I/O that no
\* payload has seen is left out of io.
Reboot ==
    /\ Fault
    /\ counter' = 0 /\ agent' = AgentIdle /\ disturbed' = TRUE
    /\ UNCHANGED <<minute, io, net, worker, database, acked, erased, first>>

\* main: build_payload and the first POST of send_payload.  flock lets one
\* agent run at a time.  The disk did some I/O since the last run; it may be
\* missing from the payload.
Collect(content, done, missing) ==
    /\ ~Waiting /\ minute < MaxMinute
    /\ Overlap \/ (net = {} /\ Busy = {})
    /\ minute' = minute + 1
    /\ io + done <= MaxIO /\ counter + done <= MaxIO
    /\ io' = io + done /\ counter' = counter + done
    /\ agent' = [attempt |-> 1, ts |-> minute + 1, content |-> content,
                 ctr |-> IF missing THEN NoValue ELSE counter + done]
    /\ net' = net \cup {agent'}
    /\ disturbed' = (disturbed \/ missing)
    /\ IF missing THEN Fault ELSE UNCHANGED faults
    /\ UNCHANGED <<worker, database, acked, erased, first>>

\* The attempt timed out or the connection broke: send_payload tries again
\* with the same payload.
Resend ==
    /\ Waiting /\ agent.attempt < MaxAttempts
    /\ agent' = [agent EXCEPT !.attempt = @ + 1]
    /\ net' = net \cup {agent'}
    /\ UNCHANGED <<machine, worker, database, faults, history>>

\* The last attempt failed, or SIGALRM ended the run.
GiveUp ==
    /\ Waiting
    /\ agent' = AgentIdle
    /\ UNCHANGED <<machine, net, worker, database, faults, history>>

Lose(req) ==
    /\ Fault
    /\ net' = net \ {req}
    /\ UNCHANGED <<machine, agent, worker, database, history>>

\* Any response ends send_payload: only exceptions are retried.
Answered(req) == IF WaitsFor(req) THEN AgentIdle ELSE agent

-----------------------------------------------------------------------------
(***************************************************************************)
(* Ingest: IngestView.post and process_ingest.                             *)
(***************************************************************************)

TooOld(req) == minute - req.ts > MaxPast

\* 400, 409 or 429: an answer that writes nothing.
Reject(req) ==
    /\ IF TooOld(req) THEN UNCHANGED faults ELSE Fault
    /\ net' = net \ {req}
    /\ agent' = Answered(req)
    /\ UNCHANGED <<machine, worker, database, history>>

\* Rig.objects.get or create; the worker keeps the row it read, the
\* histories included, until the end of the request.
Accept(w, req) ==
    /\ worker[w].pc = "idle" /\ ~TooOld(req)
    /\ net' = net \ {req}
    /\ rig' = IF rig.present THEN rig ELSE NewRig
    /\ worker' = [worker EXCEPT ![w] =
                    [pc |-> "read", req |-> req, row |-> rig',
                     prev |-> NoLatest, visible |-> {}]]
    /\ UNCHANGED <<machine, agent, snapshots, disk, latest, containers, deleting,
                   faults, history>>

\* LatestSnapshot.objects.get, before the transaction.
ReadPrevious(w) ==
    /\ worker[w].pc = "read"
    /\ worker' = [worker EXCEPT ![w].pc = "begin", ![w].prev = latest]
    /\ UNCHANGED <<machine, agent, net, database, faults, history>>

\* The transaction up to the DELETE of the container rows: the snapshot row of
\* this timestamp is locked, and the DELETE sees the rows committed so far.
\* It is left out when the payload names no container.
Begin(w) ==
    LET t == worker[w] IN
    /\ t.pc = "begin"
    /\ \A v \in Workers : worker[v].pc = "txn" => worker[v].req.ts # t.req.ts
    /\ worker' = [worker EXCEPT
                    ![w].pc = "txn",
                    ![w].visible = IF t.req.content.containers = <<>> THEN {}
                                   ELSE containers]
    /\ UNCHANGED <<machine, agent, net, database, faults, history>>

\* Mutations of Delta: a new disk counts from zero; the old reading is not
\* subtracted; a counter that went back gives a negative delta.
DeltaFromZero(prev, ctr) ==
    IF ctr = NoValue THEN NoValue
    ELSE IF prev.ctr = NoValue \/ ctr < prev.ctr THEN ctr ELSE ctr - prev.ctr
DeltaTotal(prev, ctr) ==
    IF ctr = NoValue \/ prev.ctr = NoValue THEN NoValue ELSE ctr
DeltaNegative(prev, ctr) ==
    IF ctr = NoValue \/ prev.ctr = NoValue THEN NoValue ELSE ctr - prev.ctr

\* The I/O since the previous reading; a counter that went back was reset.
Delta(prev, ctr) ==
    IF ctr = NoValue \/ prev.ctr = NoValue THEN NoValue
    ELSE IF ctr < prev.ctr THEN ctr ELSE ctr - prev.ctr

\* StorageMetric.update_or_create, for the disks the payload names.
StoreDisk(t) ==
    IF t.req.ctr = NoValue THEN disk
    ELSE {d \in disk : d.ts # t.req.ts}
           \cup {[ts |-> t.req.ts, delta |-> Delta(t.prev, t.req.ctr)]}

\* Mutation of StoreContainers: the old rows are not deleted.
MergeContainers(t) ==
    containers \cup {[id |-> c, ts |-> t.req.ts] :
                       c \in ToSet(t.req.content.containers)}

\* Delete what was visible, then bulk_create with ignore_conflicts.
StoreContainers(t) ==
    LET kept == containers \ t.visible
        ids  == ToSet(t.req.content.containers) \ {k.id : k \in kept}
    IN  kept \cup {[id |-> c, ts |-> t.req.ts] : c \in ids}

\* Mutation of Commit: an existing LatestSnapshot is left as it is.
CommitKeepsLatest(w) ==
    LET t == worker[w] IN
    /\ t.pc = "txn" /\ rig.present
    /\ snapshots' = snapshots \cup {t.req.ts}
    /\ disk' = StoreDisk(t)
    /\ containers' = StoreContainers(t)
    /\ latest' = IF latest = NoLatest THEN [ts |-> t.req.ts, ctr |-> t.req.ctr]
                 ELSE latest
    /\ worker' = [worker EXCEPT ![w].pc = "flush"]
    /\ first' = IF first = NoValue THEN t.req.ctr ELSE first
    /\ disturbed' = (disturbed \/ t.req.ts \in snapshots)
    /\ UNCHANGED <<machine, agent, net, rig, deleting, faults, acked, erased>>

\* The commit: every table at once.  rig.save needs the row to be there.
Commit(w) ==
    LET t == worker[w] IN
    /\ t.pc = "txn" /\ rig.present
    /\ snapshots' = snapshots \cup {t.req.ts}
    /\ disk' = StoreDisk(t)
    /\ containers' = StoreContainers(t)
    /\ latest' = [ts |-> t.req.ts, ctr |-> t.req.ctr]
    /\ worker' = [worker EXCEPT ![w].pc = "flush"]
    /\ first' = IF first = NoValue THEN t.req.ctr ELSE first
    /\ disturbed' = (disturbed \/ t.req.ts \in snapshots)
    /\ UNCHANGED <<machine, agent, net, rig, deleting, faults, acked, erased>>

\* Mutation of Appended: an error is not looked up in what the same payload
\* added.
AppendedNoLookup(log, entries) ==
    LET new == SelectSeq(entries, LAMBDA e : ~Contains(log.seen, e))
    IN  [history |-> LastN(HistCap, log.history \o new),
         seen |-> LastN(SeenCap, log.seen \o new)]

\* A rolling history with deduplication: entries whose fingerprint is not
\* among those remembered are appended; both lists are cut at the end.
Appended(log, entries) ==
    LET Add(l, e) == IF Contains(l.seen, e) THEN l
                     ELSE [history |-> Append(l.history, e),
                           seen    |-> Append(l.seen, e)]
        full == FoldLeft(Add, log, entries)
    IN  [history |-> LastN(HistCap, full.history),
         seen    |-> LastN(SeenCap, full.seen)]

\* Mutation of Flush: a retry does not write the columns again.
FlushNewOnly(w) ==
    LET t == worker[w] IN
    /\ t.pc = "flush"
    /\ rig' = IF ~rig.present \/ t.req.attempt > 1 THEN rig ELSE
                [present |-> TRUE,
                 latestErrors |-> t.req.content.errors,
                 errors |-> Appended(t.row.errors, t.req.content.errors),
                 containers |-> Appended(t.row.containers,
                                         t.req.content.containers)]
    /\ worker' = [worker EXCEPT ![w].pc = "reply"]
    /\ UNCHANGED <<machine, agent, net, snapshots, disk, latest, containers,
                   deleting, faults, history>>

\* After the commit: the JSON columns, computed from the row read at the
\* start.  QuerySet.update of a row that is gone changes nothing.
Flush(w) ==
    LET t == worker[w] IN
    /\ t.pc = "flush"
    /\ rig' = IF ~rig.present THEN rig ELSE
                [present |-> TRUE,
                 latestErrors |-> t.req.content.errors,
                 errors |-> Appended(t.row.errors, t.req.content.errors),
                 containers |-> Appended(t.row.containers,
                                         t.req.content.containers)]
    /\ worker' = [worker EXCEPT ![w].pc = "reply"]
    /\ UNCHANGED <<machine, agent, net, snapshots, disk, latest, containers,
                   deleting, faults, history>>

\* 200 or 202; an agent that has timed out does not see it.
Reply(w) ==
    LET t == worker[w] IN
    /\ t.pc = "reply"
    /\ worker' = [worker EXCEPT ![w] = Idle]
    /\ agent' = Answered(t.req)
    /\ acked' = IF WaitsFor(t.req)
                THEN acked \cup {[ts |-> t.req.ts, content |-> t.req.content]}
                ELSE acked
    /\ UNCHANGED <<machine, net, database, faults, erased, first, disturbed>>

\* An exception before the commit: the transaction is rolled back, 500.
Fail(w) ==
    LET t == worker[w] IN
    /\ t.pc \in {"read", "begin", "txn"}
    /\ IF t.pc = "txn" /\ ~rig.present THEN UNCHANGED faults ELSE Fault
    /\ worker' = [worker EXCEPT ![w] = Idle]
    /\ agent' = Answered(t.req)
    /\ UNCHANGED <<machine, net, database, history>>

\* The worker is killed (a timeout of Gunicorn, a restart), or its answer is
\* lost: what it has committed stays.
Crash(w) ==
    /\ worker[w].pc # "idle" /\ Fault
    /\ worker' = [worker EXCEPT ![w] = Idle]
    /\ UNCHANGED <<machine, agent, net, database, history>>

-----------------------------------------------------------------------------
(***************************************************************************)
(* rig_delete: one statement after the other, each in its own transaction. *)
(* A statement waits for transactions that hold a row it deletes.          *)
(***************************************************************************)

DeleteSnapshots ==
    /\ deleting = 0 /\ rig.present /\ Fault
    /\ \A w \in Workers : worker[w].pc = "txn" => worker[w].req.ts \notin snapshots
    /\ deleting' = 1 /\ snapshots' = {} /\ disk' = {}
    /\ UNCHANGED <<rig, latest, containers>>

DeleteLatest ==
    /\ deleting = 1 /\ deleting' = 2 /\ latest' = NoLatest
    /\ UNCHANGED <<rig, snapshots, disk, containers, faults>>

DeleteDisk ==
    /\ deleting = 2 /\ deleting' = 3 /\ disk' = {}
    /\ UNCHANGED <<rig, snapshots, latest, containers, faults>>

DeleteContainers ==
    /\ deleting = 3
    /\ \A w \in Workers :
         worker[w].pc = "txn" => worker[w].visible \cap containers = {}
    /\ deleting' = 4 /\ containers' = {}
    /\ UNCHANGED <<rig, snapshots, disk, latest, faults>>

DeleteRig ==
    /\ deleting = 4 /\ deleting' = 0 /\ rig' = NoRig
    /\ UNCHANGED <<snapshots, disk, latest, containers, faults>>

DeleteStep ==
    /\ \/ DeleteSnapshots \/ DeleteLatest \/ DeleteDisk \/ DeleteContainers
       \/ DeleteRig
    /\ erased' = minute /\ disturbed' = TRUE
    /\ UNCHANGED <<machine, agent, net, worker, acked, first>>

-----------------------------------------------------------------------------
AgentStep ==
    \/ Reboot \/ Resend \/ GiveUp
    \/ \E c \in Contents, d \in 0 .. MaxIO, missing \in BOOLEAN :
         Collect(c, d, missing)

WorkerStep(w) ==
    \/ \E req \in net : Accept(w, req)
    \/ ReadPrevious(w) \/ Begin(w) \/ Commit(w) \/ Flush(w) \/ Reply(w)
    \/ Fail(w) \/ Crash(w)

Next ==
    \/ AgentStep
    \/ \E req \in net : Lose(req) \/ Reject(req)
    \/ \E w \in Workers : WorkerStep(w)
    \/ DeleteStep

Spec == Init /\ [][Next]_vars

-----------------------------------------------------------------------------
(***************************************************************************)
(* Properties.                                                             *)
(***************************************************************************)

Log == [history : Seq(Entry), seen : Seq(Entry)]

TypeOK ==
    /\ minute \in Minutes /\ counter \in Counters /\ io \in Counters
    /\ Waiting => agent \in [attempt : 1 .. MaxAttempts, ts : Minutes,
                             ctr : Counters \cup {NoValue}, content : Contents]
    /\ \A q \in net : q.attempt \in 1 .. MaxAttempts /\ q.ts \in Minutes
    /\ \A w \in Workers : worker[w].pc \in
         {"idle", "read", "begin", "txn", "flush", "reply"}
    /\ rig.errors \in Log /\ rig.containers \in Log
    /\ Len(rig.errors.history) <= HistCap /\ Len(rig.errors.seen) <= SeenCap
    /\ snapshots \subseteq Minutes
    /\ disk \subseteq [ts : Minutes, delta : Counters \cup {NoValue}]
    /\ latest \in [ts : Minutes, ctr : Counters \cup {NoValue}]
    /\ deleting \in 0 .. 4 /\ faults \in 0 .. MaxFaults

Reported == MapThenSumSet(LAMBDA d : IF d.delta = NoValue THEN 0 ELSE d.delta,
                          disk)

\* The stored deltas, each "Bytes read since last sample" by its help text,
\* never add up to more I/O than the disk did, whatever is lost, repeated,
\* reset, crashed or deleted (process_ingest reads the previous LatestSnapshot
\* outside the transaction that replaces it).  With Overlap two payloads are
\* compared with the same previous one, and it fails.
NeverOverReports == Reported <= io

\* With no reset, no missing reading and no row written twice, nothing is lost
\* either: the deltas add up to the difference between the newest reading and
\* the first, although payloads between them were lost or rejected.
DeltasAddUp ==
    ~disturbed /\ latest # NoLatest => Reported = latest.ctr - first

\* The deltas of the charts never show too much, nor too little unless a
\* counter or a row was disturbed (_compute_delta with both of its callers).
DeltasAreRight == NeverOverReports /\ DeltasAddUp

\* The LatestSnapshot is that of the newest MetricSnapshot, also after late
\* retries and in the middle of a deletion: the fleet page shows the former,
\* the charts the latter.
LatestIsNewest ==
    latest # NoLatest /\ snapshots # {} => latest.ts = Max(snapshots)

\* An answer of 200 or 202 is sent after the commit, and only rig_delete takes
\* the snapshot row away again.
AckedHasItsRow == \A p \in acked : p.ts > erased => p.ts \in snapshots

\* A payload whose 200 or 202 reached the agent is stored for good: its
\* snapshot row is there, its errors are in the rolling history (unless newer
\* ones have filled it), and while it is the newest its errors are the latest
\* ones.  A crash between the commit and the second statement must not lose
\* them, since only a retry that repeats both can be acknowledged.
AckedIsStored ==
    /\ AckedHasItsRow
    /\ \A p \in acked : p.ts > erased =>
        /\ \A i \in DOMAIN p.content.errors :
             \/ Contains(rig.errors.history, p.content.errors[i])
             \/ Len(rig.errors.history) = HistCap
        /\ latest.ts = p.ts => rig.latestErrors = p.content.errors

\* The container rows all come from one payload: concurrent attempts and
\* READ COMMITTED deletes never leave a mixture.
ContainersFromOnePayload ==
    \A a, b \in containers : a.ts = b.ts

\* Equal entries of a history are further apart than the deduplication window,
\* so the window alone decides what is repeated (the fingerprints and the
\* history are cut separately in process_ingest).
DedupWindow ==
    \A log \in {rig.errors, rig.containers} :
      /\ log.seen = LastN(SeenCap, log.history)
      /\ \A i, j \in DOMAIN log.history :
           i < j /\ log.history[i] = log.history[j] => j - i > SeenCap

\* What was acknowledged is stored, and what is repeated within the window of
\* the deduplication is in the history once (process_ingest with its two commits).
StoredOnce == AckedIsStored /\ DedupWindow

\* docs/GPU_Rig_Monitoring_Architecture.md section 11.2: an exact same payload
\* (an agent retry) is answered 202 and leaves the database unchanged.
DuplicateLeavesRowsAlone ==
    [][\A w \in Workers :
         worker[w].pc = "txn" /\ worker'[w].pc = "flush"
           /\ worker[w].req.ts \in snapshots => disk' = disk]_vars
=============================================================================
