---------------------------- MODULE OteIngestion ----------------------------
(***************************************************************************)
(* The hourly LIDAR job (run_ote.py).  fiware-manager stages small dumps   *)
(* (OteArchiver); each run finishes what a dead run left, joins the staged *)
(* dumps into one object per device and clock hour, deletes them, and then *)
(* reads the archive and publishes the previous hour for every target.     *)
(*                                                                         *)
(* The object storage has no transactions: a run may die between any two   *)
(* of its calls, and a call may fail.  What makes the deletion of the      *)
(* dumps safe is a manifest, written before the object and removed last.   *)
(***************************************************************************)
EXTENDS Integers, FiniteSets

CONSTANTS
  Dumps,     \* dumps, each named by the instant its window starts
  DeviceOf,  \* the sensor of a dump
  Spill,     \* instants a dump's frames reach after its start
  HourLength,
  MaxHour,   \* bound on the clock
  Margin,    \* OTE_READ_MARGIN_SECONDS
  Targets,
  SensorsOf, \* SensorsOf[t]: the sensors of target t
  Faults,    \* what may fail: "crash", "upload", "verify", "delete", "discard",
             \* "read", "publish" and, of recover()'s own calls, "recover"
  MaxFaults

OteIngestionAssumption ==
  /\ Dumps \subseteq Nat /\ IsFiniteSet(Dumps)
  /\ HourLength \in Nat \ {0} /\ Spill \in Nat /\ Margin \in Nat /\ MaxHour \in Nat

VARIABLES
  hour,      \* the clock, in hours
  unsent,    \* dumps the receiver has not uploaded yet
  staged,    \* dumps under ote/incoming
  archive,   \* archive[k]: the object of key k under ote/raw
  manifests, \* manifests[k]: the sources it lists, {} if there is no manifest
  published, \* published[kind, t, h]: the dumps counted in that sample
  run,       \* the run in progress
  faults     \* calls failed so far

storage == <<staged, archive, manifests>>
vars == <<hour, unsent, storage, published, run, faults>>

Keys == Dumps \X Dumps
Hours == 0 .. MaxHour
Absent == [state |-> "none", dumps |-> {}]
Unpublished == {-1}

HourOf(d) == d \div HourLength
HasFrames(d, h) == d < (h + 1) * HourLength /\ d + Spill >= h * HourLength

\* archived_key: the device, the first and the last dump of the group.
First(g) == CHOOSE d \in g : \A e \in g : d <= e
Last(g) == CHOOSE d \in g : \A e \in g : e <= d
KeyOf(g) == <<First(g), Last(g)>>

\* _by_hour, for every device.
Groups(pending) ==
  {{e \in pending : DeviceOf[e] = DeviceOf[d] /\ HourOf(e) = HourOf(d)} : d \in pending}

Intact(k) == archive[k].state = "good" /\ archive[k].dumps = manifests[k]
Held(d) == \E k \in Keys : archive[k].state = "good" /\ d \in archive[k].dumps

NoKey == <<>>
Off == [pc |-> "off", window |-> 0, todo |-> {}, key |-> NoKey, left |-> {},
        failed |-> FALSE, seen |-> {}]

TypeOK ==
  /\ hour \in Hours /\ unsent \subseteq Dumps /\ staged \subseteq Dumps
  /\ archive \in [Keys -> [state : {"none", "good", "bad"}, dumps : SUBSET Dumps]]
  /\ manifests \in [Keys -> SUBSET Dumps]
  /\ run.pc \in {"off", "recover", "clean", "drop", "dropped", "list", "compact", "upload",
                 "verify", "reject", "rejected", "delete", "ingest"}
  /\ faults \in 0 .. MaxFaults

Init ==
  /\ hour = 0
  /\ unsent = Dumps
  /\ staged = {}
  /\ archive = [k \in Keys |-> Absent]
  /\ manifests = [k \in Keys |-> {}]
  /\ published = [s \in {"zone", "sensor"} \X Targets \X Hours |-> Unpublished]
  /\ run = Off
  /\ faults = 0

May(fault) == fault \in Faults /\ faults < MaxFaults
Fail(fault) == May(fault) /\ faults' = faults + 1

-----------------------------------------------------------------------------
(* Outside the job: the clock and the receiver, whose dumps may be late.   *)

Tick ==
  /\ hour < MaxHour
  /\ hour' = hour + 1
  /\ UNCHANGED <<unsent, storage, published, run, faults>>

Arrive(d) ==
  /\ d \in unsent /\ HourOf(d) <= hour
  /\ unsent' = unsent \ {d}
  /\ staged' = staged \cup {d}
  /\ UNCHANGED <<hour, archive, manifests, published, run, faults>>

\* concurrencyPolicy Forbid: one run at a time, over the previous window.
Start ==
  /\ run = Off /\ hour > 0
  /\ run' = [Off EXCEPT !.pc = "recover", !.window = hour - 1,
                        !.todo = {k \in Keys : manifests[k] # {}}]
  /\ UNCHANGED <<hour, unsent, storage, published, faults>>

Crash ==
  /\ run # Off /\ Fail("crash")
  /\ run' = Off
  /\ UNCHANGED <<hour, unsent, storage, published>>

-----------------------------------------------------------------------------
(* recover()                                                               *)

\* The object is re-verified; a manifest that cannot be processed stays.
Recover(k) ==
  /\ run.pc = "recover" /\ k \in run.todo
  /\ \/ /\ Intact(k)
        /\ run' = [run EXCEPT !.pc = "clean", !.key = k, !.left = manifests[k]]
        /\ UNCHANGED faults
     \/ /\ ~Intact(k)
        /\ run' = [run EXCEPT !.pc = "drop", !.key = k]
        /\ UNCHANGED faults
     \/ /\ Fail("recover")
        /\ \/ run' = [run EXCEPT !.pc = "drop", !.key = k]
           \/ run' = [run EXCEPT !.todo = @ \ {k}]
  /\ UNCHANGED <<hour, unsent, storage, published>>

\* The archived sources, one by one: a deletion that fails is only logged.
Clean(d) ==
  /\ run.pc = "clean" /\ d \in run.left
  /\ run' = [run EXCEPT !.left = @ \ {d}]
  /\ \/ staged' = staged \ {d} /\ UNCHANGED faults
     \/ Fail("recover") /\ UNCHANGED staged
  /\ UNCHANGED <<hour, unsent, archive, manifests, published>>

Cleaned ==
  /\ run.pc = "clean" /\ run.left = {}
  /\ run' = [run EXCEPT !.pc = "recover", !.key = NoKey, !.todo = @ \ {run.key}]
  /\ \/ manifests' = [manifests EXCEPT ![run.key] = {}] /\ UNCHANGED faults
     \/ Fail("recover") /\ UNCHANGED manifests
  /\ UNCHANGED <<hour, unsent, staged, archive, published>>

\* _discard, of recover() and of _compact_device: first the object, then the
\* manifest.  What cannot be removed is left.
DiscardObject ==
  /\ run.pc \in {"drop", "reject"}
  /\ run' = [run EXCEPT !.pc = IF @ = "drop" THEN "dropped" ELSE "rejected"]
  /\ \/ archive' = [archive EXCEPT ![run.key] = Absent] /\ UNCHANGED faults
     \/ Fail("discard") /\ UNCHANGED archive
  /\ UNCHANGED <<hour, unsent, staged, manifests, published>>

DiscardManifest ==
  /\ run.pc \in {"dropped", "rejected"}
  /\ run' = [run EXCEPT !.pc = IF @ = "dropped" THEN "recover" ELSE "compact", !.key = NoKey,
                        !.todo = IF run.pc = "dropped" THEN @ \ {run.key} ELSE @,
                        !.failed = run.pc = "rejected"]
  /\ \/ manifests' = [manifests EXCEPT ![run.key] = {}] /\ UNCHANGED faults
     \/ Fail("discard") /\ UNCHANGED manifests
  /\ UNCHANGED <<hour, unsent, staged, archive, published>>

-----------------------------------------------------------------------------
(* compact_archive() and _compact_device()                                 *)

\* The staging prefix is listed once.  seen is history: what had arrived.
List ==
  /\ run.pc = "recover" /\ run.todo = {}
  /\ run' = [run EXCEPT !.pc = "compact", !.todo = Groups(staged), !.seen = Dumps \ unsent]
  /\ UNCHANGED <<hour, unsent, storage, published, faults>>

\* A group that fails is left as it is and the others go on.
GiveUp == run' = [run EXCEPT !.pc = "compact", !.key = NoKey, !.failed = TRUE]

\* Mutant of Join: the manifest is not written.
JoinQuietly(g) ==
  /\ run.pc = "compact" /\ g \in run.todo
  /\ run' = [run EXCEPT !.pc = "upload", !.key = KeyOf(g), !.left = g, !.todo = @ \ {g}]
  /\ UNCHANGED <<hour, unsent, storage, published, faults>>

\* The dumps are downloaded and joined, and the manifest is written.
Join(g) ==
  /\ run.pc = "compact" /\ g \in run.todo
  /\ \/ /\ run' = [run EXCEPT !.pc = "upload", !.key = KeyOf(g), !.left = g, !.todo = @ \ {g}]
        /\ manifests' = [manifests EXCEPT ![KeyOf(g)] = g]
        /\ UNCHANGED faults
     \/ /\ Fail("upload")
        /\ run' = [run EXCEPT !.failed = TRUE, !.todo = @ \ {g}]
        /\ UNCHANGED manifests
  /\ UNCHANGED <<hour, unsent, staged, archive, published>>

\* The upload may also fail or leave a truncated object.
Upload ==
  /\ run.pc = "upload"
  /\ \/ /\ archive' = [archive EXCEPT ![run.key] = [state |-> "good", dumps |-> run.left]]
        /\ run' = [run EXCEPT !.pc = "verify"]
        /\ UNCHANGED faults
     \/ /\ Fail("upload")
        /\ archive' = [archive EXCEPT ![run.key] = [state |-> "bad", dumps |-> run.left]]
        /\ run' = [run EXCEPT !.pc = "verify"]
     \/ Fail("upload") /\ GiveUp /\ UNCHANGED archive
  /\ UNCHANGED <<hour, unsent, staged, manifests, published>>

\* Mutant of Verify: the object is trusted.
VerifyNothing ==
  /\ run.pc = "verify"
  /\ run' = [run EXCEPT !.pc = "delete"]
  /\ UNCHANGED <<hour, unsent, storage, published, faults>>

\* _is_intact reads the object back.
Verify ==
  /\ run.pc = "verify"
  /\ \/ archive[run.key].state = "good" /\ run' = [run EXCEPT !.pc = "delete"]
        /\ UNCHANGED faults
     \/ archive[run.key].state = "bad" /\ run' = [run EXCEPT !.pc = "reject"]
        /\ UNCHANGED faults
     \/ Fail("verify") /\ run' = [run EXCEPT !.pc = "reject"]
  /\ UNCHANGED <<hour, unsent, storage, published>>

\* delete_files: some may be gone when it fails or the run dies.
Delete(d) ==
  /\ run.pc = "delete" /\ d \in run.left
  /\ \/ staged' = staged \ {d} /\ run' = [run EXCEPT !.left = @ \ {d}] /\ UNCHANGED faults
     \/ Fail("delete") /\ GiveUp /\ UNCHANGED staged
  /\ UNCHANGED <<hour, unsent, archive, manifests, published>>

Deleted ==
  /\ run.pc = "delete" /\ run.left = {}
  /\ \/ /\ manifests' = [manifests EXCEPT ![run.key] = {}]
        /\ run' = [run EXCEPT !.pc = "compact", !.key = NoKey]
        /\ UNCHANGED faults
     \/ Fail("delete") /\ GiveUp /\ UNCHANGED manifests
  /\ UNCHANGED <<hour, unsent, staged, archive, published>>

\* compact_and_ingest: CompactionIncomplete ends the run.
Compacted ==
  /\ run.pc = "compact" /\ run.todo = {}
  /\ run' = IF run.failed THEN Off ELSE [run EXCEPT !.pc = "ingest", !.todo = Targets]
  /\ UNCHANGED <<hour, unsent, storage, published, faults>>

-----------------------------------------------------------------------------
(* ingest_window(): one target after another.                              *)

\* Mutant of KeysToRead: only the objects that start in the window.
KeysStarting(t, h) ==
  {k \in Keys : archive[k].state # "none" /\ DeviceOf[k[1]] \in SensorsOf[t] /\ HourOf(k[1]) = h}

\* keys_for_device: by overlap of the interval in the name.
KeysToRead(t, h) ==
  LET from == h * HourLength - Margin IN
  {k \in Keys : /\ archive[k].state # "none" /\ DeviceOf[k[1]] \in SensorsOf[t]
                /\ k[1] < (h + 1) * HourLength /\ k[2] + Margin >= from}

\* iter_events: the frames of the window.
Counted(t, h) ==
  {d \in UNION {archive[k].dumps : k \in {k \in KeysToRead(t, h) : archive[k].state = "good"}} :
     HasFrames(d, h)}

\* Timescale keeps the first sample of an instant (ON CONFLICT DO NOTHING).
Insert(samples, s, dumps) ==
  IF samples[s] = Unpublished THEN [samples EXCEPT ![s] = dumps] ELSE samples

\* OteETL: the sensors are always published, the zones only if every object
\* could be read and there was some frame (_window_is_trustworthy).
Ingest(t) ==
  LET h         == run.window
      readable  == \A k \in KeysToRead(t, h) : archive[k].state = "good"
      Publish(trusted) ==
        LET sensors == Insert(published, <<"sensor", t, h>>, Counted(t, h))
        IN  IF trusted /\ Counted(t, h) # {}
            THEN Insert(sensors, <<"zone", t, h>>, Counted(t, h)) ELSE sensors
  IN
  /\ run.pc = "ingest" /\ t \in run.todo
  /\ run' = IF run.todo = {t} THEN Off ELSE [run EXCEPT !.todo = @ \ {t}]
  /\ \/ published' = Publish(readable) /\ UNCHANGED faults
     \/ Fail("read") /\ published' = Publish(FALSE)
     \/ Fail("publish") /\ UNCHANGED published
  /\ UNCHANGED <<hour, unsent, storage>>

-----------------------------------------------------------------------------

Step ==
  \/ \E k \in Keys : Recover(k)
  \/ \E d \in Dumps : Clean(d) \/ Delete(d)
  \/ Cleaned \/ DiscardObject \/ DiscardManifest
  \/ List \/ Upload \/ Verify \/ Deleted \/ Compacted
  \/ \E g \in SUBSET Dumps : Join(g)
  \/ \E t \in Targets : Ingest(t)

Next ==
  \/ Tick \/ Start \/ Crash \/ Step
  \/ \E d \in Dumps : Arrive(d)

Spec == Init /\ [][Next]_vars

-----------------------------------------------------------------------------
(* Properties.                                                             *)

\* A dump that arrived is staged or inside an intact object, whatever the moment
\* a run dies (the comment of _compact_device on the order of its steps).
NoDumpLost == \A d \in Dumps \ unsent : d \in staged \/ Held(d)

\* No two intact objects hold a dump: its frames would be counted twice for ever.
ArchivedOnce ==
  \A k \in Keys : archive[k].state = "good" =>
    \A l \in Keys : archive[l].state = "good" =>
      \A d \in archive[k].dumps : d \in archive[l].dumps => k = l

\* A zone sample, which nothing corrects later, counts every dump of its sensors
\* with frames in the hour that had arrived when the run listed the staging area:
\* also those of an earlier object that spill into the hour.
ZoneSamplesComplete ==
  \A t \in Targets, h \in Hours :
    published["zone", t, h] # published'["zone", t, h] =>
      \A d \in run.seen :
        DeviceOf[d] \in SensorsOf[t] /\ HasFrames(d, h) => d \in published'["zone", t, h]
ZonesComplete == [][ZoneSamplesComplete]_vars

=============================================================================
