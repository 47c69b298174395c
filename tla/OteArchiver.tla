---------------------------- MODULE OteArchiver ----------------------------
(***************************************************************************)
(* The raw archive of LIDAR frames in fiware-manager: every gunicorn       *)
(* worker process answers the sensors at once and appends their frames to  *)
(* a window per device; a thread of the process uploads each window that   *)
(* is old or large enough, as one object; stopping the process flushes     *)
(* what is pending.  The event loop ("main") and the thread may upload at  *)
(* the same time.                                                          *)
(*                                                                         *)
(* A frame is its position in the order of acceptance, so a list of lines  *)
(* is a set of numbers and its oldest line the smallest one.  Bodies that  *)
(* cannot be decoded never become a frame.                                 *)
(***************************************************************************)
EXTENDS Integers, FiniteSets, FiniteSetsExt

CONSTANTS
  Procs,          \* gunicorn workers
  Pids,           \* process ids; one may come back after a restart
  Devices,        \* device ids, sanitised
  Size,           \* Size[i]: bytes of the i-th accepted frame
  FlushSeconds,   \* OTE_FLUSH_SECONDS, in ticks
  FlushMaxBytes,  \* OTE_FLUSH_MAX_BYTES
  MaxBufferBytes, \* OTE_MAX_BUFFER_BYTES
  MayFail,        \* whether uploads may fail
  MayCrash,       \* whether processes may be killed
  MaxFrames,      \* bound on the frames of a behaviour
  MaxTime         \* bound on the clock

Frames == 1 .. MaxFrames

ArchiverAssumption ==
  /\ Cardinality(Pids) >= Cardinality(Procs)
  /\ MaxFrames \in Nat
  /\ Size \in [Frames -> Nat \ {0}]
  /\ {FlushSeconds, FlushMaxBytes, MaxBufferBytes, MaxTime} \subseteq Nat
  /\ {MayFail, MayCrash} \subseteq BOOLEAN

VARIABLES
  now,     \* the clock
  count,   \* frames accepted so far
  owner,   \* owner[i]: process and device of the i-th accepted frame
  window,  \* window[p][d]: _lines[d] and _opened_at[d] of process p
  seq,     \* seq[p]: _seq
  pid,     \* pid[p]: os.getpid()
  pc,      \* pc[p][f]: where the event loop or the thread of p is
  todo,    \* todo[p][f]: devices f still has to flush
  held,    \* held[p][f]: the window f has taken and is uploading
  objects, \* the objects in storage
  dropped, \* frames dropped because a buffer was full
  lost     \* frames whose upload failed, or that died with a process

processVars == <<window, seq, pc, todo, held>>
frameVars   == <<count, owner, objects, dropped, lost>>
vars == <<now, pid, processVars, frameVars>>

Flushers == {"main", "thread"}
NoWindow == [open |-> FALSE, opened |-> 0, lines |-> {}]
Windows  == [open : BOOLEAN, opened : 0 .. MaxTime, lines : SUBSET Frames]
Keys     == [device : Devices, opened : 0 .. MaxTime, pid : Pids, seq : Frames]
Objects  == [key : Keys, lines : (SUBSET Frames) \ {{}}]
Nothing  == [key |-> [device |-> "none"], lines |-> {}]

Bytes(lines) == MapThenSumSet(LAMBDA i : Size[i], lines)

TypeOK ==
  /\ now \in 0 .. MaxTime
  /\ count \in 0 .. MaxFrames
  /\ owner \in [1 .. count -> Procs \X Devices]
  /\ window \in [Procs -> [Devices -> Windows]]
  /\ seq \in [Procs -> 0 .. MaxFrames]
  /\ pid \in [Procs -> Pids]
  /\ \A p, q \in Procs : p # q => pid[p] # pid[q]
  /\ pc \in [Procs -> [main : {"serving", "join", "flush", "put", "exited"},
                       thread : {"wait", "flush", "put", "ended"}]]
  /\ todo \in [Procs -> [Flushers -> SUBSET Devices]]
  /\ held \in [Procs -> [Flushers -> {Nothing} \cup Objects]]
  /\ objects \subseteq Objects
  /\ dropped \subseteq 1 .. count
  /\ lost \subseteq 1 .. count

Fresh == [main |-> "serving", thread |-> "wait"]
Idle  == [f \in Flushers |-> {}]
Empty == [f \in Flushers |-> Nothing]

Init ==
  /\ now = 0 /\ count = 0 /\ owner = <<>>
  /\ window = [p \in Procs |-> [d \in Devices |-> NoWindow]]
  /\ seq = [p \in Procs |-> 0]
  /\ pid \in {ids \in [Procs -> Pids] : \A p, q \in Procs : p # q => ids[p] # ids[q]}
  /\ pc = [p \in Procs |-> Fresh]
  /\ todo = [p \in Procs |-> Idle]
  /\ held = [p \in Procs |-> Empty]
  /\ objects = {} /\ dropped = {} /\ lost = {}

-----------------------------------------------------------------------------
(* The request handler.                                                    *)

\* Mutant of KeepNewest: the newest lines are dropped.
KeepOldest(lines) ==
  LET Fits(k) == Bytes({i \in lines : i <= k}) <= MaxBufferBytes
  IN  {i \in lines : i <= Max({k \in 0 .. MaxFrames : Fits(k)})}

\* Oldest lines are dropped until the rest fits in the buffer.
KeepNewest(lines) ==
  LET Fits(k) == Bytes({i \in lines : i >= k}) <= MaxBufferBytes
  IN  {i \in lines : i >= Min({k \in 1 .. (MaxFrames + 1) : Fits(k)})}

\* add: the frame opens a window or joins the open one.  A frame larger than
\* the buffer is dropped itself and leaves an open window without lines.
Add(p, d) ==
  LET i     == count + 1
      lines == window[p][d].lines \cup {i}
  IN
  /\ pc[p].main = "serving"
  /\ count < MaxFrames
  /\ count' = i
  /\ owner' = [j \in 1 .. i |-> IF j = i THEN <<p, d>> ELSE owner[j]]
  /\ window' = [window EXCEPT ![p][d] =
       [open   |-> TRUE,
        opened |-> IF window[p][d].open THEN window[p][d].opened ELSE now,
        lines  |-> KeepNewest(lines)]]
  /\ dropped' = dropped \cup (lines \ KeepNewest(lines))
  /\ UNCHANGED <<now, pid, seq, pc, todo, held, objects, lost>>

-----------------------------------------------------------------------------
(* Flushing.                                                               *)

\* Mutant of Due: a window closes by its size only.
DueBySize(p, d) ==
  /\ window[p][d].lines # {}
  /\ Bytes(window[p][d].lines) >= FlushMaxBytes

Due(p, d) ==
  /\ window[p][d].lines # {}
  /\ \/ now - window[p][d].opened >= FlushSeconds
     \/ Bytes(window[p][d].lines) >= FlushMaxBytes

\* The thread wakes up and lists the due devices.
Wake(p) ==
  /\ pc[p].thread = "wait" /\ pc[p].main = "serving"
  /\ \E d \in Devices : Due(p, d)
  /\ todo' = [todo EXCEPT ![p].thread = {d \in Devices : Due(p, d)}]
  /\ pc' = [pc EXCEPT ![p].thread = "flush"]
  /\ UNCHANGED <<now, pid, window, seq, held, frameVars>>

\* Mutant of ObjectKey: the process id is not part of the key.
ObjectKeyWithoutPid(p, d) ==
  [device |-> d, opened |-> window[p][d].opened, pid |-> CHOOSE i \in Pids : TRUE,
   seq |-> seq[p] + 1]

\* _object_key of the window of d and the next sequence number.
ObjectKey(p, d) ==
  [device |-> d, opened |-> window[p][d].opened, pid |-> pid[p], seq |-> seq[p] + 1]

\* Mutant of Take: the lines are read and stay in the buffer.
TakeKeepsWindow(p, f, d) ==
  /\ pc[p][f] = "flush"
  /\ d \in todo[p][f]
  /\ todo' = [todo EXCEPT ![p][f] = @ \ {d}]
  /\ IF window[p][d].lines = {}
     THEN UNCHANGED <<seq, pc, held>>
     ELSE /\ seq' = [seq EXCEPT ![p] = @ + 1]
          /\ held' = [held EXCEPT ![p][f] = [key |-> ObjectKey(p, d), lines |-> window[p][d].lines]]
          /\ pc' = [pc EXCEPT ![p][f] = "put"]
  /\ UNCHANGED <<now, pid, window, frameVars>>

\* First half of flush, under the lock: the window is popped.
Take(p, f, d) ==
  /\ pc[p][f] = "flush"
  /\ d \in todo[p][f]
  /\ todo' = [todo EXCEPT ![p][f] = @ \ {d}]
  /\ window' = [window EXCEPT ![p][d] = NoWindow]
  /\ IF window[p][d].lines = {}
     THEN UNCHANGED <<seq, pc, held>>
     ELSE /\ seq' = [seq EXCEPT ![p] = @ + 1]
          /\ held' = [held EXCEPT ![p][f] = [key |-> ObjectKey(p, d), lines |-> window[p][d].lines]]
          /\ pc' = [pc EXCEPT ![p][f] = "put"]
  /\ UNCHANGED <<now, pid, frameVars>>

\* The object is written; one with the same key would be overwritten.
PutOk(p, f) ==
  /\ pc[p][f] = "put"
  /\ objects' = {o \in objects : o.key # held[p][f].key} \cup {held[p][f]}
  /\ held' = [held EXCEPT ![p][f] = Nothing]
  /\ pc' = [pc EXCEPT ![p][f] = "flush"]
  /\ UNCHANGED <<now, pid, window, seq, todo, count, owner, dropped, lost>>

\* Mutant of PutFails: the lines go back to the buffer.
PutFailsRequeues(p, f) ==
  LET key == held[p][f].key
      w   == window[p][key.device]
  IN
  /\ pc[p][f] = "put" /\ MayFail
  /\ window' = [window EXCEPT ![p][key.device] =
       [open |-> TRUE, opened |-> key.opened, lines |-> w.lines \cup held[p][f].lines]]
  /\ held' = [held EXCEPT ![p][f] = Nothing]
  /\ pc' = [pc EXCEPT ![p][f] = "flush"]
  /\ UNCHANGED <<now, pid, seq, todo, frameVars>>

\* No storage is configured, or the upload raises: the window is lost.
PutFails(p, f) ==
  /\ pc[p][f] = "put" /\ MayFail
  /\ lost' = lost \cup held[p][f].lines
  /\ held' = [held EXCEPT ![p][f] = Nothing]
  /\ pc' = [pc EXCEPT ![p][f] = "flush"]
  /\ UNCHANGED <<now, pid, window, seq, todo, count, owner, objects, dropped>>

\* The thread has flushed what was due.
Sleep(p) ==
  /\ pc[p].thread = "flush" /\ todo[p].thread = {}
  /\ pc' = [pc EXCEPT ![p].thread = "wait"]
  /\ UNCHANGED <<now, pid, window, seq, todo, held, frameVars>>

-----------------------------------------------------------------------------
(* The life of a process.                                                  *)

\* Shutdown of the application: no more requests, _stop is set.
Stop(p) ==
  /\ pc[p].main = "serving"
  /\ pc' = [pc EXCEPT ![p].main = "join"]
  /\ UNCHANGED <<now, pid, window, seq, todo, held, frameVars>>

\* The thread only looks at _stop while it waits.
EndThread(p) ==
  /\ pc[p].thread = "wait" /\ pc[p].main # "serving"
  /\ pc' = [pc EXCEPT ![p].thread = "ended"]
  /\ UNCHANGED <<now, pid, window, seq, todo, held, frameVars>>

\* Mutant of Join: the process stops without flush_all.
JoinOnly(p) ==
  /\ pc[p].main = "join" /\ pc[p].thread # "wait"
  /\ pc' = [pc EXCEPT ![p].main = "flush"]
  /\ UNCHANGED <<now, pid, window, seq, todo, held, frameVars>>

\* thread.join(10) returns, because the thread ended or because its uploads take
\* longer, and flush_all lists the open windows.
Join(p) ==
  /\ pc[p].main = "join" /\ pc[p].thread # "wait"
  /\ pc' = [pc EXCEPT ![p].main = "flush"]
  /\ todo' = [todo EXCEPT ![p].main = {d \in Devices : window[p][d].open}]
  /\ UNCHANGED <<now, pid, window, seq, held, frameVars>>

Buffered(p) == UNION {window[p][d].lines : d \in Devices}
Uploading(p) == UNION {held[p][f].lines : f \in Flushers}

\* The end of a process, with everything it still had in memory.
Die(p) ==
  /\ lost' = lost \cup Buffered(p) \cup Uploading(p)
  /\ window' = [window EXCEPT ![p] = [d \in Devices |-> NoWindow]]
  /\ held' = [held EXCEPT ![p] = Empty]
  /\ todo' = [todo EXCEPT ![p] = Idle]
  /\ pc' = [pc EXCEPT ![p] = [main |-> "exited", thread |-> "ended"]]
  /\ UNCHANGED <<now, pid, seq, count, owner, objects, dropped>>

\* stop has returned and the process ends; a daemon thread dies with it.
Exit(p) ==
  /\ pc[p].main = "flush" /\ todo[p].main = {}
  /\ Die(p)

\* Out of memory, or aborted by gunicorn for a missed heartbeat.
Crash(p) ==
  /\ MayCrash
  /\ pc[p].main # "exited"
  /\ Die(p)

\* A new process takes its place, at least a tick later.
Restart(p) ==
  /\ pc[p].main = "exited"
  /\ now < MaxTime
  /\ now' = now + 1
  /\ pid' \in {[pid EXCEPT ![p] = i] : i \in Pids \ {pid[q] : q \in Procs \ {p}}}
  /\ seq' = [seq EXCEPT ![p] = 0]
  /\ pc' = [pc EXCEPT ![p] = Fresh]
  /\ UNCHANGED <<window, todo, held, frameVars>>

Tick ==
  /\ now < MaxTime
  /\ now' = now + 1
  /\ UNCHANGED <<pid, processVars, frameVars>>

-----------------------------------------------------------------------------

Flush(p, f) ==
  \/ \E d \in Devices : Take(p, f, d)
  \/ PutOk(p, f) \/ PutFails(p, f)

ThreadStep(p) == Wake(p) \/ Flush(p, "thread") \/ Sleep(p) \/ EndThread(p)
MainStep(p)   == Join(p) \/ Flush(p, "main") \/ Exit(p)

Next ==
  \/ \E p \in Procs : \E d \in Devices : Add(p, d)
  \/ \E p \in Procs : ThreadStep(p) \/ MainStep(p) \/ Stop(p) \/ Crash(p) \/ Restart(p)
  \/ Tick

Spec == Init /\ [][Next]_vars

\* The thread keeps running and an upload returns (the clients have timeouts),
\* a stop that has begun goes on, and time passes.  Nothing has to be received,
\* stopped or restarted.
Fairness == WF_vars(Tick) /\ \A p \in Procs : WF_vars(ThreadStep(p)) /\ WF_vars(MainStep(p))

FairSpec == Spec /\ Fairness

-----------------------------------------------------------------------------
(* Properties.                                                             *)

\* Where a frame can be: a list with one set of frames per place.
Places ==
  {<<"window", p, d>> : p \in Procs, d \in Devices}
  \cup {<<"upload", p, f>> : p \in Procs, f \in Flushers}
  \cup {<<"object", o.key>> : o \in objects} \cup {<<"dropped">>, <<"lost">>}

At(place) ==
  CASE place[1] = "window"  -> window[place[2]][place[3]].lines
    [] place[1] = "upload"  -> held[place[2]][place[3]].lines
    [] place[1] = "object"  -> UNION {o.lines : o \in {x \in objects : x.key = place[2]}}
    [] place[1] = "dropped" -> dropped
    [] place[1] = "lost"    -> lost

\* Every accepted frame is in exactly one place at any time: a frame never
\* reaches two objects, no object overwrites another one, and a frame that is
\* not archived is accounted for - with two workers, both flushers of a
\* stopping one, crashes and reused process ids.
EachFrameOnce ==
  \A i \in 1 .. count : Cardinality({place \in Places : i \in At(place)}) = 1

\* The cap on memory holds whatever fails: no buffer exceeds
\* OTE_MAX_BUFFER_BYTES, although failed uploads keep the sensors sending.
BoundedBuffer ==
  \A p \in Procs, d \in Devices : Bytes(window[p][d].lines) <= MaxBufferBytes

\* What is dropped from a full buffer is always older than what stays.
DropsOldest ==
  \A i \in dropped, p \in Procs, d \in Devices :
    owner[i] = <<p, d>> => \A j \in window[p][d].lines : i < j

Before(k, l) ==
  \/ k.opened < l.opened
  \/ k.opened = l.opened /\ k.pid = l.pid /\ k.seq < l.seq

\* The objects of one process and device cut its frames into consecutive
\* pieces, in the order of their keys, also when the thread and the event loop
\* upload at the same time and finish in the other order.
ObjectsInOrder ==
  \A o, x \in objects :
    \A i \in o.lines, j \in x.lines :
      owner[i] = owner[j] /\ Before(o.key, x.key) => i < j

\* A process that stops regularly takes along at most the upload its thread
\* has in flight: no frame is left in a buffer.
Drained == \A p \in Procs : Exit(p) => Buffered(p) = {}
StopDrainsBuffers == [][Drained]_vars

\* "Flushes what is pending, so a controlled restart keeps the current window"
\* (stop): a regular exit loses no frame.
ControlledStopKeepsWindow ==
  [][\A p \in Procs : Exit(p) => lost' = lost]_vars

\* A frame does not stay for ever in a window that the clock can still pass: it
\* is uploaded, dropped or lost, and a frame never comes back to a buffer.
Pending(i, p) ==
  \E d \in Devices :
    i \in window[p][d].lines /\ window[p][d].opened + FlushSeconds <= MaxTime
WindowsClose == \A p \in Procs : []<>(\A i \in Frames : ~Pending(i, p))

\* Both: a full buffer stays within its cap and keeps the newest frames.
BufferKeepsNewest == BoundedBuffer /\ DropsOldest

=============================================================================
