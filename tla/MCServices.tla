----------------------------- MODULE MCServices -----------------------------
(***************************************************************************)
(* Small instances, with fairness, of the components that must get         *)
(* something done: the connectors with jobs that overlap, the commands of  *)
(* a device, the inactivity alarms and the buffers of the OTE archiver.    *)
(* They share no state, so they are checked side by side: part says which  *)
(* one moves.  The first is extended and rests in its initial state; the   *)
(* others are instances, whose variables rest at 0.                        *)
(***************************************************************************)
EXTENDS OutConnectorHealth, FiniteSets, TLC

CONSTANTS
  Alone,       \* the one worker, or process, of the last two components
  Devices      \* the devices of the OTE archiver

VARIABLES
  part,  \* the component that moves; those of the others rest
  upper, sent, transit, parked, poll, got, function, minute, due, queue,
  rows, age, task, up, passes, racers, spent, now, count, owner, window,
  seq, pid, place, todo, held, objects, dropped, lost

allVars ==
  <<part, vars,
    upper, sent, transit, parked, poll, got, function, minute, due, queue,
    rows, age, task, up, passes, racers, spent, now, count, owner, window,
    seq, pid, place, todo, held, objects, dropped, lost>>

\* With a buffer of 3 bytes and windows of 2: the first frame alone is not
\* large enough, the second exceeds the buffer, the others do with the first.
Sizes == <<1, 4, 3>>

-----------------------------------------------------------------------------
(* The components.                                                         *)

Commands == INSTANCE CommandDelivery WITH
  Polls <- Workers, MaxSends <- 3
Silence == INSTANCE InactivityCheck WITH
  Workers <- Alone, Schedulers <- {"s1"}, Entities <- {"e1", "e2"},
  Hour <- 2, Timeout <- 1, MaxQueued <- 1, MaxForced <- 1, MaxLag <- 1,
  MaxKills <- 1
Buffers == INSTANCE OteArchiver WITH
  Procs <- Alone, Pids <- {"i1"}, Size <- Sizes, FlushSeconds <- 1,
  FlushMaxBytes <- 2, MaxBufferBytes <- 3, MayFail <- TRUE,
  MayCrash <- TRUE, MaxFrames <- 3, MaxTime <- 2, pc <- place

ASSUME MCServicesAssumption ==
  /\ Commands!DeliveryAssumption
  /\ Silence!InactivityAssumption
  /\ Buffers!ArchiverAssumption

OthersHealth ==
  <<part,
    upper, sent, transit, parked, poll, got, function, minute, due, queue,
    rows, age, task, up, passes, racers, spent, now, count, owner, window,
    seq, pid, place, todo, held, objects, dropped, lost>>
StillHealth ==
  /\ upper = 0 /\ sent = 0 /\ transit = 0 /\ parked = 0 /\ poll = 0
  /\ got = 0 /\ function = 0 /\ minute = 0 /\ due = 0 /\ queue = 0
  /\ rows = 0 /\ age = 0 /\ task = 0 /\ up = 0 /\ passes = 0 /\ racers = 0
  /\ spent = 0 /\ now = 0 /\ count = 0 /\ owner = 0 /\ window = 0 /\ seq = 0
  /\ pid = 0 /\ place = 0 /\ todo = 0 /\ held = 0 /\ objects = 0
  /\ dropped = 0 /\ lost = 0
OthersCommands ==
  <<part, vars,
    function, minute, due, queue, rows, age, task, up, passes, racers,
    spent, now, count, owner, window, seq, pid, place, todo, held, objects,
    dropped, lost>>
StillCommands ==
  /\ Init
  /\ function = 0 /\ minute = 0 /\ due = 0 /\ queue = 0 /\ rows = 0
  /\ age = 0 /\ task = 0 /\ up = 0 /\ passes = 0 /\ racers = 0 /\ spent = 0
  /\ now = 0 /\ count = 0 /\ owner = 0 /\ window = 0 /\ seq = 0 /\ pid = 0
  /\ place = 0 /\ todo = 0 /\ held = 0 /\ objects = 0 /\ dropped = 0
  /\ lost = 0
OthersSilence ==
  <<part, vars,
    upper, sent, transit, parked, poll, got, now, count, owner, window, seq,
    pid, place, todo, held, objects, dropped, lost>>
StillSilence ==
  /\ Init
  /\ upper = 0 /\ sent = 0 /\ transit = 0 /\ parked = 0 /\ poll = 0
  /\ got = 0 /\ now = 0 /\ count = 0 /\ owner = 0 /\ window = 0 /\ seq = 0
  /\ pid = 0 /\ place = 0 /\ todo = 0 /\ held = 0 /\ objects = 0
  /\ dropped = 0 /\ lost = 0
OthersBuffers ==
  <<part, vars,
    upper, sent, transit, parked, poll, got, function, minute, due, queue,
    rows, age, task, up, passes, racers, spent>>
StillBuffers ==
  /\ Init
  /\ upper = 0 /\ sent = 0 /\ transit = 0 /\ parked = 0 /\ poll = 0
  /\ got = 0 /\ function = 0 /\ minute = 0 /\ due = 0 /\ queue = 0
  /\ rows = 0 /\ age = 0 /\ task = 0 /\ up = 0 /\ passes = 0 /\ racers = 0
  /\ spent = 0

InitAll ==
  \/ part = "jobs" /\ Init /\ StillHealth
  \/ part = "commands" /\ Commands!Init /\ StillCommands
  \/ part = "inactivity" /\ Silence!Init /\ StillSilence
  \/ part = "buffers" /\ Buffers!Init /\ StillBuffers

NextAll ==
  \/ part = "jobs" /\ Next /\ UNCHANGED OthersHealth
  \/ part = "commands" /\ Commands!Next /\ UNCHANGED OthersCommands
  \/ part = "inactivity" /\ Silence!Next /\ UNCHANGED OthersSilence
  \/ part = "buffers" /\ Buffers!Next /\ UNCHANGED OthersBuffers

SpecAll == InitAll /\ [][NextAll]_allVars

\* The fairness of each component, which its module explains.
FairnessAll ==
  /\ WF_allVars(part = "jobs" /\ Tick /\ UNCHANGED OthersHealth)
  /\ \A w \in Workers :
       /\ WF_allVars(part = "jobs" /\ Start(w) /\ UNCHANGED OthersHealth)
       /\ WF_allVars(part = "jobs" /\ JobStep(w) /\ UNCHANGED OthersHealth)
       /\ SF_allVars(part = "jobs" /\ (SendOk(w) \/ SendFails(w)) /\ UNCHANGED OthersHealth)
       /\ WF_allVars(part = "commands" /\ Commands!Post(w) /\ UNCHANGED OthersCommands)
       /\ WF_allVars(part = "commands" /\ Commands!Answer(w) /\ UNCHANGED OthersCommands)
       /\ SF_allVars(part = "commands" /\ Commands!Take(w) /\ UNCHANGED OthersCommands)
  /\ WF_allVars(part = "inactivity" /\ Silence!Tick /\ UNCHANGED OthersSilence)
  /\ WF_allVars(part = "inactivity" /\ Silence!Beat("s1") /\ UNCHANGED OthersSilence)
  /\ WF_allVars(part = "buffers" /\ Buffers!Tick /\ UNCHANGED OthersBuffers)
  /\ \A w \in Alone :
       /\ WF_allVars(part = "inactivity" /\ Silence!Step(w) /\ UNCHANGED OthersSilence)
       /\ WF_allVars(part = "buffers" /\ Buffers!ThreadStep(w) /\ UNCHANGED OthersBuffers)
       /\ WF_allVars(part = "buffers" /\ Buffers!MainStep(w) /\ UNCHANGED OthersBuffers)

FairSpecAll == SpecAll /\ FairnessAll

-----------------------------------------------------------------------------
(* Properties: those of each component, of the states where it moves.       *)

\* A command does not stay parked while the device asks for its commands.
ParkedIsTaken == []<>(part = "commands" /\ upper => parked = 0)

\* The inactivity alarm ends in the state the silent entities give.
AlarmSettles ==
  <>[][part = "inactivity" => Silence!GoneSilent' = Silence!GoneSilent]_allVars
    => <>[](part = "inactivity" => up = Silence!Combine(Silence!GoneSilent))

\* No frame stays in a buffer beyond the window of its device.
WindowsClose ==
  \A p \in Alone :
    []<>(part = "buffers" => \A i \in 1 .. 3 : ~Buffers!Pending(i, p))

=============================================================================
