----------------------------- MODULE MCPlatform -----------------------------
(***************************************************************************)
(* Small instances of the rest of the components of the platform, for      *)
(* their safety: realtime rows and the locations of a device (each with    *)
(* overlapping workers, and with one worker and more reports), the         *)
(* synchronisation of the entities of the broker (overlapping jobs, and    *)
(* failing ones), threshold alarms, the inactivity check (with overlapping *)
(* schedulers and workers), the access of an organization, an out          *)
(* connector that the API changes, and the OTE archiver, which the module  *)
(* extends.  They share no state: part says which one moves.               *)
(***************************************************************************)
EXTENDS OteArchiver, Sequences, TLC

CONSTANTS
  t1, t2, i1, i2, \* the processes of the archiver and their ids
  NoLimit, None   \* no limit of resources, no value

VARIABLES
  part,  \* the component that moves; those of the others rest
  one, clock, queue, job, rows, cmds, sender, sent, told, reports, past,
  alarm, series, up, alert, clean, function, minute, due, age, task, passes,
  racers, spent, instant, known, jobs, faults, newest, order, subscribed,
  requests, asked, entities, tasks, status, level, limit, row, grants,
  request, retries, lastAge, broker, place, stamp, apc, arow, kills, streak,
  okAge

allVars ==
  <<part, vars,
    one, clock, queue, job, rows, cmds, sender, sent, told, reports, past,
    alarm, series, up, alert, clean, function, minute, due, age, task,
    passes, racers, spent, instant, known, jobs, faults, newest, order,
    subscribed, requests, asked, entities, tasks, status, level, limit, row,
    grants, request, retries, lastAge, broker, place, stamp, apc, arow,
    kills, streak, okAge>>

\* Two processes, workers, sessions or administrators: they may change places
\* together with the ids they have where the archiver rests.
Twins == {t1, t2}
Paired == t1 :> i1 @@ t2 :> i2
Interchangeable ==
  {f \in Permutations({t1, t2, i1, i2}) :
     f[t1] \in Twins /\ f[t2] \in Twins /\ (f[t1] = t1 <=> f[i1] = i1)}

\* Frames of the archiver.  With a buffer of 3 bytes and windows of 2: the first
\* alone is not large enough, the second exceeds the buffer, the others do with
\* the first.
Sizes == [i \in Frames |-> CASE i = 1 -> 1 [] i = 2 -> 4 [] OTHER -> 3]

\* Alarms over two measures: the condition of the first is between 1 and 1,
\* that of the second at least 1 and does not apply at instant 1.
Always == 0 .. 2
Conditions ==
  [m \in {"m1", "m2"} |->
     IF m = "m1" THEN [op |-> "between", a |-> 1, b |-> 1, period |-> Always]
                 ELSE [op |-> "ge", a |-> 1, b |-> 1, period |-> Always \ {1}]]
Actions ==
  [UP |-> {"notification", "http_push", "entity_command"}, DOWN |-> {"email"}]
AlarmConfigs ==
  {[function |-> f, conditions |-> Conditions, actions |-> Actions] :
     f \in {"AND", "OR", "XOR"}}

\* A dashboard and an alarm; the administrator has a limit of one dashboard.
KindOf == [r \in {"d1", "a1"} |-> IF r = "d1" THEN "dashboard" ELSE "alarm"]
Limits == [u \in {"adm", "u1"} |-> IF u = "adm" THEN 1 ELSE NoLimit]

\* Two entities of a type each, or of one.
TwoTypes == [e \in {"e1", "e2"} |-> IF e = "e1" THEN "a" ELSE "b"]
OneType == [e \in {"e1", "e2"} |-> "a"]

-----------------------------------------------------------------------------
(* The components.                                                         *)

Realtime == INSTANCE RealtimeRows WITH
  Workers <- Twins, Values <- {"on"}, MaxTime <- 2, MaxSends <- 1,
  MaxReports <- 1
Reports == INSTANCE RealtimeRows WITH
  Workers <- {"w1"}, Values <- {"on"}, MaxTime <- 2, MaxSends <- 1,
  MaxReports <- 2
Threshold == INSTANCE ThresholdAlarms WITH
  Workers <- Twins, Measures <- {"m1", "m2"}, Alarms <- AlarmConfigs,
  Value <- {0, 1}, MaxTime <- 2, MaxReports <- 2
Silence == INSTANCE InactivityCheck WITH
  Workers <- Twins, Schedulers <- {"s1", "s2"}, Entities <- {"e1"},
  Hour <- 1, Timeout <- 1, MaxQueued <- 1, MaxForced <- 1, MaxLag <- 1,
  MaxKills <- 1
Locations == INSTANCE LocationSync WITH
  Workers <- Twins, Entities <- {"e1", "e2", "e3"}, Places <- {"p1", "p2"},
  MaxReports <- 2, MaxFaults <- 1, now <- instant
Moves == INSTANCE LocationSync WITH
  Workers <- {"w1"}, Entities <- {"e1", "e2"}, Places <- {"p1", "p2"},
  MaxReports <- 3, MaxFaults <- 0, now <- instant
Syncs == INSTANCE EntitiesSync WITH
  Workers <- Twins, Types <- {"a", "b"}, Entities <- {"e1", "e2"},
  TypeOf <- TwoTypes, Stamped <- {"e1"}, Provisioned <- {{"a"}},
  AutoSyncs <- {<<TRUE, {}>>, <<TRUE, {"b"}>>, <<FALSE, {"b"}>>},
  PageLimit <- 1, MaxRequests <- 2, MaxChanges <- 2, MaxFaults <- 0
Pages == INSTANCE EntitiesSync WITH
  Workers <- {"w1"}, Types <- {"a"}, Entities <- {"e1", "e2"},
  TypeOf <- OneType, Stamped <- {"e1"}, Provisioned <- {{"a"}},
  AutoSyncs <- {<<TRUE, {}>>, <<FALSE, {"a"}>>}, PageLimit <- 1,
  MaxRequests <- 2, MaxChanges <- 2, MaxFaults <- 1
Access == INSTANCE OrganizationAccess WITH
  Sessions <- Twins, Users <- {"adm", "u1"}, Admin <- "adm",
  Resources <- {"d1", "a1"}, Kind <- KindOf, OwnLimit <- Limits,
  OrgLimit <- 1, MaxChanges <- 2, Nobody <- "nobody"
Connector == INSTANCE OutConnectorHealth WITH
  Workers <- {"w1"}, Admins <- Twins, NumMaxRetries <- 2, Window <- 1,
  MaxKills <- 0, pc <- place

ASSUME MCPlatformAssumption ==
  /\ ArchiverAssumption
  /\ Realtime!RealtimeAssumption
  /\ Reports!RealtimeAssumption
  /\ Threshold!AlarmAssumption
  /\ Silence!InactivityAssumption
  /\ Locations!LocationAssumption
  /\ Moves!LocationAssumption
  /\ Syncs!EntitiesSyncAssumption
  /\ Pages!EntitiesSyncAssumption
  /\ Access!AccessAssumption

OthersArchive ==
  <<part,
    one, clock, queue, job, rows, cmds, sender, sent, told, reports, past,
    alarm, series, up, alert, clean, function, minute, due, age, task,
    passes, racers, spent, instant, known, jobs, faults, newest, order,
    subscribed, requests, asked, entities, tasks, status, level, limit, row,
    grants, request, retries, lastAge, broker, place, stamp, apc, arow,
    kills, streak, okAge>>
StillArchive ==
  /\ one = 0 /\ clock = 0 /\ queue = 0 /\ job = 0 /\ rows = 0 /\ cmds = 0
  /\ sender = 0 /\ sent = 0 /\ told = 0 /\ reports = 0 /\ past = 0
  /\ alarm = 0 /\ series = 0 /\ up = 0 /\ alert = 0 /\ clean = 0
  /\ function = 0 /\ minute = 0 /\ due = 0 /\ age = 0 /\ task = 0
  /\ passes = 0 /\ racers = 0 /\ spent = 0 /\ instant = 0 /\ known = 0
  /\ jobs = 0 /\ faults = 0 /\ newest = 0 /\ order = 0 /\ subscribed = 0
  /\ requests = 0 /\ asked = 0 /\ entities = 0 /\ tasks = 0 /\ status = 0
  /\ level = 0 /\ limit = 0 /\ row = 0 /\ grants = 0 /\ request = 0
  /\ retries = 0 /\ lastAge = 0 /\ broker = 0 /\ place = 0 /\ stamp = 0
  /\ apc = 0 /\ arow = 0 /\ kills = 0 /\ streak = 0 /\ okAge = 0
OthersRealtime ==
  <<part, vars,
    alarm, series, up, alert, clean, function, minute, due, age, task,
    passes, racers, spent, instant, known, jobs, faults, newest, order,
    subscribed, requests, asked, entities, tasks, status, level, limit, row,
    grants, request, retries, lastAge, broker, place, stamp, apc, arow,
    kills, streak, okAge>>
StillRealtime ==
  /\ Init /\ pid = Paired
  /\ alarm = 0 /\ series = 0 /\ up = 0 /\ alert = 0 /\ clean = 0
  /\ function = 0 /\ minute = 0 /\ due = 0 /\ age = 0 /\ task = 0
  /\ passes = 0 /\ racers = 0 /\ spent = 0 /\ instant = 0 /\ known = 0
  /\ jobs = 0 /\ faults = 0 /\ newest = 0 /\ order = 0 /\ subscribed = 0
  /\ requests = 0 /\ asked = 0 /\ entities = 0 /\ tasks = 0 /\ status = 0
  /\ level = 0 /\ limit = 0 /\ row = 0 /\ grants = 0 /\ request = 0
  /\ retries = 0 /\ lastAge = 0 /\ broker = 0 /\ place = 0 /\ stamp = 0
  /\ apc = 0 /\ arow = 0 /\ kills = 0 /\ streak = 0 /\ okAge = 0
OthersThreshold ==
  <<part, vars,
    one, rows, cmds, sender, sent, told, reports, past, function, minute,
    due, age, task, passes, racers, spent, instant, known, jobs, faults,
    newest, order, subscribed, requests, asked, entities, tasks, status,
    level, limit, row, grants, request, retries, lastAge, broker, place,
    stamp, apc, arow, kills, streak, okAge>>
StillThreshold ==
  /\ Init /\ pid = Paired
  /\ one = 0 /\ rows = 0 /\ cmds = 0 /\ sender = 0 /\ sent = 0 /\ told = 0
  /\ reports = 0 /\ past = 0 /\ function = 0 /\ minute = 0 /\ due = 0
  /\ age = 0 /\ task = 0 /\ passes = 0 /\ racers = 0 /\ spent = 0
  /\ instant = 0 /\ known = 0 /\ jobs = 0 /\ faults = 0 /\ newest = 0
  /\ order = 0 /\ subscribed = 0 /\ requests = 0 /\ asked = 0
  /\ entities = 0 /\ tasks = 0 /\ status = 0 /\ level = 0 /\ limit = 0
  /\ row = 0 /\ grants = 0 /\ request = 0 /\ retries = 0 /\ lastAge = 0
  /\ broker = 0 /\ place = 0 /\ stamp = 0 /\ apc = 0 /\ arow = 0
  /\ kills = 0 /\ streak = 0 /\ okAge = 0
OthersSilence ==
  <<part, vars,
    one, clock, job, cmds, sender, sent, told, reports, past, alarm, series,
    alert, clean, instant, known, jobs, faults, newest, order, subscribed,
    requests, asked, entities, tasks, status, level, limit, row, grants,
    request, retries, lastAge, broker, place, stamp, apc, arow, kills,
    streak, okAge>>
StillSilence ==
  /\ Init /\ pid = Paired
  /\ one = 0 /\ clock = 0 /\ job = 0 /\ cmds = 0 /\ sender = 0 /\ sent = 0
  /\ told = 0 /\ reports = 0 /\ past = 0 /\ alarm = 0 /\ series = 0
  /\ alert = 0 /\ clean = 0 /\ instant = 0 /\ known = 0 /\ jobs = 0
  /\ faults = 0 /\ newest = 0 /\ order = 0 /\ subscribed = 0 /\ requests = 0
  /\ asked = 0 /\ entities = 0 /\ tasks = 0 /\ status = 0 /\ level = 0
  /\ limit = 0 /\ row = 0 /\ grants = 0 /\ request = 0 /\ retries = 0
  /\ lastAge = 0 /\ broker = 0 /\ place = 0 /\ stamp = 0 /\ apc = 0
  /\ arow = 0 /\ kills = 0 /\ streak = 0 /\ okAge = 0
OthersLocations ==
  <<part, vars,
    one, clock, cmds, sender, sent, told, reports, alarm, up, alert, clean,
    function, minute, due, age, task, passes, racers, spent, order,
    subscribed, requests, asked, entities, tasks, status, level, limit, row,
    grants, request, retries, lastAge, broker, place, stamp, apc, arow,
    kills, streak, okAge>>
StillLocations ==
  /\ Init /\ pid = Paired
  /\ one = 0 /\ clock = 0 /\ cmds = 0 /\ sender = 0 /\ sent = 0 /\ told = 0
  /\ reports = 0 /\ alarm = 0 /\ up = 0 /\ alert = 0 /\ clean = 0
  /\ function = 0 /\ minute = 0 /\ due = 0 /\ age = 0 /\ task = 0
  /\ passes = 0 /\ racers = 0 /\ spent = 0 /\ order = 0 /\ subscribed = 0
  /\ requests = 0 /\ asked = 0 /\ entities = 0 /\ tasks = 0 /\ status = 0
  /\ level = 0 /\ limit = 0 /\ row = 0 /\ grants = 0 /\ request = 0
  /\ retries = 0 /\ lastAge = 0 /\ broker = 0 /\ place = 0 /\ stamp = 0
  /\ apc = 0 /\ arow = 0 /\ kills = 0 /\ streak = 0 /\ okAge = 0
OthersSyncs ==
  <<part, vars,
    one, cmds, sender, sent, told, reports, alarm, series, up, alert, clean,
    function, minute, due, age, task, passes, racers, spent, instant, jobs,
    newest, status, level, limit, row, grants, request, retries, lastAge,
    broker, place, stamp, apc, arow, kills, streak, okAge>>
StillSyncs ==
  /\ Init /\ pid = Paired
  /\ one = 0 /\ cmds = 0 /\ sender = 0 /\ sent = 0 /\ told = 0
  /\ reports = 0 /\ alarm = 0 /\ series = 0 /\ up = 0 /\ alert = 0
  /\ clean = 0 /\ function = 0 /\ minute = 0 /\ due = 0 /\ age = 0
  /\ task = 0 /\ passes = 0 /\ racers = 0 /\ spent = 0 /\ instant = 0
  /\ jobs = 0 /\ newest = 0 /\ status = 0 /\ level = 0 /\ limit = 0
  /\ row = 0 /\ grants = 0 /\ request = 0 /\ retries = 0 /\ lastAge = 0
  /\ broker = 0 /\ place = 0 /\ stamp = 0 /\ apc = 0 /\ arow = 0
  /\ kills = 0 /\ streak = 0 /\ okAge = 0
OthersAccess ==
  <<part, vars,
    one, clock, queue, job, rows, cmds, sender, sent, told, reports, alarm,
    series, up, alert, clean, function, minute, due, age, task, passes,
    racers, spent, instant, known, jobs, faults, newest, order, subscribed,
    requests, entities, tasks, retries, lastAge, broker, place, stamp, apc,
    arow, kills, streak, okAge>>
StillAccess ==
  /\ Init /\ pid = Paired
  /\ one = 0 /\ clock = 0 /\ queue = 0 /\ job = 0 /\ rows = 0 /\ cmds = 0
  /\ sender = 0 /\ sent = 0 /\ told = 0 /\ reports = 0 /\ alarm = 0
  /\ series = 0 /\ up = 0 /\ alert = 0 /\ clean = 0 /\ function = 0
  /\ minute = 0 /\ due = 0 /\ age = 0 /\ task = 0 /\ passes = 0
  /\ racers = 0 /\ spent = 0 /\ instant = 0 /\ known = 0 /\ jobs = 0
  /\ faults = 0 /\ newest = 0 /\ order = 0 /\ subscribed = 0 /\ requests = 0
  /\ entities = 0 /\ tasks = 0 /\ retries = 0 /\ lastAge = 0 /\ broker = 0
  /\ place = 0 /\ stamp = 0 /\ apc = 0 /\ arow = 0 /\ kills = 0
  /\ streak = 0 /\ okAge = 0
OthersConnector ==
  <<part, vars,
    one, clock, queue, job, rows, cmds, sender, sent, told, reports, past,
    alarm, series, up, alert, clean, function, minute, due, age, task,
    passes, racers, spent, instant, known, jobs, faults, newest, order,
    subscribed, requests, asked, entities, tasks, level, limit, grants,
    request>>
StillConnector ==
  /\ Init /\ pid = Paired
  /\ one = 0 /\ clock = 0 /\ queue = 0 /\ job = 0 /\ rows = 0 /\ cmds = 0
  /\ sender = 0 /\ sent = 0 /\ told = 0 /\ reports = 0 /\ past = 0
  /\ alarm = 0 /\ series = 0 /\ up = 0 /\ alert = 0 /\ clean = 0
  /\ function = 0 /\ minute = 0 /\ due = 0 /\ age = 0 /\ task = 0
  /\ passes = 0 /\ racers = 0 /\ spent = 0 /\ instant = 0 /\ known = 0
  /\ jobs = 0 /\ faults = 0 /\ newest = 0 /\ order = 0 /\ subscribed = 0
  /\ requests = 0 /\ asked = 0 /\ entities = 0 /\ tasks = 0 /\ level = 0
  /\ limit = 0 /\ grants = 0 /\ request = 0

InitAll ==
  \/ part = "frames" /\ Init /\ StillArchive
  \/ part = "rows" /\ Realtime!Init /\ StillRealtime
  \/ part = "reports" /\ Reports!Init /\ StillRealtime
  \/ part = "alarms" /\ Threshold!Init /\ StillThreshold
  \/ part = "inactivity" /\ Silence!Init /\ StillSilence
  \/ part = "locations" /\ Locations!Init /\ StillLocations
  \/ part = "moves" /\ Moves!Init /\ StillLocations
  \/ part = "syncs" /\ Syncs!Init /\ StillSyncs
  \/ part = "pages" /\ Pages!Init /\ StillSyncs
  \/ part = "access" /\ Access!Init /\ StillAccess
  \/ part = "connector" /\ Connector!Init /\ StillConnector

NextAll ==
  \/ part = "frames" /\ Next /\ UNCHANGED OthersArchive
  \/ part = "rows" /\ Realtime!Next /\ UNCHANGED OthersRealtime
  \/ part = "reports" /\ Reports!Next /\ UNCHANGED OthersRealtime
  \/ part = "alarms" /\ Threshold!Next /\ UNCHANGED OthersThreshold
  \/ part = "inactivity" /\ Silence!Next /\ UNCHANGED OthersSilence
  \/ part = "locations" /\ Locations!Next /\ UNCHANGED OthersLocations
  \/ part = "moves" /\ Moves!Next /\ UNCHANGED OthersLocations
  \/ part = "syncs" /\ Syncs!Next /\ UNCHANGED OthersSyncs
  \/ part = "pages" /\ Pages!Next /\ UNCHANGED OthersSyncs
  \/ part = "access" /\ Access!Next /\ UNCHANGED OthersAccess
  \/ part = "connector" /\ Connector!Next /\ UNCHANGED OthersConnector

SpecAll == InitAll /\ [][NextAll]_allVars

-----------------------------------------------------------------------------
(* Properties: those of each component, of the states where it moves.       *)

\* The type invariants of the components.
TypesOK ==
  /\ TypeOK
  /\ part = "rows" => Realtime!TypeOK
  /\ part = "reports" => Reports!TypeOK
  /\ part = "alarms" => Threshold!TypeOK
  /\ part = "inactivity" => Silence!TypeOK
  /\ part = "locations" => Locations!TypeOK
  /\ part = "moves" => Moves!TypeOK
  /\ part = "syncs" => Syncs!TypeOK
  /\ part = "pages" => Pages!TypeOK
  /\ part = "access" => Access!TypeOK
  /\ part = "connector" => Connector!TypeOK

\* A realtime row and the list of commands are the newest ones notified.
RowsCurrent ==
  /\ part = "rows" => Realtime!RowsCurrent
  /\ part = "reports" => Reports!RowsCurrent

\* The mark of a pending command is only cleared by news of its command.
MarkOutlivesOldReports ==
  [][/\ part = "rows" => Realtime!OnlyNewerReports
     /\ part = "reports" => Reports!OnlyNewerReports]_allVars

\* The entities of a device end at the newest location notified, and the
\* history has what their rows have.
LocationsAgree ==
  /\ part = "locations" => Locations!LocationsAgree
  /\ part = "moves" => Moves!LocationsAgree

\* Both stores have what the broker has of the types the platform announced.
SubscribedAreSynced ==
  /\ part = "syncs" => Syncs!SubscribedAreSynced
  /\ part = "pages" => Pages!SubscribedAreSynced

\* Schedulers and workers that overlap repeat the inactivity check of an hour
\* only where they looked before its first execution was recorded.
OnlyRacersRepeat == part = "inactivity" => Silence!OnlyRacersRepeat

\* Alerts go up and down by turns, and each starts all of its actions.
AlertsSound ==
  [][part = "alarms" => Threshold!Alternates /\ Threshold!EveryActionTried]_allVars

\* The level of a user stays shared, and no limit of resources is exceeded.
AccessSound == part = "access" => Access!AccessSound

\* One job at a time deactivates a connector only after enough failures in a
\* row and a silent window, whatever the API requests in between.
DeactivationJustified == [][part = "connector" => Connector!Justified]_allVars

=============================================================================
