---------------------------- MODULE EntitiesSync ----------------------------
(***************************************************************************)
(* FiwareEntitiesSync, for one tenant and scope: the platform subscribes   *)
(* to types of entities in the broker and fetches, page by page, what the  *)
(* broker has of them; what it sees for the first time, or everything when *)
(* it is forced to, goes to the realtime rows and the time series.         *)
(* Requests come from the management API and from the periodic task.       *)
(*                                                                         *)
(* An entity is known by the version of its attributes.  Notifications of  *)
(* subscribed types bring versions too: one is a single step here, as its  *)
(* faults are in CbNotification.  No code sends unsubscribe_types, and the *)
(* entities of the broker are not deleted here: aether-link's removal of   *)
(* subscriptions is left out.                                              *)
(***************************************************************************)
EXTENDS Integers, Sequences, FiniteSets

CONSTANTS
  Workers,     \* processes that run the jobs of the queue
  Types,       \* types of entities
  Entities,    \* entities that may appear in the broker
  TypeOf,      \* TypeOf[e]: the type of e
  Stamped,     \* the entities whose attributes carry observedAt
  Provisioned, \* sets of types the management API asks for
  AutoSyncs,   \* <<create_new_subscriptions, types>> of the periodic task
  PageLimit,   \* entities in a page
  None,        \* no type
  MaxRequests, \* bound on the messages
  MaxChanges,  \* bound on the changes in the broker
  MaxFaults    \* bound on the calls that fail and the workers that die

EntitiesSyncAssumption ==
  /\ TypeOf \in [Entities -> Types]
  /\ Stamped \subseteq Entities
  /\ Provisioned \subseteq SUBSET Types
  /\ AutoSyncs \subseteq BOOLEAN \X SUBSET Types
  /\ PageLimit \in Nat \ {0}
  /\ None \notin Types
  /\ MaxRequests \in Nat /\ MaxChanges \in Nat /\ MaxFaults \in Nat

VARIABLES
  order,      \* order[t]: the broker's entities of type t in the order of their creation
  known,      \* known[e]: what the broker has of e, and the instant of it
  clock,      \* clock[e]: the last instant something about e was stamped with
  subscribed, \* the types of the platform's subscription
  requests,   \* messages that wait
  asked,      \* messages so far
  queue,      \* notifications that wait
  job,        \* job[w]: the job of worker w
  entities,   \* entities in the main database
  tasks,      \* save_realtime_job and save_timeseries_job that wait
  rows,       \* rows[s][e]: the newest that store s has of e
  faults,     \* faults so far
  past        \* history: types ever announced; types owed, to which something
              \* happened that the code does not make good before the next
              \* forced job; jobs that began after the last such event

stores == <<entities, tasks, rows>>
broker == <<order, known, subscribed>>
vars == <<broker, clock, requests, asked, queue, job, stores, faults, past>>

\* Messages: createDatamodelSubscriptions of the backend, and the periodic task
\* or its manual request, restricted to some types or not.
Provision(types) ==
  [subscribe |-> types, discover |-> FALSE, existing |-> FALSE, create |-> TRUE,
   filter |-> {}]
AutoSync(create, filter) ==
  [subscribe |-> {}, discover |-> TRUE, existing |-> TRUE, create |-> create,
   filter |-> filter]
Requests == {Provision(types) : types \in Provisioned} \cup {AutoSync(a[1], a[2]) : a \in AutoSyncs}

Stores == {"realtime", "series"}
Absent == [version |-> 0, at |-> 0]
Measure == [version : Nat, at : Nat]
Idle == [pc |-> "idle"]

TypeOK ==
  /\ \A t \in Types : \A i \in DOMAIN order[t] : TypeOf[order[t][i]] = t
  /\ known \in [Entities -> Measure] /\ clock \in [Entities -> Nat]
  /\ subscribed \subseteq Types
  /\ \A m \in requests : m.r \in Requests
  /\ asked \in 0 .. MaxRequests
  /\ \A n \in queue : n.entity \in entities \cup Entities
  /\ \A w \in Workers :
       job[w].pc \in {"idle", "discover", "read", "write", "fetch", "entity",
                      "create", "realtime", "series"}
  /\ entities \subseteq Entities
  /\ \A t \in tasks : t.store \in Stores /\ t.entity \in entities
  /\ rows \in [Stores -> [Entities -> Measure]]
  /\ faults \in 0 .. MaxFaults
  /\ past.announced \subseteq Types /\ past.owed \subseteq Types
  /\ past.clean \subseteq Workers

Init ==
  /\ order = [t \in Types |-> <<>>]
  /\ known = [e \in Entities |-> Absent] /\ clock = [e \in Entities |-> 0]
  /\ subscribed = {}
  /\ requests = {} /\ asked = 0
  /\ queue = {}
  /\ job = [w \in Workers |-> Idle]
  /\ entities = {}
  /\ tasks = {}
  /\ rows = [s \in Stores |-> [e \in Entities |-> Absent]]
  /\ faults = 0
  /\ past = [announced |-> {}, owed |-> {}, clean |-> {}]

Fault == faults < MaxFaults /\ faults' = faults + 1

\* Something happened to types that only a later forced job makes good.
Owe(types) ==
  past' = IF types = {} THEN past
          ELSE [past EXCEPT !.owed = @ \cup types, !.clean = {}]

-----------------------------------------------------------------------------
(* The broker and the notifications.                                       *)

\* An entity appears or changes; a notification carries all it has.
Change(e) ==
  /\ LET k == [version |-> known[e].version + 1, at |-> clock[e] + 1] IN
     /\ known' = [known EXCEPT ![e] = k]
     /\ clock' = [clock EXCEPT ![e] = k.at]
     /\ queue' = IF TypeOf[e] \in subscribed THEN queue \cup {[entity |-> e, data |-> k]}
                 ELSE queue
  /\ order' = IF known[e] = Absent THEN [order EXCEPT ![TypeOf[e]] = Append(@, e)] ELSE order
  /\ UNCHANGED <<subscribed, requests, asked, job, stores, faults, past>>

SomeChange ==
  \E e \in Entities :
    /\ MaxChanges > Cardinality({c \in Entities \X (1 .. MaxChanges) : c[2] <= known[c[1]].version})
    /\ Change(e)

\* A row takes what is newer than it.
Newer(old, new) == IF new.at > old.at THEN new ELSE old

\* A notification of a subscribed type, with all its jobs.
Notified(n) ==
  /\ queue' = queue \ {n}
  /\ entities' = entities \cup {n.entity}
  /\ rows' = [s \in Stores |-> [rows[s] EXCEPT ![n.entity] = Newer(@, n.data)]]
  /\ UNCHANGED <<broker, clock, requests, asked, job, tasks, faults, past>>

-----------------------------------------------------------------------------
(* The job, up to the types it fetches.                                    *)

Request(r) ==
  /\ asked < MaxRequests
  /\ asked' = asked + 1
  /\ requests' = requests \cup {[n |-> asked', r |-> r]}
  /\ UNCHANGED <<broker, clock, queue, job, stores, faults, past>>

\* __manage_subscriptions: the types that the job has just subscribed to.
NewTypes(j) == IF j.r.create THEN j.r.subscribe \ j.old ELSE {}

\* __resolve_types_to_sync
ToSync(j) ==
  IF j.r.filter = {} /\ ~j.r.existing THEN NewTypes(j)
  ELSE IF j.r.filter # {} THEN j.r.filter \cap (j.old \cup NewTypes(j))
  ELSE j.old \cup NewTypes(j)

Fetching(j) == [j EXCEPT !.pc = "fetch", !.types = ToSync(j)]

Subscribing(j) ==
  IF j.r.create /\ j.r.subscribe # {} THEN [j EXCEPT !.pc = "read"] ELSE Fetching(j)

\* The message is acknowledged; the job asks for the subscription.
Start(w, m) ==
  /\ job[w] = Idle
  /\ requests' = requests \ {m}
  /\ LET j == [pc |-> "discover", r |-> m.r, old |-> subscribed, subs |-> {}, types |-> {},
               type |-> None, offset |-> 0, full |-> FALSE, page |-> <<>>, item |-> Absent]
     IN  job' = [job EXCEPT ![w] = IF m.r.discover THEN j ELSE Subscribing(j)]
  /\ past' = [past EXCEPT !.clean = @ \cup {w}]
  /\ UNCHANGED <<broker, clock, asked, queue, stores, faults>>

\* auto_discovery: the types of which the broker has entities.
Discover(w) ==
  /\ job[w].pc = "discover"
  /\ LET found == {t \in Types : order[t] # <<>>}
         j == [job[w] EXCEPT !.r.subscribe = @ \cup found]
     IN  job' = [job EXCEPT ![w] = Subscribing(j)]
  /\ UNCHANGED <<broker, clock, requests, asked, queue, stores, faults, past>>

\* create_type_subscriptions of aether-link, which reads the subscription ...
ReadSubscription(w) ==
  /\ job[w].pc = "read"
  /\ job' = [job EXCEPT ![w].pc = "write", ![w].subs = subscribed]
  /\ UNCHANGED <<broker, clock, requests, asked, queue, stores, faults, past>>

\* ... and then creates it, unless there is one by then, or changes its types.
Written(j) ==
  IF j.subs = {} /\ subscribed # {} THEN subscribed ELSE j.subs \cup j.r.subscribe

WriteSubscription(w) ==
  LET j == job[w] IN
  /\ j.pc = "write"
  /\ subscribed' = Written(j)
  /\ job' = [job EXCEPT ![w] = Fetching(j)]
  /\ LET overwritten == (subscribed \cup j.r.subscribe) \ Written(j)
         unread == NewTypes(j) \ ToSync(j)
         owed == overwritten \cup unread
     IN  past' = [past EXCEPT !.announced = @ \cup j.r.subscribe,
                              !.owed = @ \cup owed,
                              !.clean = IF owed = {} THEN @ ELSE {}]
  /\ UNCHANGED <<order, known, clock, requests, asked, queue, stores, faults>>

\* The broker refuses: aether-link answers as if nothing had happened.
WriteIgnored(w) ==
  LET j == job[w] IN
  /\ j.pc = "write"
  /\ Fault
  /\ job' = [job EXCEPT ![w] = Fetching(j)]
  /\ Owe(j.r.subscribe)
  /\ UNCHANGED <<broker, clock, requests, asked, queue, stores>>

\* The answer does not arrive in time: the job ends, subscribed or not.
WriteUnanswered(w) ==
  LET j == job[w] IN
  /\ j.pc = "write"
  /\ Fault
  /\ subscribed' = Written(j)
  /\ job' = [job EXCEPT ![w] = Idle]
  /\ Owe(subscribed \cup j.r.subscribe)
  /\ UNCHANGED <<order, known, clock, requests, asked, queue, stores>>

-----------------------------------------------------------------------------
(* __fetch_and_sync_entities                                               *)

\* The job with the type it fetches done, or given up.
Without(j) ==
  [j EXCEPT !.pc = "fetch", !.types = @ \ {j.type}, !.type = None, !.offset = 0,
            !.full = FALSE, !.page = <<>>, !.item = Absent]

\* A forced job that nothing disturbed has made good what a type was owed.
Done(w, type) ==
  past' = IF job[w].r.existing /\ w \in past.clean THEN [past EXCEPT !.owed = @ \ {type}]
          ELSE past

\* get_entities_by_type_paginated: the next page, of this type or of another.
Fetch(w) ==
  LET j == job[w] IN
  /\ j.pc = "fetch"
  /\ \E type \in IF j.type = None THEN j.types ELSE {j.type} :
       LET all == order[type]
           last == IF Len(all) < j.offset + PageLimit THEN Len(all) ELSE j.offset + PageLimit
           page == [i \in 1 .. last - j.offset |->
                      [entity |-> all[j.offset + i], data |-> known[all[j.offset + i]]]]
           k == [j EXCEPT !.type = type, !.page = page, !.offset = @ + PageLimit,
                          !.full = Len(page) = PageLimit]
       IN  IF last <= j.offset
           THEN job' = [job EXCEPT ![w] = Without(k)] /\ Done(w, type)
           ELSE job' = [job EXCEPT ![w] = [k EXCEPT !.pc = "entity"]] /\ UNCHANGED past
  /\ UNCHANGED <<broker, clock, requests, asked, queue, stores, faults>>

Finish(w) ==
  /\ job[w].pc = "fetch" /\ job[w].types = {}
  /\ job' = [job EXCEPT ![w] = Idle]
  /\ UNCHANGED <<broker, clock, requests, asked, queue, stores, faults, past>>

\* Mutant of Skipped: what the job has just to create is skipped as well.
SkippedUnlessForced(j, e) == ~j.r.existing

\* "already exists, skipping dispatch"
Skipped(j, e) == e \in entities /\ ~j.r.existing

\* A page that was not full was the last one.
LastOfType(j) == Tail(j.page) = <<>> /\ ~j.full

\* The entity is done.
Advance(w, j) ==
  LET left == Tail(j.page) IN
  IF LastOfType(j)
  THEN job' = [job EXCEPT ![w] = Without(j)] /\ Done(w, j.type)
  ELSE /\ job' = [job EXCEPT ![w] = [j EXCEPT !.page = left, !.item = Absent,
                    !.pc = IF left = <<>> THEN "fetch" ELSE "entity"]]
       /\ UNCHANGED past

\* __sync_entity up to the look-up of the entity.  What carries no observedAt
\* is stamped with the moment of this: if the entity has changed since its page
\* came, what it had before counts as newer than what it has.
Lookup(w) ==
  LET j == job[w]  e == Head(j.page).entity  data == Head(j.page).data
      now == clock[e] + 1
  IN
  /\ j.pc = "entity"
  /\ IF Skipped(j, e) THEN Advance(w, j) /\ UNCHANGED clock
     ELSE /\ clock' = IF e \in Stamped THEN clock ELSE [clock EXCEPT ![e] = now]
          /\ job' = [job EXCEPT
               ![w].item = IF e \in Stamped THEN data ELSE [data EXCEPT !.at = now],
               ![w].pc = IF e \in entities THEN "realtime" ELSE "create"]
          /\ Owe(IF e \notin Stamped /\ data # known[e] THEN {j.type} ELSE {})
  /\ UNCHANGED <<broker, requests, asked, queue, stores, faults>>

\* create_entity.  If somebody else created it meanwhile, the unique index
\* refuses, and the session, never rolled back, fails for the rest of the types.
Create(w) ==
  LET j == job[w]  e == Head(j.page).entity IN
  /\ j.pc = "create"
  /\ entities' = entities \cup {e}
  /\ IF e \in entities THEN job' = [job EXCEPT ![w] = Idle] /\ Owe(j.types)
     ELSE job' = [job EXCEPT ![w].pc = "realtime"] /\ UNCHANGED past
  /\ UNCHANGED <<broker, clock, requests, asked, queue, tasks, rows, faults>>

Task(j, store) == [store |-> store, entity |-> Head(j.page).entity, data |-> j.item]

SendRealtime(w) ==
  /\ job[w].pc = "realtime"
  /\ tasks' = tasks \cup {Task(job[w], "realtime")}
  /\ job' = [job EXCEPT ![w].pc = "series"]
  /\ UNCHANGED <<broker, clock, requests, asked, queue, entities, rows, faults, past>>

SendSeries(w) ==
  /\ job[w].pc = "series"
  /\ tasks' = tasks \cup {Task(job[w], "series")}
  /\ Advance(w, job[w])
  /\ UNCHANGED <<broker, clock, requests, asked, queue, entities, rows, faults>>

\* A page does not come, an entity cannot be read or a task cannot be sent: on
\* to the next type.
TypeFails(w) ==
  LET j == job[w] IN
  /\ j.pc \in {"fetch", "entity", "create", "realtime", "series"} /\ j.type # None
  /\ Fault
  /\ job' = [job EXCEPT ![w] = Without(j)]
  /\ Owe({j.type})
  /\ UNCHANGED <<broker, clock, requests, asked, queue, stores>>

\* The worker dies, or a call before the types fails: nobody repeats the job.
Dies(w) ==
  /\ job[w] # Idle
  /\ Fault
  /\ job' = [job EXCEPT ![w] = Idle]
  /\ Owe(job[w].types)
  /\ UNCHANGED <<broker, clock, requests, asked, queue, stores>>

\* save_realtime_job and save_timeseries_job, which are not repeated either.
RunTask(t) ==
  /\ tasks' = tasks \ {t}
  /\ rows' = [rows EXCEPT ![t.store][t.entity] = Newer(@, t.data)]
  /\ UNCHANGED <<broker, clock, requests, asked, queue, job, entities, faults, past>>

TaskFails(t) ==
  /\ Fault
  /\ tasks' = tasks \ {t}
  /\ Owe({TypeOf[t.entity]})
  /\ UNCHANGED <<broker, clock, requests, asked, queue, job, entities, rows>>

Next ==
  \/ SomeChange
  \/ \E n \in queue : Notified(n)
  \/ \E r \in Requests : Request(r)
  \/ \E w \in Workers :
       \/ \E m \in requests : Start(w, m)
       \/ Discover(w) \/ ReadSubscription(w)
       \/ WriteSubscription(w) \/ WriteIgnored(w) \/ WriteUnanswered(w)
       \/ Fetch(w) \/ Finish(w) \/ Lookup(w) \/ Create(w)
       \/ SendRealtime(w) \/ SendSeries(w)
       \/ TypeFails(w) \/ Dies(w)
  \/ \E t \in tasks : RunTask(t) \/ TaskFails(t)

Spec == Init /\ [][Next]_vars

-----------------------------------------------------------------------------
(* Properties.                                                             *)

Quiet == queue = {} /\ tasks = {} /\ \A w \in Workers : job[w] = Idle

\* "Syncs FIWARE entities from the context broker into the Platform DB": what
\* was announced to the broker stays subscribed, and once nothing is left to
\* do, both stores have what the broker has of every entity of a subscribed
\* type, whether it was there before the subscription, came while its pages
\* were read or changed later.  A type to which something happened (a fault,
\* overlapping changes of the subscription, an entity created twice, an old
\* version stamped anew, a subscription by a job that is to fetch other types)
\* is excepted until a forced job has gone through it undisturbed: that one
\* makes it good.
SubscribedAreSynced ==
  /\ past.announced \ past.owed \subseteq subscribed
  /\ Quiet =>
       \A t \in subscribed \ past.owed : \A i \in DOMAIN order[t] : \A s \in Stores :
         rows[s][order[t][i]].version = known[order[t][i]].version

=============================================================================
