------------------------ MODULE EntitiesSync_proofs ------------------------
(***************************************************************************)
(* Proof that what the platform subscribes to is synchronised, for any     *)
(* jobs, types, entities, requests, pages and faults.                      *)
(*                                                                         *)
(* SyncSound: a job goes through types that are subscribed to or to which  *)
(* something happened; one that nothing disturbed, through types that stay *)
(* subscribed.                                                             *)
(* DataSound: a measure with observedAt is as new as its version; any      *)
(* other has been stamped by now.                                          *)
(* MainSound: an entity is settled when, of all that is in a store or on   *)
(* its way to it, the newest has the version of the broker.  An entity of  *)
(* a live type is settled, or a job still comes to it and will send it.    *)
(* With nothing left on its way the newest is the row itself.              *)
(***************************************************************************)
EXTENDS EntitiesSync, SequenceTheorems, TLAPS

\* Requests, notifications and jobs.
Wants ==
  [subscribe : SUBSET Types, discover : BOOLEAN, existing : BOOLEAN, create : BOOLEAN,
   filter : SUBSET Types]
Entry == [entity : Entities, data : Measure]
Busy ==
  [pc : {"discover", "read", "write", "fetch", "entity", "create", "realtime", "series"},
   r : Wants, old : SUBSET Types, subs : SUBSET Types, types : SUBSET Types,
   type : Types \cup {None}, offset : Nat, full : BOOLEAN, page : Seq(Entry),
   item : Measure]

OnPage(j) == j.pc \in {"entity", "create", "realtime", "series"}
InFetch(j) == j.pc = "fetch" \/ OnPage(j)

\* A job that has a page has something on it.
Jobs == {j \in Busy : OnPage(j) => j.page # <<>> /\ j.type # None}

\* The types of the variables.
SyncTyped ==
  /\ order \in [Types -> Seq(Entities)]
  /\ known \in [Entities -> Measure] /\ clock \in [Entities -> Nat]
  /\ subscribed \subseteq Types
  /\ \A m \in requests : m.r \in Wants
  /\ asked \in 0 .. MaxRequests
  /\ queue \subseteq Entry
  /\ job \in [Workers -> Jobs \cup {Idle}]
  /\ entities \subseteq Entities
  /\ tasks \subseteq [store : Stores, entity : Entities, data : Measure]
  /\ rows \in [Stores -> [Entities -> Measure]]
  /\ faults \in 0 .. MaxFaults
  /\ past \in [announced : SUBSET Types, owed : SUBSET Types, clean : SUBSET Workers]

\* What the type of a job says of it.
LEMMA JobFacts ==
  ASSUME EntitiesSyncAssumption, NEW j \in Jobs
  PROVE  /\ j # Idle /\ j.pc # "idle"
         /\ j \in Busy
         /\ j.r \in Wants /\ j.old \subseteq Types /\ j.subs \subseteq Types
         /\ j.types \subseteq Types /\ j.type \in Types \cup {None} /\ j.offset \in Nat
         /\ j.full \in BOOLEAN /\ j.page \in Seq(Entry) /\ j.item \in Measure
         /\ OnPage(j) => /\ j.page # <<>> /\ j.type \in Types
                         /\ Len(j.page) \in Nat \ {0}
                         /\ Head(j.page) = j.page[1] /\ Head(j.page) \in Entry
                         /\ Tail(j.page) \in Seq(Entry)
                         /\ Len(Tail(j.page)) = Len(j.page) - 1
                         /\ \A k \in 1 .. Len(Tail(j.page)) : Tail(j.page)[k] = j.page[k + 1]
<1>1. j \in Busy  BY DEF Jobs
<1>2. /\ j # Idle /\ j.pc # "idle"
      /\ j.r \in Wants /\ j.old \subseteq Types /\ j.subs \subseteq Types
      /\ j.types \subseteq Types /\ j.type \in Types \cup {None} /\ j.offset \in Nat
      /\ j.full \in BOOLEAN /\ j.page \in Seq(Entry) /\ j.item \in Measure
  BY <1>1 DEF Busy, Idle
<1>3. ASSUME OnPage(j)
      PROVE  /\ j.page # <<>> /\ j.type \in Types
             /\ Len(j.page) \in Nat \ {0}
             /\ Head(j.page) = j.page[1] /\ Head(j.page) \in Entry
             /\ Tail(j.page) \in Seq(Entry)
             /\ Len(Tail(j.page)) = Len(j.page) - 1
             /\ \A k \in 1 .. Len(Tail(j.page)) : Tail(j.page)[k] = j.page[k + 1]
  <2>1. j.page # <<>> /\ j.type \in Types  BY <1>2, <1>3 DEF Jobs
  <2>2. Len(j.page) \in Nat \ {0} /\ Head(j.page) = j.page[1]
    BY <1>2, <2>1, EmptySeq, LenProperties
  <2> QED BY <1>2, <2>1, <2>2, HeadTailProperties
<1> QED BY <1>1, <1>2, <1>3

\* A job that is at work has that type.
LEMMA JobIs ==
  ASSUME EntitiesSyncAssumption, SyncTyped, NEW w \in Workers, job[w].pc # "idle"
  PROVE  job[w] \in Jobs
BY DEF SyncTyped, Idle

\* So has one that is not idle.
LEMMA JobIsNot ==
  ASSUME EntitiesSyncAssumption, SyncTyped, NEW w \in Workers, job[w] # Idle
  PROVE  job[w] \in Jobs
BY DEF SyncTyped, Idle

\* The requests of the program have their type.
LEMMA RequestsTyped ==
  ASSUME EntitiesSyncAssumption
  PROVE  Requests \subseteq Wants
<1>1. ASSUME NEW types \in Provisioned  PROVE Provision(types) \in Wants
  <2>1. types \subseteq Types  BY DEF EntitiesSyncAssumption
  <2> QED BY <2>1 DEF Provision, Wants
<1>2. ASSUME NEW a \in AutoSyncs  PROVE AutoSync(a[1], a[2]) \in Wants
  <2>1. a \in BOOLEAN \X SUBSET Types  BY DEF EntitiesSyncAssumption
  <2>2. a[1] \in BOOLEAN /\ a[2] \subseteq Types  BY <2>1
  <2> QED BY <2>2 DEF AutoSync, Wants
<1> QED BY <1>1, <1>2 DEF Requests

\* The types hold at the start.
LEMMA SyncInitTyped ==
  ASSUME EntitiesSyncAssumption, Init
  PROVE  SyncTyped
<1>1. <<>> \in Seq(Entities)  BY EmptySeq
<1>2. Absent \in Measure  BY DEF Absent, Measure
<1> QED BY <1>1, <1>2 DEF Init, SyncTyped, EntitiesSyncAssumption

\* What a job becomes without the type it fetches.
LEMMA WithoutIs ==
  ASSUME EntitiesSyncAssumption, NEW j \in Busy
  PROVE  /\ Without(j) \in Jobs
         /\ Without(j).pc = "fetch" /\ Without(j).types = j.types \ {j.type}
         /\ Without(j).type = None /\ Without(j).offset = 0 /\ Without(j).page = <<>>
         /\ Without(j).r = j.r /\ Without(j).old = j.old
<1>1. <<>> \in Seq(Entry) /\ Absent \in Measure  BY EmptySeq DEF Absent, Measure
<1> QED BY <1>1 DEF Without, Jobs, Busy, OnPage

\* And what it becomes before it fetches any.
LEMMA FetchingIs ==
  ASSUME EntitiesSyncAssumption, NEW j \in Busy, ~OnPage(j)
  PROVE  /\ Fetching(j) \in Jobs
         /\ Fetching(j).pc = "fetch" /\ Fetching(j).types = ToSync(j)
         /\ Fetching(j).type = j.type /\ Fetching(j).offset = j.offset
         /\ Fetching(j).page = j.page
         /\ Fetching(j).r = j.r /\ Fetching(j).old = j.old
         /\ ToSync(j) \subseteq j.old \cup NewTypes(j)
         /\ NewTypes(j) \subseteq j.r.subscribe
<1>1. ToSync(j) \subseteq Types  BY DEF Busy, Wants, ToSync, NewTypes
<1>2. ToSync(j) \subseteq j.old \cup NewTypes(j) /\ NewTypes(j) \subseteq j.r.subscribe
  BY DEF ToSync, NewTypes
<1> QED BY <1>1, <1>2 DEF Fetching, Jobs, Busy, OnPage

\* A job that subscribes, or that has nothing to subscribe to.
LEMMA SubscribingIs ==
  ASSUME EntitiesSyncAssumption, NEW j \in Busy, ~OnPage(j)
  PROVE  /\ Subscribing(j) \in Jobs
         /\ \/ /\ j.r.create /\ Subscribing(j).pc = "read"
               /\ Subscribing(j) = [j EXCEPT !.pc = "read"]
            \/ /\ ~j.r.create \/ j.r.subscribe = {}
               /\ Subscribing(j) = Fetching(j)
<1>1. CASE j.r.create /\ j.r.subscribe # {}
  <2>1. [j EXCEPT !.pc = "read"] \in Jobs /\ [j EXCEPT !.pc = "read"].pc = "read"
    BY DEF Jobs, Busy, OnPage
  <2> QED BY <1>1, <2>1 DEF Subscribing
<1>2. CASE ~(j.r.create /\ j.r.subscribe # {})
  <2>1. Subscribing(j) = Fetching(j)  BY <1>2 DEF Subscribing
  <2>2. j.r.create \in BOOLEAN  BY DEF Busy, Wants
  <2> QED BY <1>2, <2>1, <2>2, FetchingIs
<1> QED BY <1>1, <1>2

\* An entity done: the job goes on with the type or without it.
LEMMA AdvanceIs ==
  ASSUME EntitiesSyncAssumption, SyncTyped, NEW w \in Workers, OnPage(job[w]),
         Advance(w, job[w])
  PROVE  LET j == job[w] IN
         \E k \in Jobs :
           /\ job' = [job EXCEPT ![w] = k]
           /\ k.r = j.r /\ k.old = j.old
           /\ \/ /\ k = Without(j) /\ Done(w, j.type)
                 /\ Len(j.page) = 1 /\ j.full = FALSE
              \/ /\ UNCHANGED past
                 /\ k.types = j.types /\ k.type = j.type /\ k.offset = j.offset
                 /\ k.full = j.full /\ k.page = Tail(j.page)
                 /\ \/ k.pc = "entity"
                    \/ k.pc = "fetch" /\ Tail(j.page) = <<>> /\ j.full = TRUE
<1> DEFINE j == job[w]
           more == [j EXCEPT !.page = Tail(j.page), !.item = Absent,
                             !.pc = IF Tail(j.page) = <<>> THEN "fetch" ELSE "entity"]
<1>1. j \in Jobs  BY JobIs DEF OnPage
<1>2. j \in Busy /\ Tail(j.page) \in Seq(Entry) /\ j.full \in BOOLEAN /\ j.type # None
      /\ Len(Tail(j.page)) = Len(j.page) - 1
  BY <1>1, JobFacts DEF Jobs
<1>3. CASE LastOfType(j)
  <2>1. job' = [job EXCEPT ![w] = Without(j)] /\ Done(w, j.type)  BY <1>3 DEF Advance
  <2>2. Len(j.page) = 1 /\ j.full = FALSE
    <3>1. Tail(j.page) = <<>> /\ ~j.full  BY <1>3 DEF LastOfType
    <3>2. Len(Tail(j.page)) = 0  BY <3>1, EmptySeq
    <3> QED BY <1>1, <1>2, <3>1, <3>2, JobFacts
  <2> QED BY <1>2, <2>1, <2>2, WithoutIs
<1>4. CASE ~LastOfType(j)
  <2>1. job' = [job EXCEPT ![w] = more] /\ UNCHANGED past  BY <1>4 DEF Advance
  <2>2. Absent \in Measure  BY DEF Absent, Measure
  <2>3. more \in Jobs  BY <1>2, <2>2 DEF Jobs, Busy, OnPage
  <2>4. /\ more.types = j.types /\ more.type = j.type /\ more.offset = j.offset
        /\ more.full = j.full /\ more.page = Tail(j.page)
        /\ more.r = j.r /\ more.old = j.old
        /\ more.pc = IF Tail(j.page) = <<>> THEN "fetch" ELSE "entity"
    BY <1>2 DEF Busy
  <2>5. Tail(j.page) = <<>> => j.full = TRUE  BY <1>2, <1>4 DEF LastOfType
  <2> QED BY <2>1, <2>3, <2>4, <2>5
<1> QED BY <1>3, <1>4

-----------------------------------------------------------------------------
(* What the actions do to a job and to the history.                        *)

\* What it does to the history that something happens to types.
LEMMA OweIs ==
  ASSUME SyncTyped, NEW T \in SUBSET Types, Owe(T)
  PROVE  /\ past' \in [announced : SUBSET Types, owed : SUBSET Types, clean : SUBSET Workers]
         /\ past'.announced = past.announced /\ past'.owed = past.owed \cup T
         /\ past'.clean = IF T = {} THEN past.clean ELSE {}
BY DEF Owe, SyncTyped

\* And that a job ends with a type.
LEMMA DoneIs ==
  ASSUME SyncTyped, NEW w \in Workers, NEW t \in Types, Done(w, t)
  PROVE  /\ past' \in [announced : SUBSET Types, owed : SUBSET Types, clean : SUBSET Workers]
         /\ past'.announced = past.announced /\ past'.clean = past.clean
         /\ \/ past'.owed = past.owed
            \/ past'.owed = past.owed \ {t} /\ job[w].r.existing /\ w \in past.clean
<1>1. CASE job[w].r.existing /\ w \in past.clean
  <2>1. past' = [past EXCEPT !.owed = past.owed \ {t}]  BY <1>1 DEF Done
  <2> QED BY <1>1, <2>1 DEF SyncTyped
<1>2. CASE ~(job[w].r.existing /\ w \in past.clean)
  BY <1>2 DEF Done, SyncTyped
<1> QED BY <1>1, <1>2

\* The first step of a job, its two cases.
LEMMA StartIs ==
  ASSUME EntitiesSyncAssumption, SyncTyped, NEW w \in Workers, NEW m \in requests, Start(w, m)
  PROVE  \E k \in Jobs :
           /\ job' = [job EXCEPT ![w] = k]
           /\ k.pc \in {"discover", "read", "fetch"}
           /\ k.old = subscribed /\ k.type = None /\ k.offset = 0 /\ k.page = <<>>
           /\ k.pc = "read" => k.r.create
           /\ k.pc = "fetch" => k.types \subseteq subscribed
<1> DEFINE j == [pc |-> "discover", r |-> m.r, old |-> subscribed, subs |-> {}, types |-> {},
                 type |-> None, offset |-> 0, full |-> FALSE, page |-> <<>>, item |-> Absent]
<1>1. <<>> \in Seq(Entry) /\ Absent \in Measure /\ m.r \in Wants /\ subscribed \subseteq Types
  BY EmptySeq DEF Absent, Measure, SyncTyped
<1>2. j \in Busy /\ j \in Jobs /\ ~OnPage(j)  BY <1>1 DEF Busy, Jobs, OnPage
<1>3. job' = [job EXCEPT ![w] = IF m.r.discover THEN j ELSE Subscribing(j)]  BY DEF Start
<1>4. CASE m.r.discover
  BY <1>2, <1>3, <1>4
<1>5. CASE ~m.r.discover
  <2>1. job' = [job EXCEPT ![w] = Subscribing(j)]  BY <1>3, <1>5
  <2>2. Subscribing(j) \in Jobs  BY <1>2, SubscribingIs
  <2>3. CASE j.r.create /\ Subscribing(j) = [j EXCEPT !.pc = "read"]
    BY <2>1, <2>2, <2>3
  <2>4. CASE (~j.r.create \/ j.r.subscribe = {}) /\ Subscribing(j) = Fetching(j)
    <3>1. NewTypes(j) = {}  BY <2>4 DEF NewTypes
    <3> QED BY <1>2, <2>1, <2>2, <2>4, <3>1, FetchingIs
  <2> QED BY <1>2, <2>3, <2>4, SubscribingIs
<1> QED BY <1>4, <1>5

\* A job that discovered asks for types of the model.
LEMMA DiscoverIs ==
  ASSUME EntitiesSyncAssumption, SyncTyped, NEW w \in Workers, Discover(w)
  PROVE  LET j == job[w] IN
         \E k \in Jobs :
           /\ job' = [job EXCEPT ![w] = k]
           /\ k.pc \in {"read", "fetch"}
           /\ k.old = j.old /\ k.type = j.type /\ k.offset = j.offset /\ k.page = j.page
           /\ k.pc = "read" => k.r.create
           /\ k.pc = "fetch" => k.types \subseteq j.old
<1> DEFINE found == {t \in Types : order[t] # <<>>}
           j == [job[w] EXCEPT !.r.subscribe = @ \cup found]
<1>1. job[w] \in Jobs /\ job[w] \in Busy /\ job[w].r \in Wants
  BY JobIs, JobFacts DEF Discover
<1>2. [job[w].r EXCEPT !.subscribe = @ \cup found] \in Wants  BY <1>1 DEF Wants
<1>3. j = [job[w] EXCEPT !.r = [job[w].r EXCEPT !.subscribe = @ \cup found]]
  BY <1>1 DEF Busy
<1>4. j \in Busy /\ j.pc = "discover" /\ j.old = job[w].old /\ j.type = job[w].type
      /\ j.offset = job[w].offset /\ j.page = job[w].page
  BY <1>1, <1>2, <1>3 DEF Busy, Discover
<1>5. ~OnPage(j)  BY <1>4 DEF OnPage
<1>6. job' = [job EXCEPT ![w] = Subscribing(j)]  BY DEF Discover
<1>7. Subscribing(j) \in Jobs  BY <1>4, <1>5, SubscribingIs
<1>8. CASE j.r.create /\ Subscribing(j) = [j EXCEPT !.pc = "read"]
  BY <1>4, <1>6, <1>7, <1>8 DEF Busy
<1>9. CASE (~j.r.create \/ j.r.subscribe = {}) /\ Subscribing(j) = Fetching(j)
  <2>1. NewTypes(j) = {}  BY <1>9 DEF NewTypes
  <2>2. /\ Fetching(j).pc = "fetch" /\ Fetching(j).types = ToSync(j)
        /\ Fetching(j).type = j.type /\ Fetching(j).offset = j.offset
        /\ Fetching(j).page = j.page /\ Fetching(j).old = j.old
        /\ ToSync(j) \subseteq j.old \cup NewTypes(j)
    BY <1>4, <1>5, FetchingIs
  <2>3. Fetching(j).types \subseteq job[w].old  BY <1>4, <2>1, <2>2
  <2> QED BY <1>4, <1>6, <1>7, <1>9, <2>2, <2>3
<1> QED BY <1>4, <1>5, <1>8, <1>9, SubscribingIs

\* The read of the subscription.
LEMMA ReadIs ==
  ASSUME EntitiesSyncAssumption, SyncTyped, NEW w \in Workers, ReadSubscription(w)
  PROVE  LET j == job[w] IN
         \E k \in Jobs :
           /\ job' = [job EXCEPT ![w] = k]
           /\ k.pc = "write" /\ k.subs = subscribed
           /\ k.old = j.old /\ k.type = j.type /\ k.offset = j.offset /\ k.page = j.page
           /\ k.r = j.r
<1> DEFINE k == [job[w] EXCEPT !.pc = "write", !.subs = subscribed]
<1>1. job[w] \in Jobs /\ job[w] \in Busy  BY JobIs, JobFacts DEF ReadSubscription
<1>2. k \in Busy /\ k \in Jobs  BY <1>1 DEF Busy, Jobs, OnPage, SyncTyped
<1>3. job' = [job EXCEPT ![w] = k]  BY <1>1 DEF ReadSubscription, SyncTyped
<1>4. /\ k.pc = "write" /\ k.subs = subscribed /\ k.r = job[w].r
      /\ k.old = job[w].old /\ k.type = job[w].type /\ k.offset = job[w].offset
      /\ k.page = job[w].page
  BY <1>1 DEF Busy
<1> QED BY <1>2, <1>3, <1>4

\* The subscription as a job writes it.
LEMMA WrittenIs ==
  ASSUME EntitiesSyncAssumption, SyncTyped, NEW j \in Busy
  PROVE  /\ Written(j) \subseteq Types
         /\ Written(j) \subseteq subscribed \cup j.subs \cup j.r.subscribe
BY DEF Written, SyncTyped, Busy, Wants

\* The write of the subscription, and what it excepts.
LEMMA WriteIs ==
  ASSUME EntitiesSyncAssumption, SyncTyped, NEW w \in Workers, WriteSubscription(w)
  PROVE  LET j == job[w]  k == Fetching(job[w]) IN
         /\ k \in Jobs /\ job' = [job EXCEPT ![w] = k]
         /\ k.pc = "fetch" /\ k.types = ToSync(j)
         /\ k.type = j.type /\ k.offset = j.offset /\ k.page = j.page
         /\ k.r = j.r /\ k.old = j.old
         /\ ToSync(j) \subseteq j.old \cup NewTypes(j) /\ NewTypes(j) \subseteq j.r.subscribe
         /\ j.r.subscribe \subseteq Types
         /\ subscribed' = Written(j)
         /\ past' \in [announced : SUBSET Types, owed : SUBSET Types, clean : SUBSET Workers]
         /\ past'.announced = past.announced \cup j.r.subscribe
         /\ past'.owed = past.owed \cup ((subscribed \cup j.r.subscribe) \ Written(j))
                                   \cup (NewTypes(j) \ ToSync(j))
         /\ past'.clean \subseteq past.clean
         /\ past'.clean # {} => subscribed \cup j.r.subscribe \subseteq Written(j)
<1> DEFINE j == job[w]
           owed == ((subscribed \cup j.r.subscribe) \ Written(j)) \cup (NewTypes(j) \ ToSync(j))
<1>1. j \in Busy /\ ~OnPage(j) /\ j.r.subscribe \subseteq Types /\ NewTypes(j) \subseteq Types
  <2>1. j \in Busy /\ ~OnPage(j) /\ j.r \in Wants
    BY JobIs, JobFacts DEF WriteSubscription, OnPage
  <2> QED BY <2>1 DEF Wants, NewTypes
<1>2. /\ past' = [past EXCEPT !.announced = @ \cup j.r.subscribe, !.owed = @ \cup owed,
                              !.clean = IF owed = {} THEN @ ELSE {}]
      /\ job' = [job EXCEPT ![w] = Fetching(j)] /\ subscribed' = Written(j)
  BY DEF WriteSubscription
<1>3. owed \subseteq Types  BY <1>1 DEF SyncTyped
<1>4. /\ past' \in [announced : SUBSET Types, owed : SUBSET Types, clean : SUBSET Workers]
      /\ past'.announced = past.announced \cup j.r.subscribe
      /\ past'.owed = past.owed \cup owed
      /\ past'.clean = IF owed = {} THEN past.clean ELSE {}
  <2> HIDE DEF owed
  <2> QED BY <1>1, <1>2, <1>3 DEF SyncTyped
<1>5. /\ Fetching(j) \in Jobs /\ Fetching(j).pc = "fetch" /\ Fetching(j).types = ToSync(j)
      /\ Fetching(j).type = j.type /\ Fetching(j).offset = j.offset
      /\ Fetching(j).page = j.page /\ Fetching(j).r = j.r /\ Fetching(j).old = j.old
      /\ ToSync(j) \subseteq j.old \cup NewTypes(j) /\ NewTypes(j) \subseteq j.r.subscribe
  BY <1>1, FetchingIs
<1> QED BY <1>1, <1>2, <1>4, <1>5

\* The write that the broker refuses.
LEMMA IgnoredIs ==
  ASSUME EntitiesSyncAssumption, SyncTyped, NEW w \in Workers, WriteIgnored(w)
  PROVE  LET j == job[w] IN
         /\ Owe(j.r.subscribe) /\ j.r.subscribe \in SUBSET Types
         /\ \E k \in Jobs :
              /\ job' = [job EXCEPT ![w] = k]
              /\ k.pc = "fetch" /\ k.types \subseteq j.old \cup j.r.subscribe
              /\ k.type = j.type /\ k.offset = j.offset /\ k.page = j.page
              /\ k.r = j.r /\ k.old = j.old
<1> DEFINE j == job[w]
<1>1. j \in Busy /\ ~OnPage(j) /\ j.r \in Wants
  BY JobIs, JobFacts DEF WriteIgnored, OnPage
<1>2. Owe(j.r.subscribe) /\ job' = [job EXCEPT ![w] = Fetching(j)]  BY DEF WriteIgnored
<1>3. j.r.subscribe \in SUBSET Types  BY <1>1 DEF Wants
<1> HIDE DEF j
<1> QED BY <1>1, <1>2, <1>3, FetchingIs DEF j

\* The write that is not answered.
LEMMA UnansweredIs ==
  ASSUME EntitiesSyncAssumption, SyncTyped, NEW w \in Workers, WriteUnanswered(w)
  PROVE  LET j == job[w] IN
         /\ job' = [job EXCEPT ![w] = Idle]
         /\ subscribed' = Written(j) /\ Written(j) \subseteq Types
         /\ Written(j) \subseteq subscribed \cup j.subs \cup j.r.subscribe
         /\ Owe(subscribed \cup j.r.subscribe) /\ subscribed \cup j.r.subscribe \in SUBSET Types
<1>1. job[w] \in Busy /\ job[w].r \in Wants
  BY JobIs, JobFacts DEF WriteUnanswered
<1>2. subscribed \cup job[w].r.subscribe \in SUBSET Types  BY <1>1 DEF Wants, SyncTyped
<1>3. /\ job' = [job EXCEPT ![w] = Idle] /\ subscribed' = Written(job[w])
      /\ Owe(subscribed \cup job[w].r.subscribe)
  BY DEF WriteUnanswered
<1> QED BY <1>1, <1>2, <1>3, WrittenIs

\* The next page of a type, or that there is none.
LEMMA FetchIs ==
  ASSUME EntitiesSyncAssumption, SyncTyped, NEW w \in Workers, Fetch(w),
         job[w].type # None => job[w].type \in job[w].types
  PROVE  LET j == job[w] IN
         \E type \in Types : \E k \in Jobs :
           /\ type \in j.types /\ (j.type = type \/ j.type = None)
           /\ job' = [job EXCEPT ![w] = k] /\ k.r = j.r /\ k.old = j.old
           /\ \/ /\ Len(order[type]) <= j.offset
                 /\ Done(w, type)
                 /\ k.pc = "fetch" /\ k.types = j.types \ {type}
                 /\ k.type = None /\ k.offset = 0 /\ k.page = <<>>
              \/ /\ UNCHANGED past
                 /\ k.pc = "entity" /\ k.types = j.types /\ k.type = type
                 /\ k.offset = j.offset + PageLimit
                 /\ Len(k.page) \in Nat \ {0}
                 /\ j.offset + Len(k.page) <= Len(order[type])
                 /\ \A i \in 1 .. Len(k.page) :
                      k.page[i] = [entity |-> order[type][j.offset + i],
                                   data |-> known[order[type][j.offset + i]]]
                 /\ \/ k.full = TRUE /\ Len(k.page) = PageLimit
                    \/ j.offset + Len(k.page) = Len(order[type])
<1> DEFINE j == job[w]
<1>1. j.pc = "fetch" /\ j \in Jobs /\ j \in Busy  BY JobIs, JobFacts DEF Fetch
<1>2. PICK type \in IF j.type = None THEN j.types ELSE {j.type} :
        LET all == order[type]
            last == IF Len(all) < j.offset + PageLimit THEN Len(all) ELSE j.offset + PageLimit
            page == [i \in 1 .. last - j.offset |->
                       [entity |-> all[j.offset + i], data |-> known[all[j.offset + i]]]]
            k == [j EXCEPT !.type = type, !.page = page, !.offset = @ + PageLimit,
                           !.full = Len(page) = PageLimit]
        IN  IF last <= j.offset
            THEN job' = [job EXCEPT ![w] = Without(k)] /\ Done(w, type)
            ELSE job' = [job EXCEPT ![w] = [k EXCEPT !.pc = "entity"]] /\ UNCHANGED past
  BY DEF Fetch
<1> DEFINE all == order[type]
           last == IF Len(all) < j.offset + PageLimit THEN Len(all) ELSE j.offset + PageLimit
           page == [i \in 1 .. last - j.offset |->
                      [entity |-> all[j.offset + i], data |-> known[all[j.offset + i]]]]
           full == Len(page) = PageLimit
           k == [j EXCEPT !.type = type, !.page = page, !.offset = @ + PageLimit,
                          !.full = full]
<1>3. j.types \subseteq Types /\ j.offset \in Nat /\ j.type \in Types \cup {None}
  BY <1>1 DEF Busy
<1>4. type \in j.types /\ type \in Types /\ (j.type = type \/ j.type = None)
  BY <1>2, <1>3
<1>5. all \in Seq(Entities) /\ Len(all) \in Nat /\ PageLimit \in Nat \ {0}
  BY <1>4 DEF SyncTyped, EntitiesSyncAssumption
<1>6. last \in Nat /\ last <= Len(all)  BY <1>3, <1>5
<1>7. CASE last <= j.offset
  <2>1. page = <<>> /\ page \in Seq(Entry) /\ Len(page) = 0
    <3> HIDE DEF last
    <3>1. 1 .. last - j.offset = {}  BY <1>3, <1>6, <1>7
    <3>2. page = <<>>  BY <3>1
    <3> QED BY <3>2, EmptySeq
  <2>2. k \in Busy
    <3>1. full \in BOOLEAN  OBVIOUS
    <3> HIDE DEF page, full
    <3>2. j.offset + PageLimit \in Nat  BY <1>3, <1>5
    <3>3. type \in Types \cup {None}  BY <1>4
    <3> HIDE DEF j
    <3> QED BY <1>1, <2>1, <3>1, <3>2, <3>3 DEF Busy
  <2>3. k.types = j.types /\ k.type = type /\ k.r = j.r /\ k.old = j.old
    BY <1>1 DEF Busy
  <2>4. job' = [job EXCEPT ![w] = Without(k)] /\ Done(w, type)
    BY <1>2, <1>7
  <2>5. Len(order[type]) <= j.offset  BY <1>3, <1>5, <1>7
  <2> HIDE DEF k, last, page
  <2> QED BY <1>4, <2>2, <2>3, <2>4, <2>5, WithoutIs
<1>8. CASE ~(last <= j.offset)
  <2> DEFINE n == last - j.offset
             e == [k EXCEPT !.pc = "entity"]
  <2>1. n \in Nat \ {0} /\ j.offset + n = last  BY <1>3, <1>6, <1>8
  <2>2. ASSUME NEW i \in 1 .. n
        PROVE  [entity |-> all[j.offset + i], data |-> known[all[j.offset + i]]] \in Entry
    <3>1. j.offset + i \in 1 .. Len(all)
      <4> HIDE DEF last
      <4> QED BY <1>3, <1>5, <1>6, <2>1
    <3>2. all[j.offset + i] \in Entities  BY <1>5, <3>1, ElementOfSeq
    <3> QED BY <3>2 DEF Entry, SyncTyped
  <2>3. page \in [1 .. n -> Entry]  BY <2>2
  <2>4. page \in Seq(Entry) /\ Len(page) = n
    <3> HIDE DEF page, n
    <3>1. page \in Seq(Entry)  BY <2>1, <2>3
    <3>2. DOMAIN page = 1 .. n  BY <2>3
    <3> QED BY <2>1, <3>1, <3>2, LenProperties
  <2>5. e \in Jobs
    <3>1. page # <<>>
      <4> HIDE DEF page, n
      <4> QED BY <2>1, <2>4, EmptySeq
    <3>5. full \in BOOLEAN  OBVIOUS
    <3> HIDE DEF page, n, full
    <3>2. k \in Busy
      <4>1. j.offset + PageLimit \in Nat  BY <1>3, <1>5
      <4>2. type \in Types \cup {None}  BY <1>4
      <4> HIDE DEF j
      <4> QED BY <1>1, <2>4, <3>5, <4>1, <4>2 DEF Busy
    <3>3. k.page = page /\ k.type = type  BY <1>1 DEF Busy
    <3> HIDE DEF k
    <3>4. e \in Busy /\ e.page = page /\ e.type = type  BY <3>2, <3>3 DEF Busy
    <3> QED BY <1>4, <3>1, <3>4 DEF Jobs, EntitiesSyncAssumption
  <2>6. /\ e.pc = "entity" /\ e.types = j.types /\ e.type = type
        /\ e.offset = j.offset + PageLimit /\ e.page = page
        /\ e.full = (Len(page) = PageLimit)
        /\ e.r = j.r /\ e.old = j.old
    <3> HIDE DEF page, n
    <3> QED BY <1>1 DEF Busy
  <2>7. job' = [job EXCEPT ![w] = e] /\ UNCHANGED past  BY <1>2, <1>8
  <2>8. \A i \in 1 .. Len(page) :
          page[i] = [entity |-> all[j.offset + i], data |-> known[all[j.offset + i]]]
    BY <2>4
  <2>9. Len(page) = PageLimit \/ j.offset + Len(page) = Len(all)
    <3> HIDE DEF page
    <3> QED BY <1>3, <1>5, <2>4
  <2>10. Len(page) \in Nat \ {0} /\ j.offset + Len(page) <= Len(all)
    <3> HIDE DEF page, last
    <3> QED BY <1>3, <1>5, <1>6, <2>1, <2>4
  <2> HIDE DEF e, page, last, n
  <2> QED BY <1>4, <2>5, <2>6, <2>7, <2>8, <2>9, <2>10
<1> QED BY <1>7, <1>8

\* An entity looked up and not skipped: the job has its item.
LEMMA LookupIs ==
  ASSUME EntitiesSyncAssumption, SyncTyped, NEW w \in Workers, Lookup(w),
         ~Skipped(job[w], Head(job[w].page).entity)
  PROVE  LET j == job[w]  e == job[w].page[1].entity  data == job[w].page[1].data IN
         /\ e \in Entities /\ data \in Measure /\ clock' \in [Entities -> Nat]
         /\ clock' = IF e \in Stamped THEN clock ELSE [clock EXCEPT ![e] = clock[e] + 1]
         /\ Owe(IF e \notin Stamped /\ data # known[e] THEN {j.type} ELSE {})
         /\ j.type \in Types
         /\ \E k \in Jobs :
              /\ job' = [job EXCEPT ![w] = k]
              /\ k.pc = IF e \in entities THEN "realtime" ELSE "create"
              /\ k.r = j.r /\ k.old = j.old /\ k.types = j.types /\ k.type = j.type
              /\ k.offset = j.offset /\ k.full = j.full /\ k.page = j.page
              /\ k.item.version = data.version
              /\ k.item.at = IF e \in Stamped THEN data.at ELSE clock[e] + 1
<1> DEFINE j == job[w]
           e == Head(j.page).entity
           data == Head(j.page).data
           item == IF e \in Stamped THEN data ELSE [data EXCEPT !.at = clock[e] + 1]
           pc == IF e \in entities THEN "realtime" ELSE "create"
           k == [j EXCEPT !.item = item, !.pc = pc]
<1>1. j \in Jobs /\ j \in Busy /\ j.pc = "entity" /\ OnPage(j)
  BY JobIs, JobFacts DEF Lookup, OnPage
<1>2. /\ Head(j.page) = j.page[1] /\ Head(j.page) \in Entry /\ j.type \in Types
      /\ j.page # <<>> /\ j.type # None
  BY <1>1, JobFacts DEF Jobs
<1>3. e \in Entities /\ data \in Measure /\ clock[e] \in Nat
  BY <1>2 DEF Entry, SyncTyped
<1>4. item \in Measure /\ item.version = data.version
      /\ item.at = IF e \in Stamped THEN data.at ELSE clock[e] + 1
  <2> HIDE DEF e, data
  <2> QED BY <1>3 DEF Measure
<1>5. pc \in {"realtime", "create"}  OBVIOUS
<1>6. /\ k \in Jobs /\ k.pc = pc /\ k.item = item
      /\ k.r = j.r /\ k.old = j.old /\ k.types = j.types /\ k.type = j.type
      /\ k.offset = j.offset /\ k.full = j.full /\ k.page = j.page
  <2> HIDE DEF j, item, pc
  <2> QED BY <1>1, <1>2, <1>4, <1>5 DEF Busy, Jobs
<1>7. job' = [job EXCEPT ![w].item = item, ![w].pc = pc]  BY DEF Lookup
<1>8. job' = [job EXCEPT ![w] = k]
  <2> HIDE DEF item, pc
  <2> QED BY <1>7 DEF SyncTyped
<1>9. /\ clock' = IF e \in Stamped THEN clock ELSE [clock EXCEPT ![e] = clock[e] + 1]
      /\ Owe(IF e \notin Stamped /\ data # known[e] THEN {j.type} ELSE {})
  BY DEF Lookup
<1>10. clock' \in [Entities -> Nat]
  <2> HIDE DEF e
  <2> QED BY <1>3, <1>9 DEF SyncTyped
<1>11. j.page[1].entity = e /\ j.page[1].data = data  BY <1>2
<1> HIDE DEF k, item
<1> QED BY <1>2, <1>3, <1>4, <1>6, <1>8, <1>9, <1>10, <1>11

\* The creation of an entity.
LEMMA CreateIs ==
  ASSUME EntitiesSyncAssumption, SyncTyped, NEW w \in Workers, Create(w)
  PROVE  LET j == job[w]  e == job[w].page[1].entity IN
         /\ e \in Entities /\ entities' = entities \cup {e}
         /\ \/ /\ job' = [job EXCEPT ![w] = Idle]
               /\ Owe(j.types) /\ j.types \in SUBSET Types
               /\ entities' = entities
            \/ /\ UNCHANGED past
               /\ \E k \in Jobs :
                    /\ job' = [job EXCEPT ![w] = k] /\ k.pc = "realtime"
                    /\ k.r = j.r /\ k.old = j.old /\ k.types = j.types /\ k.type = j.type
                    /\ k.offset = j.offset /\ k.full = j.full /\ k.page = j.page
                    /\ k.item = j.item
<1> DEFINE j == job[w]
           e == Head(j.page).entity
           k == [j EXCEPT !.pc = "realtime"]
<1>1. j \in Jobs /\ j \in Busy /\ j.pc = "create" /\ OnPage(j)
  BY JobIs, JobFacts DEF Create, OnPage
<1>2. /\ Head(j.page) = j.page[1] /\ Head(j.page) \in Entry
      /\ j.page # <<>> /\ j.type # None /\ j.types \subseteq Types
  BY <1>1, JobFacts DEF Jobs
<1>3. e \in Entities /\ e = j.page[1].entity  BY <1>2 DEF Entry
<1>4. /\ k \in Jobs /\ k.pc = "realtime"
      /\ k.r = j.r /\ k.old = j.old /\ k.types = j.types /\ k.type = j.type
      /\ k.offset = j.offset /\ k.full = j.full /\ k.page = j.page /\ k.item = j.item
  <2> HIDE DEF j
  <2> QED BY <1>1, <1>2 DEF Busy, Jobs
<1>5. entities' = entities \cup {e}  BY DEF Create
<1>6. CASE e \in entities
  <2>1. job' = [job EXCEPT ![w] = Idle] /\ Owe(j.types)  BY <1>6 DEF Create
  <2>2. entities' = entities  BY <1>5, <1>6
  <2> QED BY <1>2, <1>3, <1>5, <2>1, <2>2
<1>7. CASE e \notin entities
  <2>1. job' = [job EXCEPT ![w].pc = "realtime"] /\ UNCHANGED past  BY <1>7 DEF Create
  <2>2. job' = [job EXCEPT ![w] = k]  BY <2>1 DEF SyncTyped
  <2> HIDE DEF k
  <2> QED BY <1>3, <1>4, <1>5, <2>1, <2>2
<1> QED BY <1>6, <1>7

\* What a task that runs does to the rows.
LEMMA TaskIs ==
  ASSUME EntitiesSyncAssumption, SyncTyped, NEW w \in Workers, OnPage(job[w]),
         NEW s \in Stores
  PROVE  /\ Task(job[w], s) \in [store : Stores, entity : Entities, data : Measure]
         /\ Task(job[w], s).store = s /\ Task(job[w], s).data = job[w].item
         /\ Task(job[w], s).entity = job[w].page[1].entity
<1>1. job[w] \in Jobs  BY JobIs DEF OnPage
<1>2. /\ Head(job[w].page) = job[w].page[1] /\ Head(job[w].page) \in Entry
      /\ job[w].item \in Measure
  BY <1>1, JobFacts
<1> QED BY <1>2 DEF Task, Entry

\* The first of the two calls of a job.
LEMMA SendRealtimeIs ==
  ASSUME EntitiesSyncAssumption, SyncTyped, NEW w \in Workers, SendRealtime(w)
  PROVE  LET j == job[w] IN
         \E k \in Jobs :
           /\ job' = [job EXCEPT ![w] = k] /\ k.pc = "series"
           /\ k.r = j.r /\ k.old = j.old /\ k.types = j.types /\ k.type = j.type
           /\ k.offset = j.offset /\ k.full = j.full /\ k.page = j.page
           /\ k.item = j.item
<1> DEFINE j == job[w]
           k == [j EXCEPT !.pc = "series"]
<1>1. j \in Jobs /\ j \in Busy /\ j.pc = "realtime" /\ OnPage(j)
  BY JobIs, JobFacts DEF SendRealtime, OnPage
<1>2. j.page # <<>> /\ j.type # None  BY <1>1 DEF Jobs
<1>3. /\ k \in Jobs /\ k.pc = "series"
      /\ k.r = j.r /\ k.old = j.old /\ k.types = j.types /\ k.type = j.type
      /\ k.offset = j.offset /\ k.full = j.full /\ k.page = j.page /\ k.item = j.item
  <2> HIDE DEF j
  <2> QED BY <1>1, <1>2 DEF Busy, Jobs
<1>4. job' = [job EXCEPT ![w] = k]  BY DEF SendRealtime, SyncTyped
<1> HIDE DEF k
<1> QED BY <1>3, <1>4

\* A type that fails.
LEMMA FailsIs ==
  ASSUME EntitiesSyncAssumption, SyncTyped, NEW w \in Workers, TypeFails(w)
  PROVE  LET j == job[w] IN
         /\ InFetch(j) /\ Owe({j.type}) /\ {j.type} \in SUBSET Types
         /\ \E k \in Jobs :
              /\ job' = [job EXCEPT ![w] = k] /\ k.pc = "fetch"
              /\ k.r = j.r /\ k.old = j.old /\ k.types = j.types \ {j.type}
              /\ k.type = None /\ k.offset = 0 /\ k.page = <<>>
<1>1. job[w] \in Busy /\ InFetch(job[w]) /\ job[w].type \in Types
  <2>1. job[w] \in Jobs /\ InFetch(job[w]) /\ job[w].type # None
    BY JobIs DEF TypeFails, OnPage, InFetch
  <2> QED BY <2>1, JobFacts
<1>2. job' = [job EXCEPT ![w] = Without(job[w])] /\ Owe({job[w].type})  BY DEF TypeFails
<1>3. /\ Without(job[w]) \in Jobs /\ Without(job[w]).pc = "fetch"
      /\ Without(job[w]).types = job[w].types \ {job[w].type}
      /\ Without(job[w]).type = None /\ Without(job[w]).offset = 0
      /\ Without(job[w]).page = <<>>
      /\ Without(job[w]).r = job[w].r /\ Without(job[w]).old = job[w].old
  BY <1>1, WithoutIs
<1> QED BY <1>1, <1>2, <1>3

-----------------------------------------------------------------------------
(* Where the types that a job goes through come from.                      *)

\* Types that are subscribed to or owed: no step takes a type out of them.
Touched == subscribed \cup past.owed

\* An entity has its place in the order of its type.
Listed(e) == \E i \in 1 .. Len(order[TypeOf[e]]) : order[TypeOf[e]][i] = e

\* What a job that nothing disturbed goes through stays subscribed.
JobSound(w) ==
  /\ job[w].pc \in {"read", "write"} => job[w].r.create
  /\ job[w].pc = "write" => job[w].subs \subseteq Touched
  /\ job[w].pc # "idle" =>
       /\ job[w].old \subseteq Touched
       /\ w \in past.clean => job[w].old \subseteq subscribed
       /\ ~InFetch(job[w]) => job[w].type = None
       /\ job[w].type = None => job[w].offset = 0 /\ job[w].page = <<>>
  /\ InFetch(job[w]) =>
       /\ job[w].types \subseteq Touched
       /\ w \in past.clean => job[w].types \subseteq subscribed
       /\ job[w].type # None => job[w].type \in job[w].types
  /\ job[w].pc = "fetch" =>
       /\ job[w].page = <<>>
       /\ job[w].type # None => job[w].full = TRUE
  /\ OnPage(job[w]) =>
       \A k \in 1 .. Len(job[w].page) :
         \E i \in 1 .. Len(order[job[w].type]) :
           order[job[w].type][i] = job[w].page[k].entity

\* What was notified or created is of a touched type, and the broker lists it.
SeenSound ==
  /\ \A e \in entities : TypeOf[e] \in Touched
  /\ \A n \in queue : TypeOf[n.entity] \in Touched /\ Listed(n.entity)
  /\ past.announced \subseteq Touched
  /\ \A t \in Types : \A i \in 1 .. Len(order[t]) : TypeOf[order[t][i]] = t
  /\ \A e \in Entities : known[e] = Absent \/ Listed(e)

SyncSound == SyncTyped /\ (\A w \in Workers : JobSound(w)) /\ SeenSound

\* The broker forgets no entity.
Longer ==
  \A t \in Types : \A i \in 1 .. Len(order[t]) :
    i \in 1 .. Len(order'[t]) /\ order'[t][i] = order[t][i]

\* The start.
LEMMA SyncInitSound ==
  ASSUME EntitiesSyncAssumption, Init
  PROVE  SyncSound
<1>1. SyncTyped  BY SyncInitTyped
<1>2. \A w \in Workers : JobSound(w)  BY DEF Init, JobSound, Idle, InFetch, OnPage
<1>3. SeenSound
  <2>1. \A t \in Types : order[t] = <<>>  BY DEF Init
  <2>2. \A t \in Types : Len(order[t]) = 0  BY <2>1, EmptySeq
  <2>3. /\ entities = {} /\ queue = {} /\ past.announced = {}
        /\ \A e \in Entities : known[e] = Absent
    BY DEF Init
  <2> QED BY <2>2, <2>3 DEF SeenSound
<1> QED BY <1>1, <1>2, <1>3 DEF SyncSound

\* The other jobs.
LEMMA OtherSound ==
  ASSUME EntitiesSyncAssumption, SyncTyped, NEW v \in Workers, JobSound(v),
         job'[v] = job[v], Touched \subseteq Touched',
         v \in past'.clean => v \in past.clean /\ subscribed \subseteq subscribed', Longer
  PROVE  JobSound(v)'
<1>1. CASE job[v] = Idle
  BY <1>1 DEF JobSound, Idle, OnPage, InFetch
<1>2. CASE job[v] # Idle
  <2>1. job[v] \in Jobs  BY <1>2, JobIsNot
  <2>2. ASSUME OnPage(job[v]), NEW k \in 1 .. Len(job[v].page)
        PROVE  \E i \in 1 .. Len(order'[job[v].type]) :
                 order'[job[v].type][i] = job[v].page[k].entity
    <3>1. job[v].type \in Types  BY <2>1, <2>2, JobFacts
    <3>2. PICK i \in 1 .. Len(order[job[v].type]) :
            order[job[v].type][i] = job[v].page[k].entity
      BY <2>2 DEF JobSound
    <3> QED BY <3>1, <3>2 DEF Longer
  <2>3. (OnPage(job[v]))' <=> OnPage(job[v])  BY DEF OnPage
  <2>4. (InFetch(job[v]))' <=> InFetch(job[v])  BY <2>3 DEF InFetch
  <2> QED BY <2>2, <2>3, <2>4 DEF JobSound
<1> QED BY <1>1, <1>2

\* A job idle again.
LEMMA IdleSound ==
  ASSUME NEW w \in Workers, job'[w] = Idle
  PROVE  JobSound(w)'
BY DEF JobSound, Idle, OnPage, InFetch

\* A job about to fetch: the first type, or the next one.
LEMMA FetchSound ==
  ASSUME NEW w \in Workers, NEW k \in Jobs, job'[w] = k, k.pc = "fetch",
         k.old \subseteq Touched', k.types \subseteq Touched',
         w \in past'.clean => k.old \subseteq subscribed' /\ k.types \subseteq subscribed',
         k.type = None, k.offset = 0, k.page = <<>>
  PROVE  JobSound(w)'
<1>1. (InFetch(job[w]))' /\ ~(OnPage(job[w]))'  BY DEF InFetch, OnPage
<1> QED BY <1>1 DEF JobSound

\* A job that is still at the same entity.
LEMMA SameSound ==
  ASSUME NEW w \in Workers, JobSound(w), OnPage(job[w]), NEW k \in Jobs, job'[w] = k,
         OnPage(k),
         k.old = job[w].old, k.types = job[w].types, k.type = job[w].type,
         k.offset = job[w].offset, k.page = job[w].page,
         order' = order, subscribed' = subscribed, Touched \subseteq Touched',
         past'.clean \subseteq past.clean
  PROVE  JobSound(w)'
<1>1. (OnPage(job[w]))' /\ (InFetch(job[w]))' /\ InFetch(job[w]) /\ job[w].pc # "idle"
  BY DEF InFetch, OnPage
<1>2. k.pc # "fetch" /\ k.pc \notin {"read", "write"}  BY DEF OnPage
<1> QED BY <1>1, <1>2 DEF JobSound

\* A step that leaves the broker alone and notifies nothing.
LEMMA SeenKept ==
  ASSUME SeenSound, Touched \subseteq Touched', order' = order, known' = known,
         queue' \subseteq queue,
         \A e \in entities' : e \in entities \/ TypeOf[e] \in Touched',
         past'.announced \subseteq past.announced \cup Touched'
  PROVE  SeenSound'
BY DEF SeenSound, Listed

\* What happens to types takes none out of the touched ones.
LEMMA TouchedOwe ==
  ASSUME SyncTyped, NEW T \in SUBSET Types, Owe(T), subscribed' = subscribed
  PROVE  /\ Touched' = Touched \cup T
         /\ past'.clean \subseteq past.clean
         /\ past'.announced = past.announced
BY OweIs DEF Touched

\* Nor does the end of a type.
LEMMA TouchedDone ==
  ASSUME SyncTyped, NEW w \in Workers, NEW t \in Types, Done(w, t), subscribed' = subscribed,
         w \in past.clean => t \in subscribed
  PROVE  /\ Touched' = Touched
         /\ past'.clean = past.clean
         /\ past'.announced = past.announced
BY DoneIs DEF Touched

\* The broker.
LEMMA ChangeSound ==
  ASSUME EntitiesSyncAssumption, SyncSound, NEW e \in Entities, Change(e)
  PROVE  /\ SyncSound'
         /\ Longer
         /\ known[e] # Absent => order' = order
         /\ known[e] = Absent =>
              /\ \A t \in Types : t # TypeOf[e] => order'[t] = order[t]
              /\ Len(order'[TypeOf[e]]) = Len(order[TypeOf[e]]) + 1
              /\ order'[TypeOf[e]][Len(order'[TypeOf[e]])] = e
         /\ known'[e].version = known[e].version + 1 /\ known'[e].at = clock[e] + 1
         /\ known' = [known EXCEPT ![e] = known'[e]]
         /\ clock' = [clock EXCEPT ![e] = clock[e] + 1]
<1> DEFINE k == [version |-> known[e].version + 1, at |-> clock[e] + 1]
<1> USE DEF SyncSound
<1>1. k \in Measure /\ k # Absent /\ known[e].version \in Nat /\ clock[e] \in Nat
  BY DEF SyncTyped, Measure, Absent
<1>2. /\ known' = [known EXCEPT ![e] = k] /\ clock' = [clock EXCEPT ![e] = clock[e] + 1]
      /\ queue' = IF TypeOf[e] \in subscribed THEN queue \cup {[entity |-> e, data |-> k]}
                  ELSE queue
      /\ order' = IF known[e] = Absent THEN [order EXCEPT ![TypeOf[e]] = Append(@, e)]
                  ELSE order
      /\ UNCHANGED <<subscribed, requests, asked, job, entities, tasks, rows, faults, past>>
  BY DEF Change, stores
<1>3. TypeOf[e] \in Types  BY DEF EntitiesSyncAssumption
<1>4. known'[e] = k /\ known' \in [Entities -> Measure] /\ clock' \in [Entities -> Nat]
      /\ queue' \subseteq Entry /\ \A x \in Entities \ {e} : known'[x] = known[x]
  <2> HIDE DEF k
  <2> QED BY <1>1, <1>2 DEF SyncTyped, Entry
<1>5. CASE known[e] = Absent
  <2> DEFINE s == order[TypeOf[e]]
  <2>1. s \in Seq(Entities)  BY <1>3 DEF SyncTyped
  <2>2. /\ Append(s, e) \in Seq(Entities) /\ Len(Append(s, e)) = Len(s) + 1
        /\ \A i \in 1 .. Len(s) : Append(s, e)[i] = s[i]
        /\ Append(s, e)[Len(s) + 1] = e
        /\ Len(s) \in Nat
    BY <2>1, AppendProperties, LenProperties
  <2>3. order' = [order EXCEPT ![TypeOf[e]] = Append(s, e)]  BY <1>2, <1>5
  <2>4. /\ order' \in [Types -> Seq(Entities)] /\ order'[TypeOf[e]] = Append(s, e)
        /\ \A t \in Types : t # TypeOf[e] => order'[t] = order[t]
    BY <1>3, <2>2, <2>3 DEF SyncTyped
  <2>5. Longer
    <3> SUFFICES ASSUME NEW t \in Types, NEW i \in 1 .. Len(order[t])
                 PROVE  i \in 1 .. Len(order'[t]) /\ order'[t][i] = order[t][i]
      BY DEF Longer
    <3>1. CASE t = TypeOf[e]  BY <2>2, <2>4, <3>1
    <3>2. CASE t # TypeOf[e]  BY <2>4, <3>2
    <3> QED BY <3>1, <3>2
  <2>6. SyncTyped'  BY <1>2, <1>4, <2>4 DEF SyncTyped
  <2>7. Touched' = Touched  BY <1>2 DEF Touched
  <2>8. \A v \in Workers : JobSound(v)'  BY <1>2, <2>5, <2>7, OtherSound
  <2>9. (Listed(e))'
    <3>1. Len(s) + 1 \in 1 .. Len(order'[TypeOf[e]])  BY <2>2, <2>4
    <3> QED BY <2>2, <2>4, <3>1 DEF Listed
  <2>10. ASSUME NEW x \in Entities, Listed(x)  PROVE (Listed(x))'
    <3>1. TypeOf[x] \in Types  BY DEF EntitiesSyncAssumption
    <3> QED BY <2>5, <2>10, <3>1 DEF Listed, Longer
  <2>11. ASSUME NEW t \in Types, NEW i \in 1 .. Len(order'[t])
         PROVE  TypeOf[order'[t][i]] = t
    <3>1. CASE t = TypeOf[e]
      <4>1. CASE i = Len(s) + 1  BY <2>2, <2>4, <3>1, <4>1
      <4>2. CASE i # Len(s) + 1
        <5>1. i \in 1 .. Len(s)  BY <2>2, <2>4, <3>1, <4>2
        <5>2. order'[t][i] = order[t][i]  BY <2>2, <2>4, <3>1, <5>1
        <5> QED BY <3>1, <5>1, <5>2 DEF SeenSound
      <4> QED BY <4>1, <4>2
    <3>2. CASE t # TypeOf[e]  BY <2>4, <3>2 DEF SeenSound
    <3> QED BY <3>1, <3>2
  <2>12. \A n \in queue' : TypeOf[n.entity] \in Touched' /\ (Listed(n.entity))'
    <3> SUFFICES ASSUME NEW n \in queue'
                 PROVE  TypeOf[n.entity] \in Touched' /\ (Listed(n.entity))'
      OBVIOUS
    <3>1. CASE n \in queue
      <4>1. n.entity \in Entities  BY <3>1 DEF SyncTyped, Entry
      <4> QED BY <2>7, <2>10, <3>1, <4>1 DEF SeenSound
    <3>2. CASE n \notin queue
      <4>1. TypeOf[e] \in subscribed /\ n = [entity |-> e, data |-> k]  BY <1>2, <3>2
      <4>2. n.entity = e  BY <4>1
      <4> QED BY <2>7, <2>9, <4>1, <4>2 DEF Touched
    <3> QED BY <3>1, <3>2
  <2>13. SeenSound'
    <3>1. \A x \in Entities : known'[x] = Absent \/ (Listed(x))'
      BY <1>4, <2>9, <2>10 DEF SeenSound
    <3>2. /\ \A x \in entities' : TypeOf[x] \in Touched'
          /\ past'.announced \subseteq Touched'
      BY <1>2, <2>7 DEF SeenSound
    <3> QED BY <2>11, <2>12, <3>1, <3>2 DEF SeenSound
  <2> HIDE DEF s
  <2> QED BY <1>2, <1>4, <1>5, <2>2, <2>4, <2>5, <2>6, <2>8, <2>13
<1>6. CASE known[e] # Absent
  <2>1. order' = order /\ Longer  BY <1>2, <1>6 DEF Longer
  <2>2. SyncTyped'  BY <1>2, <1>4, <2>1 DEF SyncTyped
  <2>3. Touched' = Touched  BY <1>2 DEF Touched
  <2>4. \A v \in Workers : JobSound(v)'  BY <1>2, <2>1, <2>3, OtherSound
  <2>5. \A x \in Entities : (Listed(x))' <=> Listed(x)  BY <2>1 DEF Listed
  <2>6. Listed(e)  BY <1>6 DEF SeenSound
  <2>7. \A n \in queue' : TypeOf[n.entity] \in Touched' /\ (Listed(n.entity))'
    <3> SUFFICES ASSUME NEW n \in queue'
                 PROVE  TypeOf[n.entity] \in Touched' /\ (Listed(n.entity))'
      OBVIOUS
    <3>1. CASE n \in queue
      <4>1. n.entity \in Entities  BY <3>1 DEF SyncTyped, Entry
      <4> QED BY <2>3, <2>5, <3>1, <4>1 DEF SeenSound
    <3>2. CASE n \notin queue
      <4>1. TypeOf[e] \in subscribed /\ n = [entity |-> e, data |-> k]  BY <1>2, <3>2
      <4>2. n.entity = e  BY <4>1
      <4> QED BY <2>3, <2>5, <2>6, <4>1, <4>2 DEF Touched
    <3> QED BY <3>1, <3>2
  <2>8. SeenSound'
    <3>1. \A x \in Entities : known'[x] = Absent \/ (Listed(x))'
      BY <1>4, <2>5, <2>6 DEF SeenSound
    <3>2. /\ \A x \in entities' : TypeOf[x] \in Touched'
          /\ past'.announced \subseteq Touched'
          /\ \A t \in Types : \A i \in 1 .. Len(order'[t]) : TypeOf[order'[t][i]] = t
      BY <1>2, <2>1, <2>3 DEF SeenSound
    <3> QED BY <2>7, <3>1, <3>2 DEF SeenSound
  <2> QED BY <1>2, <1>4, <1>6, <2>1, <2>2, <2>4, <2>8
<1> QED BY <1>5, <1>6

\* A row that takes a measure has one of the two.
LEMMA NewerIs ==
  ASSUME NEW old \in Measure, NEW new \in Measure
  PROVE  /\ Newer(old, new) \in {old, new} /\ Newer(old, new) \in Measure
         /\ Newer(old, new).at >= old.at /\ Newer(old, new).at >= new.at
BY DEF Newer, Measure

\* A notification that arrives.
LEMMA NotifiedSound ==
  ASSUME EntitiesSyncAssumption, SyncSound, NEW n \in queue, Notified(n)
  PROVE  SyncSound'
<1> USE DEF SyncSound
<1>1. n \in Entry /\ n.entity \in Entities /\ n.data \in Measure  BY DEF SyncTyped, Entry
<1>2. rows' \in [Stores -> [Entities -> Measure]]
  <2>1. ASSUME NEW s \in Stores
        PROVE  [rows[s] EXCEPT ![n.entity] = Newer(@, n.data)] \in [Entities -> Measure]
    <3>1. Newer(rows[s][n.entity], n.data) \in Measure  BY <1>1, NewerIs DEF SyncTyped
    <3> QED BY <1>1, <3>1 DEF SyncTyped
  <2>2. rows' = [s \in Stores |-> [rows[s] EXCEPT ![n.entity] = Newer(@, n.data)]]
    BY DEF Notified
  <2> QED BY <2>1, <2>2
<1>3. /\ entities' = entities \cup {n.entity} /\ queue' = queue \ {n}
      /\ UNCHANGED <<order, known, subscribed, clock, requests, asked, job, tasks, faults, past>>
  BY DEF Notified, broker
<1>4. SyncTyped'  BY <1>1, <1>2, <1>3 DEF SyncTyped
<1>5. Touched' = Touched /\ Longer  BY <1>3 DEF Touched, Longer
<1>6. \A v \in Workers : JobSound(v)'  BY <1>3, <1>5, OtherSound
<1>7. SeenSound'
  <2>1. TypeOf[n.entity] \in Touched  BY DEF SeenSound
  <2> QED BY <1>3, <1>5, <2>1, SeenKept
<1> QED BY <1>4, <1>6, <1>7

\* A request.
LEMMA RequestSound ==
  ASSUME EntitiesSyncAssumption, SyncSound, NEW r \in Requests, Request(r)
  PROVE  SyncSound'
<1> USE DEF SyncSound
<1>1. /\ asked' = asked + 1 /\ asked < MaxRequests
      /\ requests' = requests \cup {[n |-> asked', r |-> r]}
      /\ UNCHANGED <<order, known, subscribed, clock, queue, job, entities, tasks, rows,
                     faults, past>>
  BY DEF Request, broker, stores
<1>2. r \in Wants  BY RequestsTyped
<1>3. asked' \in 0 .. MaxRequests  BY <1>1 DEF SyncTyped, EntitiesSyncAssumption
<1>4. \A m \in requests' : m.r \in Wants  BY <1>1, <1>2 DEF SyncTyped
<1>5. SyncTyped'  BY <1>1, <1>3, <1>4 DEF SyncTyped
<1>6. Touched' = Touched /\ Longer  BY <1>1 DEF Touched, Longer
<1>7. \A v \in Workers : JobSound(v)'  BY <1>1, <1>6, OtherSound
<1>8. SeenSound'  BY <1>1, <1>6, SeenKept
<1> QED BY <1>5, <1>7, <1>8

\* A step of a worker: what is to be shown of it.
LEMMA WorkerSound ==
  ASSUME EntitiesSyncAssumption, SyncSound, NEW w \in Workers, NEW k \in Jobs \cup {Idle},
         job' = [job EXCEPT ![w] = k],
         order' = order, known' = known, clock' \in [Entities -> Nat], subscribed' \subseteq Types,
         requests' \subseteq requests, asked' = asked, queue' = queue, rows' = rows,
         entities' \subseteq Entities,
         tasks' \subseteq [store : Stores, entity : Entities, data : Measure],
         faults' \in 0 .. MaxFaults,
         past' \in [announced : SUBSET Types, owed : SUBSET Types, clean : SUBSET Workers],
         Touched \subseteq Touched',
         \A v \in past'.clean : v = w \/ (v \in past.clean /\ subscribed \subseteq subscribed'),
         \A e \in entities' : e \in entities \/ TypeOf[e] \in Touched',
         past'.announced \subseteq past.announced \cup Touched',
         JobSound(w)'
  PROVE  SyncSound'
<1> USE DEF SyncSound
<1>1. SyncTyped'  BY DEF SyncTyped
<1>2. Longer  BY DEF Longer
<1>3. ASSUME NEW v \in Workers  PROVE JobSound(v)'
  <2>1. CASE v = w  BY <2>1
  <2>2. CASE v # w
    <3>1. job'[v] = job[v]  BY <2>2 DEF SyncTyped
    <3> QED BY <1>2, <2>2, <3>1, OtherSound
  <2> QED BY <2>1, <2>2
<1>4. SeenSound'  BY SeenKept
<1> QED BY <1>1, <1>3, <1>4

\* A fault only counts.
LEMMA FaultIs ==
  ASSUME EntitiesSyncAssumption, SyncTyped, Fault
  PROVE  faults' \in 0 .. MaxFaults
BY DEF Fault, SyncTyped, EntitiesSyncAssumption

\* The start of a job.
LEMMA StartSound ==
  ASSUME EntitiesSyncAssumption, SyncSound, NEW w \in Workers, NEW m \in requests, Start(w, m)
  PROVE  SyncSound'
<1> USE DEF SyncSound
<1>1. PICK k \in Jobs :
        /\ job' = [job EXCEPT ![w] = k]
        /\ k.pc \in {"discover", "read", "fetch"}
        /\ k.old = subscribed /\ k.type = None /\ k.offset = 0 /\ k.page = <<>>
        /\ k.pc = "read" => k.r.create
        /\ k.pc = "fetch" => k.types \subseteq subscribed
  BY StartIs
<1>2. /\ past' = [past EXCEPT !.clean = @ \cup {w}] /\ requests' = requests \ {m}
      /\ UNCHANGED <<order, known, subscribed, clock, asked, queue, entities, tasks, rows, faults>>
  BY DEF Start, broker, stores
<1>3. /\ past' \in [announced : SUBSET Types, owed : SUBSET Types, clean : SUBSET Workers]
      /\ past'.announced = past.announced /\ past'.owed = past.owed
      /\ past'.clean = past.clean \cup {w}
  BY <1>2 DEF SyncTyped
<1>4. Touched' = Touched /\ subscribed \subseteq Touched  BY <1>2, <1>3 DEF Touched
<1>5. job'[w] = k  BY <1>1 DEF SyncTyped
<1>6. JobSound(w)'
  <2>1. CASE k.pc = "fetch"
    BY <1>1, <1>2, <1>4, <1>5, <2>1, FetchSound
  <2>2. CASE k.pc # "fetch"
    <3>1. ~(InFetch(job[w]))' /\ ~(OnPage(job[w]))'  BY <1>1, <1>5, <2>2 DEF InFetch, OnPage
    <3>2. k.pc \in {"discover", "read"}  BY <1>1, <2>2
    <3> QED BY <1>1, <1>2, <1>4, <1>5, <3>1, <3>2 DEF JobSound
  <2> QED BY <2>1, <2>2
<1>7. /\ clock' \in [Entities -> Nat] /\ entities' \subseteq Entities /\ faults' \in 0 .. MaxFaults
      /\ tasks' \subseteq [store : Stores, entity : Entities, data : Measure]
      /\ subscribed' \subseteq Types
  BY <1>2 DEF SyncTyped
<1>8. requests' \subseteq requests  BY <1>2
<1> HIDE DEF SyncSound
<1> QED BY <1>1, <1>2, <1>3, <1>4, <1>6, <1>7, <1>8, WorkerSound

\* The discovery.
LEMMA DiscoverSound ==
  ASSUME EntitiesSyncAssumption, SyncSound, NEW w \in Workers, Discover(w)
  PROVE  SyncSound'
<1> USE DEF SyncSound
<1>1. PICK k \in Jobs :
        /\ job' = [job EXCEPT ![w] = k]
        /\ k.pc \in {"read", "fetch"}
        /\ k.old = job[w].old /\ k.type = job[w].type /\ k.offset = job[w].offset
        /\ k.page = job[w].page
        /\ k.pc = "read" => k.r.create
        /\ k.pc = "fetch" => k.types \subseteq job[w].old
  BY DiscoverIs
<1>2. UNCHANGED <<order, known, subscribed, clock, requests, asked, queue, entities, tasks, rows,
                  faults, past>>
  BY DEF Discover, broker, stores
<1>3. Touched' = Touched  BY <1>2 DEF Touched
<1>4. job'[w] = k  BY <1>1 DEF SyncTyped
<1>5. job[w].pc = "discover" /\ ~InFetch(job[w])  BY DEF Discover, InFetch, OnPage
<1>6. /\ job[w].old \subseteq Touched
      /\ w \in past.clean => job[w].old \subseteq subscribed
      /\ job[w].type = None /\ job[w].offset = 0 /\ job[w].page = <<>>
  BY <1>5 DEF JobSound
<1>7. JobSound(w)'
  <2>1. CASE k.pc = "fetch"
    <3>1. (InFetch(job[w]))' /\ ~(OnPage(job[w]))'  BY <1>4, <2>1 DEF InFetch, OnPage
    <3>2. k.old \subseteq Touched' /\ k.types \subseteq Touched'  BY <1>1, <1>3, <1>6, <2>1
    <3>3. w \in past'.clean => k.old \subseteq subscribed' /\ k.types \subseteq subscribed'
      BY <1>1, <1>2, <1>6, <2>1
    <3>4. k.type = None /\ k.offset = 0 /\ k.page = <<>>  BY <1>1, <1>6
    <3> QED BY <1>4, <2>1, <3>2, <3>3, <3>4, FetchSound
  <2>2. CASE k.pc = "read"
    <3>1. ~(InFetch(job[w]))' /\ ~(OnPage(job[w]))'  BY <1>4, <2>2 DEF InFetch, OnPage
    <3> QED BY <1>1, <1>2, <1>3, <1>4, <1>6, <2>2, <3>1 DEF JobSound
  <2> QED BY <1>1, <2>1, <2>2
<1>8. SyncTyped /\ past' = past  BY <1>2
<1> QED BY <1>1, <1>2, <1>3, <1>7, <1>8, WorkerSound DEF SyncTyped

\* The read of the subscription.
LEMMA ReadSound ==
  ASSUME EntitiesSyncAssumption, SyncSound, NEW w \in Workers, ReadSubscription(w)
  PROVE  SyncSound'
<1> USE DEF SyncSound
<1>1. PICK k \in Jobs :
        /\ job' = [job EXCEPT ![w] = k]
        /\ k.pc = "write" /\ k.subs = subscribed
        /\ k.old = job[w].old /\ k.type = job[w].type /\ k.offset = job[w].offset
        /\ k.page = job[w].page /\ k.r = job[w].r
  BY ReadIs
<1>2. UNCHANGED <<order, known, subscribed, clock, requests, asked, queue, entities, tasks, rows,
                  faults, past>>
  BY DEF ReadSubscription, broker, stores
<1>3. Touched' = Touched /\ subscribed \subseteq Touched  BY <1>2 DEF Touched
<1>4. job'[w] = k  BY <1>1 DEF SyncTyped
<1>5. job[w].pc = "read" /\ ~InFetch(job[w])  BY DEF ReadSubscription, InFetch, OnPage
<1>6. /\ job[w].old \subseteq Touched /\ job[w].r.create
      /\ w \in past.clean => job[w].old \subseteq subscribed
      /\ job[w].type = None /\ job[w].offset = 0 /\ job[w].page = <<>>
  BY <1>5 DEF JobSound
<1>7. ~(InFetch(job[w]))' /\ ~(OnPage(job[w]))'  BY <1>1, <1>4 DEF InFetch, OnPage
<1>8. JobSound(w)'  BY <1>1, <1>2, <1>3, <1>4, <1>6, <1>7 DEF JobSound
<1>9. SyncTyped /\ past' = past  BY <1>2
<1> QED BY <1>1, <1>2, <1>3, <1>8, <1>9, WorkerSound DEF SyncTyped

\* The write of the subscription.
LEMMA WriteSound ==
  ASSUME EntitiesSyncAssumption, SyncSound, NEW w \in Workers, WriteSubscription(w)
  PROVE  SyncSound'
<1> USE DEF SyncSound
<1> DEFINE j == job[w]
           k == Fetching(job[w])
<1>1. /\ k \in Jobs /\ job' = [job EXCEPT ![w] = k]
      /\ k.pc = "fetch" /\ k.types = ToSync(j)
      /\ k.type = j.type /\ k.offset = j.offset /\ k.page = j.page
      /\ k.r = j.r /\ k.old = j.old
      /\ ToSync(j) \subseteq j.old \cup NewTypes(j) /\ NewTypes(j) \subseteq j.r.subscribe
      /\ j.r.subscribe \subseteq Types
      /\ subscribed' = Written(j)
      /\ past' \in [announced : SUBSET Types, owed : SUBSET Types, clean : SUBSET Workers]
      /\ past'.announced = past.announced \cup j.r.subscribe
      /\ past'.owed = past.owed \cup ((subscribed \cup j.r.subscribe) \ Written(j))
                                \cup (NewTypes(j) \ ToSync(j))
      /\ past'.clean \subseteq past.clean
      /\ past'.clean # {} => subscribed \cup j.r.subscribe \subseteq Written(j)
  BY WriteIs
<1>2. UNCHANGED <<order, known, clock, requests, asked, queue, entities, tasks, rows, faults>>
  BY DEF WriteSubscription, stores
<1>3. Touched \subseteq Touched' /\ j.r.subscribe \subseteq Touched'  BY <1>1 DEF Touched
<1>4. job'[w] = k  BY <1>1 DEF SyncTyped
<1>5. j.pc = "write" /\ ~InFetch(j) /\ j \in Busy
  BY JobIs, JobFacts DEF WriteSubscription, InFetch, OnPage
<1>6. /\ j.old \subseteq Touched
      /\ w \in past.clean => j.old \subseteq subscribed
      /\ j.type = None /\ j.offset = 0 /\ j.page = <<>>
  BY <1>5 DEF JobSound
<1>7. JobSound(w)'
  <2>1. k.old \subseteq Touched' /\ k.types \subseteq Touched'  BY <1>1, <1>3, <1>6
  <2>2. w \in past'.clean => k.old \subseteq subscribed' /\ k.types \subseteq subscribed'
    BY <1>1, <1>6
  <2> HIDE DEF k, j
  <2> QED BY <1>1, <1>4, <1>6, <2>1, <2>2, FetchSound
<1>8. subscribed' \subseteq Types  BY <1>1, <1>5, WrittenIs
<1>9. \A v \in past'.clean : v \in past.clean /\ subscribed \subseteq subscribed'
  BY <1>1
<1>10. past'.announced \subseteq past.announced \cup Touched'  BY <1>1, <1>3
<1>11. /\ clock' \in [Entities -> Nat] /\ entities' \subseteq Entities /\ faults' \in 0 .. MaxFaults
       /\ tasks' \subseteq [store : Stores, entity : Entities, data : Measure]
  BY <1>2 DEF SyncTyped
<1> HIDE DEF SyncSound, k, j
<1> QED BY <1>1, <1>2, <1>3, <1>7, <1>8, <1>9, <1>10, <1>11, WorkerSound

\* The write that the broker refuses.
LEMMA IgnoredSound ==
  ASSUME EntitiesSyncAssumption, SyncSound, NEW w \in Workers, WriteIgnored(w)
  PROVE  SyncSound'
<1> USE DEF SyncSound
<1> DEFINE j == job[w]
<1>1. /\ Owe(j.r.subscribe) /\ j.r.subscribe \in SUBSET Types  BY IgnoredIs
<1>2. PICK k \in Jobs :
        /\ job' = [job EXCEPT ![w] = k]
        /\ k.pc = "fetch" /\ k.types \subseteq j.old \cup j.r.subscribe
        /\ k.type = j.type /\ k.offset = j.offset /\ k.page = j.page
        /\ k.r = j.r /\ k.old = j.old
  BY IgnoredIs
<1>3. Fault /\ UNCHANGED <<order, known, subscribed, clock, requests, asked, queue, entities,
                           tasks, rows>>
  BY DEF WriteIgnored, stores, broker
<1>4. /\ Touched' = Touched \cup j.r.subscribe /\ past'.clean \subseteq past.clean
      /\ past'.announced = past.announced
      /\ past' \in [announced : SUBSET Types, owed : SUBSET Types, clean : SUBSET Workers]
      /\ past'.clean # {} => j.r.subscribe = {}
  BY <1>1, <1>3, TouchedOwe, OweIs
<1>5. job'[w] = k  BY <1>2 DEF SyncTyped
<1>6. j.pc = "write" /\ ~InFetch(j)  BY DEF WriteIgnored, InFetch, OnPage
<1>7. /\ j.old \subseteq Touched
      /\ w \in past.clean => j.old \subseteq subscribed
      /\ j.type = None /\ j.offset = 0 /\ j.page = <<>>
  BY <1>6 DEF JobSound
<1>8. JobSound(w)'
  <2>1. k.old \subseteq Touched' /\ k.types \subseteq Touched'  BY <1>2, <1>4, <1>7
  <2>2. w \in past'.clean => k.old \subseteq subscribed' /\ k.types \subseteq subscribed'
    BY <1>2, <1>3, <1>4, <1>7
  <2> HIDE DEF j
  <2> QED BY <1>2, <1>5, <1>7, <2>1, <2>2, FetchSound
<1>9. /\ clock' \in [Entities -> Nat] /\ entities' \subseteq Entities /\ faults' \in 0 .. MaxFaults
      /\ tasks' \subseteq [store : Stores, entity : Entities, data : Measure]
      /\ subscribed' \subseteq Types
  BY <1>3, FaultIs DEF SyncTyped
<1>10. Touched \subseteq Touched'  BY <1>4
<1> HIDE DEF SyncSound, j
<1> QED BY <1>2, <1>3, <1>4, <1>8, <1>9, <1>10, WorkerSound

\* The write that is not answered.
LEMMA UnansweredSound ==
  ASSUME EntitiesSyncAssumption, SyncSound, NEW w \in Workers, WriteUnanswered(w)
  PROVE  SyncSound'
<1> USE DEF SyncSound
<1> DEFINE j == job[w]
           T == subscribed \cup j.r.subscribe
<1>1. /\ job' = [job EXCEPT ![w] = Idle]
      /\ subscribed' = Written(j) /\ Written(j) \subseteq Types
      /\ Owe(T) /\ T \in SUBSET Types
  BY UnansweredIs
<1>2. Fault /\ UNCHANGED <<order, known, clock, requests, asked, queue, entities, tasks, rows>>
  BY DEF WriteUnanswered, stores
<1>3. /\ past'.owed = past.owed \cup T /\ past'.announced = past.announced
      /\ past'.clean = IF T = {} THEN past.clean ELSE {}
      /\ past' \in [announced : SUBSET Types, owed : SUBSET Types, clean : SUBSET Workers]
  BY <1>1, OweIs
<1>4. Touched \subseteq Touched'  BY <1>3 DEF Touched
<1>5. \A v \in past'.clean : v \in past.clean /\ subscribed \subseteq subscribed'  BY <1>3
<1>6. JobSound(w)'
  <2>1. job'[w] = Idle  BY <1>1 DEF SyncTyped
  <2> QED BY <2>1, IdleSound
<1>7. /\ clock' \in [Entities -> Nat] /\ entities' \subseteq Entities /\ faults' \in 0 .. MaxFaults
      /\ tasks' \subseteq [store : Stores, entity : Entities, data : Measure]
      /\ subscribed' \subseteq Types
  BY <1>1, <1>2, FaultIs DEF SyncTyped
<1> HIDE DEF SyncSound, j, T
<1> QED BY <1>1, <1>2, <1>3, <1>4, <1>5, <1>6, <1>7, WorkerSound

\* A page that comes.
LEMMA FetchPageSound ==
  ASSUME EntitiesSyncAssumption, SyncSound, NEW w \in Workers, Fetch(w)
  PROVE  SyncSound'
<1> USE DEF SyncSound
<1> DEFINE j == job[w]
<1>1. j.pc = "fetch" /\ InFetch(j) /\ ~OnPage(j)  BY DEF Fetch, InFetch, OnPage
<1>2. /\ j.old \subseteq Touched
      /\ w \in past.clean => j.old \subseteq subscribed /\ j.types \subseteq subscribed
      /\ j.types \subseteq Touched
      /\ j.type # None => j.type \in j.types
  BY <1>1 DEF JobSound
<1>3. PICK type \in Types, k \in Jobs :
           /\ type \in j.types /\ (j.type = type \/ j.type = None)
           /\ job' = [job EXCEPT ![w] = k] /\ k.r = j.r /\ k.old = j.old
           /\ \/ /\ Len(order[type]) <= j.offset
                 /\ Done(w, type)
                 /\ k.pc = "fetch" /\ k.types = j.types \ {type}
                 /\ k.type = None /\ k.offset = 0 /\ k.page = <<>>
              \/ /\ UNCHANGED past
                 /\ k.pc = "entity" /\ k.types = j.types /\ k.type = type
                 /\ k.offset = j.offset + PageLimit
                 /\ Len(k.page) \in Nat \ {0}
                 /\ j.offset + Len(k.page) <= Len(order[type])
                 /\ \A i \in 1 .. Len(k.page) :
                      k.page[i] = [entity |-> order[type][j.offset + i],
                                   data |-> known[order[type][j.offset + i]]]
                 /\ \/ k.full = TRUE /\ Len(k.page) = PageLimit
                    \/ j.offset + Len(k.page) = Len(order[type])
  BY <1>2, FetchIs
<1>4. UNCHANGED <<order, known, subscribed, clock, requests, asked, queue, entities, tasks, rows,
                  faults>>
  BY DEF Fetch, broker, stores
<1>5. job'[w] = k  BY <1>3 DEF SyncTyped
<1>6. /\ clock' \in [Entities -> Nat] /\ entities' \subseteq Entities /\ faults' \in 0 .. MaxFaults
      /\ tasks' \subseteq [store : Stores, entity : Entities, data : Measure]
      /\ subscribed' \subseteq Types
  BY <1>4 DEF SyncTyped
<1>7. CASE UNCHANGED past /\ k.pc = "entity"
  <2>1. Touched' = Touched /\ past' = past  BY <1>4, <1>7 DEF Touched
  <2>2. (InFetch(job[w]))' /\ (OnPage(job[w]))'  BY <1>5, <1>7 DEF InFetch, OnPage
  <2>3. k.type = type /\ k.type # None /\ type \in k.types /\ k.types = j.types
    BY <1>3, <1>7 DEF EntitiesSyncAssumption
  <2>4. ASSUME NEW n \in 1 .. Len(k.page)
        PROVE  \E i \in 1 .. Len(order[type]) : order[type][i] = k.page[n].entity
    <3> DEFINE m == [entity |-> order[type][j.offset + n],
                     data |-> known[order[type][j.offset + n]]]
    <3>0. k.page[n] = m  BY <1>3, <1>7
    <3>1. k.page[n].entity = order[type][j.offset + n]
      <4>1. m.entity = order[type][j.offset + n]  OBVIOUS
      <4> HIDE DEF m
      <4> QED BY <3>0, <4>1
    <3>2. j.offset \in Nat /\ j.offset + Len(k.page) <= Len(order[type]) /\ Len(k.page) \in Nat
      BY <1>1, <1>3, <1>7, JobIs, JobFacts
    <3>3. order[type] \in Seq(Entities)  BY DEF SyncTyped
    <3>4. Len(order[type]) \in Nat  BY <3>3, LenProperties
    <3>5. j.offset + n \in 1 .. Len(order[type])  BY <3>2, <3>4
    <3> QED BY <3>1, <3>5
  <2>5. JobSound(w)'
    <3> HIDE DEF j
    <3> QED BY <1>2, <1>3, <1>4, <1>5, <1>7, <2>1, <2>2, <2>3, <2>4 DEF JobSound
  <2>6. past \in [announced : SUBSET Types, owed : SUBSET Types, clean : SUBSET Workers]
    BY DEF SyncTyped
  <2> HIDE DEF SyncSound, j
  <2> QED BY <1>3, <1>4, <1>6, <2>1, <2>5, <2>6, WorkerSound
<1>8. CASE /\ Done(w, type) /\ k.pc = "fetch" /\ k.types = j.types \ {type}
           /\ k.type = None /\ k.offset = 0 /\ k.page = <<>>
  <2>1. /\ Touched' = Touched /\ past'.clean = past.clean /\ past'.announced = past.announced
        /\ past' \in [announced : SUBSET Types, owed : SUBSET Types, clean : SUBSET Workers]
    BY <1>2, <1>3, <1>4, <1>8, TouchedDone, DoneIs
  <2>2. JobSound(w)'
    <3> HIDE DEF j
    <3> QED BY <1>2, <1>3, <1>4, <1>5, <1>8, <2>1, FetchSound
  <2> HIDE DEF SyncSound, j
  <2> QED BY <1>3, <1>4, <1>6, <2>1, <2>2, WorkerSound
<1> QED BY <1>3, <1>7, <1>8

\* The end of the job.
LEMMA FinishSound ==
  ASSUME EntitiesSyncAssumption, SyncSound, NEW w \in Workers, Finish(w)
  PROVE  SyncSound'
<1> USE DEF SyncSound
<1>1. /\ job' = [job EXCEPT ![w] = Idle]
      /\ UNCHANGED <<order, known, subscribed, clock, requests, asked, queue, entities, tasks,
                     rows, faults, past>>
  BY DEF Finish, broker, stores
<1>2. Touched' = Touched /\ past' = past  BY <1>1 DEF Touched
<1>3. JobSound(w)'
  <2>1. job'[w] = Idle  BY <1>1 DEF SyncTyped
  <2> QED BY <2>1, IdleSound
<1>4. SyncTyped  OBVIOUS
<1> QED BY <1>1, <1>2, <1>3, <1>4, WorkerSound DEF SyncTyped

\* An entity done.
LEMMA AdvanceSound ==
  ASSUME EntitiesSyncAssumption, SyncSound, NEW w \in Workers, OnPage(job[w]),
         Advance(w, job[w]), order' = order, subscribed' = subscribed
  PROVE  /\ JobSound(w)' /\ Touched' = Touched
         /\ past'.clean = past.clean /\ past'.announced = past.announced
         /\ past' \in [announced : SUBSET Types, owed : SUBSET Types, clean : SUBSET Workers]
         /\ \E k \in Jobs : job' = [job EXCEPT ![w] = k]
<1> USE DEF SyncSound
<1> DEFINE j == job[w]
<1>1. InFetch(j) /\ j.pc # "idle" /\ j \in Jobs  BY JobIs DEF InFetch, OnPage
<1>2. /\ j.old \subseteq Touched
      /\ w \in past.clean => j.old \subseteq subscribed /\ j.types \subseteq subscribed
      /\ j.types \subseteq Touched
      /\ j.type \in j.types /\ j.type \in Types /\ j.type # None
    <2>1. j.type \in Types /\ j.type # None  BY <1>1, JobFacts DEF Jobs
    <2> QED BY <1>1, <2>1 DEF JobSound
<1>3. PICK k \in Jobs :
        /\ job' = [job EXCEPT ![w] = k]
        /\ k.r = j.r /\ k.old = j.old
        /\ \/ /\ k = Without(j) /\ Done(w, j.type)
              /\ Len(j.page) = 1 /\ j.full = FALSE
           \/ /\ UNCHANGED past
              /\ k.types = j.types /\ k.type = j.type /\ k.offset = j.offset
              /\ k.full = j.full /\ k.page = Tail(j.page)
              /\ \/ k.pc = "entity"
                 \/ k.pc = "fetch" /\ Tail(j.page) = <<>> /\ j.full = TRUE
  BY AdvanceIs
<1>4. job'[w] = k  BY <1>3 DEF SyncTyped
<1>5. CASE k = Without(j) /\ Done(w, j.type)
  <2>1. /\ Touched' = Touched /\ past'.clean = past.clean /\ past'.announced = past.announced
        /\ past' \in [announced : SUBSET Types, owed : SUBSET Types, clean : SUBSET Workers]
    BY <1>2, <1>5, TouchedDone, DoneIs
  <2>2. j \in Busy  BY <1>1, JobFacts
  <2>3. /\ k.pc = "fetch" /\ k.types = j.types \ {j.type}
        /\ k.type = None /\ k.offset = 0 /\ k.page = <<>> /\ k.old = j.old
    BY <1>5, <2>2, WithoutIs
  <2>4. JobSound(w)'
    <3> HIDE DEF j
    <3> QED BY <1>2, <1>3, <1>4, <2>1, <2>3, FetchSound
  <2> QED BY <1>3, <2>1, <2>4
<1>6. CASE /\ UNCHANGED past
           /\ k.types = j.types /\ k.type = j.type /\ k.offset = j.offset
           /\ k.full = j.full /\ k.page = Tail(j.page)
           /\ \/ k.pc = "entity"
              \/ k.pc = "fetch" /\ Tail(j.page) = <<>> /\ j.full = TRUE
  <2>1. Touched' = Touched /\ past' = past  BY <1>6 DEF Touched
  <2>2. (InFetch(job[w]))' /\ (OnPage(job[w])' => k.pc = "entity")
    BY <1>4, <1>6 DEF InFetch, OnPage
  <2>3. ASSUME NEW n \in 1 .. Len(k.page)
        PROVE  \E i \in 1 .. Len(order[j.type]) : order[j.type][i] = k.page[n].entity
    <3>1. /\ Len(Tail(j.page)) = Len(j.page) - 1 /\ Len(j.page) \in Nat
          /\ \A m \in 1 .. Len(Tail(j.page)) : Tail(j.page)[m] = j.page[m + 1]
      BY <1>1, JobFacts
    <3>2. k.page[n] = j.page[n + 1] /\ n + 1 \in 1 .. Len(j.page)  BY <1>6, <3>1
    <3> QED BY <3>2 DEF JobSound
  <2>4. k.pc \notin {"read", "write", "idle"}  BY <1>6
  <2>5. JobSound(w)'
    <3>1. /\ k.old \subseteq Touched' /\ k.types \subseteq Touched'
          /\ w \in past'.clean => k.old \subseteq subscribed' /\ k.types \subseteq subscribed'
          /\ k.type \in k.types /\ k.type # None
      BY <1>2, <1>3, <1>6, <2>1
    <3>2. k.pc = "fetch" => k.page = <<>> /\ k.full = TRUE  BY <1>6
    <3>3. (OnPage(job[w]))' => \A n \in 1 .. Len(k.page) :
             \E i \in 1 .. Len(order'[k.type]) : order'[k.type][i] = k.page[n].entity
      BY <1>6, <2>3
    <3> HIDE DEF j
    <3> QED BY <1>4, <2>2, <2>4, <3>1, <3>2, <3>3 DEF JobSound
  <2> QED BY <1>3, <2>1, <2>5 DEF SyncTyped
<1> QED BY <1>3, <1>5, <1>6

\* The look at an entity of the page.
LEMMA LookupSound ==
  ASSUME EntitiesSyncAssumption, SyncSound, NEW w \in Workers, Lookup(w)
  PROVE  SyncSound'
<1>1. OnPage(job[w]) /\ UNCHANGED <<order, known, subscribed, requests, asked, queue, entities,
                                    tasks, rows, faults>>
  BY DEF Lookup, OnPage, broker, stores
<1>2. /\ entities' \subseteq Entities /\ faults' \in 0 .. MaxFaults
      /\ tasks' \subseteq [store : Stores, entity : Entities, data : Measure]
      /\ subscribed' \subseteq Types
  BY <1>1 DEF SyncSound, SyncTyped
<1>3. CASE Skipped(job[w], Head(job[w].page).entity)
  <2>1. Advance(w, job[w]) /\ clock' = clock  BY <1>3 DEF Lookup
  <2>2. clock' \in [Entities -> Nat]  BY <2>1 DEF SyncSound, SyncTyped
  <2> QED BY <1>1, <1>2, <2>1, <2>2, AdvanceSound, WorkerSound
<1>4. CASE ~Skipped(job[w], Head(job[w].page).entity)
  <2> USE DEF SyncSound
  <2> DEFINE j == job[w]
             T == IF j.page[1].entity \notin Stamped
                        /\ j.page[1].data # known[j.page[1].entity]
                  THEN {j.type} ELSE {}
  <2>1. clock' \in [Entities -> Nat] /\ Owe(T) /\ T \in SUBSET Types
    <3>1. j.type \in Types /\ Owe(T) /\ clock' \in [Entities -> Nat]  BY <1>4, LookupIs
    <3> QED BY <3>1
  <2>2. PICK k \in Jobs :
          /\ job' = [job EXCEPT ![w] = k]
          /\ k.pc \in {"realtime", "create"}
          /\ k.r = j.r /\ k.old = j.old /\ k.types = j.types /\ k.type = j.type
          /\ k.offset = j.offset /\ k.full = j.full /\ k.page = j.page
    BY <1>4, LookupIs
  <2> HIDE DEF T
  <2>3. /\ Touched \subseteq Touched' /\ past'.clean \subseteq past.clean
        /\ past'.announced = past.announced
        /\ past' \in [announced : SUBSET Types, owed : SUBSET Types, clean : SUBSET Workers]
    BY <1>1, <2>1, TouchedOwe, OweIs
  <2>4. job'[w] = k /\ OnPage(k)  BY <2>2 DEF SyncTyped, OnPage
  <2>5. JobSound(w)'  BY <1>1, <2>2, <2>3, <2>4, SameSound
  <2> HIDE DEF SyncSound, j
  <2> QED BY <1>1, <1>2, <2>1, <2>2, <2>3, <2>5, WorkerSound
<1> QED BY <1>3, <1>4

\* The entity at the head of a page has the type of the page.
LEMMA HeadOfType ==
  ASSUME EntitiesSyncAssumption, SyncSound, NEW w \in Workers, OnPage(job[w]),
         NEW k \in 1 .. Len(job[w].page)
  PROVE  /\ TypeOf[job[w].page[k].entity] = job[w].type
         /\ job[w].page[k] \in Entry /\ job[w].page[k].entity \in Entities
         /\ job[w].type \in job[w].types /\ job[w].type \in Types
         /\ 1 \in 1 .. Len(job[w].page)
         /\ job[w].page[1] = Head(job[w].page)
<1>1. job[w] \in Jobs  BY JobIs DEF SyncSound, OnPage
<1>2. job[w].type \in Types /\ job[w].page \in Seq(Entry) /\ job[w].type # None
      /\ Len(job[w].page) \in Nat \ {0} /\ job[w].page[1] = Head(job[w].page)
  BY <1>1, JobFacts DEF Jobs
<1>3. PICK i \in 1 .. Len(order[job[w].type]) :
        order[job[w].type][i] = job[w].page[k].entity
  BY DEF SyncSound, JobSound
<1>4. TypeOf[job[w].page[k].entity] = job[w].type  BY <1>2, <1>3 DEF SyncSound, SeenSound
<1>5. job[w].page[k] \in Entry  BY <1>2, ElementOfSeq
<1>6. job[w].type \in job[w].types  BY <1>2 DEF SyncSound, JobSound, InFetch
<1> QED BY <1>2, <1>4, <1>5, <1>6 DEF Entry

\* The creation of an entity.
LEMMA CreateSound ==
  ASSUME EntitiesSyncAssumption, SyncSound, NEW w \in Workers, Create(w)
  PROVE  SyncSound'
<1> USE DEF SyncSound
<1> DEFINE j == job[w]
           e == job[w].page[1].entity
<1>1. OnPage(j) /\ UNCHANGED <<order, known, subscribed, clock, requests, asked, queue,
                               tasks, rows, faults>>
  BY DEF Create, OnPage, broker
<1>2. e \in Entities /\ entities' = entities \cup {e}  BY CreateIs
<1>3. /\ entities' \subseteq Entities /\ faults' \in 0 .. MaxFaults
      /\ tasks' \subseteq [store : Stores, entity : Entities, data : Measure]
      /\ subscribed' \subseteq Types /\ clock' \in [Entities -> Nat]
  BY <1>1, <1>2 DEF SyncTyped
<1>4. TypeOf[e] \in Touched
  <2>1. j \in Jobs  BY <1>1, JobIs DEF OnPage
  <2>2. 1 \in 1 .. Len(j.page)  BY <1>1, <2>1, JobFacts
  <2>3. TypeOf[e] = j.type /\ j.type \in j.types  BY <1>1, <2>2, HeadOfType
  <2> QED BY <1>1, <2>3 DEF JobSound, InFetch
<1>5. CASE job' = [job EXCEPT ![w] = Idle] /\ Owe(j.types) /\ j.types \in SUBSET Types
  <2>1. /\ Touched \subseteq Touched' /\ past'.clean \subseteq past.clean
        /\ past'.announced = past.announced
        /\ past' \in [announced : SUBSET Types, owed : SUBSET Types, clean : SUBSET Workers]
    BY <1>1, <1>5, TouchedOwe, OweIs
  <2>2. job'[w] = Idle  BY <1>5 DEF SyncTyped
  <2>3. JobSound(w)'  BY <2>2, IdleSound
  <2>4. \A x \in entities' : x \in entities \/ TypeOf[x] \in Touched'  BY <1>2, <1>4, <2>1
  <2> HIDE DEF SyncSound, j, e
  <2> QED BY <1>1, <1>3, <1>5, <2>1, <2>3, <2>4, WorkerSound
<1>6. CASE /\ UNCHANGED past
           /\ \E k \in Jobs :
                /\ job' = [job EXCEPT ![w] = k] /\ k.pc = "realtime"
                /\ k.r = j.r /\ k.old = j.old /\ k.types = j.types /\ k.type = j.type
                /\ k.offset = j.offset /\ k.full = j.full /\ k.page = j.page
                /\ k.item = j.item
  <2>1. PICK k \in Jobs :
          /\ job' = [job EXCEPT ![w] = k] /\ k.pc = "realtime"
          /\ k.r = j.r /\ k.old = j.old /\ k.types = j.types /\ k.type = j.type
          /\ k.offset = j.offset /\ k.full = j.full /\ k.page = j.page
    BY <1>6
  <2>2. Touched' = Touched /\ past' = past  BY <1>1, <1>6 DEF Touched
  <2>3. job'[w] = k /\ OnPage(k)  BY <2>1 DEF SyncTyped, OnPage
  <2>4. JobSound(w)'  BY <1>1, <2>1, <2>2, <2>3, SameSound
  <2>5. \A x \in entities' : x \in entities \/ TypeOf[x] \in Touched'  BY <1>2, <1>4, <2>2
  <2>6. past \in [announced : SUBSET Types, owed : SUBSET Types, clean : SUBSET Workers]
    BY DEF SyncTyped
  <2> HIDE DEF SyncSound, j, e
  <2> QED BY <1>1, <1>3, <2>1, <2>2, <2>4, <2>5, <2>6, WorkerSound
<1> QED BY <1>5, <1>6, CreateIs

\* The call that writes the realtime row.
LEMMA SendRealtimeSound ==
  ASSUME EntitiesSyncAssumption, SyncSound, NEW w \in Workers, SendRealtime(w)
  PROVE  SyncSound'
<1> USE DEF SyncSound
<1> DEFINE j == job[w]
<1>1. /\ OnPage(j) /\ tasks' = tasks \cup {Task(j, "realtime")}
      /\ UNCHANGED <<order, known, subscribed, clock, requests, asked, queue, entities, rows,
                     faults, past>>
  BY DEF SendRealtime, OnPage, broker
<1>2. PICK k \in Jobs :
        /\ job' = [job EXCEPT ![w] = k] /\ k.pc = "series"
        /\ k.r = j.r /\ k.old = j.old /\ k.types = j.types /\ k.type = j.type
        /\ k.offset = j.offset /\ k.full = j.full /\ k.page = j.page
  BY SendRealtimeIs
<1>3. Touched' = Touched /\ past' = past  BY <1>1 DEF Touched
<1>4. job'[w] = k /\ OnPage(k)  BY <1>2 DEF SyncTyped, OnPage
<1>5. JobSound(w)'  BY <1>1, <1>2, <1>3, <1>4, SameSound
<1>6. tasks' \subseteq [store : Stores, entity : Entities, data : Measure]
  <2>1. Task(j, "realtime") \in [store : Stores, entity : Entities, data : Measure]
    BY <1>1, TaskIs DEF Stores
  <2> HIDE DEF j
  <2> QED BY <1>1, <2>1 DEF SyncTyped
<1>7. /\ entities' \subseteq Entities /\ faults' \in 0 .. MaxFaults
      /\ subscribed' \subseteq Types /\ clock' \in [Entities -> Nat]
      /\ past \in [announced : SUBSET Types, owed : SUBSET Types, clean : SUBSET Workers]
  BY <1>1 DEF SyncTyped
<1> HIDE DEF SyncSound, j
<1> QED BY <1>1, <1>2, <1>3, <1>5, <1>6, <1>7, WorkerSound

\* The call that writes the series.
LEMMA SendSeriesSound ==
  ASSUME EntitiesSyncAssumption, SyncSound, NEW w \in Workers, SendSeries(w)
  PROVE  SyncSound'
<1> USE DEF SyncSound
<1>1. /\ OnPage(job[w]) /\ tasks' = tasks \cup {Task(job[w], "series")}
      /\ Advance(w, job[w])
      /\ UNCHANGED <<order, known, subscribed, clock, requests, asked, queue, entities, rows,
                     faults>>
  BY DEF SendSeries, OnPage, broker
<1>2. tasks' \subseteq [store : Stores, entity : Entities, data : Measure]
  <2>1. Task(job[w], "series") \in [store : Stores, entity : Entities, data : Measure]
    BY <1>1, TaskIs DEF Stores
  <2> QED BY <1>1, <2>1 DEF SyncTyped
<1>3. /\ entities' \subseteq Entities /\ faults' \in 0 .. MaxFaults
      /\ subscribed' \subseteq Types /\ clock' \in [Entities -> Nat]
  BY <1>1 DEF SyncTyped
<1> HIDE DEF SyncSound
<1> QED BY <1>1, <1>2, <1>3, AdvanceSound, WorkerSound

\* A type that fails.
LEMMA FailsSound ==
  ASSUME EntitiesSyncAssumption, SyncSound, NEW w \in Workers, TypeFails(w)
  PROVE  SyncSound'
<1> USE DEF SyncSound
<1> DEFINE j == job[w]
<1>1. /\ Fault /\ InFetch(j) /\ Owe({j.type}) /\ {j.type} \in SUBSET Types
      /\ UNCHANGED <<order, known, subscribed, clock, requests, asked, queue, entities, tasks,
                     rows>>
  BY FailsIs DEF TypeFails, broker, stores
<1>2. PICK k \in Jobs :
        /\ job' = [job EXCEPT ![w] = k] /\ k.pc = "fetch"
        /\ k.r = j.r /\ k.old = j.old /\ k.types = j.types \ {j.type}
        /\ k.type = None /\ k.offset = 0 /\ k.page = <<>>
  BY FailsIs
<1>3. /\ Touched \subseteq Touched' /\ past'.clean = {}
      /\ past'.announced = past.announced
      /\ past' \in [announced : SUBSET Types, owed : SUBSET Types, clean : SUBSET Workers]
  BY <1>1, TouchedOwe, OweIs
<1>4. job'[w] = k  BY <1>2 DEF SyncTyped
<1>5. j.pc # "idle"  BY <1>1 DEF InFetch, OnPage
<1>6. j.old \subseteq Touched /\ j.types \subseteq Touched  BY <1>1, <1>5 DEF JobSound
<1>7. JobSound(w)'  BY <1>2, <1>3, <1>4, <1>6, FetchSound
<1>8. /\ entities' \subseteq Entities /\ faults' \in 0 .. MaxFaults
      /\ subscribed' \subseteq Types /\ clock' \in [Entities -> Nat]
      /\ tasks' \subseteq [store : Stores, entity : Entities, data : Measure]
  BY <1>1, FaultIs DEF SyncTyped
<1> HIDE DEF SyncSound, j
<1> QED BY <1>1, <1>2, <1>3, <1>7, <1>8, WorkerSound

\* A job that dies.
LEMMA DiesIs ==
  ASSUME EntitiesSyncAssumption, SyncTyped, NEW w \in Workers, Dies(w)
  PROVE  /\ job' = [job EXCEPT ![w] = Idle]
         /\ Owe(job[w].types) /\ job[w].types \in SUBSET Types
         /\ Fault
<1>1. job[w] \in Jobs  BY JobIsNot DEF Dies
<1> QED BY <1>1, JobFacts DEF Dies

\* It leaves nothing at work.
LEMMA DiesSound ==
  ASSUME EntitiesSyncAssumption, SyncSound, NEW w \in Workers, Dies(w)
  PROVE  SyncSound'
<1> USE DEF SyncSound
<1>1. /\ job' = [job EXCEPT ![w] = Idle]
      /\ Owe(job[w].types) /\ job[w].types \in SUBSET Types
      /\ Fault
      /\ UNCHANGED <<order, known, subscribed, clock, requests, asked, queue, entities, tasks,
                     rows>>
  BY DiesIs DEF Dies, broker, stores
<1>2. /\ Touched \subseteq Touched' /\ past'.clean \subseteq past.clean
      /\ past'.announced = past.announced
      /\ past' \in [announced : SUBSET Types, owed : SUBSET Types, clean : SUBSET Workers]
  BY <1>1, TouchedOwe, OweIs
<1>3. job'[w] = Idle  BY <1>1 DEF SyncTyped
<1>4. JobSound(w)'  BY <1>3, IdleSound
<1>5. /\ entities' \subseteq Entities /\ faults' \in 0 .. MaxFaults
      /\ subscribed' \subseteq Types /\ clock' \in [Entities -> Nat]
      /\ tasks' \subseteq [store : Stores, entity : Entities, data : Measure]
  BY <1>1, FaultIs DEF SyncTyped
<1> HIDE DEF SyncSound
<1> QED BY <1>1, <1>2, <1>4, <1>5, WorkerSound

\* A task that runs.
LEMMA RunTaskSound ==
  ASSUME EntitiesSyncAssumption, SyncSound, NEW t \in tasks, RunTask(t)
  PROVE  SyncSound'
<1> USE DEF SyncSound
<1>1. t.store \in Stores /\ t.entity \in Entities /\ t.data \in Measure  BY DEF SyncTyped
<1>2. /\ tasks' = tasks \ {t}
      /\ rows' = [rows EXCEPT ![t.store][t.entity] = Newer(@, t.data)]
      /\ UNCHANGED <<order, known, subscribed, clock, requests, asked, queue, job, entities,
                     faults, past>>
  BY DEF RunTask, broker
<1>3. Newer(rows[t.store][t.entity], t.data) \in Measure  BY <1>1, NewerIs DEF SyncTyped
<1>4. rows' \in [Stores -> [Entities -> Measure]]  BY <1>1, <1>2, <1>3 DEF SyncTyped
<1>5. SyncTyped'  BY <1>2, <1>4 DEF SyncTyped
<1>6. Touched' = Touched /\ Longer  BY <1>2 DEF Touched, Longer
<1>7. \A v \in Workers : JobSound(v)'  BY <1>2, <1>6, OtherSound
<1>8. SeenSound'  BY <1>2, <1>6, SeenKept
<1> QED BY <1>5, <1>7, <1>8

\* A task that fails.
LEMMA TaskFailsIs ==
  ASSUME EntitiesSyncAssumption, SyncTyped, NEW t \in tasks, TaskFails(t)
  PROVE  /\ {TypeOf[t.entity]} \in SUBSET Types /\ t.entity \in Entities
         /\ Owe({TypeOf[t.entity]}) /\ Fault /\ tasks' = tasks \ {t}
         /\ UNCHANGED <<order, known, subscribed, clock, requests, asked, queue, job,
                        entities, rows>>
<1>1. t.entity \in Entities  BY DEF SyncTyped
<1>2. TypeOf[t.entity] \in Types  BY <1>1 DEF EntitiesSyncAssumption
<1> QED BY <1>1, <1>2 DEF TaskFails, broker

\* It changes no job.
LEMMA TaskFailsSound ==
  ASSUME EntitiesSyncAssumption, SyncSound, NEW t \in tasks, TaskFails(t)
  PROVE  SyncSound'
<1> USE DEF SyncSound
<1>1. /\ {TypeOf[t.entity]} \in SUBSET Types
      /\ Owe({TypeOf[t.entity]}) /\ Fault /\ tasks' = tasks \ {t}
      /\ UNCHANGED <<order, known, subscribed, clock, requests, asked, queue, job,
                     entities, rows>>
  BY TaskFailsIs
<1>2. /\ Touched \subseteq Touched' /\ past'.clean \subseteq past.clean
      /\ past'.announced = past.announced
      /\ past' \in [announced : SUBSET Types, owed : SUBSET Types, clean : SUBSET Workers]
  BY <1>1, TouchedOwe, OweIs
<1>3. faults' \in 0 .. MaxFaults  BY <1>1, FaultIs
<1>4. SyncTyped'  BY <1>1, <1>2, <1>3 DEF SyncTyped
<1>5. Longer  BY <1>1 DEF Longer
<1>6. \A v \in Workers : JobSound(v)'  BY <1>1, <1>2, <1>5, OtherSound
<1>7. SeenSound'  BY <1>1, <1>2, SeenKept
<1> QED BY <1>4, <1>6, <1>7

\* Every step keeps where the types come from.
LEMMA SyncSoundStep ==
  ASSUME EntitiesSyncAssumption, SyncSound, [Next]_vars
  PROVE  SyncSound'
<1>1. CASE SomeChange  BY <1>1, ChangeSound DEF SomeChange
<1>2. CASE \E n \in queue : Notified(n)  BY <1>2, NotifiedSound
<1>3. CASE \E r \in Requests : Request(r)  BY <1>3, RequestSound
<1>4. CASE \E w \in Workers : \E m \in requests : Start(w, m)  BY <1>4, StartSound
<1>5. CASE \E w \in Workers : Discover(w) \/ ReadSubscription(w)
  BY <1>5, DiscoverSound, ReadSound
<1>6. CASE \E w \in Workers : WriteSubscription(w) \/ WriteIgnored(w) \/ WriteUnanswered(w)
  BY <1>6, WriteSound, IgnoredSound, UnansweredSound
<1>7. CASE \E w \in Workers : Fetch(w) \/ Finish(w)  BY <1>7, FetchPageSound, FinishSound
<1>8. CASE \E w \in Workers : Lookup(w) \/ Create(w)  BY <1>8, LookupSound, CreateSound
<1>9. CASE \E w \in Workers : SendRealtime(w) \/ SendSeries(w)
  BY <1>9, SendRealtimeSound, SendSeriesSound
<1>10. CASE \E w \in Workers : TypeFails(w) \/ Dies(w)  BY <1>10, FailsSound, DiesSound
<1>11. CASE \E t \in tasks : RunTask(t) \/ TaskFails(t)
  BY <1>11, RunTaskSound, TaskFailsSound
<1>12. CASE UNCHANGED vars
  <2>1. UNCHANGED <<order, known, subscribed, clock, requests, asked, queue, job, entities, tasks,
                    rows, faults, past>>
    BY <1>12 DEF vars, broker, stores
  <2>2. Longer /\ Touched' = Touched  BY <2>1 DEF Longer, Touched
  <2>3. SyncTyped'  BY <2>1 DEF SyncSound, SyncTyped
  <2>4. \A v \in Workers : JobSound(v)'  BY <2>1, <2>2, OtherSound DEF SyncSound
  <2>5. SeenSound'  BY <2>1, <2>2, SeenKept DEF SyncSound
  <2> QED BY <2>3, <2>4, <2>5 DEF SyncSound
<1> QED BY <1>1, <1>2, <1>3, <1>4, <1>5, <1>6, <1>7, <1>8, <1>9, <1>10, <1>11, <1>12 DEF Next

-----------------------------------------------------------------------------
(* What the stores, the tasks and the jobs have of an entity.              *)

\* A measure that the platform may have of an entity.  What carries observedAt
\* has the instant of its version; what does not has been stamped by now.
Plausible(e, d) ==
  /\ d.at <= clock[e]
  /\ e \in Stamped => d.at = d.version /\ d.version <= known[e].version

\* Job j holds a measure it looked up.
HasItem(j) == j.pc \in {"create", "realtime", "series"}

JobPlausible(w) ==
  /\ OnPage(job[w]) =>
       \A k \in 1 .. Len(job[w].page) :
         Plausible(job[w].page[k].entity, job[w].page[k].data)
  /\ HasItem(job[w]) => Plausible(job[w].page[1].entity, job[w].item)

\* Everything that is known of an entity anywhere is plausible.
DataSound ==
  /\ \A e \in Entities : Plausible(e, known[e])
  /\ \A e \in Stamped : clock[e] = known[e].at
  /\ \A s \in Stores, e \in Entities : Plausible(e, rows[s][e])
  /\ \A n \in queue : Plausible(n.entity, n.data)
  /\ \A t \in tasks : Plausible(t.entity, t.data)
  /\ \A w \in Workers : JobPlausible(w)

\* Nothing is known of any entity at the start.
LEMMA DataInit ==
  ASSUME EntitiesSyncAssumption, Init
  PROVE  DataSound
BY DEF EntitiesSyncAssumption, Init, DataSound, Plausible, JobPlausible, HasItem, OnPage, Idle,
       Absent

\* A measure stays plausible as versions and instants grow.
LEMMA PlausibleKept ==
  ASSUME SyncTyped, SyncTyped', NEW e \in Entities, NEW d \in Measure, Plausible(e, d),
         clock'[e] >= clock[e], known'[e].version >= known[e].version
  PROVE  Plausible(e, d)'
BY DEF SyncTyped, Plausible, Measure

\* So does what a job has that does not move.
LEMMA JobPlausibleKept ==
  ASSUME EntitiesSyncAssumption, SyncSound, SyncSound', NEW w \in Workers, JobPlausible(w),
         \A e \in Entities : clock'[e] >= clock[e] /\ known'[e].version >= known[e].version,
         job'[w] = job[w]
  PROVE  JobPlausible(w)'
<1>1. SyncTyped /\ SyncTyped'  BY DEF SyncSound
<1>2. (OnPage(job[w]))' <=> OnPage(job[w])  BY DEF OnPage
<1>3. (HasItem(job[w]))' <=> HasItem(job[w])  BY DEF HasItem
<1>4. ASSUME OnPage(job[w]), NEW k \in 1 .. Len(job[w].page)
      PROVE  Plausible(job[w].page[k].entity, job[w].page[k].data)'
  <2>1. job[w].page[k] \in Entry  BY <1>4, HeadOfType
  <2>2. Plausible(job[w].page[k].entity, job[w].page[k].data)  BY <1>4 DEF JobPlausible
  <2>3. job[w].page[k].entity \in Entities /\ job[w].page[k].data \in Measure
    BY <2>1 DEF Entry
  <2>4. \A e \in Entities, d \in Measure : Plausible(e, d) => Plausible(e, d)'
    BY <1>1, PlausibleKept
  <2> QED BY <2>2, <2>3, <2>4 DEF Plausible
<1>5. ASSUME HasItem(job[w])
      PROVE  Plausible(job[w].page[1].entity, job[w].item)'
  <2>1. job[w] \in Jobs /\ OnPage(job[w])  BY <1>1, <1>5, JobIs DEF HasItem, OnPage
  <2>2. Head(job[w].page) = job[w].page[1] /\ Head(job[w].page) \in Entry /\ job[w].item \in Measure
    BY <2>1, JobFacts
  <2>3. Plausible(job[w].page[1].entity, job[w].item)  BY <1>5 DEF JobPlausible
  <2>4. \A e \in Entities, d \in Measure : Plausible(e, d) => Plausible(e, d)'
    BY <1>1, PlausibleKept
  <2>5. job[w].page[1].entity \in Entities  BY <2>2 DEF Entry
  <2> QED BY <2>2, <2>3, <2>4, <2>5 DEF Plausible
<1> QED BY <1>2, <1>3, <1>4, <1>5 DEF JobPlausible

\* A step in which the broker's entities do not change.
LEMMA DataFrame ==
  ASSUME EntitiesSyncAssumption, SyncSound, SyncSound', DataSound,
         known' = known, \A e \in Entities : clock'[e] >= clock[e],
         \A e \in Stamped : clock'[e] = clock[e],
         \A s \in Stores, e \in Entities :
           rows'[s][e] = rows[s][e] \/ Plausible(e, rows'[s][e]),
         queue' \subseteq queue,
         \A t \in tasks' : t \in tasks \/ Plausible(t.entity, t.data),
         \A v \in Workers : job'[v] = job[v] \/ JobPlausible(v)'
  PROVE  DataSound'
<1>1. SyncTyped /\ SyncTyped'  BY DEF SyncSound
<1>2. \A e \in Entities, d \in Measure : Plausible(e, d) => Plausible(e, d)'
  <2>1. \A e \in Entities : known'[e].version >= known[e].version
    BY <1>1 DEF SyncTyped, Measure
  <2> QED BY <1>1, <2>1, PlausibleKept
<1>3. \A e \in Entities : Plausible(e, known[e])'
  <2>1. \A e \in Entities : known[e] \in Measure /\ Plausible(e, known[e])
    BY <1>1 DEF SyncTyped, DataSound
  <2> QED BY <1>2, <2>1 DEF Plausible
<1>4. \A e \in Stamped : clock'[e] = known'[e].at
  BY DEF EntitiesSyncAssumption, DataSound
<1>5. \A s \in Stores, e \in Entities : Plausible(e, rows[s][e])'
  <2> SUFFICES ASSUME NEW s \in Stores, NEW e \in Entities  PROVE Plausible(e, rows[s][e])'
    OBVIOUS
  <2>1. rows[s][e] \in Measure /\ rows'[s][e] \in Measure  BY <1>1 DEF SyncTyped
  <2>2. Plausible(e, rows'[s][e])  BY DEF DataSound
  <2> QED BY <1>2, <2>1, <2>2 DEF Plausible
<1>6. \A n \in queue' : Plausible(n.entity, n.data)'
  <2> SUFFICES ASSUME NEW n \in queue'  PROVE Plausible(n.entity, n.data)'
    OBVIOUS
  <2>1. n \in queue /\ n.entity \in Entities /\ n.data \in Measure
    BY <1>1 DEF SyncTyped, Entry
  <2>2. Plausible(n.entity, n.data)  BY <2>1 DEF DataSound
  <2> QED BY <1>2, <2>1, <2>2 DEF Plausible
<1>7. \A t \in tasks' : Plausible(t.entity, t.data)'
  <2> SUFFICES ASSUME NEW t \in tasks'  PROVE Plausible(t.entity, t.data)'
    OBVIOUS
  <2>1. t.entity \in Entities /\ t.data \in Measure  BY <1>1 DEF SyncTyped
  <2>2. Plausible(t.entity, t.data)  BY DEF DataSound
  <2> QED BY <1>2, <2>1, <2>2 DEF Plausible
<1>8. \A v \in Workers : JobPlausible(v)'
  <2>1. \A e \in Entities : clock'[e] >= clock[e] /\ known'[e].version >= known[e].version
    BY <1>1 DEF SyncTyped, Measure
  <2> QED BY <2>1, JobPlausibleKept DEF DataSound
<1> QED BY <1>3, <1>4, <1>5, <1>6, <1>7, <1>8 DEF DataSound

\* A job without a page has nothing to check.
LEMMA NoPagePlausible ==
  ASSUME NEW w \in Workers, ~OnPage(job'[w])
  PROVE  JobPlausible(w)'
BY DEF JobPlausible, OnPage, HasItem

\* A job that goes on to the next entity of its page.
LEMMA AdvancePlausible ==
  ASSUME EntitiesSyncAssumption, SyncSound, DataSound, NEW w \in Workers, OnPage(job[w]),
         Advance(w, job[w]), clock' = clock, known' = known
  PROVE  JobPlausible(w)'
<1> DEFINE j == job[w]
<1>1. SyncTyped /\ j \in Jobs /\ JobPlausible(w)
  BY JobIs DEF SyncSound, OnPage, DataSound
<1>2. PICK k \in Jobs :
        /\ job' = [job EXCEPT ![w] = k]
        /\ k.r = j.r /\ k.old = j.old
        /\ \/ /\ k = Without(j) /\ Done(w, j.type)
              /\ Len(j.page) = 1 /\ j.full = FALSE
           \/ /\ UNCHANGED past
              /\ k.types = j.types /\ k.type = j.type /\ k.offset = j.offset
              /\ k.full = j.full /\ k.page = Tail(j.page)
              /\ \/ k.pc = "entity"
                 \/ k.pc = "fetch" /\ Tail(j.page) = <<>> /\ j.full = TRUE
  BY <1>1, AdvanceIs
<1>3. job'[w] = k  BY <1>1, <1>2 DEF SyncTyped
<1>4. CASE k.pc = "fetch"  BY <1>3, <1>4, NoPagePlausible DEF OnPage
<1>5. CASE k.pc # "fetch"
  <2>1. j \in Busy  BY <1>1, JobFacts
  <2>2. k # Without(j)  BY <1>5, <2>1, WithoutIs
  <2>3. k.page = Tail(j.page) /\ k.pc = "entity"  BY <1>2, <1>5, <2>2
  <2>4. /\ Len(Tail(j.page)) = Len(j.page) - 1 /\ Len(j.page) \in Nat
        /\ \A n \in 1 .. Len(Tail(j.page)) : Tail(j.page)[n] = j.page[n + 1]
    BY <1>1, JobFacts
  <2>5. ASSUME NEW n \in 1 .. Len(k.page)
        PROVE  Plausible(k.page[n].entity, k.page[n].data)
    <3>1. k.page[n] = j.page[n + 1] /\ n + 1 \in 1 .. Len(j.page)  BY <2>3, <2>4
    <3> QED BY <1>1, <3>1 DEF JobPlausible
  <2>6. ~(HasItem(job[w]))'  BY <1>3, <2>3 DEF HasItem
  <2> QED BY <1>3, <2>5, <2>6 DEF JobPlausible, Plausible
<1> QED BY <1>4, <1>5

\* A job at the same entity, with the same item.
LEMMA SamePlausible ==
  ASSUME EntitiesSyncAssumption, SyncSound, DataSound, NEW w \in Workers, HasItem(job[w]),
         NEW k \in Jobs, job'[w] = k, k.page = job[w].page, k.item = job[w].item,
         clock' = clock, known' = known
  PROVE  JobPlausible(w)'
<1>1. JobPlausible(w) /\ OnPage(job[w])  BY DEF DataSound, HasItem, OnPage
<1> QED BY <1>1 DEF JobPlausible, Plausible

\* A change in the broker.
LEMMA DataChange ==
  ASSUME EntitiesSyncAssumption, SyncSound, SyncSound', DataSound, NEW e \in Entities,
         Change(e)
  PROVE  DataSound'
<1>1. /\ known'[e].version = known[e].version + 1 /\ known'[e].at = clock[e] + 1
      /\ known' = [known EXCEPT ![e] = known'[e]]
      /\ clock' = [clock EXCEPT ![e] = clock[e] + 1]
  BY ChangeSound
<1>2. /\ UNCHANGED <<job, tasks, rows>>
      /\ queue' \subseteq queue \cup {[entity |-> e, data |-> known'[e]]}
  <2> DEFINE k == [version |-> known[e].version + 1, at |-> clock[e] + 1]
  <2>1. /\ known' = [known EXCEPT ![e] = k] /\ UNCHANGED <<job, tasks, rows>>
        /\ queue' \subseteq queue \cup {[entity |-> e, data |-> k]}
    BY DEF Change, stores
  <2>2. known'[e] = k
    <3> HIDE DEF k
    <3> QED BY <2>1 DEF SyncSound, SyncTyped
  <2> QED BY <2>1, <2>2
<1>3. SyncTyped /\ SyncTyped'  BY DEF SyncSound
<1>4. /\ clock[e] \in Nat /\ known[e].version \in Nat /\ known[e].at \in Nat
      /\ clock'[e] = clock[e] + 1
      /\ \A x \in Entities \ {e} : clock'[x] = clock[x] /\ known'[x] = known[x]
  <2>1. \A x \in Entities \ {e} : known'[x] = known[x]  BY <1>1, <1>3 DEF SyncTyped
  <2> QED BY <1>1, <1>3, <2>1 DEF SyncTyped, Measure
<1>5. \A x \in Entities : clock'[x] >= clock[x] /\ known'[x].version >= known[x].version
  <2> SUFFICES ASSUME NEW x \in Entities
               PROVE  clock'[x] >= clock[x] /\ known'[x].version >= known[x].version
    OBVIOUS
  <2>1. CASE x = e  BY <1>1, <1>4, <2>1
  <2>2. CASE x # e  BY <1>3, <1>4, <2>2 DEF SyncTyped, Measure
  <2> QED BY <2>1, <2>2
<1>6. \A x \in Entities, d \in Measure : Plausible(x, d) => Plausible(x, d)'
  BY <1>3, <1>5, PlausibleKept
<1>7. \A x \in Entities : Plausible(x, known[x])'
  <2> SUFFICES ASSUME NEW x \in Entities  PROVE Plausible(x, known[x])'
    OBVIOUS
  <2>1. CASE x = e
    <3>1. e \in Stamped => clock[e] = known[e].version
      BY DEF DataSound, Plausible
    <3> QED BY <1>1, <1>4, <2>1, <3>1 DEF Plausible
  <2>2. CASE x # e
    <3>1. known[x] \in Measure /\ Plausible(x, known[x]) /\ known'[x] = known[x]
      BY <1>3, <1>4, <2>2 DEF SyncTyped, DataSound
    <3> QED BY <1>6, <3>1 DEF Plausible
  <2> QED BY <2>1, <2>2
<1>8. \A x \in Stamped : clock'[x] = known'[x].at
  <2> SUFFICES ASSUME NEW x \in Stamped  PROVE clock'[x] = known'[x].at
    OBVIOUS
  <2>1. CASE x = e  BY <1>1, <1>4, <2>1
  <2>2. CASE x # e  BY <1>4, <2>2 DEF DataSound, EntitiesSyncAssumption
  <2> QED BY <2>1, <2>2
<1>9. \A s \in Stores, x \in Entities : Plausible(x, rows[s][x])'
  <2> SUFFICES ASSUME NEW s \in Stores, NEW x \in Entities  PROVE Plausible(x, rows[s][x])'
    OBVIOUS
  <2>1. rows[s][x] \in Measure /\ rows'[s][x] = rows[s][x]  BY <1>2, <1>3 DEF SyncTyped
  <2>2. Plausible(x, rows[s][x])  BY DEF DataSound
  <2> QED BY <1>6, <2>1, <2>2 DEF Plausible
<1>10. \A n \in queue' : Plausible(n.entity, n.data)'
  <2> SUFFICES ASSUME NEW n \in queue'  PROVE Plausible(n.entity, n.data)'
    OBVIOUS
  <2>1. CASE n \in queue
    <3>1. n.entity \in Entities /\ n.data \in Measure /\ Plausible(n.entity, n.data)
      BY <1>3, <2>1 DEF SyncTyped, Entry, DataSound
    <3> QED BY <1>6, <3>1 DEF Plausible
  <2>2. CASE n \notin queue
    <3>1. n.entity = e /\ n.data = known'[e]  BY <1>2, <2>2
    <3> QED BY <1>7, <3>1 DEF Plausible
  <2> QED BY <2>1, <2>2
<1>11. \A t \in tasks' : Plausible(t.entity, t.data)'
  <2> SUFFICES ASSUME NEW t \in tasks'  PROVE Plausible(t.entity, t.data)'
    OBVIOUS
  <2>1. t.entity \in Entities /\ t.data \in Measure /\ t \in tasks
    BY <1>2, <1>3 DEF SyncTyped
  <2>2. Plausible(t.entity, t.data)  BY <2>1 DEF DataSound
  <2> QED BY <1>6, <2>1, <2>2 DEF Plausible
<1>12. \A v \in Workers : JobPlausible(v)'
  BY <1>2, <1>5, JobPlausibleKept DEF DataSound
<1> QED BY <1>7, <1>8, <1>9, <1>10, <1>11, <1>12 DEF DataSound

\* The look at an entity, which stamps what has no instant.
LEMMA DataLookup ==
  ASSUME EntitiesSyncAssumption, SyncSound, SyncSound', DataSound, NEW w \in Workers,
         Lookup(w)
  PROVE  DataSound'
<1>1. OnPage(job[w]) /\ SyncTyped /\ UNCHANGED <<known, queue, tasks, rows>>
  BY DEF Lookup, OnPage, broker, stores, SyncSound
<1>2. CASE Skipped(job[w], Head(job[w].page).entity)
  <2>1. Advance(w, job[w]) /\ clock' = clock  BY <1>2 DEF Lookup
  <2>2. JobPlausible(w)'  BY <1>1, <2>1, AdvancePlausible
  <2>3. \A v \in Workers : v # w => job'[v] = job[v]
    <3>1. PICK k \in Jobs : job' = [job EXCEPT ![w] = k]  BY <1>1, <2>1, AdvanceIs
    <3> QED BY <1>1, <3>1 DEF SyncTyped
  <2>4. \A e \in Entities : clock'[e] >= clock[e]  BY <1>1, <2>1 DEF SyncTyped
  <2> QED BY <1>1, <2>1, <2>2, <2>3, <2>4, DataFrame
<1>3. CASE ~Skipped(job[w], Head(job[w].page).entity)
  <2> DEFINE j == job[w]
             e == j.page[1].entity
             data == j.page[1].data
  <2>1. /\ e \in Entities /\ data \in Measure /\ clock' \in [Entities -> Nat]
        /\ clock' = IF e \in Stamped THEN clock ELSE [clock EXCEPT ![e] = clock[e] + 1]
        /\ \E k \in Jobs :
             /\ job' = [job EXCEPT ![w] = k]
             /\ k.page = j.page
             /\ k.item.version = data.version
             /\ k.item.at = IF e \in Stamped THEN data.at ELSE clock[e] + 1
    BY <1>1, <1>3, LookupIs
  <2>2. PICK k \in Jobs :
             /\ job' = [job EXCEPT ![w] = k]
             /\ k.page = j.page
             /\ k.item.version = data.version
             /\ k.item.at = IF e \in Stamped THEN data.at ELSE clock[e] + 1
    BY <2>1
  <2>3. \A x \in Entities :
          /\ clock[x] \in Nat /\ clock'[x] >= clock[x]
          /\ x \in Stamped => clock'[x] = clock[x]
    <3> HIDE DEF e
    <3> QED BY <1>1, <2>1 DEF SyncTyped
  <2>4. job'[w] = k /\ \A v \in Workers : v # w => job'[v] = job[v]
    BY <1>1, <2>2 DEF SyncTyped
  <2>5. \A n \in 1 .. Len(j.page) :
          /\ j.page[n].entity \in Entities /\ j.page[n].data \in Measure
          /\ Plausible(j.page[n].entity, j.page[n].data)
    BY <1>1, HeadOfType DEF DataSound, JobPlausible, Entry
  <2>6. \A x \in Entities, d \in Measure : Plausible(x, d) => Plausible(x, d)'
    <3>1. \A x \in Entities : known'[x].version >= known[x].version
      BY <1>1 DEF SyncTyped, Measure
    <3> QED BY <2>3, <3>1, PlausibleKept DEF SyncSound
  <2>7. 1 \in 1 .. Len(j.page)
    <3>1. j \in Jobs  BY <1>1, JobIs DEF OnPage
    <3> QED BY <1>1, <3>1, JobFacts
  <2>8. /\ k.item.at <= clock'[e]
        /\ e \in Stamped => k.item.at = k.item.version /\ k.item.version <= known'[e].version
    <3>1. Plausible(e, data)  BY <2>5, <2>7
    <3>2. CASE e \in Stamped
      <4> HIDE DEF e, data
      <4> QED BY <1>1, <2>1, <2>2, <3>1, <3>2 DEF Plausible
    <3>3. CASE e \notin Stamped
      <4>1. clock'[e] = clock[e] + 1
        <5> HIDE DEF e
        <5> QED BY <1>1, <2>1, <3>3 DEF SyncTyped
      <4>2. clock[e] + 1 <= clock'[e]  BY <2>1, <2>3, <4>1
      <4> QED BY <2>2, <3>3, <4>2 DEF Plausible
    <3> QED BY <3>2, <3>3
  <2>9. \A n \in 1 .. Len(j.page) :
          LET x == j.page[n].entity  d == j.page[n].data IN
          /\ d.at <= clock'[x]
          /\ x \in Stamped => d.at = d.version /\ d.version <= known'[x].version
    BY <2>5, <2>6 DEF Plausible
  <2>10. JobPlausible(w)'
    <3> HIDE DEF j
    <3> QED BY <2>2, <2>4, <2>8, <2>9 DEF JobPlausible, Plausible
  <2> QED BY <1>1, <2>3, <2>4, <2>10, DataFrame DEF EntitiesSyncAssumption
<1> QED BY <1>2, <1>3

\* The other steps of a worker.
LEMMA DataWorker ==
  ASSUME EntitiesSyncAssumption, SyncSound, SyncSound', DataSound, NEW w \in Workers,
         NEW k \in Jobs \cup {Idle}, job' = [job EXCEPT ![w] = k],
         UNCHANGED <<known, clock, queue, rows>>,
         \A t \in tasks' : t \in tasks \/ Plausible(t.entity, t.data),
         JobPlausible(w)'
  PROVE  DataSound'
<1>1. SyncTyped  BY DEF SyncSound
<1>2. \A v \in Workers : job'[v] = job[v] \/ JobPlausible(v)'  BY <1>1 DEF SyncTyped
<1>3. \A e \in Entities : clock'[e] >= clock[e]  BY <1>1 DEF SyncTyped
<1> QED BY <1>2, <1>3, DataFrame

\* A step after which the job has no page.
LEMMA DataNoPage ==
  ASSUME EntitiesSyncAssumption, SyncSound, SyncSound', DataSound, NEW w \in Workers,
         NEW k \in Jobs \cup {Idle}, job' = [job EXCEPT ![w] = k], ~OnPage(k),
         UNCHANGED <<known, clock, queue, rows, tasks>>
  PROVE  DataSound'
<1>1. job'[w] = k  BY DEF SyncSound, SyncTyped
<1> QED BY <1>1, NoPagePlausible, DataWorker

\* A page has what the broker knows.
LEMMA DataFetch ==
  ASSUME EntitiesSyncAssumption, SyncSound, SyncSound', DataSound, NEW w \in Workers, Fetch(w)
  PROVE  DataSound'
<1> DEFINE j == job[w]
<1>1. SyncTyped /\ InFetch(j) /\ (j.type # None => j.type \in j.types) /\ j \in Jobs
  BY JobIs DEF SyncSound, JobSound, Fetch, InFetch
<1>2. PICK type \in Types, k \in Jobs :
        /\ type \in j.types /\ (j.type = type \/ j.type = None)
        /\ job' = [job EXCEPT ![w] = k] /\ k.r = j.r /\ k.old = j.old
        /\ \/ /\ Len(order[type]) <= j.offset
              /\ Done(w, type)
              /\ k.pc = "fetch" /\ k.types = j.types \ {type}
              /\ k.type = None /\ k.offset = 0 /\ k.page = <<>>
           \/ /\ UNCHANGED past
              /\ k.pc = "entity" /\ k.types = j.types /\ k.type = type
              /\ k.offset = j.offset + PageLimit
              /\ Len(k.page) \in Nat \ {0}
              /\ j.offset + Len(k.page) <= Len(order[type])
              /\ \A i \in 1 .. Len(k.page) :
                   k.page[i] = [entity |-> order[type][j.offset + i],
                                data |-> known[order[type][j.offset + i]]]
              /\ \/ k.full = TRUE /\ Len(k.page) = PageLimit
                 \/ j.offset + Len(k.page) = Len(order[type])
  BY <1>1, FetchIs
<1>3. UNCHANGED <<known, clock, queue, rows, tasks>>
  BY DEF Fetch, broker, stores
<1>4. CASE k.pc = "fetch"
  <2>1. ~OnPage(k)  BY <1>4 DEF OnPage
  <2> QED BY <1>2, <1>3, <2>1, DataNoPage
<1>5. CASE k.pc = "entity"
  <2>1. job'[w] = k  BY <1>1, <1>2 DEF SyncTyped
  <2>2. ASSUME NEW n \in 1 .. Len(k.page)
        PROVE  Plausible(k.page[n].entity, k.page[n].data)
    <3> DEFINE x == order[type][j.offset + n]
    <3>1. order[type] \in Seq(Entities) /\ j.offset \in Nat  BY <1>1, JobFacts DEF SyncTyped
    <3>2. Len(order[type]) \in Nat  BY <3>1, LenProperties
    <3>3. j.offset + n \in 1 .. Len(order[type])  BY <1>2, <1>5, <3>1, <3>2
    <3>4. x \in Entities  BY <3>1, <3>3, ElementOfSeq
    <3>5. k.page[n] = [entity |-> x, data |-> known[x]]  BY <1>2, <1>5
    <3> HIDE DEF x
    <3>6. k.page[n].entity = x /\ k.page[n].data = known[x]  BY <3>5
    <3> QED BY <3>4, <3>6 DEF DataSound
  <2>3. ~(HasItem(job[w]))'  BY <1>5, <2>1 DEF HasItem
  <2>4. JobPlausible(w)'  BY <1>3, <2>1, <2>2, <2>3 DEF JobPlausible, Plausible
  <2> QED BY <1>2, <1>3, <2>4, DataWorker
<1> QED BY <1>2, <1>4, <1>5

\* Every step keeps every measure plausible.
LEMMA DataStep ==
  ASSUME EntitiesSyncAssumption, SyncSound, SyncSound', DataSound, [Next]_vars
  PROVE  DataSound'
<1>0. SyncTyped  BY DEF SyncSound
<1>1. CASE SomeChange  BY <1>1, DataChange DEF SomeChange
<1>2. ASSUME NEW n \in queue, Notified(n)  PROVE DataSound'
  <2>1. n.entity \in Entities /\ n.data \in Measure /\ Plausible(n.entity, n.data)
    BY <1>0 DEF SyncTyped, Entry, DataSound
  <2>2. /\ rows' = [s \in Stores |-> [rows[s] EXCEPT ![n.entity] = Newer(@, n.data)]]
        /\ queue' = queue \ {n} /\ UNCHANGED <<known, clock, job, tasks>>
    BY <1>2 DEF Notified, broker
  <2>3. \A s \in Stores, e \in Entities :
          rows'[s][e] = rows[s][e] \/ Plausible(e, rows'[s][e])
    <3> SUFFICES ASSUME NEW s \in Stores, NEW e \in Entities
                 PROVE  rows'[s][e] = rows[s][e] \/ Plausible(e, rows'[s][e])
      OBVIOUS
    <3>1. CASE e = n.entity
      <4>1. rows[s][e] \in Measure /\ rows'[s][e] = Newer(rows[s][e], n.data)
        BY <1>0, <2>2, <3>1 DEF SyncTyped
      <4>2. rows'[s][e] \in {rows[s][e], n.data}  BY <2>1, <4>1, NewerIs
      <4> QED BY <2>1, <3>1, <4>2
    <3>2. CASE e # n.entity  BY <1>0, <2>2, <3>2 DEF SyncTyped
    <3> QED BY <3>1, <3>2
  <2>4. \A e \in Entities : clock'[e] >= clock[e]  BY <1>0, <2>2 DEF SyncTyped
  <2> QED BY <2>2, <2>3, <2>4, DataFrame
<1>3. ASSUME NEW r \in Requests, Request(r)  PROVE DataSound'
  <2>1. UNCHANGED <<known, clock, queue, rows, job, tasks>>
    BY <1>3 DEF Request, broker, stores
  <2>2. \A e \in Entities : clock'[e] >= clock[e]  BY <1>0, <2>1 DEF SyncTyped
  <2> QED BY <2>1, <2>2, DataFrame
<1>4. ASSUME NEW w \in Workers, NEW m \in requests, Start(w, m)  PROVE DataSound'
  <2>1. PICK k \in Jobs : job' = [job EXCEPT ![w] = k] /\ k.pc \in {"discover", "read", "fetch"}
    BY <1>0, <1>4, StartIs
  <2>2. ~OnPage(k) /\ UNCHANGED <<known, clock, queue, rows, tasks>>
    BY <1>4, <2>1 DEF OnPage, Start, broker, stores
  <2> QED BY <2>1, <2>2, DataNoPage
<1>5. ASSUME NEW w \in Workers, Discover(w)  PROVE DataSound'
  <2>1. PICK k \in Jobs : job' = [job EXCEPT ![w] = k] /\ k.pc \in {"read", "fetch"}
    BY <1>0, <1>5, DiscoverIs
  <2>2. ~OnPage(k) /\ UNCHANGED <<known, clock, queue, rows, tasks>>
    BY <1>5, <2>1 DEF OnPage, Discover, broker, stores
  <2> QED BY <2>1, <2>2, DataNoPage
<1>6. ASSUME NEW w \in Workers, ReadSubscription(w)  PROVE DataSound'
  <2>1. PICK k \in Jobs : job' = [job EXCEPT ![w] = k] /\ k.pc = "write"
    BY <1>0, <1>6, ReadIs
  <2>2. ~OnPage(k) /\ UNCHANGED <<known, clock, queue, rows, tasks>>
    BY <1>6, <2>1 DEF OnPage, ReadSubscription, broker, stores
  <2> QED BY <2>1, <2>2, DataNoPage
<1>7. ASSUME NEW w \in Workers, WriteSubscription(w)  PROVE DataSound'
  <2>1. PICK k \in Jobs : job' = [job EXCEPT ![w] = k] /\ k.pc = "fetch"
    BY <1>0, <1>7, WriteIs
  <2>2. ~OnPage(k) /\ UNCHANGED <<known, clock, queue, rows, tasks>>
    BY <1>7, <2>1 DEF OnPage, WriteSubscription, stores
  <2> QED BY <2>1, <2>2, DataNoPage
<1>8. ASSUME NEW w \in Workers, WriteIgnored(w)  PROVE DataSound'
  <2>1. PICK k \in Jobs : job' = [job EXCEPT ![w] = k] /\ k.pc = "fetch"
    BY <1>0, <1>8, IgnoredIs
  <2>2. ~OnPage(k) /\ UNCHANGED <<known, clock, queue, rows, tasks>>
    BY <1>8, <2>1 DEF OnPage, WriteIgnored, broker, stores
  <2> QED BY <2>1, <2>2, DataNoPage
<1>9. ASSUME NEW w \in Workers, WriteUnanswered(w) \/ Finish(w) \/ Dies(w)
      PROVE  DataSound'
  <2>1. job' = [job EXCEPT ![w] = Idle] /\ UNCHANGED <<known, clock, queue, rows, tasks>>
    BY <1>9 DEF WriteUnanswered, Finish, Dies, broker, stores
  <2>2. ~OnPage(Idle)  BY DEF OnPage, Idle
  <2> QED BY <2>1, <2>2, DataNoPage
<1>10. ASSUME NEW w \in Workers, Create(w)  PROVE DataSound'
  <2>1. HasItem(job[w]) /\ UNCHANGED <<known, clock, queue, rows, tasks>>
    BY <1>10 DEF HasItem, Create, broker
  <2>2. CASE job' = [job EXCEPT ![w] = Idle]
    <3>1. ~OnPage(Idle)  BY DEF OnPage, Idle
    <3> QED BY <2>1, <2>2, <3>1, DataNoPage
  <2>3. ASSUME NEW k \in Jobs, job' = [job EXCEPT ![w] = k], k.page = job[w].page,
               k.item = job[w].item
        PROVE  DataSound'
    <3>1. job'[w] = k  BY <1>0, <2>3 DEF SyncTyped
    <3>2. JobPlausible(w)'  BY <2>1, <2>3, <3>1, SamePlausible
    <3> QED BY <2>1, <2>3, <3>2, DataWorker
  <2> QED BY <1>0, <1>10, <2>2, <2>3, CreateIs
<1>11. ASSUME NEW w \in Workers, HasItem(job[w]), NEW s \in Stores,
              tasks' = tasks \cup {Task(job[w], s)}
       PROVE  \A t \in tasks' : t \in tasks \/ Plausible(t.entity, t.data)
  <2>1. /\ Task(job[w], s).entity = job[w].page[1].entity
        /\ Task(job[w], s).data = job[w].item
    BY <1>0, <1>11, TaskIs DEF OnPage, HasItem
  <2>2. Plausible(job[w].page[1].entity, job[w].item)
    BY <1>11 DEF DataSound, JobPlausible
  <2> QED BY <1>11, <2>1, <2>2
<1>12. ASSUME NEW w \in Workers, SendRealtime(w)  PROVE DataSound'
  <2>1. HasItem(job[w]) /\ tasks' = tasks \cup {Task(job[w], "realtime")}
        /\ UNCHANGED <<known, clock, queue, rows>>
    BY <1>12 DEF HasItem, SendRealtime, broker
  <2>2. PICK k \in Jobs : job' = [job EXCEPT ![w] = k] /\ k.page = job[w].page
                            /\ k.item = job[w].item
    BY <1>0, <1>12, SendRealtimeIs
  <2>3. job'[w] = k  BY <1>0, <2>2 DEF SyncTyped
  <2>4. JobPlausible(w)'  BY <2>1, <2>2, <2>3, SamePlausible
  <2> QED BY <1>11, <2>1, <2>2, <2>4, DataWorker DEF Stores
<1>13. ASSUME NEW w \in Workers, SendSeries(w)  PROVE DataSound'
  <2>1. /\ HasItem(job[w]) /\ OnPage(job[w]) /\ tasks' = tasks \cup {Task(job[w], "series")}
        /\ Advance(w, job[w]) /\ UNCHANGED <<known, clock, queue, rows>>
    BY <1>13 DEF HasItem, OnPage, SendSeries, broker
  <2>2. PICK k \in Jobs : job' = [job EXCEPT ![w] = k]  BY <1>0, <2>1, AdvanceIs
  <2>3. JobPlausible(w)'  BY <2>1, AdvancePlausible
  <2> QED BY <1>11, <2>1, <2>2, <2>3, DataWorker DEF Stores
<1>14. ASSUME NEW w \in Workers, TypeFails(w)  PROVE DataSound'
  <2>1. PICK k \in Jobs : job' = [job EXCEPT ![w] = k] /\ k.pc = "fetch"
    BY <1>0, <1>14, FailsIs
  <2>2. ~OnPage(k) /\ UNCHANGED <<known, clock, queue, rows, tasks>>
    BY <1>14, <2>1 DEF OnPage, TypeFails, broker, stores
  <2> QED BY <2>1, <2>2, DataNoPage
<1>15. ASSUME NEW t \in tasks, RunTask(t)  PROVE DataSound'
  <2>1. t.store \in Stores /\ t.entity \in Entities /\ t.data \in Measure
        /\ Plausible(t.entity, t.data)
    BY <1>0 DEF SyncTyped, DataSound
  <2>2. /\ rows' = [rows EXCEPT ![t.store][t.entity] = Newer(@, t.data)]
        /\ tasks' \subseteq tasks /\ UNCHANGED <<known, clock, job, queue>>
    BY <1>15 DEF RunTask, broker
  <2>3. \A s \in Stores, e \in Entities :
          rows'[s][e] = rows[s][e] \/ Plausible(e, rows'[s][e])
    <3> SUFFICES ASSUME NEW s \in Stores, NEW e \in Entities
                 PROVE  rows'[s][e] = rows[s][e] \/ Plausible(e, rows'[s][e])
      OBVIOUS
    <3>1. CASE e = t.entity /\ s = t.store
      <4>1. rows[s][e] \in Measure /\ rows'[s][e] = Newer(rows[s][e], t.data)
        BY <1>0, <2>2, <3>1 DEF SyncTyped
      <4>2. rows'[s][e] \in {rows[s][e], t.data}  BY <2>1, <4>1, NewerIs
      <4> QED BY <2>1, <3>1, <4>2
    <3>2. CASE ~(e = t.entity /\ s = t.store)  BY <1>0, <2>2, <3>2 DEF SyncTyped
    <3> QED BY <3>1, <3>2
  <2>4. \A e \in Entities : clock'[e] >= clock[e]  BY <1>0, <2>2 DEF SyncTyped
  <2>5. \A x \in tasks' : x \in tasks  BY <2>2
  <2> QED BY <2>2, <2>3, <2>4, <2>5, DataFrame
<1>16. ASSUME NEW t \in tasks, TaskFails(t)  PROVE DataSound'
  <2>1. tasks' = tasks \ {t} /\ UNCHANGED <<known, clock, queue, rows, job>>
    BY <1>0, <1>16, TaskFailsIs
  <2>2. \A e \in Entities : clock'[e] >= clock[e]  BY <1>0, <2>1 DEF SyncTyped
  <2> QED BY <2>1, <2>2, DataFrame
<1>17. CASE UNCHANGED vars
  <2>1. UNCHANGED <<known, clock, queue, rows, job, tasks>>
    BY <1>17 DEF vars, broker, stores
  <2>2. \A e \in Entities : clock'[e] >= clock[e]  BY <1>0, <2>1 DEF SyncTyped
  <2> QED BY <2>1, <2>2, DataFrame
<1> QED BY <1>1, <1>2, <1>3, <1>4, <1>5, <1>6, <1>7, <1>8, <1>9, <1>10, <1>12, <1>13, <1>14,
           <1>15, <1>16, <1>17, DataFetch, DataLookup DEF Next

-----------------------------------------------------------------------------
(* The measures that still travel to a store.                              *)

\* What job j looked up and still sends to store s.
Holds(j, s, e) ==
  /\ j.pc \in {"create", "realtime"} \/ (j.pc = "series" /\ s = "series")
  /\ j.page[1].entity = e

\* What store s has of e, or is about to get.
Carrier(s, e, d) ==
  \/ d = rows[s][e]
  \/ \E n \in queue : n.entity = e /\ n.data = d
  \/ \E t \in tasks : t.store = s /\ t.entity = e /\ t.data = d
  \/ \E w \in Workers : Holds(job[w], s, e) /\ job[w].item = d

\* A measure with the version of the broker.
Right(e, d) == d.version = known[e].version

\* Store s ends with the version that the broker has of e: what brings it is
\* newer than whatever brings another.
SettledIn(s, e) ==
  \E c \in Measure :
    /\ Carrier(s, e, c) /\ Right(e, c)
    /\ \A d \in Measure : Carrier(s, e, d) /\ ~Right(e, d) => d.at < c.at

Settled(e) == \A s \in Stores : SettledIn(s, e)

\* Whatever travels to a store is plausible.
LEMMA CarrierPlausible ==
  ASSUME EntitiesSyncAssumption, SyncSound, DataSound, NEW s \in Stores, NEW e \in Entities,
         NEW d, Carrier(s, e, d)
  PROVE  Plausible(e, d) /\ d \in Measure
<1>0. SyncTyped  BY DEF SyncSound
<1>1. CASE d = rows[s][e]  BY <1>0, <1>1 DEF SyncTyped, DataSound
<1>2. CASE \E n \in queue : n.entity = e /\ n.data = d
  BY <1>0, <1>2 DEF SyncTyped, Entry, DataSound
<1>3. CASE \E t \in tasks : t.store = s /\ t.entity = e /\ t.data = d
  BY <1>0, <1>3 DEF SyncTyped, DataSound
<1>4. ASSUME NEW w \in Workers, Holds(job[w], s, e), job[w].item = d
      PROVE  Plausible(e, d) /\ d \in Measure
  <2>1. HasItem(job[w]) /\ job[w].page[1].entity = e /\ job[w].pc # "idle"
    BY <1>4 DEF Holds, HasItem
  <2>2. job[w] \in Jobs  BY <1>0, <2>1, JobIs
  <2>3. job[w].item \in Measure  BY <2>2, JobFacts
  <2> QED BY <1>4, <2>1, <2>3 DEF DataSound, JobPlausible
<1> QED BY <1>1, <1>2, <1>3, <1>4 DEF Carrier

\* What brings a right measure of an entity with observedAt is newer than
\* whatever brings a wrong one.
LEMMA StampedRight ==
  ASSUME EntitiesSyncAssumption, SyncTyped, DataSound, NEW e \in Entities, e \in Stamped,
         NEW c \in Measure, NEW d \in Measure, Plausible(e, c), Plausible(e, d),
         Right(e, c), ~Right(e, d)
  PROVE  d.at < c.at
BY DEF Plausible, Right, Measure, SyncTyped

\* A store ends right if what travels to it is the same.
LEMMA SettledSame ==
  ASSUME NEW e \in Entities, known'[e] = known[e],
         \A s \in Stores, d \in Measure : Carrier(s, e, d)' <=> Carrier(s, e, d), Settled(e)
  PROVE  Settled(e)'
<1> SUFFICES ASSUME NEW s \in Stores  PROVE SettledIn(s, e)'
  BY DEF Settled
<1>1. PICK c \in Measure :
        /\ Carrier(s, e, c) /\ Right(e, c)
        /\ \A d \in Measure : Carrier(s, e, d) /\ ~Right(e, d) => d.at < c.at
  BY DEF Settled, SettledIn
<1>2. \A d : Right(e, d)' <=> Right(e, d)  BY DEF Right
<1>3. Carrier(s, e, c)' /\ Right(e, c)'  BY <1>1, <1>2
<1>4. \A d \in Measure : Carrier(s, e, d)' /\ ~Right(e, d)' => d.at < c.at  BY <1>1, <1>2
<1> HIDE DEF Carrier, Right
<1> QED BY <1>3, <1>4 DEF SettledIn

\* A row takes what was on the way to it.
LEMMA SettledMerged ==
  ASSUME SyncTyped, NEW s \in Stores, NEW e \in Entities, NEW new \in Measure,
         known'[e] = known[e], rows'[s][e] = Newer(rows[s][e], new), Carrier(s, e, new),
         \A d \in Measure : Carrier(s, e, d)' => Carrier(s, e, d),
         \A d \in Measure : Carrier(s, e, d) => \/ Carrier(s, e, d)'
                                                \/ d = new \/ d = rows[s][e],
         SettledIn(s, e)
  PROVE  SettledIn(s, e)'
<1>0. PICK row : row = rows'[s][e]  OBVIOUS
<1>1. PICK c \in Measure :
        /\ Carrier(s, e, c) /\ Right(e, c)
        /\ \A d \in Measure : Carrier(s, e, d) /\ ~Right(e, d) => d.at < c.at
  BY DEF SettledIn
<1>2. \A d : Right(e, d)' <=> Right(e, d)  BY DEF Right
<1>3. CASE Carrier(s, e, c)'
  <2>1. \A d \in Measure : Carrier(s, e, d)' /\ ~Right(e, d)' => d.at < c.at  BY <1>1, <1>2
  <2>2. Right(e, c)'  BY <1>1, <1>2
  <2> QED BY <1>3, <2>1, <2>2 DEF SettledIn
<1>4. CASE ~Carrier(s, e, c)'
  <2>1. rows[s][e] \in Measure /\ Carrier(s, e, rows[s][e])  BY DEF SyncTyped, Carrier
  <2>2. /\ row \in {rows[s][e], new} /\ row \in Measure
        /\ row.at >= rows[s][e].at /\ row.at >= new.at
    BY <1>0, <2>1, NewerIs
  <2>3. row.at >= c.at  BY <1>1, <1>4, <2>2
  <2>4. Carrier(s, e, row) /\ row.at \in Nat /\ c.at \in Nat  BY <2>1, <2>2 DEF Measure
  <2>5. Right(e, row)
    <3>1. ~(row.at < c.at)  BY <2>3, <2>4
    <3> QED BY <1>1, <2>2, <2>4, <3>1
  <2>6. Carrier(s, e, row)'  BY <1>0 DEF Carrier
  <2>7. Right(e, row)'  BY <1>2, <2>5
  <2>8. ASSUME NEW d \in Measure, Carrier(s, e, d)', ~Right(e, d)'
        PROVE  d.at < row.at
    <3>1. d.at < c.at  BY <1>1, <1>2, <2>8
    <3> QED BY <2>3, <2>4, <3>1 DEF Measure
  <2> QED BY <2>2, <2>6, <2>7, <2>8 DEF SettledIn
<1> QED BY <1>3, <1>4

\* A step of a worker that neither gains nor loses an item.
LEMMA CarrierFrame ==
  ASSUME SyncTyped, NEW w \in Workers, NEW k \in Jobs \cup {Idle},
         job' = [job EXCEPT ![w] = k], UNCHANGED <<rows, queue, tasks>>,
         NEW e \in Entities,
         \A s \in Stores : Holds(k, s, e) <=> Holds(job[w], s, e),
         \A s \in Stores : Holds(k, s, e) => k.item = job[w].item
  PROVE  \A s \in Stores, d \in Measure : Carrier(s, e, d)' <=> Carrier(s, e, d)
<1> SUFFICES ASSUME NEW s \in Stores, NEW d \in Measure
             PROVE  Carrier(s, e, d)' <=> Carrier(s, e, d)
  OBVIOUS
<1>1. job'[w] = k /\ \A v \in Workers : v # w => job'[v] = job[v]  BY DEF SyncTyped
<1>2. (\E v \in Workers : Holds(job'[v], s, e) /\ job'[v].item = d)
      <=> (\E v \in Workers : Holds(job[v], s, e) /\ job[v].item = d)
  <2>1. ASSUME NEW v \in Workers
        PROVE  (Holds(job'[v], s, e) /\ job'[v].item = d)
               <=> (Holds(job[v], s, e) /\ job[v].item = d)
    <3>1. CASE v = w  BY <1>1, <3>1
    <3>2. CASE v # w  BY <1>1, <3>2
    <3> QED BY <3>1, <3>2
  <2> QED BY <2>1
<1>3. (\E v \in Workers : Holds(job[v], s, e) /\ job[v].item = d)'
      <=> (\E v \in Workers : Holds(job'[v], s, e) /\ job'[v].item = d)
  BY DEF Holds
<1> QED BY <1>2, <1>3 DEF Carrier

\* A step after which nothing new travels to an entity.
LEMMA SettledFrame ==
  ASSUME SyncTyped, NEW w \in Workers, NEW k \in Jobs \cup {Idle},
         job' = [job EXCEPT ![w] = k], UNCHANGED <<rows, queue, tasks, known>>,
         NEW e \in Entities,
         \A s \in Stores : Holds(k, s, e) <=> Holds(job[w], s, e),
         \A s \in Stores : Holds(k, s, e) => k.item = job[w].item, Settled(e)
  PROVE  Settled(e)'
<1>1. \A s \in Stores, d \in Measure : Carrier(s, e, d)' <=> Carrier(s, e, d)
  BY CarrierFrame
<1> QED BY <1>1, SettledSame

\* A change of an entity of a subscribed type is on its way to both stores.
LEMMA ChangeSettles ==
  ASSUME EntitiesSyncAssumption, SyncSound, SyncSound', DataSound, NEW e \in Entities,
         Change(e)
  PROVE  /\ TypeOf[e] \in subscribed => Settled(e)'
         /\ \A x \in Entities \ {e} : known'[x] = known[x] /\ (Settled(x) => Settled(x)')
         /\ queue' \subseteq queue \cup {[entity |-> e, data |-> known'[e]]}
<1>0. SyncTyped /\ SyncTyped'  BY DEF SyncSound
<1>1. /\ known'[e].version = known[e].version + 1 /\ known'[e].at = clock[e] + 1
      /\ known' = [known EXCEPT ![e] = known'[e]]
  BY ChangeSound
<1>2. PICK c : c = known'[e]  OBVIOUS
<1>3. /\ UNCHANGED <<job, tasks, rows, subscribed>>
      /\ queue' = IF TypeOf[e] \in subscribed THEN queue \cup {[entity |-> e, data |-> c]}
                  ELSE queue
  <2> DEFINE k == [version |-> known[e].version + 1, at |-> clock[e] + 1]
  <2>1. /\ known' = [known EXCEPT ![e] = k] /\ UNCHANGED <<job, tasks, rows, subscribed>>
        /\ queue' = IF TypeOf[e] \in subscribed THEN queue \cup {[entity |-> e, data |-> k]}
                    ELSE queue
    BY DEF Change, stores
  <2>2. known'[e] = k
    <3> HIDE DEF k
    <3> QED BY <1>0, <2>1 DEF SyncTyped
  <2> QED BY <1>2, <2>1, <2>2
<1>4. c \in Measure /\ clock[e] \in Nat  BY <1>0, <1>2 DEF SyncTyped
<1>5. \A s \in Stores, x \in Entities, d \in Measure :
        Carrier(s, x, d)' <=> Carrier(s, x, d) \/ (TypeOf[e] \in subscribed /\ x = e /\ d = c)
  <2> SUFFICES ASSUME NEW s \in Stores, NEW x \in Entities, NEW d \in Measure
               PROVE  Carrier(s, x, d)' <=>
                        Carrier(s, x, d) \/ (TypeOf[e] \in subscribed /\ x = e /\ d = c)
    OBVIOUS
  <2>1. (\E v \in Workers : Holds(job[v], s, x) /\ job[v].item = d)'
        <=> (\E v \in Workers : Holds(job[v], s, x) /\ job[v].item = d)
    BY <1>3 DEF Holds
  <2>2. (\E n \in queue' : n.entity = x /\ n.data = d)
        <=> \/ \E n \in queue : n.entity = x /\ n.data = d
            \/ TypeOf[e] \in subscribed /\ x = e /\ d = c
    <3> DEFINE n == [entity |-> e, data |-> c]
    <3>1. n.entity = e /\ n.data = c  OBVIOUS
    <3>2. queue' = IF TypeOf[e] \in subscribed THEN queue \cup {n} ELSE queue  BY <1>3
    <3> HIDE DEF n
    <3>3. CASE TypeOf[e] \in subscribed  BY <3>1, <3>2, <3>3
    <3>4. CASE TypeOf[e] \notin subscribed  BY <3>2, <3>4
    <3> QED BY <3>3, <3>4
  <2> QED BY <1>3, <2>1, <2>2 DEF Carrier
<1>6. ASSUME TypeOf[e] \in subscribed, NEW s \in Stores  PROVE SettledIn(s, e)'
  <2>1. Carrier(s, e, c)' /\ Right(e, c)'  BY <1>2, <1>4, <1>5, <1>6 DEF Right
  <2>2. ASSUME NEW d \in Measure, Carrier(s, e, d)', ~Right(e, d)'
        PROVE  d.at < c.at
    <3>1. Carrier(s, e, d)  BY <1>2, <1>5, <2>2 DEF Right
    <3>2. d.at <= clock[e]  BY <3>1, CarrierPlausible DEF Plausible
    <3> QED BY <1>1, <1>2, <1>4, <3>2 DEF Measure
  <2> QED BY <1>4, <2>1, <2>2 DEF SettledIn
<1>7. ASSUME NEW x \in Entities \ {e}
      PROVE  known'[x] = known[x] /\ (Settled(x) => Settled(x)')
  <2>1. known'[x] = known[x]  BY <1>0, <1>1, <1>7 DEF SyncTyped
  <2>2. \A s \in Stores, d \in Measure : Carrier(s, x, d)' <=> Carrier(s, x, d)
    BY <1>5, <1>7
  <2> QED BY <2>1, <2>2, SettledSame
<1> QED BY <1>2, <1>3, <1>6, <1>7 DEF Settled

\* An entity looked up: what the job has of it is right, or is old and counts
\* as old.
LEMMA LookupSettles ==
  ASSUME EntitiesSyncAssumption, SyncSound, DataSound, NEW w \in Workers, Lookup(w),
         ~Skipped(job[w], Head(job[w].page).entity),
         NEW e, e = job[w].page[1].entity, NEW data, data = job[w].page[1].data
  PROVE  /\ (e \in Stamped \/ data = known[e]) /\ (data = known[e] \/ Settled(e)) =>
              \A s \in Stores : SettledIn(s, e)'
         /\ \A x \in Entities \ {e} : Settled(x) => Settled(x)'
<1>0. SyncTyped /\ OnPage(job[w]) /\ UNCHANGED <<known, queue, tasks, rows>>
  BY DEF SyncSound, Lookup, OnPage, broker, stores
<1>1. e = job[w].page[1].entity /\ data = job[w].page[1].data
  OBVIOUS
<1>2. LET x == job[w].page[1].entity  d == job[w].page[1].data IN
      /\ x \in Entities /\ d \in Measure
      /\ \E k \in Jobs :
           /\ job' = [job EXCEPT ![w] = k]
           /\ k.pc = IF x \in entities THEN "realtime" ELSE "create"
           /\ k.page = job[w].page
           /\ k.item.version = d.version
           /\ k.item.at = IF x \in Stamped THEN d.at ELSE clock[x] + 1
  BY <1>0, LookupIs
<1>3. PICK k \in Jobs :
           /\ job' = [job EXCEPT ![w] = k]
           /\ k.pc = IF e \in entities THEN "realtime" ELSE "create"
           /\ k.page = job[w].page
           /\ k.item.version = data.version
           /\ k.item.at = IF e \in Stamped THEN data.at ELSE clock[e] + 1
  BY <1>1, <1>2
<1>20. e \in Entities /\ data \in Measure  BY <1>1, <1>2
<1>4. k.item \in Measure  BY JobFacts DEF EntitiesSyncAssumption
<1>5. job'[w] = k /\ \A v \in Workers : v # w => job'[v] = job[v]  BY <1>0, <1>3 DEF SyncTyped
<1>6. \A s \in Stores, x \in Entities :
        (Holds(k, s, x) <=> x = e) /\ ~Holds(job[w], s, x)
  <2>1. job[w].pc = "entity" /\ k.pc \in {"realtime", "create"}  BY <1>3 DEF Lookup
  <2> QED BY <1>1, <1>3, <2>1 DEF Holds
<1>7. \A s \in Stores, x \in Entities, d \in Measure :
        Carrier(s, x, d)' <=> Carrier(s, x, d) \/ (x = e /\ d = k.item)
  <2> SUFFICES ASSUME NEW s \in Stores, NEW x \in Entities, NEW d \in Measure
               PROVE  Carrier(s, x, d)' <=> Carrier(s, x, d) \/ (x = e /\ d = k.item)
    OBVIOUS
  <2>1. (\E v \in Workers : Holds(job[v], s, x) /\ job[v].item = d)'
        <=> (\E v \in Workers : Holds(job'[v], s, x) /\ job'[v].item = d)
    BY DEF Holds
  <2>2. (\E v \in Workers : Holds(job'[v], s, x) /\ job'[v].item = d)
        <=> \/ \E v \in Workers : Holds(job[v], s, x) /\ job[v].item = d
            \/ x = e /\ d = k.item
    <3>1. ASSUME NEW v \in Workers
          PROVE  (Holds(job'[v], s, x) /\ job'[v].item = d)
                 <=> \/ Holds(job[v], s, x) /\ job[v].item = d
                     \/ v = w /\ x = e /\ d = k.item
      <4>1. CASE v = w  BY <1>5, <1>6, <4>1
      <4>2. CASE v # w  BY <1>5, <4>2
      <4> QED BY <4>1, <4>2
    <3> QED BY <3>1
  <2> QED BY <1>0, <2>1, <2>2 DEF Carrier
<1>8. ASSUME NEW x \in Entities, x # e, Settled(x)  PROVE Settled(x)'
  <2>1. \A s \in Stores, d \in Measure : Carrier(s, x, d)' <=> Carrier(s, x, d)
    BY <1>7, <1>8
  <2> QED BY <1>0, <1>8, <2>1, SettledSame
<1>9. \A d : Right(e, d)' <=> Right(e, d)  BY <1>0 DEF Right
<1>10. ASSUME data = known[e], NEW s \in Stores  PROVE SettledIn(s, e)'
  <2>1. Right(e, k.item)  BY <1>3, <1>10 DEF Right
  <2>2. ASSUME NEW d \in Measure, Carrier(s, e, d)', ~Right(e, d)'
        PROVE  d.at < k.item.at
    <3>1. Carrier(s, e, d) /\ ~Right(e, d)  BY <1>20, <1>7, <1>9, <2>1, <2>2
    <3>2. Plausible(e, d)  BY <1>20, <3>1, CarrierPlausible
    <3>3. CASE e \in Stamped
      <4>1. known[e] \in Measure /\ Plausible(e, known[e]) /\ Right(e, known[e])
        BY <1>0, <1>20 DEF SyncTyped, DataSound, Right
      <4>2. d.at < known[e].at  BY <1>0, <1>20, <3>1, <3>2, <3>3, <4>1, StampedRight
      <4> QED BY <1>3, <1>10, <3>3, <4>2
    <3>4. CASE e \notin Stamped
      BY <1>0, <1>20, <1>3, <3>2, <3>4 DEF Plausible, SyncTyped, Measure
    <3> QED BY <3>3, <3>4
  <2>3. Carrier(s, e, k.item)' /\ Right(e, k.item)'  BY <1>20, <1>4, <1>7, <1>9, <2>1
  <2> QED BY <1>4, <2>2, <2>3 DEF SettledIn
<1>11. ASSUME e \in Stamped, Settled(e), NEW s \in Stores  PROVE SettledIn(s, e)'
  <2>1. PICK c \in Measure :
          /\ Carrier(s, e, c) /\ Right(e, c)
          /\ \A d \in Measure : Carrier(s, e, d) /\ ~Right(e, d) => d.at < c.at
    BY <1>11 DEF Settled, SettledIn
  <2>2. Carrier(s, e, c)' /\ Right(e, c)'  BY <1>20, <1>7, <1>9, <2>1
  <2>3. Plausible(e, k.item)
    <3>1. 1 \in 1 .. Len(job[w].page)
      <4>1. job[w] \in Jobs  BY <1>0, JobIs DEF OnPage
      <4> QED BY <1>0, <4>1, JobFacts
    <3>2. Plausible(e, data)  BY <1>0, <1>1, <3>1 DEF DataSound, JobPlausible
    <3> QED BY <1>3, <1>11, <3>2 DEF Plausible
  <2>4. ASSUME NEW d \in Measure, Carrier(s, e, d)', ~Right(e, d)'
        PROVE  d.at < c.at
    <3>1. CASE Carrier(s, e, d)  BY <1>9, <2>1, <2>4, <3>1
    <3>2. CASE ~Carrier(s, e, d)
      <4>1. d = k.item /\ ~Right(e, d)  BY <1>20, <1>7, <1>9, <2>4, <3>2
      <4>2. Plausible(e, c)  BY <1>20, <2>1, CarrierPlausible
      <4> QED BY <1>0, <1>20, <1>4, <1>11, <2>1, <2>3, <4>1, <4>2, StampedRight
    <3> QED BY <3>1, <3>2
  <2> QED BY <2>2, <2>4 DEF SettledIn
<1>12. \A s \in Stores :
         (e \in Stamped \/ data = known[e]) /\ (data = known[e] \/ Settled(e)) =>
           SettledIn(s, e)'
  BY <1>10, <1>11
<1> QED BY <1>1, <1>8, <1>12

-----------------------------------------------------------------------------
(* What the jobs still have to bring.                                      *)

\* The types that nothing happened to.
Live == subscribed \ past.owed

\* What is on the page of a job and not yet looked up.
AtHand(j, k) == k > 1 \/ j.pc = "entity"

\* Job j still comes to e, the i-th entity of type t.
Ahead(j, t, i, e) ==
  /\ InFetch(j) /\ t \in j.types
  /\ \/ j.type # t
     \/ j.full = TRUE /\ i > j.offset
     \/ \E k \in 1 .. Len(j.page) : AtHand(j, k) /\ j.page[k].entity = e

\* Job w will send it: it forces, or nobody created the entity yet.
Coming(w, t, i, e) ==
  Ahead(job[w], t, i, e) /\ (job[w].r.existing \/ e \notin entities)

\* An entity of a live type ends right in both stores, or a job comes to it.
Promised ==
  \A t \in Live : \A i \in 1 .. Len(order[t]) : \A e \in Entities :
    e = order[t][i] => Settled(e) \/ \E w \in Workers : Coming(w, t, i, e)

\* A forced job that nothing disturbed leaves nothing behind.
ForcedAt(w) ==
  w \in past.clean /\ InFetch(job[w]) /\ job[w].r.existing =>
    \A t \in job[w].types : \A i \in 1 .. Len(order[t]) : \A e \in Entities :
      e = order[t][i] => Settled(e) \/ Ahead(job[w], t, i, e)

\* What changed since its page came has been notified.
FreshAt(w) ==
  OnPage(job[w]) /\ (job[w].type \in Live \/ w \in past.clean) =>
    \A k \in 1 .. Len(job[w].page) : \A e \in Entities :
      e = job[w].page[k].entity =>
        Settled(e) \/ (AtHand(job[w], k) /\ job[w].page[k].data = known[e])

\* What waits to be notified settles.
Arrived ==
  \A n \in queue : \A e \in Entities :
    e = n.entity /\ TypeOf[e] \in Live => Settled(e)

MainSound == Promised /\ (\A w \in Workers : ForcedAt(w) /\ FreshAt(w)) /\ Arrived

\* No type is subscribed to at the start.
LEMMA MainInit ==
  ASSUME EntitiesSyncAssumption, Init
  PROVE  MainSound
<1>1. Live = {} /\ queue = {} /\ past.clean = {} /\ \A w \in Workers : job[w] = Idle
  BY DEF Init, Live
<1>2. \A w \in Workers : ~OnPage(job[w])  BY <1>1 DEF OnPage, Idle
<1> QED BY <1>1, <1>2 DEF MainSound, Promised, ForcedAt, FreshAt, Arrived

-----------------------------------------------------------------------------
(* What a step keeps.                                                      *)

\* What is settled stays so, for the types that still count.
Keeps ==
  \A e \in Entities :
    Settled(e) /\ (TypeOf[e] \in Live' \/ past'.clean # {}) => Settled(e)'

\* What job w comes to, it still comes to or has settled.
Moved(w) ==
  /\ \A t \in Live' : \A i \in 1 .. Len(order[t]) : \A e \in Entities :
       e = order[t][i] /\ Coming(w, t, i, e) =>
         Settled(e)' \/ (Ahead(job'[w], t, i, e) /\ job'[w].r = job[w].r)
  /\ ForcedAt(w)'
  /\ FreshAt(w)'

\* A type becomes live with all its entities settled or all of them ahead.
Joins ==
  \A t \in Live' \ Live :
    \/ \A i \in 1 .. Len(order[t]) : \A e \in Entities : e = order[t][i] => Settled(e)'
    \/ /\ t \notin Touched
       /\ \E v \in Workers : \A i \in 1 .. Len(order[t]) : \A e \in Entities :
            Ahead(job'[v], t, i, e)

\* What is ahead of a job depends on the job alone.
LEMMA AheadNext ==
  ASSUME NEW v \in Workers, NEW t, NEW i, NEW e
  PROVE  Ahead(job[v], t, i, e)' <=> Ahead(job'[v], t, i, e)
BY DEF Ahead, InFetch, OnPage, AtHand

\* A job that did not move.
LEMMA StayedSound ==
  ASSUME EntitiesSyncAssumption, SyncSound, SyncSound', MainSound,
         order' = order, known' = known, Keeps, Joins, NEW v \in Workers,
         job'[v] = job[v], v \in past'.clean => v \in past.clean
  PROVE  ForcedAt(v)' /\ FreshAt(v)'
<1>1. /\ (InFetch(job[v]))' <=> InFetch(job[v])
      /\ (OnPage(job[v]))' <=> OnPage(job[v])
      /\ \A k : AtHand(job[v], k)' <=> AtHand(job[v], k)
  BY DEF InFetch, OnPage, AtHand
<1>2. \A t, i, e : Ahead(job[v], t, i, e)' <=> Ahead(job[v], t, i, e)
  BY DEF Ahead, InFetch, OnPage, AtHand
<1>3. ForcedAt(v)'
  <2> SUFFICES ASSUME v \in past'.clean, InFetch(job[v]), job[v].r.existing,
                      NEW t \in job[v].types, NEW i \in 1 .. Len(order[t]),
                      NEW e \in Entities, e = order[t][i]
               PROVE  Settled(e)' \/ Ahead(job[v], t, i, e)
    BY <1>1, <1>2 DEF ForcedAt
  <2>1. Settled(e) \/ Ahead(job[v], t, i, e)  BY DEF MainSound, ForcedAt
  <2> QED BY <2>1 DEF Keeps
<1>4. FreshAt(v)'
  <2> SUFFICES ASSUME OnPage(job[v]), job[v].type \in Live' \/ v \in past'.clean,
                      NEW k \in 1 .. Len(job[v].page), NEW e \in Entities,
                      e = job[v].page[k].entity
               PROVE  Settled(e)' \/ (AtHand(job[v], k) /\ job[v].page[k].data = known[e])
    BY <1>1 DEF FreshAt
  <2>1. TypeOf[e] = job[v].type /\ job[v].type \in job[v].types /\ job[v].type \in Types
    BY HeadOfType
  <2>2. CASE job[v].type \in Live \/ v \in past.clean
    <3>1. Settled(e) \/ (AtHand(job[v], k) /\ job[v].page[k].data = known[e])
      BY <2>2 DEF MainSound, FreshAt
    <3> QED BY <2>1, <3>1 DEF Keeps
  <2>3. CASE job[v].type \notin Live /\ v \notin past.clean
    <3>1. job[v].type \in Live' \ Live  BY <2>3
    <3>2. job[v].type \in Touched  BY <2>1 DEF SyncSound, JobSound, InFetch
    <3>3. PICK i \in 1 .. Len(order[job[v].type]) : order[job[v].type][i] = e
      BY DEF SyncSound, JobSound
    <3> QED BY <3>1, <3>2, <3>3 DEF Joins
  <2> QED BY <2>2, <2>3
<1> QED BY <1>3, <1>4

\* What is to be shown of a step in which the broker's entities do not change.
LEMMA MainFrame ==
  ASSUME EntitiesSyncAssumption, SyncSound, SyncSound', MainSound,
         order' = order, known' = known, queue' \subseteq queue, Keeps, Joins,
         \A e \in entities' : e \in entities \/ TypeOf[e] \notin Live' \/ Settled(e)',
         \A v \in Workers : \/ job'[v] = job[v] /\ (v \in past'.clean => v \in past.clean)
                            \/ Moved(v)
  PROVE  MainSound'
<1>1. \A w \in Workers : ForcedAt(w)' /\ FreshAt(w)'
  BY StayedSound DEF Moved
<1>2. \A t \in Live : t \in Types  BY DEF Live, SyncSound, SyncTyped
<1>3. \A t \in Live' : t \in Types  BY DEF Live, SyncSound, SyncTyped
<1>4. ASSUME NEW t \in Live', NEW i \in 1 .. Len(order[t]), NEW e \in Entities, e = order[t][i]
      PROVE  Settled(e)' \/ \E w \in Workers : Coming(w, t, i, e)'
  <2>0. TypeOf[e] = t  BY <1>3, <1>4 DEF SyncSound, SeenSound
  <2>1. e \in entities' => e \in entities \/ Settled(e)'  BY <1>4, <2>0
  <2>2. CASE t \notin Live
    <3>1. CASE \E v \in Workers : Ahead(job'[v], t, i, e) /\ t \notin Touched
      <4>1. e \notin entities  BY <2>0, <3>1 DEF SyncSound, SeenSound
      <4> QED BY <2>1, <3>1, <4>1, AheadNext DEF Coming
    <3> QED BY <1>4, <2>2, <3>1 DEF Joins
  <2>3. CASE t \in Live
    <3>1. CASE Settled(e)  BY <1>4, <2>0, <3>1 DEF Keeps
    <3>2. ASSUME NEW w \in Workers, Coming(w, t, i, e)
          PROVE  Settled(e)' \/ Coming(w, t, i, e)'
      <4>1. Settled(e)' \/ (Ahead(job'[w], t, i, e) /\ job'[w].r = job[w].r)
        BY <1>4, <3>2 DEF Moved, Coming
      <4> QED BY <2>1, <3>2, <4>1, AheadNext DEF Coming
    <3> QED BY <1>4, <2>3, <3>1, <3>2 DEF MainSound, Promised
  <2> QED BY <2>2, <2>3
<1>5. Promised'  BY <1>4 DEF Promised
<1>6. Arrived'
  <2> SUFFICES ASSUME NEW n \in queue', NEW e \in Entities, e = n.entity, TypeOf[e] \in Live'
               PROVE  Settled(e)'
    BY DEF Arrived
  <2>1. n \in queue /\ TypeOf[e] \in Touched /\ Listed(e)
    BY DEF SyncSound, SeenSound
  <2>2. CASE TypeOf[e] \in Live
    <3>1. Settled(e)  BY <2>1, <2>2 DEF MainSound, Arrived
    <3> QED BY <3>1 DEF Keeps
  <2>3. CASE TypeOf[e] \notin Live  BY <2>1, <2>3 DEF Joins, Listed
  <2> QED BY <2>2, <2>3
<1> QED BY <1>1, <1>5, <1>6 DEF MainSound

\* A job that begins with its types, gives one of them up or ends.
LEMMA LeavesMoved ==
  ASSUME EntitiesSyncAssumption, SyncSound, NEW w \in Workers, NEW k \in Jobs \cup {Idle},
         job' = [job EXCEPT ![w] = k], order' = order, ~OnPage(k),
         k.pc = "fetch" => k.type = None,
         \A t \in Live' : InFetch(job[w]) /\ t \in job[w].types =>
           k.pc = "fetch" /\ t \in k.types /\ k.r = job[w].r
  PROVE  Moved(w)
<1>1. job'[w] = k  BY DEF SyncSound, SyncTyped
<1>2. ASSUME k.pc = "fetch", NEW t \in k.types, NEW i, NEW e
      PROVE  Ahead(k, t, i, e)
  <2>1. k \in Jobs  BY <1>2 DEF Idle
  <2>2. t # None  BY <2>1, JobFacts DEF EntitiesSyncAssumption
  <2> QED BY <1>2, <2>2 DEF Ahead, InFetch
<1>3. ForcedAt(w)'
  <2>1. (InFetch(job[w]))' <=> k.pc = "fetch"  BY <1>1 DEF InFetch, OnPage
  <2> QED BY <1>1, <1>2, <2>1, AheadNext DEF ForcedAt
<1>4. FreshAt(w)'
  <2>1. ~(OnPage(job[w]))'  BY <1>1 DEF OnPage
  <2> QED BY <2>1 DEF FreshAt
<1>5. ASSUME NEW t \in Live', NEW i, NEW e, Coming(w, t, i, e)
      PROVE  Ahead(job'[w], t, i, e) /\ job'[w].r = job[w].r
  <2>1. InFetch(job[w]) /\ t \in job[w].types  BY <1>5 DEF Coming, Ahead
  <2> QED BY <1>1, <1>2, <2>1
<1> QED BY <1>3, <1>4, <1>5 DEF Moved

\* Whatever such a job carries is lost.
LEMMA LeavesKeeps ==
  ASSUME EntitiesSyncAssumption, SyncSound, NEW w \in Workers, NEW k \in Jobs \cup {Idle},
         job' = [job EXCEPT ![w] = k], UNCHANGED <<rows, queue, tasks, known>>, ~HasItem(k),
         HasItem(job[w]) => job[w].type \notin Live' /\ past'.clean = {}
  PROVE  Keeps
<1> SUFFICES ASSUME NEW e \in Entities, Settled(e), TypeOf[e] \in Live' \/ past'.clean # {}
             PROVE  Settled(e)'
  BY DEF Keeps
<1>1. ASSUME NEW s \in Stores  PROVE ~Holds(job[w], s, e)
  <2> SUFFICES ASSUME Holds(job[w], s, e)  PROVE FALSE
    OBVIOUS
  <2>1. HasItem(job[w]) /\ OnPage(job[w]) /\ job[w].page[1].entity = e
    BY DEF Holds, HasItem, OnPage
  <2>2. Len(job[w].page) \in Nat \ {0}
    <3>1. job[w] \in Jobs  BY <2>1, JobIs DEF SyncSound, OnPage
    <3> QED BY <2>1, <3>1, JobFacts
  <2>3. 1 \in 1 .. Len(job[w].page)  BY <2>2
  <2>4. TypeOf[e] = job[w].type  BY <2>1, <2>3, HeadOfType
  <2> QED BY <2>1, <2>4
<1>2. \A s \in Stores : ~Holds(k, s, e)  BY DEF Holds, HasItem
<1> QED BY <1>1, <1>2, SettledFrame DEF SyncSound

\* A job still at the same entity.
LEMMA SameMoved ==
  ASSUME EntitiesSyncAssumption, SyncSound, MainSound, NEW w \in Workers, OnPage(job[w]),
         NEW k \in Jobs, job' = [job EXCEPT ![w] = k], order' = order, known' = known, Keeps,
         k.pc \in {"create", "realtime", "series"}, k.r = job[w].r, k.types = job[w].types,
         k.type = job[w].type, k.offset = job[w].offset, k.full = job[w].full,
         k.page = job[w].page, Live' \subseteq Live, past'.clean \subseteq past.clean,
         NEW head, head = job[w].page[1].entity,
         job[w].pc = "entity" /\ (job[w].type \in Live' \/ w \in past'.clean) =>
           Settled(head)'
  PROVE  Moved(w)
<1> DEFINE j == job[w]
<1>1. job'[w] = k /\ OnPage(k) /\ InFetch(k) /\ InFetch(j)
  BY DEF SyncSound, SyncTyped, OnPage, InFetch
<1>2. \A n : AtHand(k, n) <=> n > 1  BY DEF AtHand
<1>3. ASSUME NEW t \in Types, NEW i, NEW e \in Entities, Ahead(j, t, i, e), TypeOf[e] = t,
             t \in Live' \/ w \in past'.clean
      PROVE  Settled(e)' \/ Ahead(k, t, i, e)
  <2>1. CASE j.type # t \/ (j.full = TRUE /\ i > j.offset)
    BY <1>1, <1>3, <2>1 DEF Ahead
  <2>2. ASSUME NEW n \in 1 .. Len(j.page), AtHand(j, n), j.page[n].entity = e
        PROVE  Settled(e)' \/ Ahead(k, t, i, e)
    <3>1. CASE n > 1  BY <1>1, <1>2, <1>3, <2>2, <3>1 DEF Ahead
    <3>2. CASE ~(n > 1)
      <4>1. n = 1 /\ j.pc = "entity"  BY <2>2, <3>2 DEF AtHand
      <4>2. head = e /\ TypeOf[e] = j.type  BY <2>2, <4>1, HeadOfType
      <4> QED BY <1>3, <4>1, <4>2
    <3> QED BY <3>1, <3>2
  <2> QED BY <1>3, <2>1, <2>2 DEF Ahead
<1>4. \A t \in Types : \A i \in 1 .. Len(order[t]) : TypeOf[order[t][i]] = t
  BY DEF SyncSound, SeenSound
<1>5. ForcedAt(w)'
  <2> SUFFICES ASSUME w \in past'.clean, k.r.existing, NEW t \in k.types,
                      NEW i \in 1 .. Len(order[t]), NEW e \in Entities, e = order[t][i]
               PROVE  Settled(e)' \/ Ahead(k, t, i, e)
    BY <1>1, AheadNext DEF ForcedAt
  <2>1. t \in Types  BY JobFacts
  <2>2. Settled(e) \/ Ahead(j, t, i, e)  BY <1>1 DEF MainSound, ForcedAt
  <2> QED BY <1>3, <1>4, <2>1, <2>2 DEF Keeps
<1>6. FreshAt(w)'
  <2> SUFFICES ASSUME k.type \in Live' \/ w \in past'.clean,
                      NEW n \in 1 .. Len(k.page), NEW e \in Entities, e = k.page[n].entity
               PROVE  Settled(e)' \/ (n > 1 /\ k.page[n].data = known[e])
    <3>1. \A n : AtHand(job[w], n)' <=> n > 1  BY <1>1, <1>2 DEF AtHand
    <3> QED BY <1>1, <3>1 DEF FreshAt
  <2>1. Settled(e) \/ (AtHand(j, n) /\ j.page[n].data = known[e])
    BY DEF MainSound, FreshAt
  <2>2. TypeOf[e] = j.type  BY HeadOfType
  <2>3. CASE Settled(e)  BY <2>2, <2>3 DEF Keeps
  <2>4. CASE ~Settled(e)
    <3>1. CASE n > 1  BY <2>1, <2>4, <3>1
    <3>2. CASE ~(n > 1)
      <4>1. n = 1 /\ j.pc = "entity"  BY <2>1, <2>4, <3>2 DEF AtHand
      <4> QED BY <4>1
    <3> QED BY <3>1, <3>2
  <2> QED BY <2>3, <2>4
<1>7. \A t \in Live' : t \in Live /\ t \in Types  BY DEF Live, SyncSound, SyncTyped
<1> QED BY <1>1, <1>3, <1>4, <1>5, <1>6, <1>7 DEF Moved, Coming

\* A type done by a forced job that nothing disturbed.
LEMMA DoneJoins ==
  ASSUME EntitiesSyncAssumption, SyncSound, MainSound, NEW w \in Workers, NEW t \in Types,
         order' = order, subscribed' = subscribed, Keeps, Done(w, t), InFetch(job[w]),
         t \in job[w].types,
         \A i \in 1 .. Len(order[t]) : \A e \in Entities :
           e = order[t][i] /\ job[w].r.existing => ~Ahead(job[w], t, i, e)
  PROVE  Joins
<1>1. /\ past'.clean = past.clean
      /\ \/ past'.owed = past.owed
         \/ past'.owed = past.owed \ {t} /\ job[w].r.existing /\ w \in past.clean
  BY DoneIs DEF SyncSound
<1>2. CASE past'.owed = past.owed  BY <1>2 DEF Joins, Live
<1>3. CASE past'.owed = past.owed \ {t} /\ job[w].r.existing /\ w \in past.clean
  <2>1. Live' \ Live \subseteq {t}  BY <1>3 DEF Live
  <2>2. ASSUME NEW i \in 1 .. Len(order[t]), NEW e \in Entities, e = order[t][i]
        PROVE  Settled(e)'
    <3>1. Settled(e)  BY <1>3, <2>2 DEF MainSound, ForcedAt
    <3> QED BY <1>1, <1>3, <3>1 DEF Keeps
  <2> QED BY <2>1, <2>2 DEF Joins
<1> QED BY <1>1, <1>2, <1>3

\* A job that goes on to the next entity has nothing left behind.
LEMMA AdvanceMoved ==
  ASSUME EntitiesSyncAssumption, SyncSound, MainSound, NEW w \in Workers, OnPage(job[w]),
         Advance(w, job[w]), order' = order, known' = known, subscribed' = subscribed, Keeps,
         NEW head, head = job[w].page[1].entity,
         job[w].pc = "entity" => ~job[w].r.existing /\ head \in entities
  PROVE  Moved(w) /\ Joins
<1> DEFINE j == job[w]
<1>1. SyncTyped /\ InFetch(j) /\ j \in Jobs  BY JobIs DEF SyncSound, OnPage, InFetch
<1>2. /\ j.type \in j.types /\ j.type \in Types
      /\ Len(Tail(j.page)) = Len(j.page) - 1 /\ Len(j.page) \in Nat \ {0}
      /\ \A n \in 1 .. Len(Tail(j.page)) : Tail(j.page)[n] = j.page[n + 1]
  <2>1. /\ Len(Tail(j.page)) = Len(j.page) - 1 /\ Len(j.page) \in Nat \ {0}
        /\ \A n \in 1 .. Len(Tail(j.page)) : Tail(j.page)[n] = j.page[n + 1]
    BY <1>1, JobFacts
  <2> QED BY <2>1, HeadOfType
<1>3. PICK k \in Jobs :
        /\ job' = [job EXCEPT ![w] = k]
        /\ k.r = j.r /\ k.old = j.old
        /\ \/ /\ k = Without(j) /\ Done(w, j.type)
              /\ Len(j.page) = 1 /\ j.full = FALSE
           \/ /\ UNCHANGED past
              /\ k.types = j.types /\ k.type = j.type /\ k.offset = j.offset
              /\ k.full = j.full /\ k.page = Tail(j.page)
              /\ \/ k.pc = "entity"
                 \/ k.pc = "fetch" /\ Tail(j.page) = <<>> /\ j.full = TRUE
  BY <1>1, AdvanceIs
<1>4. job'[w] = k  BY <1>1, <1>3 DEF SyncTyped
<1>5. ASSUME NEW e, AtHand(j, 1), j.page[1].entity = e
      PROVE  j.pc = "entity" /\ e = head /\ ~j.r.existing /\ e \in entities
  BY <1>5 DEF AtHand
<1>6. CASE k = Without(j) /\ Done(w, j.type) /\ Len(j.page) = 1 /\ j.full = FALSE
  <2>1. j \in Busy  BY <1>1, JobFacts
  <2>2. k.pc = "fetch" /\ k.types = j.types \ {j.type} /\ k.type = None
    BY <1>6, <2>1, WithoutIs
  <2>3. ASSUME NEW i, NEW e, Ahead(j, j.type, i, e)
        PROVE  ~j.r.existing /\ e \in entities
    BY <1>5, <1>6, <2>3 DEF Ahead
  <2>4. Joins  BY <1>1, <1>2, <1>6, <2>3, DoneJoins
  <2>5. InFetch(k) /\ \A t \in k.types : k.type # t
    <3>1. k.types \subseteq Types  BY JobFacts
    <3> QED BY <2>2, <3>1 DEF InFetch, EntitiesSyncAssumption
  <2>6. \A t \in k.types : \A i, e : Ahead(k, t, i, e)  BY <2>5 DEF Ahead
  <2>7. ForcedAt(w)'  BY <1>4, <2>6, AheadNext DEF ForcedAt
  <2>8. FreshAt(w)'
    <3>1. ~(OnPage(job[w]))'  BY <1>4, <2>2 DEF OnPage
    <3> QED BY <3>1 DEF FreshAt
  <2>9. ASSUME NEW t, NEW i, NEW e, Coming(w, t, i, e)
        PROVE  Ahead(k, t, i, e)
    <3>1. t # j.type  BY <2>3, <2>9 DEF Coming
    <3>2. t \in j.types  BY <2>9 DEF Coming, Ahead
    <3> QED BY <2>2, <2>6, <3>1, <3>2
  <2> QED BY <1>3, <1>4, <2>4, <2>7, <2>8, <2>9 DEF Moved
<1>7. CASE /\ UNCHANGED past
           /\ k.types = j.types /\ k.type = j.type /\ k.offset = j.offset
           /\ k.full = j.full /\ k.page = Tail(j.page)
           /\ \/ k.pc = "entity"
              \/ k.pc = "fetch" /\ Tail(j.page) = <<>> /\ j.full = TRUE
  <2>1. Live' = Live /\ past' = past  BY <1>7 DEF Live
  <2>2. InFetch(k) /\ (OnPage(k) => k.pc = "entity")  BY <1>7 DEF InFetch, OnPage
  <2>3. \A n \in 1 .. Len(k.page) :
          /\ k.pc = "entity" /\ k.page[n] = j.page[n + 1] /\ n + 1 \in 1 .. Len(j.page)
    <3>1. Tail(j.page) = <<>> => Len(k.page) = 0  BY <1>7, EmptySeq
    <3> QED BY <1>2, <1>7, <3>1
  <2>4. ASSUME NEW t, NEW i, NEW e, Ahead(j, t, i, e), j.r.existing \/ e \notin entities
        PROVE  Ahead(k, t, i, e)
    <3>1. CASE j.type # t \/ (j.full = TRUE /\ i > j.offset)
      BY <1>7, <2>2, <2>4, <3>1 DEF Ahead
    <3>2. ASSUME NEW n \in 1 .. Len(j.page), AtHand(j, n), j.page[n].entity = e
          PROVE  Ahead(k, t, i, e)
      <4>1. n # 1  BY <1>5, <2>4, <3>2
      <4>2. n - 1 \in 1 .. Len(k.page) /\ n - 1 + 1 = n  BY <1>2, <1>7, <4>1
      <4>3. k.pc = "entity" /\ k.page[n - 1] = j.page[n]  BY <2>3, <4>2
      <4>4. AtHand(k, n - 1) /\ k.page[n - 1].entity = e  BY <3>2, <4>3 DEF AtHand
      <4> QED BY <1>7, <2>2, <2>4, <4>2, <4>4 DEF Ahead
    <3> QED BY <2>4, <3>1, <3>2 DEF Ahead
  <2>5. \A t \in k.types : \A i \in 1 .. Len(order[t]) : TypeOf[order[t][i]] = t
    BY JobFacts DEF SyncSound, SeenSound
  <2>6. ForcedAt(w)'
    <3> SUFFICES ASSUME w \in past'.clean, k.r.existing, NEW t \in k.types,
                        NEW i \in 1 .. Len(order[t]), NEW e \in Entities, e = order[t][i]
                 PROVE  Settled(e)' \/ Ahead(k, t, i, e)
      BY <1>4, AheadNext DEF ForcedAt
    <3>1. Settled(e) \/ Ahead(j, t, i, e)  BY <1>1, <1>3, <1>7 DEF MainSound, ForcedAt
    <3> QED BY <1>3, <2>4, <3>1 DEF Keeps
  <2>7. FreshAt(w)'
    <3> SUFFICES ASSUME OnPage(k), k.type \in Live' \/ w \in past'.clean,
                        NEW n \in 1 .. Len(k.page), NEW e \in Entities, e = k.page[n].entity
                 PROVE  Settled(e)' \/ k.page[n].data = known[e]
      <4>1. (OnPage(job[w]))' <=> OnPage(k)  BY <1>4 DEF OnPage
      <4>2. OnPage(k) => \A n : AtHand(job[w], n)'  BY <1>4, <2>2 DEF AtHand
      <4> QED BY <1>4, <4>1, <4>2 DEF FreshAt
    <3>1. k.page[n] = j.page[n + 1] /\ n + 1 \in 1 .. Len(j.page)  BY <2>3
    <3>2. Settled(e) \/ j.page[n + 1].data = known[e]
      BY <1>7, <2>1, <3>1 DEF MainSound, FreshAt
    <3>3. TypeOf[e] = j.type  BY <3>1, HeadOfType
    <3> QED BY <1>7, <3>1, <3>2, <3>3 DEF Keeps
  <2>8. Joins  BY <2>1 DEF Joins
  <2> QED BY <1>3, <1>4, <2>4, <2>6, <2>7, <2>8 DEF Moved, Coming
<1> QED BY <1>3, <1>6, <1>7

\* Nor has one that goes on to the next page or the next type.
LEMMA FetchMoved ==
  ASSUME EntitiesSyncAssumption, SyncSound, MainSound, NEW w \in Workers, Fetch(w), Keeps
  PROVE  Moved(w) /\ Joins
<1> DEFINE j == job[w]
<1>1. /\ SyncTyped /\ InFetch(j) /\ ~OnPage(j) /\ j.page = <<>> /\ j \in Jobs
      /\ (j.type # None => j.type \in j.types)
      /\ (j.type = None => j.offset = 0)
      /\ UNCHANGED <<order, known, subscribed>>
  BY JobIs DEF SyncSound, JobSound, Fetch, InFetch, OnPage, broker
<1>2. PICK type \in Types, k \in Jobs :
        /\ type \in j.types /\ (j.type = type \/ j.type = None)
        /\ job' = [job EXCEPT ![w] = k] /\ k.r = j.r /\ k.old = j.old
        /\ \/ /\ Len(order[type]) <= j.offset
              /\ Done(w, type)
              /\ k.pc = "fetch" /\ k.types = j.types \ {type}
              /\ k.type = None /\ k.offset = 0 /\ k.page = <<>>
           \/ /\ UNCHANGED past
              /\ k.pc = "entity" /\ k.types = j.types /\ k.type = type
              /\ k.offset = j.offset + PageLimit
              /\ Len(k.page) \in Nat \ {0}
              /\ j.offset + Len(k.page) <= Len(order[type])
              /\ \A i \in 1 .. Len(k.page) :
                   k.page[i] = [entity |-> order[type][j.offset + i],
                                data |-> known[order[type][j.offset + i]]]
              /\ \/ k.full = TRUE /\ Len(k.page) = PageLimit
                 \/ j.offset + Len(k.page) = Len(order[type])
  BY <1>1, FetchIs
<1>3. job'[w] = k /\ type # None  BY <1>1, <1>2 DEF SyncTyped, EntitiesSyncAssumption
<1>4. order[type] \in Seq(Entities) /\ j.offset \in Nat  BY <1>1, JobFacts DEF SyncTyped
<1>5. Len(order[type]) \in Nat  BY <1>4, LenProperties
\* What is left of the type is beyond the offset.
<1>6. ASSUME NEW i \in 1 .. Len(order[type]), NEW e, Ahead(j, type, i, e)
      PROVE  i > j.offset
  <2>1. CASE j.type = None  BY <1>1, <2>1
  <2>2. CASE j.type = type
    <3>1. Len(j.page) = 0  BY <1>1, EmptySeq
    <3> QED BY <1>6, <2>2, <3>1 DEF Ahead
  <2> QED BY <1>2, <2>1, <2>2
<1>7. CASE /\ Len(order[type]) <= j.offset
           /\ Done(w, type)
           /\ k.pc = "fetch" /\ k.types = j.types \ {type}
           /\ k.type = None /\ k.offset = 0 /\ k.page = <<>>
  <2>1. \A i \in 1 .. Len(order[type]) : \A e : ~Ahead(j, type, i, e)
    BY <1>4, <1>5, <1>6, <1>7
  <2>2. Joins  BY <1>1, <1>2, <2>1, <1>7, DoneJoins
  <2>3. ~OnPage(k)  BY <1>7 DEF OnPage
  <2>4. InFetch(k) /\ \A t \in k.types : k.type # t
    <3>1. k.types \subseteq Types  BY JobFacts
    <3> QED BY <1>7, <3>1 DEF InFetch, EntitiesSyncAssumption
  <2>5. \A t \in k.types : \A i, e : Ahead(k, t, i, e)  BY <2>4 DEF Ahead
  <2>6. ForcedAt(w)'  BY <1>3, <2>5, AheadNext DEF ForcedAt
  <2>7. FreshAt(w)'
    <3>1. ~(OnPage(job[w]))'  BY <1>3, <2>3 DEF OnPage
    <3> QED BY <3>1 DEF FreshAt
  <2>8. ASSUME NEW t, NEW i \in 1 .. Len(order[t]), NEW e, Coming(w, t, i, e)
        PROVE  Ahead(k, t, i, e)
    <3>1. t # type  BY <2>1, <2>8 DEF Coming
    <3>2. t \in j.types  BY <2>8 DEF Coming, Ahead
    <3> QED BY <1>7, <2>5, <3>1, <3>2
  <2> QED BY <1>2, <1>3, <2>2, <2>6, <2>7, <2>8 DEF Moved
<1>8. CASE /\ UNCHANGED past
           /\ k.pc = "entity" /\ k.types = j.types /\ k.type = type
           /\ k.offset = j.offset + PageLimit
           /\ Len(k.page) \in Nat \ {0}
           /\ j.offset + Len(k.page) <= Len(order[type])
           /\ \A i \in 1 .. Len(k.page) :
                k.page[i] = [entity |-> order[type][j.offset + i],
                             data |-> known[order[type][j.offset + i]]]
           /\ \/ k.full = TRUE /\ Len(k.page) = PageLimit
              \/ j.offset + Len(k.page) = Len(order[type])
  <2>1. Live' = Live /\ past' = past  BY <1>1, <1>8 DEF Live
  <2>2. InFetch(k) /\ OnPage(k) /\ \A n : AtHand(k, n)  BY <1>8 DEF InFetch, OnPage, AtHand
  <2>3. \A n \in 1 .. Len(k.page) :
          /\ k.page[n].entity = order[type][j.offset + n]
          /\ k.page[n].data = known[order[type][j.offset + n]]
    <3> SUFFICES ASSUME NEW n \in 1 .. Len(k.page)
                 PROVE  /\ k.page[n].entity = order[type][j.offset + n]
                        /\ k.page[n].data = known[order[type][j.offset + n]]
      OBVIOUS
    <3> DEFINE m == [entity |-> order[type][j.offset + n],
                     data |-> known[order[type][j.offset + n]]]
    <3>1. k.page[n] = m  BY <1>8
    <3>2. /\ m.entity = order[type][j.offset + n]
          /\ m.data = known[order[type][j.offset + n]]
      OBVIOUS
    <3> HIDE DEF m
    <3> QED BY <3>1, <3>2
  <2>4. ASSUME NEW t, NEW i \in 1 .. Len(order[t]), NEW e, e = order[t][i], Ahead(j, t, i, e)
        PROVE  Ahead(k, t, i, e)
    <3>0. t \in k.types  BY <1>8, <2>4 DEF Ahead
    <3>1. CASE t # type  BY <1>8, <2>2, <3>0, <3>1 DEF Ahead
    <3>2. CASE t = type
      <4>1. i > j.offset /\ i \in 1 .. Len(order[type])  BY <1>6, <2>4, <3>2
      <4>2. CASE i > j.offset + Len(k.page)
        <5>1. k.full = TRUE /\ i > k.offset  BY <1>4, <1>5, <1>8, <4>1, <4>2
        <5> QED BY <2>2, <3>0, <5>1 DEF Ahead
      <4>3. CASE ~(i > j.offset + Len(k.page))
        <5>1. i - j.offset \in 1 .. Len(k.page) /\ j.offset + (i - j.offset) = i
          BY <1>4, <1>8, <4>1, <4>3
        <5>2. k.page[i - j.offset].entity = e  BY <2>3, <2>4, <3>2, <5>1
        <5> QED BY <2>2, <3>0, <5>1, <5>2 DEF Ahead
      <4> QED BY <4>2, <4>3
    <3> QED BY <3>1, <3>2
  <2>5. ForcedAt(w)'
    <3> SUFFICES ASSUME w \in past'.clean, k.r.existing, NEW t \in k.types,
                        NEW i \in 1 .. Len(order[t]), NEW e \in Entities, e = order[t][i]
                 PROVE  Settled(e)' \/ Ahead(k, t, i, e)
      BY <1>1, <1>3, AheadNext DEF ForcedAt
    <3>1. Settled(e) \/ Ahead(j, t, i, e)  BY <1>1, <1>2, <1>8, <2>1 DEF MainSound, ForcedAt
    <3> QED BY <2>4, <3>1 DEF Keeps
  <2>6. FreshAt(w)'
    <3> SUFFICES ASSUME NEW n \in 1 .. Len(k.page), NEW e \in Entities, e = k.page[n].entity
                 PROVE  k.page[n].data = known[e]
      <4>1. \A n : AtHand(job[w], n)'  BY <1>3, <1>8 DEF AtHand
      <4> QED BY <1>1, <1>3, <4>1 DEF FreshAt
    <3> QED BY <2>3
  <2>7. Joins  BY <2>1 DEF Joins
  <2> QED BY <1>2, <1>3, <2>4, <2>5, <2>6, <2>7 DEF Moved, Coming
<1> QED BY <1>2, <1>7, <1>8

-----------------------------------------------------------------------------
(* Tasks.                                                                  *)

\* An item goes to its task.
LEMMA SendKeeps ==
  ASSUME EntitiesSyncAssumption, SyncSound, NEW w \in Workers, OnPage(job[w]),
         NEW k \in Jobs \cup {Idle}, job' = [job EXCEPT ![w] = k], NEW store \in Stores,
         tasks' = tasks \cup {Task(job[w], store)}, UNCHANGED <<rows, queue, known>>,
         \A s \in Stores, e \in Entities :
           /\ Holds(job[w], s, e) <=> Holds(k, s, e) \/ (s = store /\ e = job[w].page[1].entity)
           /\ Holds(k, s, e) => k.item = job[w].item
  PROVE  Keeps
<1>1. /\ Task(job[w], store).store = store /\ Task(job[w], store).data = job[w].item
      /\ Task(job[w], store).entity = job[w].page[1].entity
  BY TaskIs DEF SyncSound
<1>2. job'[w] = k /\ \A v \in Workers : v # w => job'[v] = job[v]  BY DEF SyncSound, SyncTyped
<1>3. ASSUME NEW s \in Stores, NEW e \in Entities, NEW d \in Measure
      PROVE  Carrier(s, e, d)' <=> Carrier(s, e, d)
  <2> DEFINE sent == s = store /\ e = job[w].page[1].entity /\ d = job[w].item
  <2>1. (\E t \in tasks' : t.store = s /\ t.entity = e /\ t.data = d)
        <=> (\E t \in tasks : t.store = s /\ t.entity = e /\ t.data = d) \/ sent
    BY <1>1
  <2>2. (\E v \in Workers : Holds(job[v], s, e) /\ job[v].item = d)
        <=> (\E v \in Workers : Holds(job'[v], s, e) /\ job'[v].item = d) \/ sent
    <3>1. ASSUME NEW v \in Workers
          PROVE  (Holds(job[v], s, e) /\ job[v].item = d)
                 <=> (Holds(job'[v], s, e) /\ job'[v].item = d) \/ (v = w /\ sent)
      <4>1. CASE v = w  BY <1>2, <4>1
      <4>2. CASE v # w  BY <1>2, <4>2
      <4> QED BY <4>1, <4>2
    <3> HIDE DEF sent
    <3> QED BY <3>1
  <2>3. (\E v \in Workers : Holds(job[v], s, e) /\ job[v].item = d)'
        <=> (\E v \in Workers : Holds(job'[v], s, e) /\ job'[v].item = d)
    BY DEF Holds
  <2> HIDE DEF sent
  <2> QED BY <2>1, <2>2, <2>3 DEF Carrier
<1> QED BY <1>3, SettledSame DEF Keeps

\* A task that is run.
LEMMA RunKeeps ==
  ASSUME EntitiesSyncAssumption, SyncSound, NEW t \in tasks, RunTask(t)
  PROVE  Keeps
<1>1. SyncTyped /\ t.store \in Stores /\ t.entity \in Entities /\ t.data \in Measure
  BY DEF SyncSound, SyncTyped
<1>2. /\ rows' = [rows EXCEPT ![t.store][t.entity] = Newer(@, t.data)]
      /\ tasks' = tasks \ {t} /\ UNCHANGED <<known, job, queue>>
  BY DEF RunTask, broker
<1>3. ASSUME NEW s, NEW e, NEW d
      PROVE  (\E v \in Workers : Holds(job[v], s, e) /\ job[v].item = d)'
             <=> (\E v \in Workers : Holds(job[v], s, e) /\ job[v].item = d)
  BY <1>2 DEF Holds
<1> SUFFICES ASSUME NEW e \in Entities, Settled(e), NEW s \in Stores  PROVE SettledIn(s, e)'
  BY DEF Keeps, Settled
<1>4. SettledIn(s, e) /\ known'[e] = known[e]  BY <1>2 DEF Settled
<1>5. CASE s = t.store /\ e = t.entity
  <2>1. rows'[s][e] = Newer(rows[s][e], t.data)  BY <1>1, <1>2, <1>5 DEF SyncTyped
  <2>2. rows[s][e] \in Measure  BY <1>1 DEF SyncTyped
  <2>3. Carrier(s, e, t.data) /\ Carrier(s, e, rows[s][e])  BY <1>5 DEF Carrier
  <2>4. ASSUME NEW d \in Measure, Carrier(s, e, d)'  PROVE Carrier(s, e, d)
    <3>1. rows'[s][e] \in {rows[s][e], t.data}  BY <1>1, <2>1, <2>2, NewerIs
    <3>2. CASE d = rows'[s][e]  BY <2>3, <3>1, <3>2
    <3>3. CASE d # rows'[s][e]  BY <1>2, <1>3, <2>4, <3>3 DEF Carrier
    <3> QED BY <3>2, <3>3
  <2>5. ASSUME NEW d \in Measure, Carrier(s, e, d)
        PROVE  Carrier(s, e, d)' \/ d = t.data \/ d = rows[s][e]
    BY <1>2, <1>3, <2>5 DEF Carrier
  <2> QED BY <1>1, <1>4, <2>1, <2>3, <2>4, <2>5, SettledMerged
<1>6. CASE ~(s = t.store /\ e = t.entity)
  <2>1. rows'[s][e] = rows[s][e]  BY <1>1, <1>2, <1>6 DEF SyncTyped
  <2>2. \A d \in Measure : Carrier(s, e, d)' <=> Carrier(s, e, d)
    BY <1>2, <1>3, <1>6, <2>1 DEF Carrier
  <2>3. PICK c \in Measure :
          /\ Carrier(s, e, c) /\ Right(e, c)
          /\ \A d \in Measure : Carrier(s, e, d) /\ ~Right(e, d) => d.at < c.at
    BY <1>4 DEF SettledIn
  <2>4. \A d : Right(e, d)' <=> Right(e, d)  BY <1>2 DEF Right
  <2> QED BY <2>2, <2>3, <2>4 DEF SettledIn
<1> QED BY <1>5, <1>6

\* A notification that is handled: both rows take it.
LEMMA NotifiedKeeps ==
  ASSUME EntitiesSyncAssumption, SyncSound, NEW n \in queue, Notified(n)
  PROVE  Keeps
<1>1. SyncTyped /\ n.entity \in Entities /\ n.data \in Measure
  BY DEF SyncSound, SyncTyped, Entry
<1>2. /\ rows' = [s \in Stores |-> [rows[s] EXCEPT ![n.entity] = Newer(@, n.data)]]
      /\ queue' = queue \ {n} /\ UNCHANGED <<known, job, tasks>>
  BY DEF Notified, broker
<1>3. ASSUME NEW s, NEW e, NEW d
      PROVE  (\E v \in Workers : Holds(job[v], s, e) /\ job[v].item = d)'
             <=> (\E v \in Workers : Holds(job[v], s, e) /\ job[v].item = d)
  BY <1>2 DEF Holds
<1> SUFFICES ASSUME NEW e \in Entities, Settled(e), NEW s \in Stores  PROVE SettledIn(s, e)'
  BY DEF Keeps, Settled
<1>4. SettledIn(s, e) /\ known'[e] = known[e]  BY <1>2 DEF Settled
<1>5. CASE e = n.entity
  <2>1. rows'[s][e] = Newer(rows[s][e], n.data)  BY <1>1, <1>2, <1>5 DEF SyncTyped
  <2>2. rows[s][e] \in Measure  BY <1>1 DEF SyncTyped
  <2>3. Carrier(s, e, n.data) /\ Carrier(s, e, rows[s][e])  BY <1>5 DEF Carrier
  <2>4. ASSUME NEW d \in Measure, Carrier(s, e, d)'  PROVE Carrier(s, e, d)
    <3>1. rows'[s][e] \in {rows[s][e], n.data}  BY <1>1, <2>1, <2>2, NewerIs
    <3>2. CASE d = rows'[s][e]  BY <2>3, <3>1, <3>2
    <3>3. CASE d # rows'[s][e]  BY <1>2, <1>3, <2>4, <3>3 DEF Carrier
    <3> QED BY <3>2, <3>3
  <2>5. ASSUME NEW d \in Measure, Carrier(s, e, d)
        PROVE  Carrier(s, e, d)' \/ d = n.data \/ d = rows[s][e]
    BY <1>2, <1>3, <2>5 DEF Carrier
  <2> QED BY <1>1, <1>4, <2>1, <2>3, <2>4, <2>5, SettledMerged
<1>6. CASE e # n.entity
  <2>1. rows'[s][e] = rows[s][e]  BY <1>1, <1>2, <1>6 DEF SyncTyped
  <2>2. \A d \in Measure : Carrier(s, e, d)' <=> Carrier(s, e, d)
    BY <1>2, <1>3, <1>6, <2>1 DEF Carrier
  <2>3. PICK c \in Measure :
          /\ Carrier(s, e, c) /\ Right(e, c)
          /\ \A d \in Measure : Carrier(s, e, d) /\ ~Right(e, d) => d.at < c.at
    BY <1>4 DEF SettledIn
  <2>4. \A d : Right(e, d)' <=> Right(e, d)  BY <1>2 DEF Right
  <2> QED BY <2>2, <2>3, <2>4 DEF SettledIn
<1> QED BY <1>5, <1>6

\* A task that is lost.
LEMMA TaskFailsKeeps ==
  ASSUME EntitiesSyncAssumption, SyncSound, NEW t \in tasks, TaskFails(t)
  PROVE  Keeps /\ Live' \subseteq Live /\ past'.clean = {}
<1>1. /\ t.entity \in Entities /\ Owe({TypeOf[t.entity]}) /\ {TypeOf[t.entity]} \in SUBSET Types
      /\ tasks' = tasks \ {t} /\ UNCHANGED <<known, subscribed, queue, job, rows>>
  BY TaskFailsIs DEF SyncSound
<1>2. past'.owed = past.owed \cup {TypeOf[t.entity]} /\ past'.clean = {}
  BY <1>1, OweIs DEF SyncSound
<1>3. TypeOf[t.entity] \notin Live' /\ Live' \subseteq Live  BY <1>1, <1>2 DEF Live
<1>4. ASSUME NEW e \in Entities, e # t.entity, NEW s \in Stores, NEW d \in Measure
      PROVE  Carrier(s, e, d)' <=> Carrier(s, e, d)
  <2>1. (\E v \in Workers : Holds(job[v], s, e) /\ job[v].item = d)'
        <=> (\E v \in Workers : Holds(job[v], s, e) /\ job[v].item = d)
    BY <1>1 DEF Holds
  <2> QED BY <1>1, <1>4, <2>1 DEF Carrier
<1>5. Keeps
  <2> SUFFICES ASSUME NEW e \in Entities, Settled(e), TypeOf[e] \in Live'  PROVE Settled(e)'
    BY <1>2 DEF Keeps
  <2>1. e # t.entity  BY <1>3
  <2> QED BY <1>1, <1>4, <2>1, SettledSame
<1> QED BY <1>2, <1>3, <1>5

-----------------------------------------------------------------------------
(* The steps.                                                              *)

\* Whatever changes is on its way, and on the pages it is not what it was.
LEMMA MainChange ==
  ASSUME EntitiesSyncAssumption, SyncSound, SyncSound', DataSound, MainSound,
         NEW x \in Entities, Change(x)
  PROVE  MainSound'
<1>1. /\ TypeOf[x] \in subscribed => Settled(x)'
      /\ \A e \in Entities \ {x} : known'[e] = known[e] /\ (Settled(e) => Settled(e)')
      /\ queue' \subseteq queue \cup {[entity |-> x, data |-> known'[x]]}
  BY ChangeSettles
<1>2. UNCHANGED <<subscribed, job, entities, past>>  BY DEF Change, stores
<1>3. /\ known[x] # Absent => order' = order
      /\ known[x] = Absent =>
           /\ \A t \in Types : t # TypeOf[x] => order'[t] = order[t]
           /\ Len(order'[TypeOf[x]]) = Len(order[TypeOf[x]]) + 1
           /\ order'[TypeOf[x]][Len(order'[TypeOf[x]])] = x
      /\ Longer
  BY ChangeSound
<1>4. /\ TypeOf[x] \in Types /\ Live' = Live
      /\ \A t \in Types : Len(order[t]) \in Nat
  <2>1. \A t \in Types : order[t] \in Seq(Entities)  BY DEF SyncSound, SyncTyped
  <2> QED BY <1>2, <2>1, LenProperties DEF EntitiesSyncAssumption, Live
\* What comes last may be new; the others stand where they stood.
<1>5. ASSUME NEW t \in Types, NEW i \in 1 .. Len(order'[t]), NEW e \in Entities,
             e = order'[t][i], e # x
      PROVE  i \in 1 .. Len(order[t]) /\ e = order[t][i]
  <2>1. CASE known[x] # Absent \/ t # TypeOf[x]
    <3>1. order'[t] = order[t]  BY <1>3, <2>1
    <3> QED BY <1>5, <3>1
  <2>2. CASE known[x] = Absent /\ t = TypeOf[x]
    <3>1. i # Len(order'[t])  BY <1>3, <1>5, <2>2
    <3>2. i \in 1 .. Len(order[t])  BY <1>3, <1>4, <2>2, <3>1
    <3> QED BY <1>3, <1>5, <3>2 DEF Longer
  <2> QED BY <2>1, <2>2
<1>6. \A t \in Types : \A i \in 1 .. Len(order'[t]) : TypeOf[order'[t][i]] = t
  BY DEF SyncSound, SeenSound
<1>7. /\ \A v \in Workers : (InFetch(job[v]))' <=> InFetch(job[v])
      /\ \A v \in Workers : (OnPage(job[v]))' <=> OnPage(job[v])
      /\ \A v \in Workers : \A k : AtHand(job[v], k)' <=> AtHand(job[v], k)
      /\ \A v \in Workers : \A t, i, e : Ahead(job[v], t, i, e)' <=> Ahead(job[v], t, i, e)
  BY <1>2 DEF InFetch, OnPage, AtHand, Ahead
<1>8. Promised'
  <2> SUFFICES ASSUME NEW t \in Live', NEW i \in 1 .. Len(order'[t]), NEW e \in Entities,
                      e = order'[t][i]
               PROVE  Settled(e)' \/ \E w \in Workers : Coming(w, t, i, e)'
    BY DEF Promised
  <2>1. t \in Live /\ t \in subscribed /\ t \in Types  BY <1>4 DEF Live, SyncSound, SyncTyped
  <2>2. CASE e = x
    <3>0. TypeOf[order'[t][i]] = t  BY <1>6, <2>1
    <3>1. TypeOf[x] = t  BY <2>2, <3>0
    <3>2. Settled(x)'  BY <1>1, <2>1, <3>1
    <3> QED BY <2>2, <3>2
  <2>3. CASE e # x
    <3>1. i \in 1 .. Len(order[t]) /\ e = order[t][i]  BY <1>5, <2>1, <2>3
    <3>2. Settled(e) \/ \E w \in Workers : Coming(w, t, i, e)
      BY <2>1, <3>1 DEF MainSound, Promised
    <3>3. \A w \in Workers : Coming(w, t, i, e)' <=> Coming(w, t, i, e)
      BY <1>2, <1>7 DEF Coming
    <3> QED BY <1>1, <2>3, <3>2, <3>3
  <2> QED BY <2>2, <2>3
<1>9. ASSUME NEW v \in Workers  PROVE ForcedAt(v)'
  <2> SUFFICES ASSUME v \in past.clean, InFetch(job[v]), job[v].r.existing,
                      NEW t \in job[v].types, NEW i \in 1 .. Len(order'[t]), NEW e \in Entities,
                      e = order'[t][i]
               PROVE  Settled(e)' \/ Ahead(job[v], t, i, e)
    BY <1>2, <1>7 DEF ForcedAt
  <2>1. t \in subscribed /\ t \in Types  BY DEF SyncSound, JobSound, SyncTyped
  <2>2. CASE e = x
    <3>0. TypeOf[order'[t][i]] = t  BY <1>6, <2>1
    <3>1. TypeOf[x] = t  BY <2>2, <3>0
    <3>2. Settled(x)'  BY <1>1, <2>1, <3>1
    <3> QED BY <2>2, <3>2
  <2>3. CASE e # x
    <3>1. i \in 1 .. Len(order[t]) /\ e = order[t][i]  BY <1>5, <2>1, <2>3
    <3>2. Settled(e) \/ Ahead(job[v], t, i, e)  BY <3>1 DEF MainSound, ForcedAt
    <3> QED BY <1>1, <2>3, <3>2
  <2> QED BY <2>2, <2>3
<1>10. ASSUME NEW v \in Workers  PROVE FreshAt(v)'
  <2> SUFFICES ASSUME OnPage(job[v]), job[v].type \in Live \/ v \in past.clean,
                      NEW k \in 1 .. Len(job[v].page), NEW e \in Entities,
                      e = job[v].page[k].entity
               PROVE  Settled(e)' \/ (AtHand(job[v], k) /\ job[v].page[k].data = known'[e])
    BY <1>2, <1>4, <1>7 DEF FreshAt
  <2>1. Settled(e) \/ (AtHand(job[v], k) /\ job[v].page[k].data = known[e])
    BY DEF MainSound, FreshAt
  <2>2. CASE e = x
    <3>1. TypeOf[e] = job[v].type /\ job[v].type \in job[v].types  BY HeadOfType
    <3>2. v \in past.clean => job[v].type \in subscribed
      BY <3>1 DEF SyncSound, JobSound, InFetch
    <3> QED BY <1>1, <2>2, <3>1, <3>2 DEF Live
  <2>3. CASE e # x  BY <1>1, <2>1, <2>3
  <2> QED BY <2>2, <2>3
<1>11. Arrived'
  <2> SUFFICES ASSUME NEW n \in queue', NEW e \in Entities, e = n.entity, TypeOf[e] \in Live'
               PROVE  Settled(e)'
    BY DEF Arrived
  <2>1. CASE e = x  BY <1>1, <1>4, <2>1 DEF Live
  <2>2. CASE e # x
    <3>1. n \in queue  BY <1>1, <2>2
    <3> QED BY <1>1, <1>4, <2>2, <3>1 DEF MainSound, Arrived
  <2> QED BY <2>1, <2>2
<1> QED BY <1>8, <1>9, <1>10, <1>11 DEF MainSound

\* A step of a worker that takes nothing off its page, or gives its types up.
LEMMA MainLeaves ==
  ASSUME EntitiesSyncAssumption, SyncSound, SyncSound', MainSound,
         NEW w \in Workers, NEW k \in Jobs \cup {Idle}, job' = [job EXCEPT ![w] = k],
         UNCHANGED <<order, known, queue, tasks, rows, entities>>, ~OnPage(k),
         k.pc = "fetch" => k.type = None,
         \A t \in Live' : InFetch(job[w]) /\ t \in job[w].types =>
           k.pc = "fetch" /\ t \in k.types /\ k.r = job[w].r,
         HasItem(job[w]) => job[w].type \notin Live' /\ past'.clean = {},
         \A v \in past'.clean : v \in past.clean \/ v = w,
         Joins
  PROVE  MainSound'
<1>1. ~HasItem(k)  BY DEF HasItem, OnPage
<1>2. Keeps  BY <1>1, LeavesKeeps
<1>3. Moved(w)  BY LeavesMoved
<1>4. \A v \in Workers : v # w => job'[v] = job[v]  BY DEF SyncSound, SyncTyped
<1>5. \A v \in Workers : \/ job'[v] = job[v] /\ (v \in past'.clean => v \in past.clean)
                         \/ Moved(v)
  BY <1>3, <1>4
<1>6. queue' \subseteq queue /\ entities' = entities  OBVIOUS
<1> QED BY <1>2, <1>5, <1>6, MainFrame

\* The start of a job.
LEMMA MainStart ==
  ASSUME EntitiesSyncAssumption, SyncSound, SyncSound', MainSound,
         NEW w \in Workers, NEW m \in requests, Start(w, m)
  PROVE  MainSound'
<1>1. PICK k \in Jobs :
        /\ job' = [job EXCEPT ![w] = k]
        /\ k.pc \in {"discover", "read", "fetch"}
        /\ k.old = subscribed /\ k.type = None /\ k.offset = 0 /\ k.page = <<>>
        /\ k.pc = "read" => k.r.create
        /\ k.pc = "fetch" => k.types \subseteq subscribed
  BY StartIs DEF SyncSound
<1>2. /\ past' = [past EXCEPT !.clean = @ \cup {w}] /\ job[w] = Idle
      /\ UNCHANGED <<order, known, subscribed, queue, tasks, rows, entities>>
  BY DEF Start, broker, stores
<1>3. past'.owed = past.owed /\ past'.clean = past.clean \cup {w}
  BY <1>2 DEF SyncSound, SyncTyped
<1>4. Live' = Live  BY <1>2, <1>3 DEF Live
<1>5. Joins  BY <1>4 DEF Joins
<1>6. ~OnPage(k) /\ ~InFetch(job[w]) /\ ~HasItem(job[w])
  BY <1>1, <1>2 DEF OnPage, InFetch, HasItem, Idle
<1> QED BY <1>1, <1>2, <1>3, <1>5, <1>6, MainLeaves

\* The discovery.
LEMMA MainDiscover ==
  ASSUME EntitiesSyncAssumption, SyncSound, SyncSound', MainSound,
         NEW w \in Workers, Discover(w)
  PROVE  MainSound'
<1>1. PICK k \in Jobs :
        /\ job' = [job EXCEPT ![w] = k]
        /\ k.pc \in {"read", "fetch"}
        /\ k.old = job[w].old /\ k.type = job[w].type /\ k.offset = job[w].offset
        /\ k.page = job[w].page
        /\ k.pc = "read" => k.r.create
        /\ k.pc = "fetch" => k.types \subseteq job[w].old
  BY DiscoverIs DEF SyncSound
<1>2. /\ job[w].pc = "discover"
      /\ UNCHANGED <<order, known, subscribed, queue, tasks, rows, entities, past>>
  BY DEF Discover, broker, stores
<1>3. Live' = Live /\ past'.clean = past.clean  BY <1>2 DEF Live
<1>4. Joins  BY <1>3 DEF Joins
<1>5. ~OnPage(k) /\ ~InFetch(job[w]) /\ ~HasItem(job[w])
  BY <1>1, <1>2 DEF OnPage, InFetch, HasItem
<1>6. k.type = None  BY <1>1, <1>2, <1>5 DEF SyncSound, JobSound
<1> QED BY <1>1, <1>2, <1>3, <1>4, <1>5, <1>6, MainLeaves

\* The read of the subscription.
LEMMA MainRead ==
  ASSUME EntitiesSyncAssumption, SyncSound, SyncSound', MainSound,
         NEW w \in Workers, ReadSubscription(w)
  PROVE  MainSound'
<1>1. PICK k \in Jobs : job' = [job EXCEPT ![w] = k] /\ k.pc = "write"
  BY ReadIs DEF SyncSound
<1>2. /\ job[w].pc = "read"
      /\ UNCHANGED <<order, known, subscribed, queue, tasks, rows, entities, past>>
  BY DEF ReadSubscription, broker, stores
<1>3. Live' = Live /\ past'.clean = past.clean  BY <1>2 DEF Live
<1>4. Joins  BY <1>3 DEF Joins
<1>5. ~OnPage(k) /\ ~InFetch(job[w]) /\ ~HasItem(job[w])
  BY <1>1, <1>2 DEF OnPage, InFetch, HasItem
<1> QED BY <1>1, <1>2, <1>3, <1>4, <1>5, MainLeaves

\* What a job subscribes to it fetches.
LEMMA MainWrite ==
  ASSUME EntitiesSyncAssumption, SyncSound, SyncSound', MainSound,
         NEW w \in Workers, WriteSubscription(w)
  PROVE  MainSound'
<1> DEFINE j == job[w]
           k == Fetching(job[w])
<1>1. /\ k \in Jobs /\ job' = [job EXCEPT ![w] = k]
      /\ k.pc = "fetch" /\ k.types = ToSync(j) /\ k.type = j.type
      /\ subscribed' = Written(j)
      /\ past'.owed = past.owed \cup ((subscribed \cup j.r.subscribe) \ Written(j))
                                \cup (NewTypes(j) \ ToSync(j))
      /\ past'.clean \subseteq past.clean
  BY WriteIs DEF SyncSound
<1>2. j.pc = "write" /\ UNCHANGED <<order, known, queue, tasks, rows, entities>>
  BY DEF WriteSubscription, stores
<1>3. ~InFetch(j) /\ ~HasItem(j) /\ j \in Busy
  BY <1>2, JobIs, JobFacts DEF SyncSound, InFetch, OnPage, HasItem
<1>4. j.type = None /\ j.r.create /\ j.subs \subseteq Touched /\ j.old \subseteq Touched
  BY <1>2, <1>3 DEF SyncSound, JobSound
<1>5. ~OnPage(k)  BY <1>1 DEF OnPage
<1>6. job'[w] = k  BY <1>1 DEF SyncSound, SyncTyped
<1>7. ASSUME NEW t \in Live' \ Live  PROVE t \notin Touched /\ t \in k.types
  <2>1. t \in Written(j) /\ t \notin past'.owed  BY <1>1, <1>7 DEF Live
  <2>2. t \notin past.owed /\ t \notin subscribed  BY <1>1, <1>7, <2>1 DEF Live
  <2>3. t \notin Touched  BY <2>2 DEF Touched
  <2>4. t \in j.r.subscribe  BY <1>3, <1>4, <2>1, <2>2, <2>3, WrittenIs DEF SyncSound
  <2>5. t \in NewTypes(j)  BY <1>4, <2>3, <2>4 DEF NewTypes
  <2> HIDE DEF j, k
  <2> QED BY <1>1, <2>1, <2>3, <2>5
<1>8. Joins
  <2>1. ASSUME NEW t \in Live' \ Live, NEW i, NEW e  PROVE Ahead(job'[w], t, i, e)
    <3>1. t \in k.types /\ k.types \subseteq Types  BY <1>1, <1>7, <2>1, JobFacts
    <3>2. k.type # t  BY <1>1, <1>4, <3>1 DEF EntitiesSyncAssumption
    <3>3. InFetch(k)  BY <1>1 DEF InFetch
    <3> HIDE DEF k
    <3> QED BY <1>6, <3>1, <3>2, <3>3 DEF Ahead
  <2> QED BY <1>7, <2>1 DEF Joins
<1> HIDE DEF k
<1> QED BY <1>1, <1>2, <1>3, <1>4, <1>5, <1>8, MainLeaves

\* What happens to types takes them out of the live ones.
LEMMA OweLive ==
  ASSUME SyncTyped, NEW T \in SUBSET Types, Owe(T), subscribed' = subscribed
  PROVE  /\ Live' = Live \ T /\ past'.clean \subseteq past.clean /\ Joins
         /\ T # {} => past'.clean = {}
<1>1. past'.owed = past.owed \cup T /\ past'.clean = IF T = {} THEN past.clean ELSE {}
  BY OweIs
<1>2. Live' = Live \ T  BY <1>1 DEF Live
<1>3. Joins  BY <1>2 DEF Joins
<1> QED BY <1>1, <1>2, <1>3

\* The write that the broker refuses.
LEMMA MainIgnored ==
  ASSUME EntitiesSyncAssumption, SyncSound, SyncSound', MainSound,
         NEW w \in Workers, WriteIgnored(w)
  PROVE  MainSound'
<1> DEFINE j == job[w]
<1>1. Owe(j.r.subscribe) /\ j.r.subscribe \in SUBSET Types  BY IgnoredIs DEF SyncSound
<1>2. PICK k \in Jobs :
        /\ job' = [job EXCEPT ![w] = k]
        /\ k.pc = "fetch" /\ k.types \subseteq j.old \cup j.r.subscribe
        /\ k.type = j.type /\ k.offset = j.offset /\ k.page = j.page
        /\ k.r = j.r /\ k.old = j.old
  BY IgnoredIs DEF SyncSound
<1>3. j.pc = "write" /\ UNCHANGED <<order, known, subscribed, queue, tasks, rows, entities>>
  BY DEF WriteIgnored, broker, stores
<1>4. ~InFetch(j) /\ ~HasItem(j)  BY <1>3 DEF InFetch, OnPage, HasItem
<1>5. j.type = None  BY <1>3, <1>4 DEF SyncSound, JobSound
<1>6. ~OnPage(k)  BY <1>2 DEF OnPage
<1>7. past'.clean \subseteq past.clean /\ Joins  BY <1>1, <1>3, OweLive DEF SyncSound
<1> QED BY <1>2, <1>3, <1>4, <1>5, <1>6, <1>7, MainLeaves

\* The write that is not answered.
LEMMA MainUnanswered ==
  ASSUME EntitiesSyncAssumption, SyncSound, SyncSound', MainSound,
         NEW w \in Workers, WriteUnanswered(w)
  PROVE  MainSound'
<1> DEFINE j == job[w]
           T == subscribed \cup j.r.subscribe
<1>1. /\ job' = [job EXCEPT ![w] = Idle]
      /\ subscribed' = Written(j)
      /\ Written(j) \subseteq subscribed \cup j.subs \cup j.r.subscribe
      /\ Owe(T) /\ T \in SUBSET Types
  BY UnansweredIs DEF SyncSound
<1>2. j.pc = "write" /\ UNCHANGED <<order, known, queue, tasks, rows, entities>>
  BY DEF WriteUnanswered, stores
<1>3. ~InFetch(j) /\ ~HasItem(j)  BY <1>2 DEF InFetch, OnPage, HasItem
<1>4. j.subs \subseteq Touched  BY <1>2 DEF SyncSound, JobSound
<1>5. past'.owed = past.owed \cup T /\ past'.clean \subseteq past.clean
  BY <1>1, OweIs DEF SyncSound
<1>6. Live' = {}  BY <1>1, <1>4, <1>5 DEF Live, Touched
<1>7. Joins  BY <1>6 DEF Joins
<1>8. ~OnPage(Idle) /\ Idle.pc # "fetch"  BY DEF OnPage, Idle
<1> QED BY <1>1, <1>2, <1>3, <1>5, <1>7, <1>8, MainLeaves

\* The end of the job.
LEMMA MainFinish ==
  ASSUME EntitiesSyncAssumption, SyncSound, SyncSound', MainSound, NEW w \in Workers,
         Finish(w)
  PROVE  MainSound'
<1>1. /\ job' = [job EXCEPT ![w] = Idle] /\ job[w].pc = "fetch" /\ job[w].types = {}
      /\ UNCHANGED <<order, known, subscribed, queue, tasks, rows, entities, past>>
  BY DEF Finish, broker, stores
<1>2. Live' = Live /\ past'.clean = past.clean  BY <1>1 DEF Live
<1>3. Joins  BY <1>2 DEF Joins
<1>4. ~OnPage(Idle) /\ Idle.pc # "fetch" /\ ~HasItem(job[w])
  BY <1>1 DEF OnPage, Idle, HasItem
<1> QED BY <1>1, <1>2, <1>3, <1>4, MainLeaves

\* A type that fails.
LEMMA MainTypeFails ==
  ASSUME EntitiesSyncAssumption, SyncSound, SyncSound', MainSound,
         NEW w \in Workers, TypeFails(w)
  PROVE  MainSound'
<1> DEFINE j == job[w]
<1>1. Owe({j.type}) /\ {j.type} \in SUBSET Types  BY FailsIs DEF SyncSound
<1>2. PICK k \in Jobs :
        /\ job' = [job EXCEPT ![w] = k] /\ k.pc = "fetch"
        /\ k.r = j.r /\ k.old = j.old /\ k.types = j.types \ {j.type}
        /\ k.type = None /\ k.offset = 0 /\ k.page = <<>>
  BY FailsIs DEF SyncSound
<1>3. UNCHANGED <<order, known, subscribed, queue, tasks, rows, entities>>
  BY DEF TypeFails, broker, stores
<1>4. Live' = Live \ {j.type} /\ past'.clean = {} /\ Joins
  BY <1>1, <1>3, OweLive DEF SyncSound
<1>5. ~OnPage(k)  BY <1>2 DEF OnPage
<1>6. \A t \in Live' : t \in j.types => t \in k.types  BY <1>2, <1>4
<1> QED BY <1>2, <1>3, <1>4, <1>5, <1>6, MainLeaves

\* A job that ends before its types are done.
LEMMA MainGivenUp ==
  ASSUME EntitiesSyncAssumption, SyncSound, SyncSound', MainSound, NEW w \in Workers,
         job' = [job EXCEPT ![w] = Idle], Owe(job[w].types), job[w].types \in SUBSET Types,
         UNCHANGED <<order, known, subscribed, queue, tasks, rows, entities>>
  PROVE  MainSound'
<1>1. /\ Live' = Live \ job[w].types /\ past'.clean \subseteq past.clean /\ Joins
      /\ job[w].types # {} => past'.clean = {}
  BY OweLive DEF SyncSound
<1>2. ~OnPage(Idle) /\ Idle.pc # "fetch"  BY DEF OnPage, Idle
<1>3. HasItem(job[w]) => job[w].type \in job[w].types
  <2>1. HasItem(job[w]) => OnPage(job[w])  BY DEF HasItem, OnPage
  <2>2. OnPage(job[w]) => job[w] \in Jobs  BY JobIs DEF SyncSound, OnPage
  <2>3. OnPage(job[w]) => job[w].type \in Types  BY <2>2, JobFacts
  <2>4. OnPage(job[w]) => job[w].type \in job[w].types
    BY <2>3 DEF SyncSound, JobSound, InFetch, EntitiesSyncAssumption
  <2> QED BY <2>1, <2>4
<1>4. \A t \in Live' : t \notin job[w].types  BY <1>1
<1> QED BY <1>1, <1>2, <1>3, <1>4, MainLeaves

\* A page that comes, or the end of a type.
LEMMA MainFetch ==
  ASSUME EntitiesSyncAssumption, SyncSound, SyncSound', MainSound, NEW w \in Workers, Fetch(w)
  PROVE  MainSound'
<1>1. /\ job[w].pc = "fetch"
      /\ UNCHANGED <<order, known, subscribed, queue, tasks, rows, entities>>
  BY DEF Fetch, broker, stores
<1>2. job[w].type # None => job[w].type \in job[w].types
  BY <1>1 DEF SyncSound, JobSound, InFetch
<1>3. PICK type \in Types, k \in Jobs :
        /\ job' = [job EXCEPT ![w] = k]
        /\ \/ Done(w, type) /\ k.pc = "fetch"
           \/ UNCHANGED past /\ k.pc = "entity"
  <2> DEFINE j == job[w]
  <2>1. \E type \in Types : \E k \in Jobs :
        /\ type \in j.types /\ (j.type = type \/ j.type = None)
        /\ job' = [job EXCEPT ![w] = k] /\ k.r = j.r /\ k.old = j.old
        /\ \/ /\ Len(order[type]) <= j.offset
              /\ Done(w, type)
              /\ k.pc = "fetch" /\ k.types = j.types \ {type}
              /\ k.type = None /\ k.offset = 0 /\ k.page = <<>>
           \/ /\ UNCHANGED past
              /\ k.pc = "entity" /\ k.types = j.types /\ k.type = type
              /\ k.offset = j.offset + PageLimit
              /\ Len(k.page) \in Nat \ {0}
              /\ j.offset + Len(k.page) <= Len(order[type])
              /\ \A i \in 1 .. Len(k.page) :
                   k.page[i] = [entity |-> order[type][j.offset + i],
                                data |-> known[order[type][j.offset + i]]]
              /\ \/ k.full = TRUE /\ Len(k.page) = PageLimit
                 \/ j.offset + Len(k.page) = Len(order[type])
    BY <1>2, FetchIs DEF SyncSound
  <2> QED BY <2>1
<1>4. ~HasItem(job[w]) /\ ~HasItem(k)  BY <1>1, <1>3 DEF HasItem
<1>5. Keeps  BY <1>1, <1>3, <1>4, LeavesKeeps
<1>6. Moved(w) /\ Joins  BY <1>5, FetchMoved
<1>7. past'.clean = past.clean  BY <1>3, DoneIs DEF SyncSound
<1>8. \A v \in Workers : v # w => job'[v] = job[v]  BY <1>3 DEF SyncSound, SyncTyped
<1> QED BY <1>1, <1>5, <1>6, <1>7, <1>8, MainFrame

\* The look at an entity: stamped anew, created, or passed over.
LEMMA MainLookup ==
  ASSUME EntitiesSyncAssumption, SyncSound, SyncSound', DataSound, MainSound,
         NEW w \in Workers, Lookup(w)
  PROVE  MainSound'
<1> DEFINE j == job[w]
<1>1. /\ SyncTyped /\ OnPage(j) /\ j.pc = "entity" /\ ~HasItem(j)
      /\ UNCHANGED <<order, known, subscribed, queue, tasks, rows, entities>>
  BY DEF SyncSound, Lookup, OnPage, HasItem, broker, stores
<1>2. PICK head, data : head = j.page[1].entity /\ data = j.page[1].data
  OBVIOUS
<1>3. /\ Head(j.page) = j.page[1] /\ Head(j.page).entity = head
      /\ 1 \in 1 .. Len(j.page) /\ TypeOf[head] = j.type /\ head \in Entities /\ j.type \in Types
  <2>1. j \in Jobs  BY <1>1, JobIs
  <2>2. 1 \in 1 .. Len(j.page) /\ Head(j.page) = j.page[1]  BY <1>1, <2>1, JobFacts
  <2> QED BY <1>1, <1>2, <2>2, HeadOfType
<1>4. CASE Skipped(j, head)
  <2>1. Advance(w, j) /\ head \in entities /\ ~j.r.existing
    BY <1>3, <1>4 DEF Lookup, Skipped
  <2>2. PICK k \in Jobs :
          /\ job' = [job EXCEPT ![w] = k]
          /\ k = Without(j) \/ k.pc \in {"entity", "fetch"}
          /\ Done(w, j.type) \/ UNCHANGED past
    BY <1>1, <2>1, AdvanceIs
  <2>3. ~HasItem(k)
    <3>1. j \in Busy  BY <1>1, JobIs, JobFacts
    <3>2. k.pc \in {"entity", "fetch"}  BY <2>2, <3>1, WithoutIs
    <3> QED BY <3>2 DEF HasItem
  <2>4. Keeps  BY <1>1, <2>2, <2>3, LeavesKeeps
  <2>5. Moved(w) /\ Joins  BY <1>1, <1>2, <2>1, <2>4, AdvanceMoved
  <2>6. past'.clean = past.clean  BY <1>1, <1>3, <2>2, DoneIs
  <2>7. \A v \in Workers : v # w => job'[v] = job[v]  BY <1>1, <2>2 DEF SyncTyped
  <2> QED BY <1>1, <2>4, <2>5, <2>6, <2>7, MainFrame
<1>5. CASE ~Skipped(j, head)
  <2> DEFINE T == IF head \notin Stamped /\ data # known[head] THEN {j.type} ELSE {}
  <2>1. Owe(T) /\ T \in SUBSET Types
    <3>1. LET e == j.page[1].entity  d == j.page[1].data IN
          Owe(IF e \notin Stamped /\ d # known[e] THEN {j.type} ELSE {})
      BY <1>1, <1>3, <1>5, LookupIs
    <3> QED BY <1>2, <1>3, <3>1
  <2>2. PICK k \in Jobs :
          /\ job' = [job EXCEPT ![w] = k]
          /\ k.pc \in {"realtime", "create"}
          /\ k.r = j.r /\ k.old = j.old /\ k.types = j.types /\ k.type = j.type
          /\ k.offset = j.offset /\ k.full = j.full /\ k.page = j.page
    <3>1. \E k \in Jobs :
          /\ job' = [job EXCEPT ![w] = k]
          /\ k.pc = IF j.page[1].entity \in entities THEN "realtime" ELSE "create"
          /\ k.r = j.r /\ k.old = j.old /\ k.types = j.types /\ k.type = j.type
          /\ k.offset = j.offset /\ k.full = j.full /\ k.page = j.page
      BY <1>1, <1>3, <1>5, LookupIs
    <3> QED BY <3>1
  <2>3. /\ Live' = Live \ T /\ past'.clean \subseteq past.clean /\ Joins
        /\ T # {} => past'.clean = {}
    BY <1>1, <2>1, OweLive
  <2>4. /\ (head \in Stamped \/ data = known[head]) /\ (data = known[head] \/ Settled(head)) =>
             \A s \in Stores : SettledIn(s, head)'
        /\ \A e \in Entities \ {head} : Settled(e) => Settled(e)'
    BY <1>2, <1>3, <1>5, LookupSettles
  <2>5. head \in Stamped \/ data = known[head] \/ (j.type \notin Live' /\ past'.clean = {})
    BY <2>3
  <2>6. Keeps
    <3> SUFFICES ASSUME NEW e \in Entities, Settled(e), TypeOf[e] \in Live' \/ past'.clean # {}
                 PROVE  Settled(e)'
      BY DEF Keeps
    <3>1. CASE e # head  BY <2>4, <3>1
    <3>2. CASE e = head
      <4>1. \A s \in Stores : SettledIn(s, head)'  BY <1>3, <2>4, <2>5, <3>2
      <4> QED BY <3>2, <4>1 DEF Settled
    <3> QED BY <3>1, <3>2
  <2>7. j.type \in Live' \/ w \in past'.clean => Settled(head)'
    <3> SUFFICES ASSUME j.type \in Live' \/ w \in past'.clean  PROVE Settled(head)'
      OBVIOUS
    <3>1. j.type \in Live \/ w \in past.clean  BY <2>3
    <3>2. Settled(head) \/ data = known[head]
      BY <1>1, <1>2, <1>3, <3>1 DEF MainSound, FreshAt
    <3>3. \A s \in Stores : SettledIn(s, head)'  BY <2>4, <2>5, <3>2
    <3> QED BY <3>3 DEF Settled
  <2>8. Moved(w)
    <3>1. Live' \subseteq Live  BY <2>3
    <3> QED BY <1>1, <1>2, <2>2, <2>3, <2>6, <2>7, <3>1, SameMoved
  <2>9. \A v \in Workers : v # w => job'[v] = job[v]  BY <1>1, <2>2 DEF SyncTyped
  <2> QED BY <1>1, <2>3, <2>6, <2>8, <2>9, MainFrame
<1> QED BY <1>4, <1>5

\* The creation of an entity.
LEMMA MainCreate ==
  ASSUME EntitiesSyncAssumption, SyncSound, SyncSound', MainSound, NEW w \in Workers,
         Create(w)
  PROVE  MainSound'
<1> DEFINE j == job[w]
<1>1. /\ SyncTyped /\ OnPage(j) /\ j.pc = "create"
      /\ UNCHANGED <<order, known, subscribed, queue, tasks, rows>>
  BY DEF SyncSound, Create, OnPage, broker
<1>2. PICK head : head = j.page[1].entity  OBVIOUS
<1>3. head \in Entities /\ entities' = entities \cup {head}
  BY <1>1, <1>2, CreateIs
<1>4. CASE job' = [job EXCEPT ![w] = Idle] /\ Owe(j.types) /\ j.types \in SUBSET Types
           /\ entities' = entities
  BY <1>1, <1>4, MainGivenUp
<1>5. ASSUME UNCHANGED past, NEW k \in Jobs, job' = [job EXCEPT ![w] = k], k.pc = "realtime",
             k.r = j.r, k.types = j.types, k.type = j.type,
             k.offset = j.offset, k.full = j.full, k.page = j.page, k.item = j.item
      PROVE  MainSound'
  <2>1. Live' = Live /\ past' = past  BY <1>1, <1>5 DEF Live
  <2>2. Keeps
    <3>1. \A s \in Stores, e \in Entities : Holds(k, s, e) <=> Holds(j, s, e)
      BY <1>1, <1>5 DEF Holds
    <3> QED BY <1>1, <1>5, <3>1, SettledFrame DEF Keeps
  <2>3. Joins  BY <2>1 DEF Joins
  <2>4. Moved(w)  BY <1>1, <1>2, <1>5, <2>1, <2>2, SameMoved
  <2>5. TypeOf[head] \in Live' => Settled(head)'
    <3>1. 1 \in 1 .. Len(j.page)
      <4>1. j \in Jobs  BY <1>1, JobIs
      <4> QED BY <1>1, <4>1, JobFacts
    <3>2. TypeOf[head] = j.type  BY <1>1, <1>2, <3>1, HeadOfType
    <3>3. ~AtHand(j, 1)  BY <1>1 DEF AtHand
    <3>4. j.type \in Live => Settled(head)
      BY <1>1, <1>2, <1>3, <3>1, <3>3 DEF MainSound, FreshAt
    <3> QED BY <1>3, <2>1, <2>2, <3>2, <3>4 DEF Keeps
  <2>6. \A v \in Workers : v # w => job'[v] = job[v]  BY <1>1, <1>5 DEF SyncTyped
  <2>7. \A e \in entities' : e \in entities \/ TypeOf[e] \notin Live' \/ Settled(e)'
    BY <1>3, <2>5
  <2> QED BY <1>1, <2>1, <2>2, <2>3, <2>4, <2>6, <2>7, MainFrame
<1> QED BY <1>1, <1>4, <1>5, CreateIs

\* The call that writes the realtime row.
LEMMA MainSendRealtime ==
  ASSUME EntitiesSyncAssumption, SyncSound, SyncSound', MainSound,
         NEW w \in Workers, SendRealtime(w)
  PROVE  MainSound'
<1> DEFINE j == job[w]
<1>1. /\ SyncTyped /\ OnPage(j) /\ j.pc = "realtime"
      /\ tasks' = tasks \cup {Task(j, "realtime")}
      /\ UNCHANGED <<order, known, subscribed, queue, rows, entities, past>>
  BY DEF SyncSound, SendRealtime, OnPage, broker
<1>2. PICK k \in Jobs :
           /\ job' = [job EXCEPT ![w] = k] /\ k.pc = "series"
           /\ k.r = j.r /\ k.old = j.old /\ k.types = j.types /\ k.type = j.type
           /\ k.offset = j.offset /\ k.full = j.full /\ k.page = j.page
           /\ k.item = j.item
  BY <1>1, SendRealtimeIs
<1>3. Live' = Live /\ past' = past  BY <1>1 DEF Live
<1>4. Keeps
  <2>1. \A s \in Stores, e \in Entities :
          /\ Holds(j, s, e) <=> Holds(k, s, e) \/ (s = "realtime" /\ e = j.page[1].entity)
          /\ Holds(k, s, e) => k.item = j.item
    BY <1>1, <1>2 DEF Holds, Stores
  <2>2. "realtime" \in Stores  BY DEF Stores
  <2> QED BY <1>1, <1>2, <2>1, <2>2, SendKeeps
<1>5. PICK head : head = j.page[1].entity  OBVIOUS
<1>6. Joins  BY <1>3 DEF Joins
<1>7. Moved(w)  BY <1>1, <1>2, <1>3, <1>4, <1>5, SameMoved
<1>8. \A v \in Workers : v # w => job'[v] = job[v]  BY <1>1, <1>2 DEF SyncTyped
<1> QED BY <1>1, <1>3, <1>4, <1>6, <1>7, <1>8, MainFrame

\* The call that writes the series.
LEMMA MainSendSeries ==
  ASSUME EntitiesSyncAssumption, SyncSound, SyncSound', MainSound,
         NEW w \in Workers, SendSeries(w)
  PROVE  MainSound'
<1> DEFINE j == job[w]
<1>1. /\ SyncTyped /\ OnPage(j) /\ j.pc = "series" /\ Advance(w, j)
      /\ tasks' = tasks \cup {Task(j, "series")}
      /\ UNCHANGED <<order, known, subscribed, queue, rows, entities>>
  BY DEF SyncSound, SendSeries, OnPage, broker
<1>2. PICK k \in Jobs :
        /\ job' = [job EXCEPT ![w] = k]
        /\ k = Without(j) \/ k.pc \in {"entity", "fetch"}
        /\ Done(w, j.type) \/ UNCHANGED past
  BY <1>1, AdvanceIs
<1>3. k.pc \in {"entity", "fetch"} /\ j.type \in Types
  <2>1. j \in Busy /\ j \in Jobs  BY <1>1, JobIs, JobFacts
  <2> QED BY <1>1, <1>2, <2>1, WithoutIs, JobFacts
<1>4. Keeps
  <2>1. \A s \in Stores, e \in Entities :
          /\ Holds(j, s, e) <=> Holds(k, s, e) \/ (s = "series" /\ e = j.page[1].entity)
          /\ Holds(k, s, e) => k.item = j.item
    BY <1>1, <1>3 DEF Holds, Stores
  <2>2. "series" \in Stores  BY DEF Stores
  <2> QED BY <1>1, <1>2, <2>1, <2>2, SendKeeps
<1>5. PICK head : head = j.page[1].entity  OBVIOUS
<1>6. Moved(w) /\ Joins  BY <1>1, <1>4, <1>5, AdvanceMoved
<1>7. past'.clean = past.clean  BY <1>1, <1>2, <1>3, DoneIs
<1>8. \A v \in Workers : v # w => job'[v] = job[v]  BY <1>1, <1>2 DEF SyncTyped
<1> QED BY <1>1, <1>4, <1>6, <1>7, <1>8, MainFrame

\* Every step keeps what the jobs still have to bring.
LEMMA MainStep ==
  ASSUME EntitiesSyncAssumption, SyncSound, SyncSound', DataSound, MainSound, [Next]_vars
  PROVE  MainSound'
<1>1. CASE SomeChange  BY <1>1, MainChange DEF SomeChange
<1>2. ASSUME NEW n \in queue, Notified(n)  PROVE MainSound'
  <2>1. /\ queue' = queue \ {n} /\ entities' = entities \cup {n.entity}
        /\ n.entity \in Entities /\ UNCHANGED <<order, known, subscribed, job, past>>
    BY <1>2 DEF Notified, broker, SyncSound, SyncTyped, Entry
  <2>2. Keeps  BY <1>2, NotifiedKeeps
  <2>3. Live' = Live  BY <2>1 DEF Live
  <2>4. Joins  BY <2>3 DEF Joins
  <2>5. PICK x \in Entities : x = n.entity  BY <2>1
  <2>6. TypeOf[x] \in Live' => Settled(x)'
    <3>1. TypeOf[x] \in Live => Settled(x)  BY <2>5 DEF MainSound, Arrived
    <3> QED BY <2>2, <2>3, <3>1 DEF Keeps
  <2>7. \A e \in entities' : e \in entities \/ TypeOf[e] \notin Live' \/ Settled(e)'
    BY <2>1, <2>5, <2>6
  <2> QED BY <2>1, <2>2, <2>4, <2>7, MainFrame
<1>3. ASSUME UNCHANGED <<order, known, subscribed, queue, job, past, tasks, rows, entities>>
      PROVE  MainSound'
  <2>1. Live' = Live  BY <1>3 DEF Live
  <2>2. Joins  BY <2>1 DEF Joins
  <2>3. Keeps
    <3>1. ASSUME NEW s \in Stores, NEW e \in Entities, NEW d \in Measure
          PROVE  Carrier(s, e, d)' <=> Carrier(s, e, d)
      <4>1. (\E v \in Workers : Holds(job[v], s, e) /\ job[v].item = d)'
            <=> (\E v \in Workers : Holds(job[v], s, e) /\ job[v].item = d)
        BY <1>3 DEF Holds
      <4> QED BY <1>3, <4>1 DEF Carrier
    <3> QED BY <1>3, <3>1, SettledSame DEF Keeps
  <2> QED BY <1>3, <2>2, <2>3, MainFrame
<1>4. ASSUME NEW r \in Requests, Request(r)  PROVE MainSound'
  <2>1. UNCHANGED <<order, known, subscribed, queue, job, past, tasks, rows, entities>>
    BY <1>4 DEF Request, broker, stores
  <2> QED BY <1>3, <2>1
<1>5. ASSUME NEW w \in Workers, Dies(w)  PROVE MainSound'
  <2>1. job' = [job EXCEPT ![w] = Idle] /\ Owe(job[w].types) /\ job[w].types \in SUBSET Types
    BY <1>5, DiesIs DEF SyncSound
  <2>2. UNCHANGED <<order, known, subscribed, queue, tasks, rows, entities>>
    BY <1>5 DEF Dies, broker, stores
  <2> QED BY <2>1, <2>2, MainGivenUp
<1>6. ASSUME NEW t \in tasks, RunTask(t)  PROVE MainSound'
  <2>1. UNCHANGED <<order, known, subscribed, queue, job, entities, past>>
    BY <1>6 DEF RunTask, broker
  <2>2. Keeps  BY <1>6, RunKeeps
  <2>3. Live' = Live  BY <2>1 DEF Live
  <2>4. Joins  BY <2>3 DEF Joins
  <2> QED BY <2>1, <2>2, <2>4, MainFrame
<1>7. ASSUME NEW t \in tasks, TaskFails(t)  PROVE MainSound'
  <2>1. UNCHANGED <<order, known, subscribed, queue, job, entities>>
    BY <1>7, TaskFailsIs DEF SyncSound
  <2>2. Keeps /\ Live' \subseteq Live /\ past'.clean = {}  BY <1>7, TaskFailsKeeps
  <2>3. Joins  BY <2>2 DEF Joins
  <2> QED BY <2>1, <2>2, <2>3, MainFrame
<1>8. CASE UNCHANGED vars
  <2>1. UNCHANGED <<order, known, subscribed, queue, job, past, tasks, rows, entities>>
    BY <1>8 DEF vars, broker, stores
  <2> QED BY <1>3, <2>1
<1> QED
  BY <1>1, <1>2, <1>4, <1>5, <1>6, <1>7, <1>8, MainStart, MainDiscover, MainRead, MainWrite,
           MainIgnored, MainUnanswered, MainFetch, MainFinish, MainLookup, MainCreate,
           MainSendRealtime, MainSendSeries, MainTypeFails DEF Next

\* The inductive invariant.
SyncInv == SyncSound /\ DataSound /\ MainSound

\* The invariant of the synchronisation of entities.
THEOREM SyncInvariance == EntitiesSyncAssumption => (Spec => []SyncInv)
<1> SUFFICES ASSUME EntitiesSyncAssumption  PROVE Spec => []SyncInv
  OBVIOUS
<1>1. Init => SyncInv  BY SyncInitSound, DataInit, MainInit DEF SyncInv
<1>2. SyncInv /\ [Next]_vars => SyncInv'
  <2> SUFFICES ASSUME SyncInv, [Next]_vars  PROVE SyncInv'
    OBVIOUS
  <2>1. SyncSound /\ DataSound /\ MainSound  BY DEF SyncInv
  <2>2. SyncSound'  BY <2>1, SyncSoundStep
  <2>3. DataSound'  BY <2>1, <2>2, DataStep
  <2>4. MainSound'  BY <2>1, <2>2, MainStep
  <2> QED BY <2>2, <2>3, <2>4 DEF SyncInv
<1> QED BY <1>1, <1>2, PTL DEF Spec

\* With nothing left to do, only the rows carry anything, and the newest is right.
LEMMA QuietSynced ==
  ASSUME EntitiesSyncAssumption, SyncInv
  PROVE  SubscribedAreSynced
<1>1. SyncSound /\ SyncTyped /\ MainSound  BY DEF SyncInv, SyncSound
<1>2. past.announced \ past.owed \subseteq subscribed
  BY <1>1 DEF SyncSound, SeenSound, Touched
<1>3. ASSUME Quiet, NEW t \in subscribed \ past.owed, NEW i \in DOMAIN order[t], NEW s \in Stores
      PROVE  rows[s][order[t][i]].version = known[order[t][i]].version
  <2>1. t \in Types /\ t \in Live /\ order[t] \in Seq(Entities)
    BY <1>1 DEF SyncTyped, Live
  <2>2. i \in 1 .. Len(order[t])  BY <2>1, LenProperties
  <2>3. PICK e \in Entities : e = order[t][i]  BY <2>1, <2>2, ElementOfSeq
  <2>4. \A w \in Workers : job[w] = Idle /\ ~InFetch(job[w]) /\ ~Holds(job[w], s, e)
    BY <1>3 DEF Quiet, Idle, InFetch, OnPage, Holds
  <2>5. \A w \in Workers : ~Coming(w, t, i, e)  BY <2>4 DEF Coming, Ahead
  <2>6. Settled(e)  BY <1>1, <2>1, <2>2, <2>3, <2>5 DEF MainSound, Promised
  <2>7. PICK c \in Measure : Carrier(s, e, c) /\ Right(e, c)  BY <2>6 DEF Settled, SettledIn
  <2>8. c = rows[s][e]  BY <1>3, <2>4, <2>7 DEF Carrier, Quiet
  <2> QED BY <2>3, <2>7, <2>8 DEF Right
<1> QED BY <1>2, <1>3 DEF SubscribedAreSynced

\* Once nothing is left to do, both stores have what the broker has of every
\* entity of a subscribed type to which nothing happened.
THEOREM SubscribedStaySynced == EntitiesSyncAssumption => (Spec => []SubscribedAreSynced)
<1> SUFFICES ASSUME EntitiesSyncAssumption  PROVE Spec => []SubscribedAreSynced
  OBVIOUS
<1>1. SyncInv => SubscribedAreSynced  BY QuietSynced
<1> QED BY <1>1, SyncInvariance, PTL
=============================================================================
