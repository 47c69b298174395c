------------------------- MODULE OteIngestion_proofs -------------------------
(***************************************************************************)
(* Proofs about OteIngestion: while only the calls that recover() and      *)
(* _discard do not make may fail, and the job may die anywhere, no dump is *)
(* lost, none is archived twice and zone samples miss none, for any dumps, *)
(* sensors and hours.                                                      *)
(***************************************************************************)
EXTENDS OteIngestion, FiniteSetTheorems, TLAPS

\* The manifest protects the deletions as long as the calls that end its life do
\* not fail: with them it does not (run ote_lost).
Protected == OteIngestionAssumption /\ "recover" \notin Faults /\ "discard" \notin Faults

Good(k) == archive[k].state = "good"
Pending(k) == manifests[k] # {}

-----------------------------------------------------------------------------
(* The inductive invariant.                                                *)

\* The steps of a run in which the groups of dumps are being archived.
Compacting == {"compact", "upload", "verify", "reject", "rejected", "delete"}
Recovering == {"recover", "clean", "drop", "dropped"}
Writing == {"upload", "verify", "reject", "rejected"}

Shape ==
  /\ unsent \subseteq Dumps /\ staged \subseteq Dumps \ unsent
  /\ archive \in [Keys -> [state : {"none", "good", "bad"}, dumps : SUBSET Dumps]]
  /\ manifests \in [Keys -> SUBSET Dumps]
  /\ run = [pc |-> run.pc, window |-> run.window, todo |-> run.todo, key |-> run.key,
            left |-> run.left, failed |-> run.failed, seen |-> run.seen]

\* What an intact object holds: its dumps have arrived, and while one of them is
\* still staged there is a manifest that says they are all in it.
ObjectsHold ==
  \A k \in Keys : Good(k) =>
    /\ k[1] \in archive[k].dumps
    /\ archive[k].dumps \cap unsent = {}
    /\ Pending(k) => manifests[k] = archive[k].dumps
    /\ ~Pending(k) => archive[k].dumps \cap staged = {}

\* What a manifest lists: dumps that are all staged, unless its object is intact.
ManifestsCover ==
  \A k \in Keys : Pending(k) =>
    /\ k[1] \in manifests[k]
    /\ manifests[k] \cap unsent = {}
    /\ Good(k) \/ manifests[k] \subseteq staged

ManifestsApart ==
  \A k, l \in Keys : k # l => manifests[k] \cap manifests[l] = {}

Ledger == NoDumpLost /\ ArchivedOnce /\ ObjectsHold /\ ManifestsCover /\ ManifestsApart

\* Recovery goes through every manifest there is; the dumps of the one it is at are
\* deleted only if its object is intact.
Recovery ==
  /\ run.pc \in Recovering =>
       run.todo = {k \in Keys : Pending(k)}
  /\ run.pc \in {"clean", "drop", "dropped"} => run.key \in Keys /\ Pending(run.key)
  /\ run.pc = "clean" => Good(run.key) /\ manifests[run.key] \cap staged \subseteq run.left
  /\ run.pc = "clean" => run.left \subseteq manifests[run.key]
  /\ run.pc \in {"drop", "dropped"} => ~Good(run.key)

\* The groups still to archive are staged, apart from each other and in no manifest.
GroupsFree ==
  run.pc \in Compacting =>
    /\ \A g \in run.todo :
         /\ g # {} /\ g \subseteq staged
         /\ \A k \in Keys : manifests[k] \cap g = {}
    /\ \A g, h \in run.todo : g # h => g \cap h = {}

\* The group being archived: nothing of it is deleted before its object is verified.
GroupHeld ==
  /\ run.pc \in Writing =>
       /\ run.key \in Keys /\ manifests[run.key] = run.left
       /\ run.left # {} /\ run.left \subseteq staged
  /\ run.pc \in {"upload", "rejected"} => ~Good(run.key)
  /\ run.pc = "verify" => archive[run.key].dumps = run.left
  /\ run.pc = "delete" =>
       /\ run.key \in Keys /\ Good(run.key) /\ Pending(run.key)
       /\ run.left \subseteq manifests[run.key]
       /\ manifests[run.key] \cap staged \subseteq run.left

Plan == Recovery /\ GroupsFree /\ GroupHeld
Safe == Shape /\ Ledger /\ Plan

-----------------------------------------------------------------------------
(* The key of a group.                                                     *)

HasEnds(S) == (\E x \in S : \A y \in S : x <= y) /\ (\E x \in S : \A y \in S : y <= x)

\* A finite set of numbers, unless it is empty, has a first and a last one.
LEMMA FiniteHasEnds ==
  ASSUME NEW S \in SUBSET Nat, IsFiniteSet(S), S # {} PROVE HasEnds(S)
<1> DEFINE Odd == {U \in FiniteSubsetsOf(Nat) : U # {} /\ ~HasEnds(U)}
<1> SUFFICES ASSUME ~HasEnds(S) PROVE FALSE OBVIOUS
<1>1. S \in Odd BY DEF FiniteSubsetsOf
<1>2. Odd \subseteq FiniteSubsetsOf(Nat) /\ Odd # {} BY <1>1
<1>3. IsWellFoundedOn(StrictSubsetOrdering(Nat), FiniteSubsetsOf(Nat))
  BY FS_StrictSubsetOrderingWellFounded
<1> HIDE DEF Odd
<1>4. PICK U \in Odd : \A V \in Odd : ~(<<V, U>> \in StrictSubsetOrdering(Nat))
  BY <1>2, <1>3, WFMin
<1>5. U \in SUBSET Nat /\ IsFiniteSet(U) /\ U # {} /\ ~HasEnds(U)
  BY <1>4 DEF Odd, FiniteSubsetsOf
<1>6. PICK x \in U : TRUE BY <1>5
<1> DEFINE V == U \ {x}
<1>7. V \in SUBSET Nat /\ IsFiniteSet(V) /\ V # U BY <1>5, <1>6, FS_RemoveElement
<1>8. CASE V = {}
  <2>1. \A y \in U : y = x BY <1>8
  <2> QED BY <2>1, <1>5, <1>6 DEF HasEnds
<1>9. CASE V # {}
  <2>1. <<V, U>> \in StrictSubsetOrdering(Nat) BY <1>5, <1>7 DEF StrictSubsetOrdering
  <2>2. V \notin Odd BY <1>4, <2>1
  <2>3. HasEnds(V) BY <1>7, <1>9, <2>2 DEF Odd, FiniteSubsetsOf
  <2>4. PICK a \in V : \A y \in V : a <= y BY <2>3 DEF HasEnds
  <2>5. PICK b \in V : \A y \in V : y <= b BY <2>3 DEF HasEnds
  <2>6. \E c \in U : \A y \in U : c <= y
    <3>1. CASE a <= x BY <3>1, <2>4, <1>6, <1>7
    <3>2. CASE x <= a BY <3>2, <2>4, <1>6, <1>5
    <3> QED BY <3>1, <3>2, <1>5, <1>6
  <2>7. \E c \in U : \A y \in U : y <= c
    <3>1. CASE x <= b BY <3>1, <2>5, <1>6, <1>7
    <3>2. CASE b <= x BY <3>2, <2>5, <1>6, <1>5
    <3> QED BY <3>1, <3>2, <1>5, <1>6
  <2> QED BY <2>6, <2>7, <1>5 DEF HasEnds
<1> QED BY <1>8, <1>9

\* archived_key names an object after two of the dumps it is made of.
LEMMA KeyOfGroup ==
  ASSUME OteIngestionAssumption, NEW g \in SUBSET Dumps, g # {}
  PROVE  KeyOf(g) \in Keys /\ KeyOf(g)[1] \in g
<1>1. g \in SUBSET Nat /\ IsFiniteSet(g) BY FS_Subset DEF OteIngestionAssumption
<1>2. HasEnds(g) BY <1>1, FiniteHasEnds
<1>3. First(g) \in g BY <1>2 DEF HasEnds, First
<1>4. Last(g) \in g BY <1>2 DEF HasEnds, Last
<1> QED BY <1>3, <1>4 DEF KeyOf, Keys

\* _by_hour: the groups of the staged dumps are apart and none is empty.
LEMMA GroupsApart ==
  ASSUME NEW S
  PROVE  /\ \A g \in Groups(S) : g # {} /\ g \subseteq S
         /\ \A g, h \in Groups(S) : g # h => g \cap h = {}
BY DEF Groups

-----------------------------------------------------------------------------
(* Steps that leave the stores alone.                                      *)

\* The ledger is about the stores and about what has arrived.
LEMMA LedgerSame == ASSUME Ledger, UNCHANGED <<unsent, storage>> PROVE Ledger'
BY DEF Ledger, NoDumpLost, ArchivedOnce, ObjectsHold, ManifestsCover, ManifestsApart,
       Good, Pending, Held, storage

\* The clock, a run that starts, a run that dies and the reading of the archive.
LEMMA TickSafe == ASSUME Safe, Tick PROVE Safe'
<1>1. UNCHANGED <<unsent, storage, run>> BY DEF Tick
<1>2. Ledger' BY <1>1, LedgerSame DEF Safe
<1>3. Shape' BY <1>1 DEF Safe, Shape, storage
<1>4. Plan'
  BY <1>1 DEF Safe, Plan, Recovery, GroupsFree, GroupHeld, Good, Pending, storage
<1> QED BY <1>2, <1>3, <1>4 DEF Safe

LEMMA StartSafe == ASSUME Safe, Start PROVE Safe'
<1>1. UNCHANGED <<unsent, storage>> BY DEF Start
<1>2. run' = [pc |-> "recover", window |-> hour - 1, todo |-> {k \in Keys : Pending(k)},
              key |-> NoKey, left |-> {}, failed |-> FALSE, seen |-> {}]
  BY DEF Start, Off, Pending
<1>3. Ledger' BY <1>1, LedgerSame DEF Safe
<1>4. Shape' BY <1>1, <1>2 DEF Safe, Shape, storage
<1>5. Plan'
  BY <1>1, <1>2 DEF Plan, Recovery, GroupsFree, GroupHeld, Recovering, Compacting, Writing,
                    Good, Pending, storage
<1> QED BY <1>3, <1>4, <1>5 DEF Safe

LEMMA CrashSafe == ASSUME Safe, Crash PROVE Safe'
<1>1. UNCHANGED <<unsent, storage>> /\ run' = Off BY DEF Crash
<1>2. Ledger' BY <1>1, LedgerSame DEF Safe
<1>3. Shape' BY <1>1 DEF Safe, Shape, storage, Off
<1>4. run'.pc = "off" BY <1>1 DEF Off
<1>5. Plan' BY <1>4 DEF Plan, Recovery, GroupsFree, GroupHeld, Recovering, Compacting, Writing
<1> QED BY <1>2, <1>3, <1>5 DEF Safe

LEMMA IngestSafe == ASSUME Safe, NEW t \in Targets, Ingest(t) PROVE Safe'
<1>1. UNCHANGED <<unsent, storage>> BY DEF Ingest
<1>2. Ledger' BY <1>1, LedgerSame DEF Safe
<1>3. Shape' /\ run'.pc \in {"off", "ingest"}
  <2>1. CASE run' = Off BY <1>1, <2>1 DEF Safe, Shape, storage, Off
  <2>2. CASE run' = [run EXCEPT !.todo = @ \ {t}]
    BY <1>1, <2>2 DEF Safe, Shape, storage, Ingest
  <2> QED BY <2>1, <2>2 DEF Ingest
<1>4. Plan' BY <1>3 DEF Plan, Recovery, GroupsFree, GroupHeld, Recovering, Compacting, Writing
<1> QED BY <1>2, <1>3, <1>4 DEF Safe

-----------------------------------------------------------------------------
(* recover().                                                              *)

\* An object is intact if its manifest says what it holds; otherwise, since a
\* manifest is never written over an intact object, it is not whole.
LEMMA RecoverSafe == ASSUME Protected, Safe, NEW k \in Keys, Recover(k) PROVE Safe'
<1>1. UNCHANGED <<unsent, storage>> /\ run.pc = "recover" /\ k \in run.todo BY DEF Recover
<1>2. Ledger' BY <1>1, LedgerSame DEF Safe
<1>3. CASE Intact(k) /\ run' = [run EXCEPT !.pc = "clean", !.key = k, !.left = manifests[k]]
  <2>1. Shape' BY <1>1, <1>3 DEF Safe, Shape, storage
  <2>2. /\ run'.pc = "clean" /\ run'.key = k /\ run'.left = manifests[k]
        /\ run'.todo = run.todo
    BY <1>3 DEF Safe, Shape
  <2>3. Good(k) /\ Pending(k)
    <3>1. Good(k) /\ archive[k].dumps = manifests[k] BY <1>3 DEF Intact, Good
    <3> QED BY <3>1 DEF Safe, Ledger, ObjectsHold, Pending
  <2>4. Plan'
    BY <1>1, <2>2, <2>3 DEF Safe, Plan, Recovery, GroupsFree, GroupHeld, Recovering,
                            Compacting, Writing, Good, Pending, storage
  <2> QED BY <1>2, <2>1, <2>4 DEF Safe
<1>4. CASE ~Intact(k) /\ run' = [run EXCEPT !.pc = "drop", !.key = k]
  <2>1. Shape' BY <1>1, <1>4 DEF Safe, Shape, storage
  <2>2. run'.pc = "drop" /\ run'.key = k /\ run'.todo = run.todo
    BY <1>4 DEF Safe, Shape
  <2>3. Pending(k) BY <1>1 DEF Safe, Plan, Recovery, Recovering
  <2>4. ~Good(k) BY <1>4, <2>3 DEF Safe, Ledger, ObjectsHold, Intact, Good
  <2>5. Plan'
    BY <1>1, <2>2, <2>3, <2>4 DEF Safe, Plan, Recovery, GroupsFree, GroupHeld, Recovering,
                                  Compacting, Writing, Good, Pending, storage
  <2> QED BY <1>2, <2>1, <2>5 DEF Safe
<1> QED BY <1>3, <1>4 DEF Recover, Fail, May, Protected

\* A dump of an intact object is deleted: the object and its manifest still have it.
LEMMA DeletionKeepsLedger ==
  ASSUME Shape, Ledger, NEW k \in Keys, Good(k), NEW d \in manifests[k],
         staged' = staged \ {d}, UNCHANGED <<unsent, archive, manifests>>
  PROVE  Ledger'
<1>1. manifests[k] = archive[k].dumps BY DEF Ledger, ObjectsHold, Pending
<1>2. NoDumpLost'
  BY <1>1 DEF Ledger, NoDumpLost, Held, Good
<1>3. ArchivedOnce' /\ ManifestsApart' BY DEF Ledger, ArchivedOnce, ManifestsApart
<1>4. ObjectsHold' BY DEF Ledger, ObjectsHold, Good, Pending
<1>5. ManifestsCover'
  BY DEF Ledger, ManifestsCover, ManifestsApart, Good, Pending
<1> QED BY <1>2, <1>3, <1>4, <1>5 DEF Ledger

\* A manifest is dropped: its dumps are all staged and its object is not whole, or
\* none of them is staged any more.
LEMMA DropManifestKeepsLedger ==
  ASSUME Shape, Ledger, NEW k \in Keys, manifests' = [manifests EXCEPT ![k] = {}],
         ~Good(k) \/ manifests[k] \cap staged = {},
         UNCHANGED <<unsent, staged, archive>>
  PROVE  Ledger'
<1>1. manifests'[k] = {} /\ \A l \in Keys \ {k} : manifests'[l] = manifests[l] BY DEF Shape
<1>2. NoDumpLost' /\ ArchivedOnce' BY DEF Ledger, NoDumpLost, ArchivedOnce, Held
<1>3. ObjectsHold' BY <1>1 DEF Ledger, ObjectsHold, Good, Pending
<1>4. ManifestsCover' BY <1>1 DEF Ledger, ManifestsCover, Good, Pending
<1>5. ManifestsApart' BY <1>1 DEF Ledger, ManifestsApart
<1> QED BY <1>2, <1>3, <1>4, <1>5 DEF Ledger

LEMMA CleanSafe == ASSUME Protected, Safe, NEW d \in Dumps, Clean(d) PROVE Safe'
<1> DEFINE k == run.key
<1>1. /\ run.pc = "clean" /\ d \in run.left /\ staged' = staged \ {d}
      /\ run' = [run EXCEPT !.left = @ \ {d}] /\ UNCHANGED <<unsent, archive, manifests>>
  BY DEF Clean, Fail, May, Protected
<1>2. k \in Keys /\ Good(k) /\ d \in manifests[k]
  BY <1>1 DEF Safe, Plan, Recovery
<1>3. Ledger' BY <1>1, <1>2, DeletionKeepsLedger DEF Safe
<1>4. Shape' BY <1>1 DEF Safe, Shape
<1>5. /\ run'.pc = run.pc /\ run'.key = run.key /\ run'.left = run.left \ {d}
      /\ run'.todo = run.todo
  BY <1>1 DEF Safe, Shape
<1>6. Plan'
  BY <1>1, <1>5 DEF Safe, Plan, Recovery, GroupsFree, GroupHeld, Recovering, Compacting,
                    Writing, Good, Pending
<1> QED BY <1>3, <1>4, <1>6 DEF Safe

LEMMA CleanedSafe == ASSUME Protected, Safe, Cleaned PROVE Safe'
<1> DEFINE k == run.key
<1>1. /\ run.pc = "clean" /\ run.left = {} /\ manifests' = [manifests EXCEPT ![k] = {}]
      /\ run' = [run EXCEPT !.pc = "recover", !.key = NoKey, !.todo = @ \ {k}]
      /\ UNCHANGED <<unsent, staged, archive>>
  BY DEF Cleaned, Fail, May, Protected
<1>2. k \in Keys /\ manifests[k] \cap staged = {}
  BY <1>1 DEF Safe, Plan, Recovery
<1>3. Ledger' BY <1>1, <1>2, DropManifestKeepsLedger DEF Safe
<1>4. Shape' BY <1>1 DEF Safe, Shape
<1>5. run'.pc = "recover" /\ run'.todo = run.todo \ {k} BY <1>1 DEF Safe, Shape
<1>6. manifests'[k] = {} /\ \A l \in Keys \ {k} : manifests'[l] = manifests[l]
  BY <1>1, <1>2 DEF Safe, Shape
<1>7. Plan'
  BY <1>1, <1>2, <1>5, <1>6 DEF Safe, Plan, Recovery, GroupsFree, GroupHeld, Recovering,
                                Compacting, Writing, Pending
<1> QED BY <1>3, <1>4, <1>7 DEF Safe

-----------------------------------------------------------------------------
(* _discard.                                                               *)

\* Removing an object loses nothing while the dumps of its manifest are staged.
LEMMA DiscardObjectSafe == ASSUME Protected, Safe, DiscardObject PROVE Safe'
<1> DEFINE k == run.key
<1> DEFINE after == IF run.pc = "drop" THEN "dropped" ELSE "rejected"
<1>1. /\ run.pc \in {"drop", "reject"} /\ archive' = [archive EXCEPT ![k] = Absent]
      /\ run' = [run EXCEPT !.pc = after]
      /\ UNCHANGED <<unsent, staged, manifests>>
  BY DEF DiscardObject, Fail, May, Protected
<1>2. k \in Keys /\ Pending(k)
  BY <1>1 DEF Safe, Plan, Recovery, GroupHeld, Writing, Pending
<1>3. manifests[k] \subseteq staged
  BY <1>1, <1>2 DEF Safe, Ledger, ManifestsCover, Plan, Recovery, GroupHeld, Writing
<1>4. /\ archive'[k] = Absent /\ archive'[k].state # "good"
      /\ \A l \in Keys \ {k} : archive'[l] = archive[l]
  BY <1>1, <1>2 DEF Safe, Shape, Absent
<1>5. Ledger'
  <2>1. NoDumpLost'
    BY <1>1, <1>2, <1>3, <1>4 DEF Safe, Ledger, NoDumpLost, ObjectsHold, Held, Good
  <2>2. \A l \in Keys : Good(l)' => Good(l) /\ archive'[l] = archive[l] BY <1>4 DEF Good
  <2>3. ArchivedOnce' BY <2>2 DEF Safe, Ledger, ArchivedOnce, Good
  <2>4. ObjectsHold' BY <1>1, <1>4 DEF Safe, Ledger, ObjectsHold, Good, Pending
  <2>5. ManifestsCover'
    BY <1>1, <1>3, <1>4 DEF Safe, Ledger, ManifestsCover, Good, Pending
  <2>6. ManifestsApart' BY <1>1 DEF Safe, Ledger, ManifestsApart
  <2> QED BY <2>1, <2>3, <2>4, <2>5, <2>6 DEF Ledger
<1>6. Shape'
  <2>1. Absent \in [state : {"none", "good", "bad"}, dumps : SUBSET Dumps] BY DEF Absent
  <2>2. archive' \in [Keys -> [state : {"none", "good", "bad"}, dumps : SUBSET Dumps]]
    BY <1>1, <2>1 DEF Safe, Shape
  <2> QED BY <1>1, <2>2 DEF Safe, Shape
<1>7. /\ run'.pc = after /\ run'.key = k /\ run'.left = run.left /\ run'.todo = run.todo
  BY <1>1 DEF Safe, Shape
<1>8. CASE run.pc = "drop"
  <2>1. Plan'
    BY <1>1, <1>2, <1>4, <1>7, <1>8 DEF Safe, Plan, Recovery, GroupsFree, GroupHeld,
         Recovering, Compacting, Writing, Good, Pending
  <2> QED BY <1>5, <1>6, <2>1 DEF Safe
<1>9. CASE run.pc = "reject"
  <2>1. Plan'
    BY <1>1, <1>2, <1>4, <1>7, <1>9 DEF Safe, Plan, Recovery, GroupsFree, GroupHeld,
         Recovering, Compacting, Writing, Good, Pending
  <2> QED BY <1>5, <1>6, <2>1 DEF Safe
<1> QED BY <1>1, <1>8, <1>9

LEMMA DiscardManifestSafe == ASSUME Protected, Safe, DiscardManifest PROVE Safe'
<1> DEFINE k == run.key
<1>1. /\ run.pc \in {"dropped", "rejected"} /\ manifests' = [manifests EXCEPT ![k] = {}]
      /\ UNCHANGED <<unsent, staged, archive>>
  BY DEF DiscardManifest, Fail, May, Protected
<1>2. k \in Keys /\ ~Good(k) BY <1>1 DEF Safe, Plan, Recovery, GroupHeld, Writing
<1>3. Ledger' BY <1>1, <1>2, DropManifestKeepsLedger DEF Safe
<1>4. manifests'[k] = {} /\ \A l \in Keys \ {k} : manifests'[l] = manifests[l]
  BY <1>1, <1>2 DEF Safe, Shape
<1>5. Shape' BY <1>1 DEF Safe, Shape, DiscardManifest
<1>6. CASE run.pc = "dropped"
  <2>1. run'.pc = "recover" /\ run'.todo = run.todo \ {k}
    BY <1>6 DEF Safe, Shape, DiscardManifest
  <2>2. Plan'
    BY <1>2, <1>4, <1>6, <2>1 DEF Safe, Plan, Recovery, GroupsFree, GroupHeld, Recovering,
                                  Compacting, Writing, Pending
  <2> QED BY <1>3, <1>5, <2>2 DEF Safe
<1>7. CASE run.pc = "rejected"
  <2>1. run'.pc = "compact" /\ run'.todo = run.todo
    BY <1>7 DEF Safe, Shape, DiscardManifest
  <2>2. Plan'
    BY <1>1, <1>2, <1>4, <1>7, <2>1 DEF Safe, Plan, Recovery, GroupsFree, GroupHeld,
                                        Recovering, Compacting, Writing
  <2> QED BY <1>3, <1>5, <2>2 DEF Safe
<1> QED BY <1>1, <1>6, <1>7

-----------------------------------------------------------------------------
(* compact_archive().                                                      *)

\* The staging area is listed when no manifest is left.
LEMMA ListSafe == ASSUME Safe, List PROVE Safe'
<1>1. UNCHANGED <<unsent, storage>> /\ run.pc = "recover" /\ run.todo = {} BY DEF List
<1>2. Ledger' BY <1>1, LedgerSame DEF Safe
<1>3. Shape' BY <1>1 DEF Safe, Shape, storage, List
<1>4. run'.pc = "compact" /\ run'.todo = Groups(staged) BY DEF Safe, Shape, List
<1>5. \A k \in Keys : manifests[k] = {}
  BY <1>1 DEF Safe, Plan, Recovery, Recovering, Pending
<1>6. Plan'
  BY <1>1, <1>4, <1>5, GroupsApart DEF Plan, Recovery, GroupsFree, GroupHeld, Recovering,
                                       Compacting, Writing, storage
<1> QED BY <1>2, <1>3, <1>6 DEF Safe

\* A step back to the next group, with a group less or not, keeps the plan.
LEMMA NextGroupPlan ==
  ASSUME Shape, Plan, run.pc \in Compacting, run'.pc = "compact",
         run'.todo \subseteq run.todo, UNCHANGED <<staged, manifests>>
  PROVE  Plan'
BY DEF Plan, Recovery, GroupsFree, GroupHeld, Recovering, Compacting, Writing

\* The manifest of a group is written where there was none, and its key holds no
\* intact object: a dump of it is still staged.
LEMMA JoinSafe == ASSUME Protected, Safe, NEW g \in SUBSET Dumps, Join(g) PROVE Safe'
<1>1. /\ run.pc = "compact" /\ g \in run.todo /\ UNCHANGED <<unsent, staged, archive>>
  BY DEF Join
<1>2. /\ g # {} /\ g \subseteq staged /\ \A k \in Keys : manifests[k] \cap g = {}
  BY <1>1 DEF Safe, Plan, GroupsFree, Compacting
<1>3. CASE run' = [run EXCEPT !.failed = TRUE, !.todo = @ \ {g}] /\ UNCHANGED manifests
  <2>1. Shape' BY <1>1, <1>3 DEF Safe, Shape
  <2>2. run'.pc = "compact" /\ run'.todo \subseteq run.todo BY <1>1, <1>3 DEF Safe, Shape
  <2>3. Ledger' BY <1>1, <1>3, LedgerSame DEF Safe, storage
  <2>4. Plan' BY <1>1, <1>3, <2>2, NextGroupPlan DEF Safe, Compacting
  <2> QED BY <2>1, <2>3, <2>4 DEF Safe
<1>4. CASE /\ run' = [run EXCEPT !.pc = "upload", !.key = KeyOf(g), !.left = g,
                                 !.todo = @ \ {g}]
           /\ manifests' = [manifests EXCEPT ![KeyOf(g)] = g]
  <2> DEFINE k == KeyOf(g)
  <2>1. k \in Keys /\ k[1] \in g BY <1>2, KeyOfGroup DEF Protected
  <2>2. manifests[k] = {} BY <1>2, <2>1 DEF Safe, Ledger, ManifestsCover, Pending
  <2>3. ~Good(k) BY <1>2, <2>1, <2>2 DEF Safe, Ledger, ObjectsHold, Pending
  <2> HIDE DEF k
  <2>4. manifests'[k] = g /\ \A l \in Keys \ {k} : manifests'[l] = manifests[l]
    BY <1>4, <2>1 DEF Safe, Shape, k
  <2>5. Shape' BY <1>1, <1>4, <2>1 DEF Safe, Shape, k
  <2>6. Ledger'
    <3> g \cap unsent = {} BY <1>2 DEF Safe, Shape
    <3>1. NoDumpLost' /\ ArchivedOnce'
      BY <1>1 DEF Safe, Ledger, NoDumpLost, ArchivedOnce, Held
    <3>2. ObjectsHold' BY <1>1, <2>3, <2>4 DEF Safe, Ledger, ObjectsHold, Good, Pending
    <3>3. ManifestsCover'
      BY <1>1, <1>2, <2>1, <2>4 DEF Safe, Ledger, ManifestsCover, Good, Pending
    <3>4. ManifestsApart' BY <1>2, <2>4 DEF Safe, Ledger, ManifestsApart
    <3> QED BY <3>1, <3>2, <3>3, <3>4 DEF Ledger
  <2>7. /\ run'.pc = "upload" /\ run'.key = k /\ run'.left = g
        /\ run'.todo = run.todo \ {g}
    BY <1>4 DEF Safe, Shape, k
  <2>8. Plan'
    BY <1>1, <1>2, <2>1, <2>3, <2>4, <2>7 DEF Safe, Plan, Recovery, GroupsFree, GroupHeld,
         Recovering, Compacting, Writing, Good
  <2> QED BY <2>5, <2>6, <2>8 DEF Safe
<1> QED BY <1>3, <1>4 DEF Join

\* The group is in its manifest, all of it staged: no other intact object has any
\* of its dumps, and the one that is written may be whole, truncated or missing.
LEMMA UploadSafe == ASSUME Protected, Safe, Upload PROVE Safe'
<1> DEFINE k == run.key
<1>1. run.pc = "upload" /\ UNCHANGED <<unsent, staged, manifests>> BY DEF Upload
<1>2. /\ k \in Keys /\ manifests[k] = run.left /\ run.left # {}
      /\ run.left \subseteq staged /\ ~Good(k)
  BY <1>1 DEF Safe, Plan, GroupHeld, Writing
<1>3. CASE GiveUp /\ UNCHANGED archive
  <2>1. Shape' BY <1>1, <1>3 DEF Safe, Shape, GiveUp
  <2>2. run'.pc = "compact" /\ run'.todo = run.todo BY <1>3 DEF Safe, Shape, GiveUp
  <2>3. Ledger' BY <1>1, <1>3, LedgerSame DEF Safe, storage
  <2>4. Plan' BY <1>1, <2>2, NextGroupPlan DEF Safe, Compacting
  <2> QED BY <2>1, <2>3, <2>4 DEF Safe
<1>4. ASSUME NEW s \in {"good", "bad"}, run' = [run EXCEPT !.pc = "verify"],
             archive' = [archive EXCEPT ![k] = [state |-> s, dumps |-> run.left]]
      PROVE  Safe'
  <2>1. /\ archive'[k] = [state |-> s, dumps |-> run.left]
        /\ \A l \in Keys \ {k} : archive'[l] = archive[l]
    BY <1>2, <1>4 DEF Safe, Shape
  <2>2. Shape'
    <3>1. [state |-> s, dumps |-> run.left] \in
            [state : {"none", "good", "bad"}, dumps : SUBSET Dumps]
      BY <1>2 DEF Safe, Shape
    <3> QED BY <1>1, <1>4, <3>1 DEF Safe, Shape
  <2>3. /\ run'.pc = "verify" /\ run'.key = k /\ run'.left = run.left
        /\ run'.todo = run.todo
    BY <1>4 DEF Safe, Shape
  <2>4. \A l \in Keys \ {k} : Good(l) => archive[l].dumps \cap run.left = {}
    BY <1>2 DEF Safe, Ledger, ObjectsHold, ManifestsApart, Pending
  <2>5. Ledger'
    <3>1. NoDumpLost'
      BY <1>1, <1>2, <2>1 DEF Safe, Ledger, NoDumpLost, Held, Good
    <3>2. ArchivedOnce'
      <4> SUFFICES ASSUME NEW l \in Keys, NEW m \in Keys, Good(l)', Good(m)',
                          NEW d \in archive'[l].dumps, d \in archive'[m].dumps
                   PROVE  l = m
        BY DEF ArchivedOnce, Good
      <4>1. CASE l # k /\ m # k BY <2>1, <4>1 DEF Safe, Ledger, ArchivedOnce, Good
      <4>2. CASE l = k /\ m # k BY <2>1, <2>4, <4>2 DEF Good
      <4>3. CASE l # k /\ m = k BY <2>1, <2>4, <4>3 DEF Good
      <4> QED BY <4>1, <4>2, <4>3
    <3>3. ObjectsHold'
      <4>1. k[1] \in run.left /\ run.left \cap unsent = {}
        BY <1>2 DEF Safe, Ledger, ManifestsCover, Pending
      <4> QED BY <1>1, <1>2, <2>1, <4>1 DEF Safe, Ledger, ObjectsHold, Good, Pending
    <3>4. ManifestsCover'
      BY <1>1, <1>2, <2>1 DEF Safe, Ledger, ManifestsCover, Good, Pending
    <3>5. ManifestsApart' BY <1>1 DEF Safe, Ledger, ManifestsApart
    <3> QED BY <3>1, <3>2, <3>3, <3>4, <3>5 DEF Ledger
  <2>6. Plan'
    BY <1>1, <1>2, <2>1, <2>3 DEF Safe, Plan, Recovery, GroupsFree, GroupHeld, Recovering,
                                  Compacting, Writing
  <2> QED BY <2>2, <2>5, <2>6 DEF Safe
<1> QED BY <1>3, <1>4 DEF Upload

LEMMA VerifySafe == ASSUME Safe, Verify PROVE Safe'
<1> DEFINE k == run.key
<1>1. run.pc = "verify" /\ UNCHANGED <<unsent, storage>> BY DEF Verify
<1>2. Ledger' BY <1>1, LedgerSame DEF Safe
<1>3. Shape' BY <1>1 DEF Safe, Shape, storage, Verify
<1>4. run'.key = k /\ run'.left = run.left /\ run'.todo = run.todo
  BY DEF Safe, Shape, Verify
<1>5. \/ run'.pc = "delete" /\ Good(k)
      \/ run'.pc = "reject"
  BY DEF Safe, Shape, Verify, Good
<1>6. CASE run'.pc = "delete" /\ Good(k)
  <2>1. Plan'
    BY <1>1, <1>4, <1>6 DEF Safe, Plan, Recovery, GroupsFree, GroupHeld, Recovering,
         Compacting, Writing, Good, Pending, storage
  <2> QED BY <1>2, <1>3, <2>1 DEF Safe
<1>7. CASE run'.pc = "reject"
  <2>1. Plan'
    BY <1>1, <1>4, <1>7 DEF Safe, Plan, Recovery, GroupsFree, GroupHeld, Recovering,
         Compacting, Writing, storage
  <2> QED BY <1>2, <1>3, <2>1 DEF Safe
<1> QED BY <1>5, <1>6, <1>7

\* The verified group is deleted, dump by dump.
LEMMA DeleteSafe == ASSUME Safe, NEW d \in Dumps, Delete(d) PROVE Safe'
<1> DEFINE k == run.key
<1>1. run.pc = "delete" /\ d \in run.left /\ UNCHANGED <<unsent, archive, manifests>>
  BY DEF Delete
<1>2. k \in Keys /\ Good(k) /\ d \in manifests[k] BY <1>1 DEF Safe, Plan, GroupHeld
<1>3. CASE GiveUp /\ UNCHANGED staged
  <2>1. Shape' BY <1>1, <1>3 DEF Safe, Shape, GiveUp
  <2>2. run'.pc = "compact" /\ run'.todo = run.todo BY <1>3 DEF Safe, Shape, GiveUp
  <2>3. Ledger' BY <1>1, <1>3, LedgerSame DEF Safe, storage
  <2>4. Plan' BY <1>1, <1>3, <2>2, NextGroupPlan DEF Safe, Compacting
  <2> QED BY <2>1, <2>3, <2>4 DEF Safe
<1>4. CASE staged' = staged \ {d} /\ run' = [run EXCEPT !.left = @ \ {d}]
  <2>1. Shape' BY <1>1, <1>4 DEF Safe, Shape
  <2>2. /\ run'.pc = "delete" /\ run'.key = k /\ run'.left = run.left \ {d}
        /\ run'.todo = run.todo
    BY <1>1, <1>4 DEF Safe, Shape
  <2>3. Ledger' BY <1>1, <1>2, <1>4, DeletionKeepsLedger DEF Safe
  <2>4. \A g \in run.todo : d \notin g BY <1>1, <1>2 DEF Safe, Plan, GroupsFree, Compacting
  <2>5. Plan'
    BY <1>1, <1>4, <2>2, <2>4 DEF Safe, Plan, Recovery, GroupsFree, GroupHeld, Recovering,
                                  Compacting, Writing, Good, Pending
  <2> QED BY <2>1, <2>3, <2>5 DEF Safe
<1> QED BY <1>3, <1>4 DEF Delete

LEMMA DeletedSafe == ASSUME Safe, Deleted PROVE Safe'
<1> DEFINE k == run.key
<1>1. run.pc = "delete" /\ run.left = {} /\ UNCHANGED <<unsent, staged, archive>>
  BY DEF Deleted
<1>2. k \in Keys /\ manifests[k] \cap staged = {} BY <1>1 DEF Safe, Plan, GroupHeld
<1>3. run'.pc = "compact" /\ run'.todo = run.todo BY DEF Safe, Shape, Deleted, GiveUp
<1>4. CASE GiveUp /\ UNCHANGED manifests
  <2>1. Shape' BY <1>1, <1>4 DEF Safe, Shape, GiveUp
  <2>2. Ledger' BY <1>1, <1>4, LedgerSame DEF Safe, storage
  <2>3. Plan' BY <1>1, <1>3, <1>4, NextGroupPlan DEF Safe, Compacting
  <2> QED BY <2>1, <2>2, <2>3 DEF Safe
<1>5. CASE /\ manifests' = [manifests EXCEPT ![k] = {}]
           /\ run' = [run EXCEPT !.pc = "compact", !.key = NoKey]
  <2>1. Shape' BY <1>1, <1>5 DEF Safe, Shape
  <2>2. Ledger' BY <1>1, <1>2, <1>5, DropManifestKeepsLedger DEF Safe
  <2>3. \A l \in Keys : manifests'[l] \subseteq manifests[l] BY <1>2, <1>5 DEF Safe, Shape
  <2>4. Plan'
    BY <1>1, <1>3, <2>3 DEF Safe, Plan, Recovery, GroupsFree, GroupHeld, Recovering,
                            Compacting, Writing
  <2> QED BY <2>1, <2>2, <2>4 DEF Safe
<1> QED BY <1>4, <1>5 DEF Deleted

LEMMA CompactedSafe == ASSUME Safe, Compacted PROVE Safe'
<1>1. UNCHANGED <<unsent, storage>> /\ run.pc = "compact" BY DEF Compacted
<1>2. Ledger' BY <1>1, LedgerSame DEF Safe
<1>3. Shape' /\ run'.pc \in {"off", "ingest"}
  <2>1. CASE run' = Off BY <1>1, <2>1 DEF Safe, Shape, storage, Off
  <2>2. CASE run' = [run EXCEPT !.pc = "ingest", !.todo = Targets]
    BY <1>1, <2>2 DEF Safe, Shape, storage
  <2> QED BY <2>1, <2>2 DEF Compacted
<1>4. Plan' BY <1>3 DEF Plan, Recovery, GroupsFree, GroupHeld, Recovering, Compacting, Writing
<1> QED BY <1>2, <1>3, <1>4 DEF Safe

-----------------------------------------------------------------------------
(* The receiver.                                                           *)

\* A new dump is in no object, in no manifest and in no group.
LEMMA ArriveSafe == ASSUME Safe, NEW d \in Dumps, Arrive(d) PROVE Safe'
<1>1. /\ d \in unsent /\ unsent' = unsent \ {d} /\ staged' = staged \cup {d}
      /\ UNCHANGED <<archive, manifests, run>>
  BY DEF Arrive
<1>2. Shape' BY <1>1 DEF Safe, Shape
<1>3. \A k \in Keys : /\ d \notin manifests[k]
                      /\ Good(k) => d \notin archive[k].dumps
  BY <1>1 DEF Safe, Ledger, ObjectsHold, ManifestsCover, Pending
<1>4. Ledger'
  <2>1. NoDumpLost' BY <1>1 DEF Safe, Ledger, NoDumpLost, Held
  <2>2. ArchivedOnce' /\ ManifestsApart'
    BY <1>1 DEF Safe, Ledger, ArchivedOnce, ManifestsApart
  <2>3. ObjectsHold' BY <1>1, <1>3 DEF Safe, Ledger, ObjectsHold, Good, Pending
  <2>4. ManifestsCover' BY <1>1 DEF Safe, Ledger, ManifestsCover, Good, Pending
  <2> QED BY <2>1, <2>2, <2>3, <2>4 DEF Ledger
<1>5. Plan'
  BY <1>1, <1>3 DEF Safe, Plan, Recovery, GroupsFree, GroupHeld, Recovering, Compacting,
                    Writing, Good, Pending
<1> QED BY <1>2, <1>4, <1>5 DEF Safe

-----------------------------------------------------------------------------
(* The theorems.                                                           *)

LEMMA InitSafe == Init => Safe
<1> SUFFICES ASSUME Init PROVE Safe OBVIOUS
<1>1. Shape BY DEF Shape, Init, Absent, Off
<1>2. \A k \in Keys : ~Good(k) /\ ~Pending(k) BY DEF Init, Absent, Good, Pending
<1>3. Ledger
  BY <1>2 DEF Init, Ledger, NoDumpLost, ArchivedOnce, ObjectsHold, ManifestsCover,
              ManifestsApart, Good, Pending
<1>4. run.pc = "off" BY DEF Init, Off
<1>5. Plan BY <1>4 DEF Plan, Recovery, GroupsFree, GroupHeld, Recovering, Compacting, Writing
<1> QED BY <1>1, <1>3, <1>5 DEF Safe

LEMMA NextSafe == ASSUME Protected PROVE Safe /\ [Next]_vars => Safe'
<1> SUFFICES ASSUME Safe, [Next]_vars PROVE Safe' OBVIOUS
<1>1. CASE UNCHANGED vars
  <2>1. UNCHANGED <<unsent, storage, run>> BY <1>1 DEF vars
  <2>2. Ledger' BY <2>1, LedgerSame DEF Safe
  <2>3. Shape' BY <2>1 DEF Safe, Shape, storage
  <2>4. Plan'
    BY <2>1 DEF Safe, Plan, Recovery, GroupsFree, GroupHeld, Good, Pending, storage
  <2> QED BY <2>2, <2>3, <2>4 DEF Safe
<1>2. CASE Tick \/ Start \/ Crash BY <1>2, TickSafe, StartSafe, CrashSafe
<1>3. ASSUME NEW d \in Dumps, Arrive(d) PROVE Safe' BY <1>3, ArriveSafe
<1>4. CASE Step
  <2>1. ASSUME NEW k \in Keys, Recover(k) PROVE Safe' BY <2>1, RecoverSafe
  <2>2. ASSUME NEW d \in Dumps, Clean(d) \/ Delete(d) PROVE Safe'
    BY <2>2, CleanSafe, DeleteSafe
  <2>3. CASE Cleaned \/ DiscardObject \/ DiscardManifest
    BY <2>3, CleanedSafe, DiscardObjectSafe, DiscardManifestSafe
  <2>4. CASE List \/ Upload \/ Verify \/ Deleted \/ Compacted
    BY <2>4, ListSafe, UploadSafe, VerifySafe, DeletedSafe, CompactedSafe
  <2>5. ASSUME NEW g \in SUBSET Dumps, Join(g) PROVE Safe' BY <2>5, JoinSafe
  <2>6. ASSUME NEW t \in Targets, Ingest(t) PROVE Safe' BY <2>6, IngestSafe
  <2> QED BY <1>4, <2>1, <2>2, <2>3, <2>4, <2>5, <2>6 DEF Step
<1> QED BY <1>1, <1>2, <1>3, <1>4 DEF Next

\* The state of the job, the stores and the manifests agree at every step.
THEOREM CompactionSafe == ASSUME Protected PROVE Spec => []Safe
BY InitSafe, NextSafe, PTL DEF Spec

\* _compact_device and recover(): a dump that arrived is staged or inside an intact
\* object, whatever the moment a run dies and whichever of the uploads, checks and
\* deletions of the dumps fail.
THEOREM DumpsKept == ASSUME Protected PROVE Spec => []NoDumpLost
<1>1. Safe => NoDumpLost BY DEF Safe, Ledger
<1> QED BY <1>1, CompactionSafe, PTL

\* No dump is inside two intact objects, under the same faults.
THEOREM DumpsArchivedOnce == ASSUME Protected PROVE Spec => []ArchivedOnce
<1>1. Safe => ArchivedOnce BY DEF Safe, Ledger
<1> QED BY <1>1, CompactionSafe, PTL

-----------------------------------------------------------------------------
(* What the zones are counted from.                                        *)

\* extract.py looks for the frames of an hour one margin before it and takes a
\* last dump to reach another margin: both together cover what spills.
MarginCovers == Spill <= 2 * Margin

\* The name of an object covers its dumps, all of one sensor.
Covers(k, S) == \A d \in S : DeviceOf[d] = DeviceOf[k[1]] /\ k[1] <= d /\ d <= k[2]

Named ==
  /\ \A k \in Keys : Good(k) => Covers(k, archive[k].dumps)
  /\ run.pc \in Compacting =>
       \A g \in run.todo : \A d, e \in g : DeviceOf[d] = DeviceOf[e]
  /\ run.pc = "upload" => Covers(run.key, run.left)

\* Unless a group failed, a dump that had arrived when the staging area was listed is
\* in an intact object or in a group still to archive.
Accounted(d) ==
  \/ Held(d)
  \/ run.pc \in Compacting /\ \E g \in run.todo : d \in g
  \/ run.pc \in Writing /\ d \in run.left

Listed ==
  /\ run.pc \in Compacting \cup {"ingest"} /\ ~run.failed => \A d \in run.seen : Accounted(d)
  /\ run.pc = "ingest" => ~run.failed

Samples == {"zone", "sensor"} \X Targets \X Hours
Windows ==
  /\ hour \in Hours /\ run.window \in Hours
  /\ published \in [Samples -> SUBSET Int]

Readable == Named /\ Listed /\ Windows

\* A sample is published only if there is none of that instant.
LEMMA InsertKeeps ==
  ASSUME NEW samples \in [Samples -> SUBSET Int], NEW s \in Samples,
         NEW dumps \in SUBSET Int
  PROVE  /\ Insert(samples, s, dumps) \in [Samples -> SUBSET Int]
         /\ \A x \in Samples \ {s} : Insert(samples, s, dumps)[x] = samples[x]
         /\ Insert(samples, s, dumps)[s] \in {samples[s], dumps}
BY DEF Insert

LEMMA CountedType ==
  ASSUME OteIngestionAssumption, Shape, NEW t \in Targets, NEW h \in Hours
  PROVE  Counted(t, h) \in SUBSET Int
BY DEF Counted, KeysToRead, Shape, OteIngestionAssumption

\* A run publishes the zones of one target and of its own window.
LEMMA IngestPublishes ==
  ASSUME OteIngestionAssumption, Shape, Windows, NEW t \in Targets, Ingest(t)
  PROVE  /\ published' \in [Samples -> SUBSET Int]
         /\ \A u \in Targets, h \in Hours :
              \/ published'["zone", u, h] = published["zone", u, h]
              \/ /\ u = t /\ h = run.window
                 /\ published'["zone", u, h] = Counted(t, h)
<1> DEFINE h == run.window
           z == <<"zone", t, h>>
           s == <<"sensor", t, h>>
           new == Counted(t, h)
           sensors == Insert(published, s, new)
           both == Insert(sensors, z, new)
<1>1. h \in Hours /\ published \in [Samples -> SUBSET Int] BY DEF Windows
<1>2. z \in Samples /\ s \in Samples /\ z # s BY <1>1 DEF Samples
<1>3. new \in SUBSET Int BY <1>1, CountedType
<1>4. published' \in {published, sensors, both}
  BY DEF Ingest
<1> HIDE DEF z, s, new
<1>5. /\ sensors \in [Samples -> SUBSET Int]
      /\ \A x \in Samples \ {s} : sensors[x] = published[x]
  BY <1>1, <1>2, <1>3, InsertKeeps
<1> HIDE DEF sensors
<1>6. /\ both \in [Samples -> SUBSET Int]
      /\ \A x \in Samples \ {z} : both[x] = sensors[x]
      /\ both[z] \in {sensors[z], new}
  BY <1>2, <1>3, <1>5, InsertKeeps
<1> HIDE DEF both
<1>7. ASSUME NEW u \in Targets, NEW i \in Hours
      PROVE  \/ published'[<<"zone", u, i>>] = published[<<"zone", u, i>>]
             \/ /\ <<"zone", u, i>> = z /\ published'[z] = new
  <2>1. <<"zone", u, i>> \in Samples /\ <<"zone", u, i>> # s BY DEF Samples, s
  <2>2. sensors[<<"zone", u, i>>] = published[<<"zone", u, i>>] BY <1>5, <2>1
  <2> QED BY <1>4, <1>6, <2>1, <2>2
<1>8. \A u \in Targets, i \in Hours : <<"zone", u, i>> = z => u = t /\ i = h BY DEF z
<1>9. \A u \in Targets, i \in Hours :
        \/ published'["zone", u, i] = published["zone", u, i]
        \/ u = t /\ i = h /\ published'["zone", u, i] = new
  BY <1>7, <1>8
<1> QED BY <1>1, <1>4, <1>5, <1>6, <1>9 DEF new

\* An object named after the first and the last dump of a group covers it.
LEMMA KeyCovers ==
  ASSUME OteIngestionAssumption, NEW g \in SUBSET Dumps, g # {},
         \A d, e \in g : DeviceOf[d] = DeviceOf[e]
  PROVE  Covers(KeyOf(g), g)
<1>1. g \in SUBSET Nat /\ IsFiniteSet(g) BY FS_Subset DEF OteIngestionAssumption
<1>2. HasEnds(g) BY <1>1, FiniteHasEnds
<1>3. First(g) \in g /\ \A d \in g : First(g) <= d BY <1>2 DEF HasEnds, First
<1>4. \A d \in g : d <= Last(g) BY <1>2 DEF HasEnds, Last
<1> QED BY <1>3, <1>4 DEF Covers, KeyOf

LEMMA WindowsKept ==
  ASSUME OteIngestionAssumption, Shape, Windows, Next PROVE Windows'
<1>1. CASE UNCHANGED published /\ hour' = hour
           /\ (run'.window = run.window \/ run' = Off)
  BY <1>1 DEF Windows, Off, Hours, Samples, OteIngestionAssumption
<1>2. CASE Tick
  <2>1. hour' \in Hours BY <1>2 DEF Tick, Windows, Hours, OteIngestionAssumption
  <2> QED BY <1>2, <2>1 DEF Tick, Windows, Samples, Hours
<1>3. CASE Start
  <2>1. run'.window = hour - 1 BY <1>3 DEF Start, Off
  <2>2. run'.window \in Hours
    BY <1>3, <2>1 DEF Start, Windows, Hours, OteIngestionAssumption
  <2> QED BY <1>3, <2>2 DEF Start, Windows, Samples, Hours
<1>4. ASSUME NEW t \in Targets, Ingest(t) PROVE Windows'
  <2>1. hour' = hour /\ (run'.window = run.window \/ run' = Off)
    BY <1>4 DEF Ingest, Shape
  <2>2. run'.window \in Hours BY <2>1 DEF Windows, Off, Hours, OteIngestionAssumption
  <2>3. published' \in [Samples -> SUBSET Int] BY <1>4, IngestPublishes
  <2> QED BY <2>1, <2>2, <2>3 DEF Windows, Hours, Samples
<1>5. CASE Crash BY <1>1, <1>5 DEF Crash
<1>6. ASSUME NEW d \in Dumps, Arrive(d) PROVE Windows' BY <1>1, <1>6 DEF Arrive
<1>7. ASSUME NEW k \in Keys, Recover(k) PROVE Windows' BY <1>1, <1>7 DEF Recover, Shape
<1>8. ASSUME NEW d \in Dumps, Clean(d) \/ Delete(d) PROVE Windows'
  BY <1>1, <1>8 DEF Clean, Delete, GiveUp, Shape
<1>9. CASE Cleaned \/ DiscardObject \/ DiscardManifest
  BY <1>1, <1>9 DEF Cleaned, DiscardObject, DiscardManifest, Shape
<1>10. CASE List \/ Upload \/ Verify \/ Deleted
  BY <1>1, <1>10 DEF List, Upload, Verify, Deleted, GiveUp, Shape
<1>11. CASE Compacted BY <1>1, <1>11 DEF Compacted, Shape
<1>12. ASSUME NEW g \in SUBSET Dumps, Join(g) PROVE Windows'
  BY <1>1, <1>12 DEF Join, Shape
<1> QED BY <1>2, <1>3, <1>4, <1>5, <1>6, <1>7, <1>8, <1>9, <1>10, <1>11, <1>12 DEF Next, Step

-----------------------------------------------------------------------------
(* The steps keep what the zones are counted from.                         *)

\* Outside compaction and ingestion only the objects' names matter.
LEMMA IdleReadable ==
  ASSUME Readable, Windows', run'.pc \notin Compacting \cup {"ingest"},
         \A k \in Keys : Good(k)' => Good(k) /\ archive'[k] = archive[k]
  PROVE  Readable'
<1>1. Named' BY DEF Readable, Named, Covers, Compacting
<1>2. Listed' BY DEF Listed
<1> QED BY <1>1, <1>2 DEF Readable

\* A step inside compaction that writes no object: the group in hand fails, or its
\* dumps stay accounted for.
LEMMA GroupReadable ==
  ASSUME Readable, Windows', run.pc \in Compacting, run'.pc \in Compacting \ {"upload"},
         UNCHANGED archive, run'.todo \subseteq run.todo, run'.seen = run.seen,
         run'.failed \/ /\ run'.todo = run.todo /\ run'.failed = run.failed
                        /\ \/ run.pc \notin Writing
                           \/ run'.pc \in Writing /\ run'.left = run.left
                           \/ \A d \in run.left : Held(d)
  PROVE  Readable'
<1>1. Named' BY DEF Readable, Named, Covers, Good
<1>2. \A d : Held(d)' <=> Held(d) BY DEF Held
<1>3. Listed'
  <2>1. SUFFICES ASSUME ~run'.failed, NEW d \in run.seen PROVE Accounted(d)'
    BY DEF Listed, Compacting
  <2>2. Accounted(d) BY <2>1 DEF Readable, Listed
  <2> QED BY <1>2, <2>1, <2>2 DEF Accounted
<1> QED BY <1>1, <1>3 DEF Readable

\* The listing puts every staged dump into a group; the others are archived.
LEMMA ListReadable ==
  ASSUME Safe, Readable, Windows', List PROVE Readable'
<1>1. /\ UNCHANGED <<unsent, storage>>
      /\ run'.pc = "compact" /\ run'.todo = Groups(staged) /\ run'.seen = Dumps \ unsent
  BY DEF List, Safe, Shape
<1>2. Named'
  <2>1. \A g \in Groups(staged) : \A d, e \in g : DeviceOf[d] = DeviceOf[e] BY DEF Groups
  <2> QED BY <1>1, <2>1 DEF Readable, Named, Covers, Good, storage
<1>3. Listed'
  <2>1. SUFFICES ASSUME NEW d \in Dumps \ unsent PROVE Accounted(d)' BY <1>1 DEF Listed
  <2>2. d \in staged \/ Held(d) BY DEF Safe, Ledger, NoDumpLost
  <2>3. CASE Held(d) BY <1>1, <2>3 DEF Accounted, Held, storage
  <2>4. CASE d \in staged
    <3> DEFINE G(x) == {e \in staged : DeviceOf[e] = DeviceOf[x] /\ HourOf(e) = HourOf(x)}
    <3>1. G(d) \in Groups(staged) /\ d \in G(d) BY <2>4 DEF Groups
    <3> QED BY <1>1, <3>1 DEF Accounted, Compacting
  <2> QED BY <2>2, <2>3, <2>4
<1> QED BY <1>2, <1>3 DEF Readable

LEMMA JoinReadable ==
  ASSUME Protected, Safe, Readable, Windows', NEW g \in SUBSET Dumps, Join(g)
  PROVE  Readable'
<1>1. run.pc = "compact" /\ g \in run.todo /\ UNCHANGED archive BY DEF Join
<1>2. CASE run' = [run EXCEPT !.failed = TRUE, !.todo = @ \ {g}]
  <2>1. /\ run'.pc = "compact" /\ run'.failed /\ run'.todo \subseteq run.todo
        /\ run'.seen = run.seen
    BY <1>1, <1>2 DEF Safe, Shape
  <2> QED BY <1>1, <2>1, GroupReadable DEF Compacting
<1>3. CASE run' = [run EXCEPT !.pc = "upload", !.key = KeyOf(g), !.left = g, !.todo = @ \ {g}]
  <2>1. /\ run'.pc = "upload" /\ run'.key = KeyOf(g) /\ run'.left = g
        /\ run'.todo = run.todo \ {g} /\ run'.seen = run.seen /\ run'.failed = run.failed
    BY <1>3 DEF Safe, Shape
  <2>2. Covers(KeyOf(g), g)
    <3>1. g # {} BY <1>1 DEF Safe, Plan, GroupsFree, Compacting
    <3>2. \A d, e \in g : DeviceOf[d] = DeviceOf[e]
      BY <1>1 DEF Readable, Named, Compacting
    <3> QED BY <3>1, <3>2, KeyCovers DEF Protected
  <2>3. Named'
    <3>1. \A k \in Keys : Good(k)' => Covers(k, archive'[k].dumps)
      BY <1>1 DEF Readable, Named, Good
    <3>2. \A h \in run'.todo : \A d, e \in h : DeviceOf[d] = DeviceOf[e]
      BY <1>1, <2>1 DEF Readable, Named, Compacting
    <3>3. Covers(run'.key, run'.left) BY <2>1, <2>2
    <3> QED BY <3>1, <3>2, <3>3 DEF Named, Covers
  <2>4. Listed'
    <3>1. SUFFICES ASSUME ~run.failed, NEW d \in run.seen PROVE Accounted(d)'
      BY <2>1 DEF Listed
    <3>2. Held(d) \/ \E h \in run.todo : d \in h
      BY <1>1, <3>1 DEF Readable, Listed, Accounted, Compacting, Writing
    <3>3. CASE Held(d) BY <1>1, <3>3 DEF Held, Accounted
    <3>4. ASSUME NEW h \in run.todo, d \in h PROVE Accounted(d)'
      BY <2>1, <3>4 DEF Accounted, Compacting, Writing
    <3> QED BY <3>2, <3>3, <3>4
  <2> QED BY <2>3, <2>4 DEF Readable
<1> QED BY <1>2, <1>3 DEF Join

\* The object that is written takes the name of its group, and replaces none that
\* was intact.
LEMMA UploadReadable ==
  ASSUME Safe, Readable, Windows', Upload PROVE Readable'
<1> DEFINE k == run.key
<1>1. run.pc = "upload" BY DEF Upload
<1>2. k \in Keys /\ ~Good(k) BY <1>1 DEF Safe, Plan, GroupHeld, Writing
<1>3. CASE GiveUp /\ UNCHANGED archive
  <2>1. /\ run'.pc = "compact" /\ run'.todo = run.todo /\ run'.failed
        /\ run'.seen = run.seen
    BY <1>3 DEF Safe, Shape, GiveUp
  <2> QED BY <1>1, <1>3, <2>1, GroupReadable DEF Compacting
<1>4. ASSUME NEW x \in {"good", "bad"}, run' = [run EXCEPT !.pc = "verify"],
             archive' = [archive EXCEPT ![k] = [state |-> x, dumps |-> run.left]]
      PROVE  Readable'
  <2>1. /\ archive'[k] = [state |-> x, dumps |-> run.left]
        /\ \A l \in Keys \ {k} : archive'[l] = archive[l]
    BY <1>2, <1>4 DEF Safe, Shape
  <2>2. /\ run'.pc = "verify" /\ run'.left = run.left /\ run'.todo = run.todo
        /\ run'.seen = run.seen /\ run'.failed = run.failed
    BY <1>4 DEF Safe, Shape
  <2>3. Named'
    <3>1. Covers(k, run.left) BY <1>1 DEF Readable, Named
    <3>2. ASSUME NEW l \in Keys, Good(l)' PROVE Covers(l, archive'[l].dumps)
      <4>1. CASE l = k BY <2>1, <3>1, <4>1
      <4>2. CASE l # k BY <2>1, <3>2, <4>2 DEF Readable, Named, Good
      <4> QED BY <4>1, <4>2
    <3>3. \A g \in run'.todo : \A d, e \in g : DeviceOf[d] = DeviceOf[e]
      BY <1>1, <2>2 DEF Readable, Named, Compacting
    <3> QED BY <2>2, <3>2, <3>3 DEF Named, Covers
  <2>4. \A d : Held(d) => Held(d)' BY <1>2, <2>1 DEF Held, Good
  <2>5. Listed'
    <3>1. SUFFICES ASSUME ~run.failed, NEW d \in run.seen PROVE Accounted(d)'
      BY <2>2 DEF Listed
    <3>2. Accounted(d) BY <1>1, <3>1 DEF Readable, Listed, Compacting
    <3> QED BY <2>2, <2>4, <3>2 DEF Accounted, Compacting, Writing
  <2> QED BY <2>3, <2>5 DEF Readable
<1> QED BY <1>3, <1>4 DEF Upload

LEMMA VerifyReadable ==
  ASSUME Safe, Readable, Windows', Verify PROVE Readable'
<1>1. run.pc = "verify" /\ UNCHANGED archive BY DEF Verify, storage
<1>2. /\ run'.left = run.left /\ run'.todo = run.todo /\ run'.seen = run.seen
      /\ run'.failed = run.failed
      /\ \/ run'.pc = "reject"
         \/ run'.pc = "delete" /\ Good(run.key)
  BY DEF Safe, Shape, Verify, Good
<1>3. run.key \in Keys /\ archive[run.key].dumps = run.left
  BY <1>1 DEF Safe, Plan, GroupHeld, Writing
<1>4. run'.pc = "reject" \/ \A d \in run.left : Held(d) BY <1>2, <1>3 DEF Held, Good
<1> QED BY <1>1, <1>2, <1>4, GroupReadable DEF Compacting, Writing

\* A rejected object holds the group in hand, which is accounted for without it.
LEMMA DiscardObjectReadable ==
  ASSUME Protected, Safe, Readable, Windows', DiscardObject PROVE Readable'
<1> DEFINE k == run.key
<1>1. run.pc \in {"drop", "reject"} /\ archive' = [archive EXCEPT ![k] = Absent]
  BY DEF DiscardObject, Fail, May, Protected
<1>2. k \in Keys BY <1>1 DEF Safe, Plan, Recovery, GroupHeld, Writing
<1>3. archive'[k].state # "good" /\ \A l \in Keys \ {k} : archive'[l] = archive[l]
  BY <1>1, <1>2 DEF Safe, Shape, Absent, Good
<1>4. \A l \in Keys : Good(l)' => Good(l) /\ archive'[l] = archive[l] BY <1>3 DEF Good
<1>5. CASE run.pc = "drop"
  <2>1. run'.pc = "dropped" BY <1>5 DEF DiscardObject, Safe, Shape
  <2> QED BY <1>4, <2>1, IdleReadable DEF Compacting
<1>6. CASE run.pc = "reject"
  <2>1. /\ run'.pc = "rejected" /\ run'.left = run.left /\ run'.todo = run.todo
        /\ run'.seen = run.seen /\ run'.failed = run.failed
    BY <1>6 DEF DiscardObject, Safe, Shape
  <2>2. Named' BY <1>4, <1>6, <2>1 DEF Readable, Named, Covers, Compacting
  <2>3. manifests[k] = run.left /\ run.left # {}
    BY <1>6 DEF Safe, Plan, GroupHeld, Writing
  <2>4. Good(k) => archive[k].dumps = run.left
    BY <1>2, <2>3 DEF Safe, Ledger, ObjectsHold, Pending
  <2>5. ASSUME NEW d, Held(d) PROVE Held(d)' \/ d \in run.left
    BY <1>3, <2>4, <2>5 DEF Held, Good
  <2>6. Listed'
    <3>1. SUFFICES ASSUME ~run.failed, NEW d \in run.seen PROVE Accounted(d)'
      BY <2>1 DEF Listed
    <3>2. Accounted(d) BY <1>6, <3>1 DEF Readable, Listed, Compacting
    <3> QED BY <2>1, <2>5, <3>2 DEF Accounted, Compacting, Writing
  <2> QED BY <2>2, <2>6 DEF Readable
<1> QED BY <1>1, <1>5, <1>6

LEMMA DiscardManifestReadable ==
  ASSUME Safe, Readable, Windows', DiscardManifest PROVE Readable'
<1>1. run.pc \in {"dropped", "rejected"} /\ UNCHANGED archive BY DEF DiscardManifest
<1>2. CASE run.pc = "dropped"
  <2>1. run'.pc = "recover" BY <1>2 DEF DiscardManifest, Safe, Shape
  <2> QED BY <1>1, <2>1, IdleReadable DEF Compacting, Good
<1>3. CASE run.pc = "rejected"
  <2>1. /\ run'.pc = "compact" /\ run'.failed /\ run'.todo = run.todo
        /\ run'.seen = run.seen
    BY <1>3 DEF DiscardManifest, Safe, Shape
  <2> QED BY <1>1, <1>3, <2>1, GroupReadable DEF Compacting
<1> QED BY <1>1, <1>2, <1>3

LEMMA DeleteReadable ==
  ASSUME Safe, Readable, Windows', Deleted \/ \E d \in Dumps : Delete(d) PROVE Readable'
<1>1. run.pc = "delete" /\ UNCHANGED archive BY DEF Delete, Deleted
<1>2. /\ run'.pc \in {"delete", "compact"} /\ run'.todo = run.todo /\ run'.seen = run.seen
      /\ run'.failed \/ run'.failed = run.failed
  BY DEF Delete, Deleted, GiveUp, Safe, Shape
<1> QED BY <1>1, <1>2, GroupReadable DEF Compacting, Writing

\* When no group failed, all of them are archived.
LEMMA CompactedReadable ==
  ASSUME Safe, Readable, Windows', Compacted PROVE Readable'
<1>1. run.pc = "compact" /\ run.todo = {} /\ UNCHANGED archive BY DEF Compacted, storage
<1>2. CASE run.failed
  <2>1. run'.pc = "off" BY <1>2 DEF Compacted, Off
  <2> QED BY <1>1, <2>1, IdleReadable DEF Compacting, Good
<1>3. CASE ~run.failed
  <2>1. run'.pc = "ingest" /\ run'.seen = run.seen /\ run'.failed = run.failed
    BY <1>3 DEF Compacted, Safe, Shape
  <2>2. \A d \in run.seen : Held(d)
    BY <1>1, <1>3 DEF Readable, Listed, Accounted, Compacting, Writing
  <2>3. Listed' BY <1>1, <1>3, <2>1, <2>2 DEF Listed, Accounted, Held
  <2>4. Named' BY <1>1, <2>1 DEF Readable, Named, Covers, Compacting, Good
  <2> QED BY <2>3, <2>4 DEF Readable
<1> QED BY <1>2, <1>3

LEMMA IngestReadable ==
  ASSUME Safe, Readable, Windows', NEW t \in Targets, Ingest(t) PROVE Readable'
<1>1. run.pc = "ingest" /\ UNCHANGED archive BY DEF Ingest, storage
<1>2. CASE run' = Off
  <2>1. run'.pc = "off" BY <1>2 DEF Off
  <2> QED BY <1>1, <2>1, IdleReadable DEF Compacting, Good
<1>3. CASE run' = [run EXCEPT !.todo = @ \ {t}]
  <2>1. run'.pc = "ingest" /\ run'.seen = run.seen /\ run'.failed = run.failed
    BY <1>1, <1>3 DEF Safe, Shape
  <2>2. Listed'
    BY <1>1, <2>1 DEF Readable, Listed, Accounted, Held, Compacting, Writing
  <2>3. Named' BY <1>1, <2>1 DEF Readable, Named, Covers, Compacting, Good
  <2> QED BY <2>2, <2>3 DEF Readable
<1> QED BY <1>2, <1>3 DEF Ingest

LEMMA NextReadable ==
  ASSUME Protected PROVE Safe /\ Readable /\ [Next]_vars => Readable'
<1> SUFFICES ASSUME Safe, Readable, [Next]_vars PROVE Readable' OBVIOUS
<1>1. CASE UNCHANGED <<archive, run>> /\ Windows'
  BY <1>1 DEF Readable, Named, Covers, Listed, Accounted, Held, Good
<1>2. CASE UNCHANGED vars
  <2>1. Windows' BY <1>2 DEF vars, Readable, Windows, Hours, Samples
  <2> QED BY <1>1, <1>2, <2>1 DEF vars, storage
<1>3. CASE Next
  <2> Windows' BY <1>3, WindowsKept DEF Protected, Safe, Readable
  <2>1. CASE Tick BY <1>1, <2>1 DEF Tick, storage
  <2>2. CASE Start
    <3>1. run'.pc = "recover" /\ UNCHANGED archive BY <2>2 DEF Start, Off, storage
    <3> QED BY <3>1, IdleReadable DEF Compacting, Good
  <2>3. CASE Crash
    <3>1. run'.pc = "off" /\ UNCHANGED archive BY <2>3 DEF Crash, Off, storage
    <3> QED BY <3>1, IdleReadable DEF Compacting, Good
  <2>4. ASSUME NEW d \in Dumps, Arrive(d) PROVE Readable' BY <1>1, <2>4 DEF Arrive
  <2>5. ASSUME NEW k \in Keys, Recover(k) PROVE Readable'
    <3>1. run'.pc \in {"clean", "drop", "recover"} /\ UNCHANGED archive
      BY <2>5 DEF Recover, storage, Safe, Shape
    <3> QED BY <3>1, IdleReadable DEF Compacting, Good
  <2>6. CASE Cleaned \/ \E d \in Dumps : Clean(d)
    <3>1. run'.pc \in {"clean", "recover"} /\ UNCHANGED archive
      BY <2>6 DEF Clean, Cleaned, Safe, Shape
    <3> QED BY <3>1, IdleReadable DEF Compacting, Good
  <2>7. CASE DiscardObject \/ DiscardManifest
    BY <2>7, DiscardObjectReadable, DiscardManifestReadable
  <2>8. CASE List \/ Upload \/ Verify \/ Deleted \/ Compacted \/ \E d \in Dumps : Delete(d)
    BY <2>8, ListReadable, UploadReadable, VerifyReadable, DeleteReadable, CompactedReadable
  <2>9. ASSUME NEW g \in SUBSET Dumps, Join(g) PROVE Readable' BY <2>9, JoinReadable
  <2>10. ASSUME NEW t \in Targets, Ingest(t) PROVE Readable' BY <2>10, IngestReadable
  <2> QED BY <1>3, <2>1, <2>2, <2>3, <2>4, <2>5, <2>6, <2>7, <2>8, <2>9, <2>10 DEF Next, Step
<1> QED BY <1>2, <1>3

LEMMA InitReadable == ASSUME OteIngestionAssumption PROVE Init => Readable
<1> SUFFICES ASSUME Init PROVE Readable OBVIOUS
<1>1. \A k \in Keys : ~Good(k) BY DEF Init, Absent, Good
<1>2. run.pc = "off" /\ run.window = 0 BY DEF Init, Off
<1>3. Named /\ Listed BY <1>1, <1>2 DEF Named, Listed, Compacting
<1>4. 0 \in Hours BY DEF Hours, OteIngestionAssumption
<1>5. published \in [Samples -> SUBSET Int] BY DEF Init, Samples, Unpublished
<1> QED BY <1>2, <1>3, <1>4, <1>5 DEF Readable, Windows, Init

\* What an object of the archive holds is found by the hours its frames reach.
LEMMA FoundByHour ==
  ASSUME OteIngestionAssumption, MarginCovers, Safe, Readable,
         NEW t \in Targets, NEW h \in Hours, NEW d, Held(d),
         DeviceOf[d] \in SensorsOf[t], HasFrames(d, h)
  PROVE  d \in Counted(t, h)
<1>1. PICK k \in Keys : Good(k) /\ d \in archive[k].dumps BY DEF Held, Good
<1>2. DeviceOf[d] = DeviceOf[k[1]] /\ k[1] <= d /\ d <= k[2]
  BY <1>1 DEF Readable, Named, Covers
<1> DEFINE from == h * HourLength
           to == (h + 1) * HourLength
<1>3. d \in Nat /\ k[1] \in Nat /\ k[2] \in Nat
  BY <1>1 DEF Safe, Shape, Keys, OteIngestionAssumption
<1>4. from \in Int /\ to \in Int BY DEF OteIngestionAssumption, Hours
<1>5. d < to /\ d + Spill >= from BY DEF HasFrames
<1> HIDE DEF from, to
<1>6. k[1] < to /\ k[2] + Margin >= from - Margin
  BY <1>2, <1>3, <1>4, <1>5 DEF MarginCovers, OteIngestionAssumption
<1>7. k \in KeysToRead(t, h) BY <1>1, <1>2, <1>6 DEF KeysToRead, Good, from, to
<1> QED BY <1>1, <1>7 DEF Counted, Good

LEMMA ZonesCounted ==
  ASSUME Protected, MarginCovers, Safe, Readable, [Next]_vars PROVE ZoneSamplesComplete
<1> SUFFICES ASSUME NEW u \in Targets, NEW h \in Hours,
                    published["zone", u, h] # published'["zone", u, h],
                    NEW d \in run.seen, DeviceOf[d] \in SensorsOf[u], HasFrames(d, h)
             PROVE  d \in published'["zone", u, h]
  BY DEF ZoneSamplesComplete
<1>1. PICK t \in Targets : Ingest(t)
  BY DEF Next, Step, vars, Tick, Start, Crash, Arrive, Recover, Clean, Cleaned, DiscardObject,
         DiscardManifest, List, Join, Upload, Verify, Delete, Deleted, Compacted
<1>2. u = t /\ h = run.window /\ published'["zone", u, h] = Counted(t, h)
  BY <1>1, IngestPublishes DEF Protected, Safe, Readable
<1>3. Held(d)
  BY <1>1 DEF Ingest, Readable, Listed, Accounted, Compacting, Writing
<1> QED BY <1>2, <1>3, FoundByHour DEF Protected

\* ingest_window(): a published zone sample counts every dump of its sensors with
\* frames in the hour that had arrived when the staging area was listed, also the
\* dumps of objects that started earlier; under the same faults, and with a margin
\* that covers, applied twice, what a dump spills.
THEOREM ZonesCountAll == ASSUME Protected, MarginCovers PROVE Spec => ZonesComplete
<1>1. Init => Safe /\ Readable BY InitSafe, InitReadable DEF Protected
<1>2. Safe /\ Readable /\ [Next]_vars => Safe' /\ Readable' /\ ZoneSamplesComplete
  BY NextSafe, NextReadable, ZonesCounted
<1> QED BY <1>1, <1>2, PTL DEF Spec, ZonesComplete
=============================================================================
