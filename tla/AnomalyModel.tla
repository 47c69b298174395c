---------------------------- MODULE AnomalyModel ----------------------------
(* The anomaly vertical of src/predictions: runs that sweep a folder of the   *)
(* object storage, score the CSV files of one datamodel with its stored       *)
(* model, teach the model what they had not taught it yet, and move the files *)
(* to processed/. The runs share the model through a bundle of the storage    *)
(* and an advisory lock, a file that is read and then written.                *)
(*                                                                            *)
(* A point is an entity and a time. Whether it is an outlier is anyone's      *)
(* guess; what the model keeps of the points it learned is how often it       *)
(* learned each. The numbers (Birch, the running statistics) are not in the   *)
(* model. A bundle is three files, read and written one by one: the columns   *)
(* and the metrics, which hold the measures, and the model. A signature or a  *)
(* library version that does not match starts a new model, as an error does.  *)
EXTENDS Integers, Sequences, FiniteSets, FiniteSetsExt

CONSTANTS Runs,        \* runs that may overlap
          Files,       \* the files dropped, 1..n in the order of their names
          Points,      \* Points[f]: the points of file f, <<entity, time>>
          Measures,    \* Measures[f]: the usable measures of file f
          Regime,      \* regime_shift_points
          MaxKills,    \* bound: runs killed
          MaxErrors,   \* bound: storage errors
          None

Parameters == /\ Files \in SUBSET Nat /\ Regime \in Nat \ {0}
                     /\ MaxKills \in Nat /\ MaxErrors \in Nat
                     /\ \A f \in Files : \A p \in Points[f] : p[2] \in Nat

VARIABLES pending,   \* the files waiting at the root of the folder
          processed, \* the files in processed/: None, or whether their rows were scored
          lock,      \* holder: the run the lock file names, or None; stale: it is old
          sidecars,  \* the measures its columns and its metrics name, each None at first
          model,     \* the stored model, or None
          run,       \* each run
          kills, errors

vars == <<pending, processed, lock, sidecars, model, run, kills, errors>>

AllPoints == UNION {Points[f] : f \in Files}
Entities == {p[1] : p \in AllPoints}
NewModel(measures) == [measures |-> measures, learned |-> [p \in AllPoints |-> 0],
                       watermark |-> [e \in Entities |-> -1], streak |-> [e \in Entities |-> 0]]
Idle == [pc |-> "idle", keys |-> {}, key |-> None, measures |-> {}, state |-> None,
         todo |-> {}, dirty |-> FALSE, scored |-> FALSE]

Init == /\ pending = Files /\ processed = [f \in Files |-> None]
        /\ lock = [holder |-> None, stale |-> FALSE]
        /\ sidecars = [columns |-> None, metrics |-> None] /\ model = None
        /\ run = [r \in Runs |-> Idle]
        /\ kills = 0 /\ errors = 0

Goto(r, pc) == run' = [run EXCEPT ![r].pc = pc]
(* One more call of the storage fails.                                        *)
Fail == errors < MaxErrors /\ errors' = errors + 1
(* The sweep without a file: its next one, or its end.                        *)
Without(r, f) == [Idle EXCEPT !.keys = run[r].keys \ {f},
                              !.pc = IF run[r].keys = {f} THEN "idle" ELSE "sweep"]
Following(r) == Without(r, run[r].key)

-----------------------------------------------------------------------------
(* run_one: the files waiting now, in the order of their names.               *)
Sweep(r) == /\ run[r].pc = "idle" /\ pending # {}
            /\ run' = [run EXCEPT ![r] = [Idle EXCEPT !.pc = "sweep", !.keys = pending]]
            /\ UNCHANGED <<pending, processed, lock, sidecars, model, kills, errors>>

(* A file that is no longer there, or that cannot be read, is left as it is   *)
(* and the sweep goes on.                                                     *)
Skip(r) == LET f == Min(run[r].keys)
           IN /\ run[r].pc = "sweep"
              /\ IF f \in pending THEN Fail ELSE UNCHANGED errors
              /\ run' = [run EXCEPT ![r] = Without(r, f)]
              /\ UNCHANGED <<pending, processed, lock, sidecars, model, kills>>

(* The file is read. Its measures are those the metrics of the bundle froze,  *)
(* or the ones it carries if there are none or they cannot be read; a file    *)
(* without one of them is moved without being scored.                         *)
Measure(r, f, measures) ==
  run' = [run EXCEPT ![r].key = f, ![r].measures = measures,
                     ![r].pc = IF measures \subseteq Measures[f] THEN "lock" ELSE "archive"]
Read(r) ==
  LET f == Min(run[r].keys)
  IN /\ run[r].pc = "sweep" /\ f \in pending
     /\ \/ /\ Measure(r, f, IF sidecars.metrics = None THEN Measures[f] ELSE sidecars.metrics)
           /\ UNCHANGED errors
        \/ Measure(r, f, Measures[f]) /\ Fail
     /\ UNCHANGED <<pending, processed, lock, sidecars, model, kills>>

(* datamodel_lock: a lock somebody holds since less than an hour raises, and  *)
(* evaluate_batch answers no verdicts, as it does when the lock cannot be     *)
(* written; a stale one is taken over, and so is one that cannot be read.     *)
(* Between the reading and the writing another run may do the same.           *)
LookAtLock(r) ==
  /\ run[r].pc = "lock"
  /\ \/ /\ Goto(r, IF lock.holder # None /\ ~lock.stale THEN "archive" ELSE "take")
        /\ UNCHANGED errors
     \/ Goto(r, "take") /\ Fail
  /\ UNCHANGED <<pending, processed, lock, sidecars, model, kills>>
TakeLock(r) ==
  /\ run[r].pc = "take"
  /\ \/ lock' = [holder |-> r, stale |-> FALSE] /\ Goto(r, "load") /\ UNCHANGED errors
     \/ Goto(r, "archive") /\ Fail /\ UNCHANGED lock
  /\ UNCHANGED <<pending, processed, sidecars, model, kills>>

(* load_state: a bundle that is not complete, that cannot be read or that has *)
(* other columns starts a new model.                                          *)
Complete == model # None /\ sidecars.metrics # None
Begin(r, state) == run' = [run EXCEPT ![r].pc = "learn", ![r].todo = Points[run[r].key],
                                      ![r].state = state]
Load(r) ==
  /\ run[r].pc = "load"
  /\ \/ /\ Begin(r, IF Complete /\ sidecars.columns = run[r].measures
                   THEN model ELSE NewModel(run[r].measures))
        /\ UNCHANGED errors
     \/ Begin(r, NewModel(run[r].measures)) /\ Fail
  /\ UNCHANGED <<pending, processed, lock, sidecars, model, kills>>

(* One point, in order of time. A point up to its entity's watermark is       *)
(* scored and leaves no trace; an outlier teaches nothing until Regime of     *)
(* them came in a row.                                                        *)
IsNew(state, p) == p[2] > state.watermark[p[1]]
IsNewOrLast(state, p) == p[2] >= state.watermark[p[1]]
ToLearn(state, p) == IsNew(state, p)

Evaluate(state, p, outlier) ==
  LET streak == IF outlier THEN state.streak[p[1]] + 1 ELSE 0
      learn == ~outlier \/ streak >= Regime
  IN IF ToLearn(state, p)
     THEN [state EXCEPT !.streak[p[1]] = IF streak > Regime THEN Regime ELSE streak,
                        !.watermark[p[1]] = p[2],
                        !.learned[p] = IF learn THEN @ + 1 ELSE @]
     ELSE state

Learn(r) ==
  /\ run[r].pc = "learn" /\ run[r].todo # {}
  /\ \E p \in run[r].todo, outlier \in BOOLEAN :
       /\ \A q \in run[r].todo : p[2] <= q[2]
       /\ run' = [run EXCEPT ![r].todo = @ \ {p}, ![r].state = Evaluate(@, p, outlier),
                             ![r].dirty = @ \/ ToLearn(run[r].state, p)]
  /\ UNCHANGED <<pending, processed, lock, sidecars, model, kills, errors>>

(* Under the columns of another run the model may have other measures than    *)
(* the points: their vectors do not fit it, or go unnoticed.                  *)
Misfit(r) == /\ run[r].pc = "learn" /\ run[r].todo # {} /\ run[r].state.measures # run[r].measures
             /\ Goto(r, "release")
             /\ UNCHANGED <<pending, processed, lock, sidecars, model, kills, errors>>

(* save_state, if anything was learned: the columns, the metrics and, last,   *)
(* the model. A bundle that cannot be saved gives no verdicts either.         *)
Learned(r) == run[r].pc = "learn" /\ run[r].todo = {}
NothingNew(r) == /\ Learned(r) /\ ~run[r].dirty
                 /\ run' = [run EXCEPT ![r].pc = "release", ![r].scored = TRUE]
                 /\ UNCHANGED <<pending, processed, lock, sidecars, model, kills, errors>>
SaveSidecar(r, name, next) ==
  /\ \/ /\ sidecars' = [sidecars EXCEPT ![name] = run[r].measures]
        /\ Goto(r, next) /\ UNCHANGED errors
     \/ Goto(r, "release") /\ Fail /\ UNCHANGED sidecars
  /\ UNCHANGED <<pending, processed, lock, model, kills>>
SaveColumns(r) == Learned(r) /\ run[r].dirty /\ SaveSidecar(r, "columns", "metrics")
SaveMetrics(r) == run[r].pc = "metrics" /\ SaveSidecar(r, "metrics", "model")
SaveModel(r) ==
  /\ run[r].pc = "model"
  /\ \/ /\ model' = run[r].state /\ UNCHANGED errors
        /\ run' = [run EXCEPT ![r].pc = "release", ![r].scored = TRUE]
     \/ Goto(r, "release") /\ Fail /\ UNCHANGED model
  /\ UNCHANGED <<pending, processed, lock, sidecars, kills>>

(* The release; a lock that cannot be released expires.                       *)
Release(r) ==
  /\ run[r].pc = "release"
  /\ \/ lock' = [holder |-> None, stale |-> FALSE] /\ UNCHANGED errors
     \/ Fail /\ UNCHANGED lock
  /\ Goto(r, "archive")
  /\ UNCHANGED <<pending, processed, sidecars, model, kills>>

(* _archive: the copy in processed/ first, then the original is deleted; an   *)
(* error leaves the file to the next sweep.                                   *)
Archive(r) ==
  /\ run[r].pc = "archive"
  /\ \/ /\ processed' = [processed EXCEPT ![run[r].key] = IF run[r].scored THEN "scored" ELSE "unscored"]
        /\ Goto(r, "delete") /\ UNCHANGED errors
     \/ Fail /\ run' = [run EXCEPT ![r] = Following(r)] /\ UNCHANGED processed
  /\ UNCHANGED <<pending, lock, sidecars, model, kills>>
DeleteOriginal(r) ==
  /\ run[r].pc = "delete"
  /\ \/ pending' = pending \ {run[r].key} /\ UNCHANGED errors
     \/ Fail /\ UNCHANGED pending
  /\ run' = [run EXCEPT ![r] = Following(r)]
  /\ UNCHANGED <<processed, lock, sidecars, model, kills>>

(* A run is killed; a lock left behind gets old.                              *)
Kill(r) == /\ kills < MaxKills /\ run[r].pc # "idle"
           /\ kills' = kills + 1
           /\ run' = [run EXCEPT ![r] = Idle]
           /\ UNCHANGED <<pending, processed, lock, sidecars, model, errors>>
Expire == /\ lock.holder # None /\ ~lock.stale
          /\ lock' = [lock EXCEPT !.stale = TRUE]
          /\ UNCHANGED <<pending, processed, sidecars, model, run, kills, errors>>

Step(r) == \/ Sweep(r) \/ Skip(r) \/ Read(r) \/ LookAtLock(r) \/ TakeLock(r) \/ Load(r)
           \/ Learn(r) \/ Misfit(r) \/ NothingNew(r)
           \/ SaveColumns(r) \/ SaveMetrics(r) \/ SaveModel(r)
           \/ Release(r) \/ Archive(r) \/ DeleteOriginal(r)
Next == (\E r \in Runs : Step(r) \/ Kill(r)) \/ Expire

Spec == Init /\ [][Next]_vars

-----------------------------------------------------------------------------
ModelType == [measures : {Measures[f] : f \in Files}, learned : [AllPoints -> Nat],
              watermark : [Entities -> Int], streak : [Entities -> 0..Regime]]

(* Type invariant of the folder, the lock, the bundle and the runs. *)
TypeOK == /\ pending \subseteq Files
          /\ processed \in [Files -> {None, "scored", "unscored"}]
          /\ lock \in [holder : Runs \cup {None}, stale : BOOLEAN]
          /\ sidecars \in [{"columns", "metrics"} -> {None} \cup {Measures[f] : f \in Files}]
          /\ model \in {None} \cup ModelType
          /\ kills \in 0..MaxKills /\ errors \in 0..MaxErrors

(* The stored model learned no point twice, however often a file is swept     *)
(* again after a kill or an error, and whichever runs overlap                 *)
(* (core.evaluate_batch, the watermarks kept inside the bundle).              *)
LearnedOnce == model # None => \A p \in AllPoints : model.learned[p] <= 1

(* A file leaves the folder only once its rows were scored: whatever carries  *)
(* the model's measures is in processed/ with its verdicts. The code does not *)
(* keep this (see the README): no run checks it.                              *)
MovedScored == \A f \in Files \ pending :
                 model # None /\ model.measures \subseteq Measures[f] => processed[f] = "scored"
=============================================================================
