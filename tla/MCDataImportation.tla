-------------------------- MODULE MCDataImportation --------------------------
(***************************************************************************)
(* DataImportation with one file, a CSV with a good row of each entity.    *)
(***************************************************************************)
EXTENDS DataImportation

Good(e) == [of |-> e, at |-> "good", owner |-> "both", typed |-> TRUE, filled |-> TRUE]
OneFile == {[format |-> "csv", owned |-> TRUE, rows |-> <<Good("e1"), Good("e2")>>]}

=============================================================================
