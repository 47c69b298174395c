---------------------------- MODULE MCOteArchiver ----------------------------
(* Small instances of OteArchiver.                                         *)
EXTENDS OteArchiver

\* With a buffer of 3 bytes and windows of 2: the first frame alone is not
\* large enough, the second exceeds the buffer, the others do with the first.
Sizes == [i \in Frames |-> CASE i = 1 -> 1 [] i = 2 -> 4 [] OTHER -> 3]

=============================================================================
