------------------------------ MODULE AppendOnly ------------------------------
(***************************************************************************)
(* What the audit log promises its readers: entries are only ever added,   *)
(* at the end, whoever writes and whatever fails.                          *)
(***************************************************************************)
EXTENDS Sequences, SequencesExt

VARIABLE entries

Init == entries = <<>>

Next == IsStrictPrefix(entries, entries')

Spec == Init /\ [][Next]_entries
=============================================================================
