-------------------------------- MODULE Audit ---------------------------------
(***************************************************************************)
(* The audit log (core/store/audit.py): a table of rows                    *)
(*   [id, what, prev, hash],  in the order of their ids,                   *)
(* where what stands for the time, actor, action and detail.               *)
(*                                                                         *)
(* The hash of an entry is a digest of the hash before it and of the       *)
(* entry's own fields.  SHA-256 is taken to be free of collisions, so a    *)
(* digest is as good as what it digests: here it is that, the sequence of  *)
(* all that was hashed into it.                                            *)
(***************************************************************************)
EXTENDS Integers, Sequences

NoHash == <<>>

EntryHash(prev, id, what) == Append(prev, <<id, what>>)

LastHash(log) == IF log = <<>> THEN NoHash ELSE log[Len(log)].hash
LastId(log) == IF log = <<>> THEN 0 ELSE log[Len(log)].id

Chained(log, what) ==
    [id   |-> LastId(log) + 1,
     what |-> what,
     prev |-> LastHash(log),
     hash |-> EntryHash(LastHash(log), LastId(log) + 1, what)]

(* audit.append: the new entry follows the last one it sees. *)
Extended(log, what) == Append(log, Chained(log, what))

-----------------------------------------------------------------------------
(* audit.verify walks the rows and reports, at each, an id that is not the *)
(* next, a previous hash that is not the one before, and a hash that is    *)
(* not that of the row.                                                    *)
ExpectedId(rows, i) == IF i = 1 THEN 1 ELSE rows[i - 1].id + 1
ExpectedPrev(rows, i) == IF i = 1 THEN NoHash ELSE rows[i - 1].hash

Problems(rows) ==
    {<<"missing", i>> : i \in {j \in DOMAIN rows : rows[j].id # ExpectedId(rows, j)}}
      \cup {<<"unlinked", i>> : i \in {j \in DOMAIN rows : rows[j].prev # ExpectedPrev(rows, j)}}
      \cup {<<"changed", i>> : i \in {j \in DOMAIN rows :
              rows[j].hash # EntryHash(rows[j].prev, rows[j].id, rows[j].what)}}

Verifies(rows) == Problems(rows) = {}
=============================================================================
