----------------------------- MODULE DeltaProofs ------------------------------
(***************************************************************************)
(* A delta never makes the catalog confidently stale, for any tree, any    *)
(* changes of the drive and any number of failures.                        *)
(*                                                                         *)
(* The argument is by reference numbers.  The files of a row are right for *)
(* the directory that has the row's number, wherever on the drive that     *)
(* directory is now, unless the records still to be read name it or the    *)
(* row is left out.  A rename takes a directory's entries along, and       *)
(* everything else that changes them names its number; so the drive keeps  *)
(* this of the committed rows with the stored cursor, and of what a delta  *)
(* has gathered with the cursor that it will store.                        *)
(***************************************************************************)
EXTENDS Delta, FiniteSetTheorems, WellFoundedInduction, TLAPS

Rec == [frn : Nat, parent : Nat, dir : BOOLEAN]

(* What the records from position u on say. *)
Since(records, u) == UNION {records[i] : i \in u .. Len(records)}
Named(u) == Touched(Since(journal.records, u))

(* Of a place, what its directory's file rows tell. *)
Shown(c) == IF c \in Stamp THEN c ELSE "absent"
LiveFacts(rows) == [n \in Entry |-> IF rows[n].st = "live" THEN rows[n].facts ELSE "absent"]
StagedFacts(rows) == [n \in Entry |-> IF rows[n] = "none" THEN "absent" ELSE rows[n]]

(* Facts about the entries of d, and what is in the directory at y.        *)
Right(facts, d, held, y) ==
    \A n \in Children(d) : \E m \in Children(y) : EntryName[m] = EntryName[n] /\ facts[n] = Shown(held[m])

(* Every row of a set is right for the directory that has its number,      *)
(* unless the directory is named.                                          *)
AllRight(facts, rows, number, held, place, names) ==
    \A d \in rows \ {Root}, y \in Dir \ {Root} :
        place[y] # 0 /\ number[d] = place[y] /\ place[y] \notin names => Right(facts, d, held, y)

DriveTypes ==
    /\ content \in [Entry -> Stamp \cup {"absent", "dir"}]
    /\ ident \in [Dir -> Nat]
    /\ journal \in [id : {1, 2}, records : Seq(SUBSET Rec), low : Nat \ {0}]

DriveRules ==
    /\ \A n \in Entry : content[n] \in (IF n \in Dir THEN {"dir"} ELSE Stamp) \cup {"absent"}
    /\ \A n \in Entry : content[n] # "absent" => IsDir(Parent[n])
    /\ \A d \in Dir : ident[d] # 0 <=> IsDir(d)
    /\ \A d, e \in Dir : ident[d] = ident[e] /\ ident[d] # 0 => d = e

DriveInv == DriveTypes /\ DriveRules

-----------------------------------------------------------------------------
(* Numbers, trees and records *)

LEMMA LeastNumber == ASSUME NEW S \in SUBSET Nat, S # {} PROVE \E m \in S : \A n \in S : ~(n < m)
<1>1. PICK m \in S : \A n \in S : ~(<<n, m>> \in OpToRel(<, Nat))
  BY NatLessThanWellFounded, WFMin
<1> QED
  BY <1>1 DEF OpToRel

LEMMA MinIsIn == ASSUME NEW S \in SUBSET Nat, S # {} PROVE Min(S) \in S
<1>1. \E m \in S : \A n \in S : m =< n
  BY LeastNumber
<1> QED BY <1>1 DEF Min

LEMMA MaxOfTwo == ASSUME NEW a \in Nat, NEW b \in Nat, a >= b PROVE Max({a, b}) = a
BY DEF Max

LEMMA Tree ==
    /\ Root \in Dir /\ \A d \in Dir \ {Root} : d \in Entry
    /\ \A n \in Entry : Parent[n] \in Dir /\ Parent[n] \in Above[n] /\ Parent[n] # n
    /\ \A n \in Entry : Above[n] = {Parent[n]} \cup Above[Parent[n]] /\ Above[n] \subseteq Dir
    /\ \A n \in Node : n \notin Above[n] /\ \A a \in Above[n] : Above[a] \subseteq Above[n]
    /\ Above[Root] = {} /\ Dir \subseteq Node
BY TreeAssumption DEF Entry

(* What holds of the parent of whatever it holds of, holds of all above.   *)
LEMMA Upward ==
    ASSUME NEW P, \A n \in Entry : n \in P => Parent[n] \in P, NEW n \in Entry \cap P
    PROVE  Above[n] \subseteq P
<1> DEFINE Bad == {m \in Entry \cap P : ~(Above[m] \subseteq P)}
           Sizes == {Cardinality(Above[m]) : m \in Bad}
<1>1. \A m \in Entry : Cardinality(Above[m]) \in Nat /\ IsFiniteSet(Above[m])
  BY Tree, TreeAssumption, FS_Subset, FS_CardinalityType
<1>2. SUFFICES ASSUME Bad # {} PROVE FALSE
  OBVIOUS
<1>3. Sizes \in SUBSET Nat /\ Sizes # {}
  BY <1>1, <1>2
<1>4. PICK s \in Sizes : \A t \in Sizes : ~(t < s)
  BY <1>3, LeastNumber
<1>5. PICK m \in Bad : s = Cardinality(Above[m])
  BY <1>4
<1>6. Parent[m] \in P /\ Above[m] = {Parent[m]} \cup Above[Parent[m]]
  BY <1>5, Tree
<1>7. Parent[m] # Root
  BY <1>5, <1>6, Tree
<1>8. Parent[m] \in Bad
  BY <1>5, <1>6, <1>7, Tree DEF Entry
<1>9. Parent[m] \notin Above[Parent[m]] /\ Above[Parent[m]] \subseteq Above[m] /\ Parent[m] \in Above[m]
  BY <1>5, <1>6, Tree
<1>10. Cardinality(Above[Parent[m]]) <= Cardinality(Above[m])
       /\ Cardinality(Above[Parent[m]]) # Cardinality(Above[m])
  BY <1>1, <1>5, <1>9, FS_Subset
<1>11. Cardinality(Above[Parent[m]]) \in Sizes
  BY <1>8
<1> QED BY <1>1, <1>4, <1>5, <1>8, <1>10, <1>11

LEMMA AppendNames ==
    ASSUME NEW records \in Seq(SUBSET Rec), NEW R \in SUBSET Rec, NEW u \in 1 .. Len(records) + 1
    PROVE  Touched(Since(Append(records, R), u)) = Touched(Since(records, u)) \cup Touched(R)
<1>1. Since(Append(records, R), u) = Since(records, u) \cup R
  <2> DEFINE all == Append(records, R)
  <2>1. Len(all) = Len(records) + 1 /\ all[Len(records) + 1] = R
        /\ \A i \in 1 .. Len(records) : all[i] = records[i]
    OBVIOUS
  <2>2. u .. Len(all) = (u .. Len(records)) \cup {Len(records) + 1}
    BY <2>1
  <2>3. \A i \in u .. Len(records) : i \in 1 .. Len(records)
    OBVIOUS
  <2> HIDE DEF all
  <2> QED BY <2>1, <2>2, <2>3 DEF Since
<1> QED BY <1>1 DEF Touched

LEMMA NamesShrink ==
    ASSUME NEW records, NEW u \in Nat, NEW v \in Nat, u <= v, Len(records) \in Nat
    PROVE  Touched(Since(records, v)) \subseteq Touched(Since(records, u))
<1>1. Since(records, v) \subseteq Since(records, u)
  BY DEF Since
<1> QED BY <1>1 DEF Touched

LEMMA NamesAreNumbers ==
    ASSUME NEW records \in Seq(SUBSET Rec), NEW u \in Nat \ {0} PROVE Touched(Since(records, u)) \subseteq Nat
<1>1. Since(records, u) \subseteq Rec
  BY DEF Since
<1> QED BY <1>1 DEF Touched, Rec

LEMMA UnreadNames ==
    ASSUME DriveTypes, NEW c \in [id : Nat, next : Nat], cursor = c, Usable(c)
    PROVE  Touched(Unread) = Named(c.next)
BY MaxOfTwo DEF DriveTypes, Usable, Unread, Named, Since

-----------------------------------------------------------------------------
(* What a change of the drive does to rows that are right *)

LEMMA FileChangeRight ==
    ASSUME NEW facts, NEW rows \in SUBSET Dir, NEW number, NEW held, NEW place, NEW names, NEW more,
           AllRight(facts, rows, number, held, place, names), names \subseteq more,
           NEW n \in Entry, NEW s, NEW other,
           other = [held EXCEPT ![n] = s], place[Parent[n]] \in more
    PROVE  AllRight(facts, rows, number, other, place, more)
<1> SUFFICES ASSUME NEW d \in rows \ {Root}, NEW y \in Dir \ {Root},
                    place[y] # 0, number[d] = place[y], place[y] \notin more
             PROVE  Right(facts, d, other, y)
  BY DEF AllRight
<1>1. Right(facts, d, held, y) /\ y # Parent[n]
  BY DEF AllRight
<1>2. \A m \in Children(y) : other[m] = held[m]
  BY <1>1 DEF Children
<1> QED BY <1>1, <1>2 DEF Right

LEMMA DirChangeRight ==
    ASSUME NEW facts, NEW rows \in SUBSET Dir, NEW number, NEW held, NEW place, NEW names, NEW more,
           AllRight(facts, rows, number, held, place, names), names \subseteq more,
           NEW e \in Dir \ {Root}, NEW c, NEW f, NEW other, NEW moved, place \in [Dir -> Nat],
           other = [held EXCEPT ![e] = c], held[e] \notin Stamp, c \notin Stamp,
           moved = [place EXCEPT ![e] = f], f = 0 \/ f \in more
    PROVE  AllRight(facts, rows, number, other, moved, more)
<1> SUFFICES ASSUME NEW d \in rows \ {Root}, NEW y \in Dir \ {Root},
                    moved[y] # 0, number[d] = moved[y], moved[y] \notin more
             PROVE  Right(facts, d, other, y)
  BY DEF AllRight
<1>1. y # e /\ moved[y] = place[y]
  OBVIOUS
<1>2. Right(facts, d, held, y)
  BY <1>1 DEF AllRight
<1>3. \A m : Shown(other[m]) = Shown(held[m]) \/ m \notin Children(y)
  BY DEF Shown, Children
<1> QED BY <1>2, <1>3 DEF Right

(* Where the entries beneath a renamed directory come from. *)
From(d, e, n) == IF n = e THEN d ELSE CHOOSE m \in DOMAIN Moves[<<d, e>>] : Moves[<<d, e>>][m] = n
Into(d, e) == {e} \cup {Moves[<<d, e>>][m] : m \in DOMAIN Moves[<<d, e>>]}
OutOf(d, e) == {d} \cup DOMAIN Moves[<<d, e>>]

LEMMA MovePlaces ==
    ASSUME NEW d \in Dir \ {Root}, NEW e \in Dir \ {Root}, MayMove(d, e)
    PROVE  /\ Into(d, e) = {e} \cup Beneath(e) /\ OutOf(d, e) = {d} \cup Beneath(d)
           /\ Into(d, e) \cap OutOf(d, e) = {} /\ Into(d, e) \subseteq Entry /\ OutOf(d, e) \subseteq Entry
           /\ From(d, e, e) = d
           /\ \A n \in Beneath(e) : /\ From(d, e, n) \in Beneath(d)
                                    /\ From(d, e, n) \in Dir <=> n \in Dir
                                    /\ EntryName[From(d, e, n)] = EntryName[n]
                                    /\ Parent[n] \in Into(d, e) /\ Parent[From(d, e, n)] = From(d, e, Parent[n])
           /\ \A m \in Beneath(d) : \E n \in Beneath(e) : From(d, e, n) = m
           /\ \A n, k \in Into(d, e) : From(d, e, n) = From(d, e, k) => n = k
           /\ \A n \in Into(d, e) : \A k \in Entry : Parent[k] = n => k \in Beneath(e)
           /\ \A n \in OutOf(d, e) : \A k \in Entry : Parent[k] = n => k \in Beneath(d)
           /\ \A n \in {d, e} : Parent[n] \notin Into(d, e) \cup OutOf(d, e)
<1> DEFINE to == Moves[<<d, e>>]
           from(n) == From(d, e, n)
<1>1. /\ to \in [Beneath(d) -> Beneath(e)]
      /\ \A m, k \in Beneath(d) : to[m] = to[k] => m = k
      /\ \A n \in Beneath(e) : \E m \in Beneath(d) : to[m] = n
      /\ ({d} \cup Beneath(d)) \cap ({e} \cup Beneath(e)) = {}
      /\ \A m \in Beneath(d) : /\ to[m] \in Dir <=> m \in Dir
                               /\ EntryName[to[m]] = EntryName[m]
                               /\ Parent[to[m]] = IF Parent[m] = d THEN e ELSE to[Parent[m]]
  BY DEF MayMove, Bijection, Injection, Surjection, IsInjective
<1>2. d \in Entry /\ e \in Entry /\ d \notin Beneath(d) /\ e \notin Beneath(e)
      /\ Beneath(d) \subseteq Entry /\ Beneath(e) \subseteq Entry
  BY Tree DEF Beneath
<1>3. Into(d, e) = {e} \cup Beneath(e) /\ OutOf(d, e) = {d} \cup Beneath(d)
  BY <1>1 DEF Into, OutOf
<1>4. \A n \in Beneath(e) : from(n) \in Beneath(d) /\ to[from(n)] = n
  <2> SUFFICES ASSUME NEW n \in Beneath(e) PROVE from(n) \in Beneath(d) /\ to[from(n)] = n
    OBVIOUS
  <2>1. \E m \in DOMAIN to : to[m] = n
    BY <1>1
  <2> QED BY <1>1, <1>2, <2>1 DEF From
<1>5. from(e) = d
  BY DEF From
<1>6. \A m \in Beneath(d) : to[m] \in Beneath(e) /\ from(to[m]) = m
  BY <1>1, <1>4
<1>7. \A a \in {d, e} : \A k \in Entry : Parent[k] \in {a} \cup Beneath(a) <=> k \in Beneath(a)
  BY Tree DEF Beneath, Entry
<1> HIDE DEF to, from
<1>8. \A n \in Beneath(e) : Parent[n] \in Into(d, e) /\ Parent[from(n)] = from(Parent[n])
  <2> SUFFICES ASSUME NEW n \in Beneath(e) PROVE Parent[n] \in Into(d, e) /\ Parent[from(n)] = from(Parent[n])
    OBVIOUS
  <2>1. Parent[n] \in {e} \cup Beneath(e) /\ Parent[from(n)] \in {d} \cup Beneath(d)
    BY <1>2, <1>4, <1>7
  <2>2. CASE Parent[from(n)] = d
    <3>1. Parent[n] = e
      BY <1>1, <1>4, <2>2
    <3> QED BY <1>3, <1>5, <2>2, <3>1
  <2>3. CASE Parent[from(n)] # d
    <3>1. Parent[n] = to[Parent[from(n)]] /\ Parent[from(n)] \in Beneath(d)
      BY <1>1, <1>4, <2>1, <2>3
    <3> QED BY <1>3, <1>6, <2>1, <3>1
  <2> QED BY <2>2, <2>3
<1>9. \A n, k \in Into(d, e) : from(n) = from(k) => n = k
  BY <1>1, <1>2, <1>3, <1>4, <1>5
<1>10. \A n \in {d, e} : Parent[n] \notin Into(d, e) \cup OutOf(d, e)
  <2>1. Parent[d] \notin {d} \cup Beneath(d) /\ Parent[e] \notin {e} \cup Beneath(e)
    BY <1>2, <1>7
  <2>2. Parent[d] \notin {e} \cup Beneath(e) /\ Parent[e] \notin {d} \cup Beneath(d)
    BY <1>1, <1>2, <1>7
  <2> QED BY <1>3, <2>1, <2>2
<1>11. \A n \in Beneath(e) : (from(n) \in Dir <=> n \in Dir) /\ EntryName[from(n)] = EntryName[n]
  BY <1>1, <1>4
<1>12. \A m \in Beneath(d) : \E n \in Beneath(e) : from(n) = m
  BY <1>6
<1>13. Into(d, e) \cap OutOf(d, e) = {} /\ Into(d, e) \subseteq Entry /\ OutOf(d, e) \subseteq Entry
  BY <1>1, <1>2, <1>3
<1>14. /\ \A n \in Into(d, e) : \A k \in Entry : Parent[k] = n => k \in Beneath(e)
       /\ \A n \in OutOf(d, e) : \A k \in Entry : Parent[k] = n => k \in Beneath(d)
  BY <1>3, <1>7
<1> QED BY <1>3, <1>4, <1>5, <1>8, <1>9, <1>10, <1>11, <1>12, <1>13, <1>14 DEF from

(* What a rename makes of contents and numbers. *)
MovedContent(d, e, held) ==
    [n \in Entry |-> IF n \in Into(d, e) THEN held[From(d, e, n)]
                     ELSE IF n \in OutOf(d, e) THEN "absent" ELSE held[n]]
MovedIdent(d, e, place) ==
    [x \in Dir |-> IF x \in Into(d, e) THEN place[From(d, e, x)] ELSE IF x \in OutOf(d, e) THEN 0 ELSE place[x]]

LEMMA MoveRight ==
    ASSUME NEW facts, NEW rows \in SUBSET Dir, NEW number, NEW held, NEW place, NEW names, NEW more,
           AllRight(facts, rows, number, held, place, names), names \subseteq more,
           NEW d \in Dir \ {Root}, NEW e \in Dir \ {Root}, MayMove(d, e),
           held \in [Entry -> Stamp \cup {"absent", "dir"}], held[d] = "dir", held[e] = "absent"
    PROVE  AllRight(facts, rows, number, MovedContent(d, e, held), MovedIdent(d, e, place), more)
<1> DEFINE other == MovedContent(d, e, held)
           moved == MovedIdent(d, e, place)
<1>1. /\ \A n \in Entry : other[n] = IF n \in Into(d, e) THEN held[From(d, e, n)]
                                     ELSE IF n \in OutOf(d, e) THEN "absent" ELSE held[n]
      /\ \A x \in Dir : moved[x] = IF x \in Into(d, e) THEN place[From(d, e, x)]
                                   ELSE IF x \in OutOf(d, e) THEN 0 ELSE place[x]
  BY DEF MovedContent, MovedIdent
<1> HIDE DEF other, moved
<1> SUFFICES ASSUME NEW r \in rows \ {Root}, NEW y \in Dir \ {Root},
                    moved[y] # 0, number[r] = moved[y], moved[y] \notin more
             PROVE  Right(facts, r, other, y)
  BY DEF AllRight, other, moved
<1>2. y \notin OutOf(d, e) \/ y \in Into(d, e)
  BY <1>1
<1>3. {"absent", "dir"} \cap Stamp = {}
  BY StampAssumption
<1>4. CASE y \in Into(d, e)
  <2> DEFINE z == From(d, e, y)
  <2>1. z \in Dir \ {Root} /\ moved[y] = place[z]
    BY <1>1, <1>4, MovePlaces, Tree DEF Beneath, Entry
  <2>2. Right(facts, r, held, z)
    BY <2>1 DEF AllRight
  <2>3. ASSUME NEW m \in Children(z)
        PROVE  \E k \in Children(y) : EntryName[k] = EntryName[m] /\ other[k] = held[m]
    <3>1. z \in OutOf(d, e) /\ m \in Entry /\ Parent[m] = z
      BY <1>4, MovePlaces DEF Children
    <3>2. m \in Beneath(d)
      BY <3>1, MovePlaces
    <3>3. PICK k \in Beneath(e) : From(d, e, k) = m
      BY <3>2, MovePlaces
    <3>4. Parent[k] \in Into(d, e) /\ From(d, e, Parent[k]) = z /\ EntryName[k] = EntryName[m]
      BY <3>1, <3>3, MovePlaces
    <3>5. Parent[k] = y
      BY <1>4, <3>4, MovePlaces
    <3>6. k \in Into(d, e) /\ k \in Entry
      BY MovePlaces
    <3> QED BY <1>1, <3>3, <3>4, <3>5, <3>6 DEF Children
  <2> HIDE DEF z
  <2> QED BY <2>2, <2>3 DEF Right
<1>5. CASE y \notin Into(d, e)
  <2>1. moved[y] = place[y] /\ y \notin OutOf(d, e)
    BY <1>1, <1>2, <1>5
  <2>2. Right(facts, r, held, y)
    BY <2>1 DEF AllRight
  <2>3. ASSUME NEW m \in Children(y) PROVE Shown(other[m]) = Shown(held[m])
    <3>1. m \in Entry /\ Parent[m] = y
      BY DEF Children
    <3>2. m \in Beneath(e) => Parent[m] \in Into(d, e)
      BY MovePlaces
    <3>3. m \in Beneath(d) => Parent[m] \in OutOf(d, e)
      BY <3>1, MovePlaces, Tree DEF Beneath, Entry
    <3>4. m \in {d, e} \/ m \notin Into(d, e) \cup OutOf(d, e)
      BY <1>5, <2>1, <3>1, <3>2, <3>3, MovePlaces
    <3>5. CASE m = e
      <4>1. other[m] = held[d] /\ held[m] = "absent"
        BY <1>1, <3>1, <3>5, MovePlaces
      <4> QED BY <1>3, <4>1 DEF Shown
    <3>6. CASE m = d
      <4>1. other[m] = "absent" /\ held[m] = "dir"
        BY <1>1, <3>1, <3>6, MovePlaces
      <4> QED BY <1>3, <4>1 DEF Shown
    <3>7. CASE m \notin Into(d, e) \cup OutOf(d, e)
      BY <1>1, <3>1, <3>7
    <3> QED BY <3>4, <3>5, <3>6, <3>7
  <2> QED BY <2>2, <2>3 DEF Right
<1> QED BY <1>4, <1>5

-----------------------------------------------------------------------------
(* The drive *)

LEMMA MoveAllowed ==
    ASSUME NEW d \in Dir \ {Root}, NEW e \in Dir \ {Root}, MoveDir(d, e)
    PROVE  /\ MayMove(d, e) /\ content[d] = "dir" /\ content[e] = "absent" /\ IsDir(Parent[e])
           /\ content' = MovedContent(d, e, content) /\ ident' = MovedIdent(d, e, ident)
<1>1. MayMove(d, e)
  BY DeltaAssumption DEF MoveDir
<1> QED BY <1>1 DEF MoveDir, MovedContent, MovedIdent, Into, OutOf, From

(* Every change of the drive either is noted with the numbers it is about, *)
(* or is one of the journal.                                               *)
Journalled ==
    \/ /\ journal'.id = journal.id /\ journal'.records = journal.records
       /\ journal'.low = NextUsn /\ journal.low < NextUsn /\ UNCHANGED <<content, ident>>
    \/ journal.id = 1 /\ journal'.id = 2 /\ UNCHANGED <<content, ident>>
    \/ /\ journal'.id = journal.id /\ journal'.low = journal.low
       /\ \E R \in SUBSET Rec : journal'.records = Append(journal.records, R)

JournalType == [id : {1, 2}, records : Seq(SUBSET Rec), low : Nat \ {0}]

LEMMA NotedTyped ==
    ASSUME DriveTypes, NEW R \in SUBSET Rec, Noted(R)
    PROVE  journal' \in JournalType /\ Journalled
<1> DEFINE more == Append(journal.records, R)
           j == [journal EXCEPT !.records = more]
<1>1. journal' = j
  BY DEF Noted
<1>2. more \in Seq(SUBSET Rec)
  BY DEF DriveTypes
<1> HIDE DEF more
<1>3. j \in JournalType /\ j.id = journal.id /\ j.low = journal.low /\ j.records = more
  BY <1>2 DEF DriveTypes, JournalType
<1> HIDE DEF j
<1>4. journal'.id = journal.id /\ journal'.low = journal.low /\ journal'.records = Append(journal.records, R)
  BY <1>1, <1>3 DEF more
<1> QED BY <1>1, <1>3, <1>4 DEF Journalled

LEMMA DriveTyped == ASSUME DriveInv, DriveChanges PROVE DriveTypes' /\ Journalled
<1> USE DEF DriveInv, DriveTypes, JournalType
<1>1. CASE PurgeJournal \/ RecreateJournal
  <2>1. NextUsn \in Nat \ {0} /\ <<>> \in Seq(SUBSET Rec)
    BY DEF NextUsn
  <2>2. CASE PurgeJournal
    <3>1. journal' = [journal EXCEPT !.low = NextUsn] /\ journal.low < NextUsn /\ UNCHANGED <<content, ident>>
      BY <2>2 DEF PurgeJournal
    <3>2. /\ journal' \in JournalType /\ journal'.id = journal.id
          /\ journal'.records = journal.records /\ journal'.low = NextUsn
      BY <2>1, <3>1
    <3> QED BY <3>1, <3>2 DEF Journalled
  <2>3. CASE RecreateJournal
    <3>1. journal' = [id |-> 2, records |-> <<>>, low |-> 1] /\ UNCHANGED <<content, ident>> /\ journal.id = 1
      BY <2>3 DEF RecreateJournal
    <3>2. journal' \in JournalType /\ journal'.id = 2
      BY <2>1, <3>1
    <3> QED BY <3>1, <3>2 DEF Journalled
  <2> QED BY <1>1, <2>2, <2>3
<1>2. ASSUME NEW R \in SUBSET Rec, Noted(R) PROVE journal' \in JournalType /\ Journalled
  BY <1>2, NotedTyped
<1>4. ASSUME NEW n \in Entry, RemoveFile(n) \/ \E s \in Stamp : PutFile(n, s) PROVE DriveTypes' /\ Journalled
  <2>0. Noted({JournalRecord(0, Parent[n], FALSE)})
    BY <1>4 DEF RemoveFile, PutFile
  <2>1. {JournalRecord(0, Parent[n], FALSE)} \in SUBSET Rec
    BY Tree DEF JournalRecord, Rec
  <2>2. content' \in [Entry -> Stamp \cup {"absent", "dir"}] /\ ident' = ident
    BY <1>4 DEF RemoveFile, PutFile
  <2>3. journal' \in JournalType /\ Journalled
    BY <1>2, <2>0, <2>1
  <2> QED BY <2>2, <2>3
<1>5. ASSUME NEW d \in Dir \ {Root}, RemoveDir(d) PROVE DriveTypes' /\ Journalled
  <2>1. ident[d] \in Nat /\ d \in Entry /\ Parent[d] \in Dir
    BY Tree
  <2>0. Noted({JournalRecord(ident[d], Parent[d], TRUE)})
    BY <1>5 DEF RemoveDir
  <2>2. {JournalRecord(ident[d], Parent[d], TRUE)} \in SUBSET Rec
    BY <2>1 DEF JournalRecord, Rec
  <2>3. content' \in [Entry -> Stamp \cup {"absent", "dir"}] /\ ident' \in [Dir -> Nat]
    BY <1>5 DEF RemoveDir
  <2>4. journal' \in JournalType /\ Journalled
    BY <1>2, <2>0, <2>2
  <2> QED BY <2>3, <2>4
<1>6. ASSUME NEW d \in Dir \ {Root}, NEW frn \in 2 .. MaxFrn, MakeDir(d, frn) PROVE DriveTypes' /\ Journalled
  <2>1. frn \in Nat /\ d \in Entry /\ Parent[d] \in Dir
    BY Tree, DeltaAssumption
  <2>0. Noted({JournalRecord(frn, Parent[d], TRUE)})
    BY <1>6 DEF MakeDir
  <2>2. {JournalRecord(frn, Parent[d], TRUE)} \in SUBSET Rec
    BY <2>1 DEF JournalRecord, Rec
  <2>3. content' \in [Entry -> Stamp \cup {"absent", "dir"}] /\ ident' \in [Dir -> Nat]
    BY <1>6, <2>1 DEF MakeDir
  <2>4. journal' \in JournalType /\ Journalled
    BY <1>2, <2>0, <2>2
  <2> QED BY <2>3, <2>4
<1>7. ASSUME NEW d \in Dir \ {Root}, NEW e \in Dir \ {Root}, MoveDir(d, e) PROVE DriveTypes' /\ Journalled
  <2>1. ident[d] \in Nat /\ d \in Entry /\ e \in Entry /\ Parent[d] \in Dir /\ Parent[e] \in Dir
    BY Tree
  <2>2. Noted({JournalRecord(ident[d], Parent[d], TRUE), JournalRecord(ident[d], Parent[e], TRUE)})
    BY <1>7 DEF MoveDir
  <2>3. MayMove(d, e) /\ content' = MovedContent(d, e, content) /\ ident' = MovedIdent(d, e, ident)
    BY <1>7, MoveAllowed
  <2>4. \A n \in Into(d, e) : From(d, e, n) \in Entry /\ (n \in Dir => From(d, e, n) \in Dir)
    BY <2>1, <2>3, MovePlaces DEF Beneath
  <2>5. content' \in [Entry -> Stamp \cup {"absent", "dir"}] /\ ident' \in [Dir -> Nat]
    BY <2>3, <2>4 DEF MovedContent, MovedIdent
  <2>6. {JournalRecord(ident[d], Parent[d], TRUE), JournalRecord(ident[d], Parent[e], TRUE)} \in SUBSET Rec
    BY <2>1 DEF JournalRecord, Rec
  <2>7. journal' \in JournalType /\ Journalled
    BY <1>2, <2>2, <2>6
  <2> QED BY <2>5, <2>7
<1> QED BY <1>1, <1>4, <1>5, <1>6, <1>7 DEF DriveChanges

LEMMA DriveRuled == ASSUME DriveInv, DriveChanges PROVE DriveRules'
<1> USE DEF DriveInv, DriveTypes, DriveRules, IsDir
<1>0. {"absent", "dir"} \cap Stamp = {}
  BY StampAssumption
<1>1. CASE PurgeJournal \/ RecreateJournal
  BY <1>1 DEF PurgeJournal, RecreateJournal
<1>2. ASSUME NEW n \in Entry, NEW s \in Stamp \cup {"absent"}, n \notin Dir, IsDir(Parent[n]),
             content' = [content EXCEPT ![n] = s], ident' = ident
      PROVE  DriveRules'
  BY <1>0, <1>2, Tree
<1>3. ASSUME NEW n \in Entry, RemoveFile(n) PROVE DriveRules'
  <2>1. content[n] \in Stamp
    BY <1>3 DEF RemoveFile
  <2>2. n \notin Dir /\ IsDir(Parent[n])
    BY <1>0, <2>1
  <2> QED BY <1>2, <1>3, <2>2 DEF RemoveFile
<1>4. ASSUME NEW n \in Entry, NEW s \in Stamp, PutFile(n, s) PROVE DriveRules'
  BY <1>2, <1>4 DEF PutFile
<1>5. ASSUME NEW d \in Dir \ {Root}, RemoveDir(d) PROVE DriveRules'
  <2>1. /\ content' = [content EXCEPT ![d] = "absent"] /\ ident' = [ident EXCEPT ![d] = 0] /\ d \in Entry
        /\ \A n \in Entry : Parent[n] = d => content[n] = "absent"
    BY <1>5, Tree DEF RemoveDir, Present, Children, Entry
  <2> QED BY <1>0, <2>1, Tree
<1>6. ASSUME NEW d \in Dir \ {Root}, NEW frn \in (2 .. MaxFrn) \ {ident[x] : x \in Dir}, MakeDir(d, frn)
      PROVE  DriveRules'
  <2>1. /\ content' = [content EXCEPT ![d] = "dir"] /\ ident' = [ident EXCEPT ![d] = frn] /\ d \in Entry
        /\ content[d] = "absent" /\ IsDir(Parent[d]) /\ frn # 0
    BY <1>6, Tree, DeltaAssumption DEF MakeDir
  <2>2. \A x \in Dir : ident[x] # frn
    OBVIOUS
  <2> QED BY <1>0, <2>1, <2>2, Tree
<1>7. ASSUME NEW d \in Dir \ {Root}, NEW e \in Dir \ {Root}, MoveDir(d, e) PROVE DriveRules'
  <2>1. /\ MayMove(d, e) /\ content[d] = "dir" /\ content[e] = "absent" /\ IsDir(Parent[e])
        /\ content' = MovedContent(d, e, content) /\ ident' = MovedIdent(d, e, ident)
    BY <1>7, MoveAllowed
  <2>2. /\ \A n \in Entry : content'[n] = IF n \in Into(d, e) THEN content[From(d, e, n)]
                                          ELSE IF n \in OutOf(d, e) THEN "absent" ELSE content[n]
        /\ \A x \in Dir : ident'[x] = IF x \in Into(d, e) THEN ident[From(d, e, x)]
                                      ELSE IF x \in OutOf(d, e) THEN 0 ELSE ident[x]
    BY <2>1 DEF MovedContent, MovedIdent
  <2>3. \A n \in Into(d, e) : From(d, e, n) \in Entry /\ (n \in Dir <=> From(d, e, n) \in Dir)
    BY <2>1, MovePlaces, Tree DEF Beneath
  <2>4. \A n \in Entry : content'[n] \in (IF n \in Dir THEN {"dir"} ELSE Stamp) \cup {"absent"}
    BY <2>2, <2>3
  <2>5. ASSUME NEW n \in Entry, content'[n] # "absent" PROVE IsDir(Parent[n])'
    <3>1. CASE n = e
      <4>1. Parent[e] \notin Into(d, e) \cup OutOf(d, e)
        BY <2>1, MovePlaces
      <4> QED BY <2>1, <2>2, <3>1, <4>1, Tree DEF Entry
    <3>2. CASE n \in Beneath(e)
      <4>1. Parent[n] \in Into(d, e) /\ Parent[From(d, e, n)] = From(d, e, Parent[n]) /\ n \in Into(d, e)
        BY <2>1, <3>2, MovePlaces
      <4>2. content[From(d, e, n)] # "absent" /\ From(d, e, n) \in Entry
        BY <2>2, <2>3, <2>5, <4>1
      <4>3. From(d, e, Parent[n]) # Root /\ Parent[n] # Root /\ Parent[n] \in Entry
        BY <2>1, <2>3, <4>1, MovePlaces DEF Entry
      <4>4. content[From(d, e, Parent[n])] = "dir"
        BY <4>1, <4>2, <4>3
      <4> QED BY <2>2, <4>1, <4>3, <4>4
    <3>3. CASE n \notin Into(d, e)
      <4>1. n \notin OutOf(d, e) /\ content[n] # "absent"
        BY <2>2, <2>5, <3>3
      <4>2. Parent[n] \notin Into(d, e) \cup OutOf(d, e)
        BY <2>1, <3>3, <4>1, MovePlaces
      <4> QED BY <2>2, <4>1, <4>2, Tree DEF Entry
    <3> QED BY <2>1, <3>1, <3>2, <3>3, MovePlaces
  <2>6. ASSUME NEW x \in Dir PROVE ident'[x] # 0 <=> IsDir(x)'
    <3>1. Root \notin Into(d, e) \cup OutOf(d, e)
      BY <2>1, MovePlaces DEF Entry
    <3>2. x \in Into(d, e) => From(d, e, x) \in Dir /\ From(d, e, x) # Root
      BY <2>3 DEF Entry
    <3> QED BY <2>2, <3>1, <3>2, Tree DEF Entry
  <2>7. ASSUME NEW x \in Dir, NEW y \in Dir, ident'[x] = ident'[y], ident'[x] # 0 PROVE x = y
    <3>1. CASE x \in Into(d, e) /\ y \in Into(d, e)
      BY <2>1, <2>2, <2>3, <2>7, <3>1, MovePlaces
    <3>2. CASE x \notin Into(d, e) /\ y \notin Into(d, e)
      BY <2>2, <2>7, <3>2
    <3>3. ASSUME NEW u \in Dir, NEW v \in Dir, u \in Into(d, e), v \notin Into(d, e), ident'[u] = ident'[v], ident'[u] # 0
          PROVE FALSE
      <4>1. v \notin OutOf(d, e) /\ ident[v] = ident[From(d, e, u)]
        BY <2>2, <3>3
      <4>2. From(d, e, u) \in OutOf(d, e) /\ From(d, e, u) \in Dir
        BY <2>1, <2>3, <3>3, MovePlaces
      <4> QED BY <2>2, <3>3, <4>1, <4>2
    <3> QED BY <2>7, <3>1, <3>2, <3>3
  <2> QED BY <2>4, <2>5, <2>6, <2>7
<1> QED BY <1>1, <1>3, <1>4, <1>5, <1>6, <1>7 DEF DriveChanges

(* A cursor into this journal or an older one. *)
Placed(c) ==
    /\ c.id <= journal.id
    /\ c.id = journal.id => c.next <= NextUsn

LEMMA StillUsable ==
    ASSUME DriveTypes, DriveTypes', Journalled, NEW c \in [id : Nat, next : Nat], Placed(c)
    PROVE  /\ Placed(c)'
           /\ Usable(c)' => /\ Usable(c) /\ c.next \in 1 .. NextUsn /\ Named(c.next) \subseteq Named(c.next)'
                            /\ \/ UNCHANGED <<content, ident>>
                               \/ \E R \in SUBSET Rec : journal'.records = Append(journal.records, R)
<1> USE DEF DriveTypes, Placed, Usable, NextUsn
<1>1. CASE /\ journal'.id = journal.id /\ journal'.records = journal.records
           /\ journal'.low = NextUsn /\ journal.low < NextUsn /\ UNCHANGED <<content, ident>>
  BY <1>1 DEF Named
<1>2. CASE journal.id = 1 /\ journal'.id = 2 /\ UNCHANGED <<content, ident>>
  BY <1>2
<1>3. ASSUME journal'.id = journal.id, journal'.low = journal.low,
             NEW R \in SUBSET Rec, journal'.records = Append(journal.records, R)
      PROVE  /\ Placed(c)'
             /\ Usable(c)' => /\ Usable(c) /\ c.next \in 1 .. NextUsn /\ Named(c.next) \subseteq Named(c.next)'
  <2>1. Len(journal'.records) = Len(journal.records) + 1
    BY <1>3
  <2>2. Placed(c)' /\ (Usable(c)' => Usable(c) /\ c.next \in 1 .. NextUsn)
    BY <1>3, <2>1
  <2>3. c.next \in 1 .. Len(journal.records) + 1 => Named(c.next) \subseteq Named(c.next)'
    <3>1. ASSUME NEW u \in 1 .. Len(journal.records) + 1
          PROVE  Touched(Since(Append(journal.records, R), u)) = Touched(Since(journal.records, u)) \cup Touched(R)
      BY AppendNames
    <3> QED BY <1>3, <3>1 DEF Named
  <2> QED BY <2>2, <2>3
<1> QED BY <1>1, <1>2, <1>3 DEF Journalled

LEMMA NotedNames ==
    ASSUME DriveTypes, NEW u \in 1 .. NextUsn, NEW R \in SUBSET Rec, Noted(R)
    PROVE  Named(u)' = Named(u) \cup Touched(R)
<1>1. journal'.records = Append(journal.records, R)
  BY DEF Noted, DriveTypes
<1> QED BY <1>1, AppendNames DEF DriveTypes, NextUsn, Named

LEMMA DriveKeepsRight ==
    ASSUME DriveInv, DriveChanges, NEW c \in [id : Nat, next : Nat], Placed(c), Usable(c)',
           NEW facts, NEW rows \in SUBSET Dir, NEW number,
           Usable(c) => AllRight(facts, rows, number, content, ident, Named(c.next))
    PROVE  AllRight(facts, rows, number, content', ident', Named(c.next)')
<1>1. DriveTypes /\ DriveTypes' /\ Journalled
  BY DriveTyped DEF DriveInv
<1>2. /\ Usable(c) /\ c.next \in 1 .. NextUsn /\ Named(c.next) \subseteq Named(c.next)'
      /\ AllRight(facts, rows, number, content, ident, Named(c.next))
  BY <1>1, StillUsable
<1>3. {"absent", "dir"} \cap Stamp = {}
  BY StampAssumption
<1> DEFINE names == Named(c.next)
           more == Named(c.next)'
<1> HIDE DEF names, more
<1>4. names \subseteq more /\ AllRight(facts, rows, number, content, ident, names)
  BY <1>2 DEF names, more
<1>5. ASSUME NEW R \in SUBSET Rec, Noted(R) PROVE Touched(R) \subseteq more
  BY <1>1, <1>2, <1>5, NotedNames DEF more
<1>6. CASE PurgeJournal \/ RecreateJournal
  <2>1. content' = content /\ ident' = ident
    BY <1>6 DEF PurgeJournal, RecreateJournal
  <2>2. AllRight(facts, rows, number, content, ident, more)
    BY <1>4 DEF AllRight
  <2> QED BY <2>1, <2>2 DEF more
<1>7. ASSUME NEW n \in Entry, RemoveFile(n) \/ \E s \in Stamp : PutFile(n, s)
      PROVE  AllRight(facts, rows, number, content', ident', more)
  <2>1. Noted({JournalRecord(0, Parent[n], FALSE)}) /\ ident' = ident
    BY <1>7 DEF RemoveFile, PutFile
  <2>2. PICK s : content' = [content EXCEPT ![n] = s]
    BY <1>7 DEF RemoveFile, PutFile
  <2>3. {JournalRecord(0, Parent[n], FALSE)} \in SUBSET Rec
    BY <1>1, Tree DEF JournalRecord, Rec, DriveTypes
  <2>4. ident[Parent[n]] \in Touched({JournalRecord(0, Parent[n], FALSE)})
    BY DEF Touched, JournalRecord
  <2>5. ident[Parent[n]] \in more
    BY <1>5, <2>1, <2>3, <2>4
  <2> QED BY <1>4, <2>1, <2>2, <2>5, FileChangeRight
<1>8. ASSUME NEW d \in Dir \ {Root}, RemoveDir(d) PROVE AllRight(facts, rows, number, content', ident', more)
  <2>1. /\ content' = [content EXCEPT ![d] = "absent"] /\ ident' = [ident EXCEPT ![d] = 0]
        /\ content[d] = "dir" /\ ident \in [Dir -> Nat]
    BY <1>1, <1>8 DEF RemoveDir, DriveTypes
  <2> QED BY <1>3, <1>4, <2>1, DirChangeRight
<1>9. ASSUME NEW d \in Dir \ {Root}, NEW frn \in 2 .. MaxFrn, MakeDir(d, frn)
      PROVE  AllRight(facts, rows, number, content', ident', more)
  <2>1. /\ content' = [content EXCEPT ![d] = "dir"] /\ ident' = [ident EXCEPT ![d] = frn]
        /\ content[d] = "absent" /\ ident \in [Dir -> Nat] /\ Noted({JournalRecord(frn, Parent[d], TRUE)})
    BY <1>1, <1>9 DEF MakeDir, DriveTypes
  <2>2. {JournalRecord(frn, Parent[d], TRUE)} \in SUBSET Rec
    BY <1>1, Tree, DeltaAssumption DEF JournalRecord, Rec, DriveTypes
  <2>3. frn \in Touched({JournalRecord(frn, Parent[d], TRUE)})
    BY DEF Touched, JournalRecord
  <2>4. frn \in more
    BY <1>5, <2>1, <2>2, <2>3
  <2> QED BY <1>3, <1>4, <2>1, <2>4, DirChangeRight
<1>10. ASSUME NEW d \in Dir \ {Root}, NEW e \in Dir \ {Root}, MoveDir(d, e)
       PROVE  AllRight(facts, rows, number, content', ident', more)
  <2>1. /\ MayMove(d, e) /\ content[d] = "dir" /\ content[e] = "absent"
        /\ content' = MovedContent(d, e, content) /\ ident' = MovedIdent(d, e, ident)
    BY <1>10, MoveAllowed
  <2>2. content \in [Entry -> Stamp \cup {"absent", "dir"}]
    BY <1>1 DEF DriveTypes
  <2>3. AllRight(facts, rows, number, MovedContent(d, e, content), MovedIdent(d, e, ident), more)
    BY <1>4, <2>1, <2>2, MoveRight
  <2> QED BY <2>1, <2>3
<1> QED BY <1>6, <1>7, <1>8, <1>9, <1>10 DEF DriveChanges, more

-----------------------------------------------------------------------------
(* The invariant *)

Targets == UNION {[S -> Dir] : S \in SUBSET (Nat \ {0})}

Job == [at : {"listing", "merge", "cursor"}, id : 1 .. MaxScans, target : Targets,
        journal : Nat, next : Nat, dirs : [Dir -> DirRow], files : [Entry -> FileRow],
        frnOf : [Dir -> Nat], staged : [Entry -> Facts \cup {"none"}],
        listed : SUBSET Dir, walked : SUBSET Dir, doubtful : SUBSET Dir]

RowTypes ==
    /\ dirs \in [Dir -> DirRow] /\ files \in [Entry -> FileRow] /\ frnOf \in [Dir -> Nat]
    /\ cursor \in [id : Nat, next : Nat] /\ scans \in 0 .. MaxScans
    /\ leftOut \in SUBSET Dir /\ delta \in {Quiet} \cup Job

(* A directory without a row has no number, and no rows beneath it. *)
Rooted(rows, number) ==
    /\ \A d \in Dir : rows[d].st = "none" => number[d] = 0
    /\ \A d \in Dir \ {Root} : rows[d].st # "none" => rows[Parent[d]].st # "none"

RowRules ==
    /\ Rooted(dirs, frnOf)
    /\ \A n \in Entry : files[n].seen <= scans
    /\ Placed(cursor)

LiveRows(rows) == {d \in Dir : rows[d].st = "live"}

(* What the catalog tells is right, for the cursor that it has. *)
Vouched ==
    Usable(cursor) =>
        AllRight(LiveFacts(files), LiveRows(dirs) \ leftOut, frnOf, content, ident, Named(cursor.next))

(* The cursor that the delta will store. *)
Stored == [id |-> delta.journal, next |-> delta.next]

Begun ==
    delta # Quiet =>
        /\ delta.id = scans /\ delta.journal = cursor.id /\ cursor.next <= delta.next
        /\ Placed(Stored)

Pending == {delta.target[f] : f \in DOMAIN delta.target}
Sure == delta.listed \ delta.doubtful

(* What was listed, and how it differs from what is committed. *)
Gathered ==
    delta.at = "listing" =>
        /\ \A f \in DOMAIN delta.target : frnOf[delta.target[f]] = f
        /\ Pending \cap delta.listed = {}
        /\ Rooted(delta.dirs, delta.frnOf)
        /\ \A d \in Dir : dirs[d].st # "none" \/ d \in delta.listed => delta.dirs[d].st # "none"
        /\ \A n \in Entry : delta.files[n].seen < delta.id
        /\ \A d \in Dir \ (delta.doubtful \cup delta.walked) :
             /\ delta.frnOf[d] = frnOf[d]
             /\ d \notin delta.listed /\ delta.dirs[d].st = "live" =>
                  dirs[d].st = "live" /\ \A n \in Children(d) : delta.files[n] = files[n]
        /\ Usable(cursor) => \A d \in Pending : frnOf[d] \in Named(cursor.next)

(* Whatever the delta listed on account of a record, a record names. *)
Staging ==
    delta.at \in {"listing", "merge"} =>
        /\ delta.walked \subseteq delta.listed
        /\ \A n \in Entry : delta.staged[n] # "none" => Parent[n] \in delta.listed
        /\ Usable(cursor) => \A d \in Sure \ delta.walked : frnOf[d] \in Named(cursor.next)

(* What was listed is right, and what need not be, for the cursor to come. *)
ListingVouched ==
    delta.at = "listing" /\ Usable(Stored) =>
        /\ AllRight(StagedFacts(delta.staged), Sure, delta.frnOf, content, ident, Named(delta.next))
        /\ AllRight(LiveFacts(delta.files),
                    LiveRows(delta.dirs) \ (delta.listed \cup Pending \cup leftOut \cup delta.doubtful),
                    delta.frnOf, content, ident, Named(delta.next))

MergeVouched ==
    delta.at = "merge" =>
        /\ delta.doubtful \cup delta.walked \subseteq leftOut
        /\ \A n \in Entry : files[n].seen < delta.id
        /\ Usable(Stored) =>
             /\ AllRight(StagedFacts(delta.staged), Sure, frnOf, content, ident, Named(delta.next))
             /\ AllRight(LiveFacts(files), LiveRows(dirs) \ (delta.listed \cup leftOut), frnOf,
                         content, ident, Named(delta.next))

CursorVouched ==
    delta.at = "cursor" /\ Usable(Stored) =>
        AllRight(LiveFacts(files), LiveRows(dirs) \ leftOut, frnOf, content, ident, Named(delta.next))

DeltaInv ==
    /\ DriveInv /\ RowTypes /\ RowRules /\ Vouched
    /\ Begun /\ Gathered /\ Staging /\ ListingVouched /\ MergeVouched /\ CursorVouched

LEMMA JobOrQuiet ==
    ASSUME RowTypes
    PROVE  /\ delta # Quiet <=> delta \in Job
           /\ delta.at \in {"listing", "merge", "cursor"} <=> delta \in Job
           /\ delta \in Job => Stored \in [id : Nat, next : Nat]
BY DEF RowTypes, Job, Quiet, Stored

LEMMA DeltaStart == DeltaInit => DeltaInv
<1> SUFFICES ASSUME DeltaInit PROVE DeltaInv
  OBVIOUS
<1> USE DEF DeltaInit
<1>1. PICK number \in [{d \in Dir \ {Root} : Content0[d] = "dir"} -> 2 .. MaxFrn] :
        /\ \A x, y \in DOMAIN number : number[x] = number[y] => x = y
        /\ ident = [d \in Dir |-> IF d = Root THEN RootFrn
                                  ELSE IF d \in DOMAIN number THEN number[d] ELSE 0]
  OBVIOUS
<1>2. \A x \in DOMAIN number : number[x] \in Nat /\ number[x] >= 2
  BY <1>1, DeltaAssumption
<1>3. DriveInv
  <2>1. DriveTypes
    <3>1. journal \in [id : {1, 2}, records : Seq(SUBSET Rec), low : Nat \ {0}]
      OBVIOUS
    <3>2. ident \in [Dir -> Nat]
      BY <1>1, <1>2 DEF RootFrn
    <3> QED BY <3>1, <3>2, DeltaAssumption DEF DriveTypes
  <2>2. \A d \in Dir : ident[d] # 0 <=> IsDir(d)
    BY <1>1, <1>2 DEF IsDir, RootFrn
  <2>3. \A d, e \in Dir : ident[d] = ident[e] /\ ident[d] # 0 => d = e
    BY <1>1, <1>2 DEF RootFrn
  <2>4. /\ \A n \in Entry : content[n] \in (IF n \in Dir THEN {"dir"} ELSE Stamp) \cup {"absent"}
        /\ \A n \in Entry : content[n] # "absent" => IsDir(Parent[n])
    BY DeltaAssumption DEF IsDir
  <2> QED BY <2>1, <2>2, <2>3, <2>4 DEF DriveInv, DriveRules
<1>4. RowTypes /\ RowRules
  <2>1. NoDirRow \in DirRow /\ NoFileRow \in FileRow
    BY ScanAssumption DEF NoDirRow, NoFileRow, DirRow, FileRow, RowStatus
  <2>2. Placed(cursor) /\ cursor \in [id : Nat, next : Nat]
    BY DEF Placed, Unset
  <2>3. Rooted(dirs, frnOf) /\ \A n \in Entry : files[n].seen <= scans
    BY ScanAssumption DEF Rooted, NoDirRow, NoFileRow
  <2> QED BY <2>1, <2>2, <2>3, ScanAssumption DEF RowTypes, RowRules
<1>5. ~Usable(cursor) /\ delta = Quiet /\ delta.at = "idle"
  BY DEF Usable, Quiet
<1> QED BY <1>3, <1>4, <1>5 DEF DeltaInv, Vouched, Begun, Gathered, Staging, ListingVouched,
                              MergeVouched, CursorVouched

LEMMA DriveHolds == ASSUME DeltaInv, DriveChanges PROVE DeltaInv'
<1>1. DriveInv' /\ Journalled /\ DriveInv /\ DriveTypes /\ DriveTypes'
  BY DriveTyped, DriveRuled DEF DeltaInv, DriveInv
<1>2. UNCHANGED <<dirs, files, frnOf, cursor, scans, delta, leftOut>>
  BY DEF DriveChanges, rowVars
<1>3. RowTypes /\ RowRules /\ cursor \in [id : Nat, next : Nat] /\ Placed(cursor)
  BY DEF DeltaInv, RowTypes, RowRules
<1>4. PICK c \in [id : Nat, next : Nat] : c = cursor
  BY <1>3
<1>5. Placed(c) /\ Placed(c)' /\ (Usable(c)' => Usable(c) /\ Named(c.next) \subseteq Named(c.next)')
  BY <1>1, <1>3, <1>4, StillUsable
<1>6. RowTypes' /\ RowRules'
  BY <1>2, <1>3, <1>4, <1>5 DEF RowTypes, RowRules, Placed
<1>7. /\ Usable(cursor)' => Usable(cursor)
      /\ Usable(cursor)' => Named(cursor.next) \subseteq Named(cursor.next)'
  BY <1>2, <1>4, <1>5 DEF Usable, Named
<1>8. Vouched'
  <2> SUFFICES ASSUME Usable(cursor)'
               PROVE  AllRight(LiveFacts(files), LiveRows(dirs) \ leftOut, frnOf, content, ident, Named(cursor.next))'
    BY DEF Vouched
  <2>1. Usable(c)' /\ LiveRows(dirs) \ leftOut \in SUBSET Dir
    BY <1>2, <1>4 DEF Usable, LiveRows
  <2>2. Usable(c) => AllRight(LiveFacts(files), LiveRows(dirs) \ leftOut, frnOf, content, ident, Named(c.next))
    BY <1>4 DEF DeltaInv, Vouched
  <2>3. AllRight(LiveFacts(files), LiveRows(dirs) \ leftOut, frnOf, content', ident', Named(c.next)')
    BY <1>1, <1>5, <2>1, <2>2, DriveKeepsRight
  <2>4. LiveFacts(files)' = LiveFacts(files) /\ (LiveRows(dirs) \ leftOut)' = LiveRows(dirs) \ leftOut
        /\ Named(c.next)' = Named(cursor.next)'
    BY <1>2, <1>4 DEF LiveFacts, LiveRows, Named
  <2> QED BY <1>2, <2>3, <2>4
<1>9. CASE delta = Quiet
  BY <1>1, <1>2, <1>6, <1>8, <1>9 DEF DeltaInv, Begun, Gathered, Staging, ListingVouched, MergeVouched,
                                    CursorVouched, Quiet
<1>10. CASE delta # Quiet
  <2>1. delta \in Job /\ Stored \in [id : Nat, next : Nat] /\ Placed(Stored) /\ Stored' = Stored
    BY <1>2, <1>3, <1>10, JobOrQuiet DEF DeltaInv, Begun, Stored
  <2>2. PICK s \in [id : Nat, next : Nat] : s = Stored
    BY <2>1
  <2>3. Placed(s) /\ Placed(s)' /\ (Usable(s)' => Usable(s)) /\ s.next = delta.next
    BY <1>1, <2>1, <2>2, StillUsable DEF Stored
  <2>4. Begun'
    BY <1>2, <2>1, <2>2, <2>3 DEF DeltaInv, Begun, Placed
  <2>5. Gathered' /\ Staging'
    <3>1. Rooted(delta.dirs, delta.frnOf)' = Rooted(delta.dirs, delta.frnOf) /\ Pending' = Pending /\ Sure' = Sure
      BY <1>2 DEF Rooted, Pending, Sure
    <3>2. Gathered'
      BY <1>2, <1>7, <3>1 DEF DeltaInv, Gathered
    <3>3. Staging'
      BY <1>2, <1>7, <3>1 DEF DeltaInv, Staging
    <3> QED BY <3>2, <3>3
  <2>6. (Usable(Stored)' => Usable(s)') /\ Named(delta.next)' = Named(s.next)'
    BY <1>2, <2>1, <2>2, <2>3 DEF Usable, Named
  <2>7. ASSUME Usable(s)', NEW facts, NEW rows \in SUBSET Dir, NEW number,
               Usable(Stored) => AllRight(facts, rows, number, content, ident, Named(delta.next))
        PROVE  AllRight(facts, rows, number, content', ident', Named(s.next)')
    <3>1. Usable(s) => AllRight(facts, rows, number, content, ident, Named(s.next))
      BY <2>2, <2>3, <2>7 DEF Usable
    <3> QED BY <1>1, <2>3, <2>7, <3>1, DriveKeepsRight
  <2>8. Sure \in SUBSET Dir
    BY <2>1 DEF Job, Sure
  <2>9. ListingVouched'
    <3> DEFINE rest == LiveRows(delta.dirs) \ (delta.listed \cup Pending \cup leftOut \cup delta.doubtful)
    <3> SUFFICES ASSUME (delta.at = "listing" /\ Usable(Stored))'
                 PROVE  /\ AllRight(StagedFacts(delta.staged), Sure, delta.frnOf, content, ident, Named(delta.next))'
                        /\ AllRight(LiveFacts(delta.files), rest, delta.frnOf, content, ident, Named(delta.next))'
      BY DEF ListingVouched
    <3>1. rest \in SUBSET Dir
      BY DEF LiveRows
    <3>2. StagedFacts(delta.staged)' = StagedFacts(delta.staged) /\ LiveFacts(delta.files)' = LiveFacts(delta.files)
          /\ Sure' = Sure /\ rest' = rest /\ delta' = delta
      BY <1>2 DEF StagedFacts, LiveFacts, Sure, LiveRows, Pending
    <3>3. /\ Usable(Stored) => AllRight(StagedFacts(delta.staged), Sure, delta.frnOf, content, ident, Named(delta.next))
          /\ Usable(Stored) => AllRight(LiveFacts(delta.files), rest, delta.frnOf, content, ident, Named(delta.next))
      BY <3>2 DEF DeltaInv, ListingVouched
    <3>4. Usable(s)'
      BY <2>6
    <3> HIDE DEF rest
    <3>5. AllRight(StagedFacts(delta.staged), Sure, delta.frnOf, content', ident', Named(s.next)')
      BY <2>7, <2>8, <3>3, <3>4
    <3>6. AllRight(LiveFacts(delta.files), rest, delta.frnOf, content', ident', Named(s.next)')
      BY <2>7, <3>1, <3>3, <3>4
    <3> QED BY <2>6, <3>2, <3>5, <3>6
  <2>10. MergeVouched'
    <3> DEFINE rest == LiveRows(dirs) \ (delta.listed \cup leftOut)
    <3>0. delta.at' = "merge" =>
             delta.doubtful' \cup delta.walked' \subseteq leftOut' /\ \A n \in Entry : files'[n].seen < delta'.id
      BY <1>2 DEF DeltaInv, MergeVouched
    <3> SUFFICES ASSUME (delta.at = "merge")', Usable(Stored)'
                 PROVE  /\ AllRight(StagedFacts(delta.staged), Sure, frnOf, content, ident, Named(delta.next))'
                        /\ AllRight(LiveFacts(files), rest, frnOf, content, ident, Named(delta.next))'
      BY <3>0 DEF MergeVouched
    <3>1. rest \in SUBSET Dir
      BY DEF LiveRows
    <3>2. StagedFacts(delta.staged)' = StagedFacts(delta.staged) /\ LiveFacts(files)' = LiveFacts(files)
          /\ Sure' = Sure /\ rest' = rest /\ delta' = delta
      BY <1>2 DEF StagedFacts, LiveFacts, Sure, LiveRows
    <3>3. /\ Usable(Stored) => AllRight(StagedFacts(delta.staged), Sure, frnOf, content, ident, Named(delta.next))
          /\ Usable(Stored) => AllRight(LiveFacts(files), rest, frnOf, content, ident, Named(delta.next))
      BY <3>2 DEF DeltaInv, MergeVouched
    <3>4. Usable(s)'
      BY <2>6
    <3> HIDE DEF rest
    <3>5. AllRight(StagedFacts(delta.staged), Sure, frnOf, content', ident', Named(s.next)')
      BY <2>7, <2>8, <3>3, <3>4
    <3>6. AllRight(LiveFacts(files), rest, frnOf, content', ident', Named(s.next)')
      BY <2>7, <3>1, <3>3, <3>4
    <3> QED BY <1>2, <2>6, <3>2, <3>5, <3>6
  <2>11. CursorVouched'
    <3> DEFINE rest == LiveRows(dirs) \ leftOut
    <3> SUFFICES ASSUME (delta.at = "cursor" /\ Usable(Stored))'
                 PROVE  AllRight(LiveFacts(files), rest, frnOf, content, ident, Named(delta.next))'
      BY DEF CursorVouched
    <3>1. rest \in SUBSET Dir
      BY DEF LiveRows
    <3>2. LiveFacts(files)' = LiveFacts(files) /\ rest' = rest /\ delta' = delta
      BY <1>2 DEF LiveFacts, LiveRows
    <3>3. Usable(Stored) => AllRight(LiveFacts(files), rest, frnOf, content, ident, Named(delta.next))
      BY <3>2 DEF DeltaInv, CursorVouched
    <3>4. Usable(s)'
      BY <2>6
    <3> HIDE DEF rest
    <3>5. AllRight(LiveFacts(files), rest, frnOf, content', ident', Named(s.next)')
      BY <2>7, <3>1, <3>3, <3>4
    <3> QED BY <1>2, <2>6, <3>2, <3>5
  <2> QED BY <1>1, <1>6, <1>8, <2>4, <2>5, <2>9, <2>10, <2>11 DEF DeltaInv
<1> QED BY <1>9, <1>10

-----------------------------------------------------------------------------
(* What scans do *)

LEMMA DriveStands == ASSUME DriveInv, UNCHANGED driveVars PROVE DriveInv'
BY DEF DriveInv, DriveTypes, DriveRules, IsDir, driveVars

LEMMA StoreHolds == ASSUME DeltaInv, StoreCursor PROVE DeltaInv'
<1>1. /\ delta.at = "cursor" /\ cursor' = Stored /\ delta' = Quiet
      /\ UNCHANGED <<content, ident, journal, dirs, files, frnOf, scans, leftOut>> /\ UNCHANGED driveVars
  BY DEF StoreCursor, Storable, Resume, Stored, rowVars, driveVars
<1>2. DriveInv' /\ RowTypes /\ RowRules /\ Begun /\ CursorVouched
  BY <1>1, DriveStands DEF DeltaInv
<1>3. Stored \in [id : Nat, next : Nat] /\ Placed(Stored) /\ Stored.next = delta.next
  BY <1>1, <1>2, JobOrQuiet DEF Begun, Stored, Quiet
<1>4. RowTypes' /\ RowRules'
  BY <1>1, <1>2, <1>3 DEF RowTypes, RowRules, Rooted, Placed, NextUsn
<1>5. Vouched'
  <2>1. Usable(cursor)' <=> Usable(Stored)
    BY <1>1 DEF Usable, NextUsn
  <2>2. Named(cursor.next)' = Named(delta.next) /\ LiveFacts(files)' = LiveFacts(files)
        /\ (LiveRows(dirs) \ leftOut)' = LiveRows(dirs) \ leftOut
    BY <1>1, <1>3 DEF Named, LiveFacts, LiveRows
  <2> QED BY <1>1, <1>2, <2>1, <2>2 DEF Vouched, CursorVouched
<1> QED BY <1>1, <1>2, <1>4, <1>5 DEF DeltaInv, Begun, Gathered, Staging, ListingVouched, MergeVouched,
                                    CursorVouched, Quiet

LEMMA CrashHolds == ASSUME DeltaInv, CrashDelta PROVE DeltaInv'
<1>1. /\ delta' = Quiet
      /\ UNCHANGED <<content, ident, journal, dirs, files, frnOf, cursor, scans, leftOut>> /\ UNCHANGED driveVars
  BY DEF CrashDelta, rowVars, driveVars
<1>2. DriveInv' /\ RowTypes /\ RowRules /\ Vouched
  BY <1>1, DriveStands DEF DeltaInv
<1>3. RowTypes' /\ RowRules'
  BY <1>1, <1>2 DEF RowTypes, RowRules, Rooted, Placed, NextUsn
<1>4. Vouched'
  BY <1>1, <1>2 DEF Vouched, Usable, NextUsn, Named, LiveFacts, LiveRows
<1> QED BY <1>1, <1>2, <1>3, <1>4 DEF DeltaInv, Begun, Gathered, Staging, ListingVouched, MergeVouched,
                                    CursorVouched, Quiet

LEMMA StutterHolds == ASSUME DeltaInv, UNCHANGED deltaVars PROVE DeltaInv'
<1>1. UNCHANGED <<content, ident, journal, dirs, files, frnOf, cursor, scans, delta, leftOut>>
  BY DEF deltaVars, driveVars, rowVars
<1> USE <1>1
<1>2. DriveInv'
  BY DriveStands DEF DeltaInv, driveVars
<1>3. RowTypes' /\ RowRules'
  BY DEF DeltaInv, RowTypes, RowRules, Rooted, Placed, NextUsn
<1>4. Vouched'
  BY DEF DeltaInv, Vouched, Usable, NextUsn, Named, LiveFacts, LiveRows
<1>5. Begun'
  BY DEF DeltaInv, Begun, Placed, Stored, NextUsn
<1>6. Gathered'
  BY DEF DeltaInv, Gathered, Pending, Rooted, Usable, NextUsn, Named
<1>7. Staging'
  BY DEF DeltaInv, Staging, Sure, Usable, NextUsn, Named
<1>8. ListingVouched'
  BY DEF DeltaInv, ListingVouched, Stored, Sure, Pending, LiveRows, LiveFacts, StagedFacts, Usable, NextUsn, Named
<1>9. MergeVouched'
  BY DEF DeltaInv, MergeVouched, Stored, Sure, LiveRows, LiveFacts, StagedFacts, Usable, NextUsn, Named
<1>10. CursorVouched'
  BY DEF DeltaInv, CursorVouched, Stored, LiveRows, LiveFacts, Usable, NextUsn, Named
<1> QED BY <1>2, <1>3, <1>4, <1>5, <1>6, <1>7, <1>8, <1>9, <1>10 DEF DeltaInv

LEMMA CommitHolds == ASSUME DeltaInv, CommitListing PROVE DeltaInv'
<1>1. /\ delta.at = "listing" /\ Pending = {}
      /\ dirs' = delta.dirs /\ files' = delta.files /\ frnOf' = delta.frnOf
      /\ delta' = [delta EXCEPT !.at = "merge"]
      /\ leftOut' = leftOut \cup delta.doubtful \cup delta.walked
      /\ UNCHANGED <<content, ident, journal, cursor, scans>> /\ UNCHANGED driveVars
  BY DEF CommitListing, rowVars, driveVars, Pending
<1>2. DriveInv' /\ RowTypes /\ RowRules /\ Begun /\ Gathered /\ Staging /\ ListingVouched /\ Vouched
  BY <1>1, DriveStands DEF DeltaInv
<1>3. delta \in Job
  BY <1>1, <1>2, JobOrQuiet
<1>4. PICK job : job = delta'
  OBVIOUS
<1>5. /\ job \in Job /\ job # Quiet /\ job.at = "merge" /\ job.id = delta.id /\ job.journal = delta.journal
      /\ job.next = delta.next /\ job.staged = delta.staged
      /\ job.listed = delta.listed /\ job.walked = delta.walked /\ job.doubtful = delta.doubtful
  <2>1. job = [delta EXCEPT !.at = "merge"]
    BY <1>1, <1>4
  <2>2. job \in Job /\ job.at = "merge"
    BY <1>3, <2>1 DEF Job
  <2>3. job # Quiet
    BY <2>2 DEF Quiet
  <2> QED BY <1>3, <2>1, <2>2, <2>3 DEF Job
<1>6. delta.id \in Nat /\ delta.id = scans /\ delta # Quiet
  BY <1>2, <1>3, ScanAssumption, JobOrQuiet DEF Job, Begun, Quiet
<1>7. RowTypes'
  BY <1>1, <1>2, <1>3, <1>4, <1>5 DEF RowTypes, Job
<1>8. \A n \in Entry : files'[n].seen < delta.id
  BY <1>1, <1>2 DEF Gathered
<1>9. RowRules'
  <2>1. Rooted(dirs, frnOf)' /\ Placed(cursor)'
    BY <1>1, <1>2 DEF Gathered, RowRules, Rooted, Placed, NextUsn
  <2>2. \A n \in Entry : files'[n].seen <= scans'
    BY <1>1, <1>2, <1>6, <1>8 DEF Gathered, RowTypes, Job, FileRow
  <2> QED BY <2>1, <2>2 DEF RowRules
<1>10. Begun'
  BY <1>1, <1>2, <1>4, <1>5, <1>6 DEF Begun, Placed, Stored, NextUsn
<1>11. /\ Usable(cursor)' = Usable(cursor) /\ Named(cursor.next)' = Named(cursor.next)
       /\ Usable(Stored)' = Usable(Stored) /\ Named(delta.next)' = Named(delta.next)
       /\ StagedFacts(delta.staged)' = StagedFacts(delta.staged) /\ Sure' = Sure
  BY <1>1, <1>4, <1>5 DEF Usable, NextUsn, Named, Stored, StagedFacts, Sure
<1>12. \A d \in Sure \ delta.walked : delta.frnOf[d] = frnOf[d]
  BY <1>1, <1>2, <1>3 DEF Gathered, Sure, Job
<1>13. Vouched'
  <2> SUFFICES ASSUME Usable(cursor)', NEW d \in (LiveRows(dirs) \ leftOut)' \ {Root}, NEW y \in Dir \ {Root},
                      ident[y] # 0, delta.frnOf[d] = ident[y], ident[y] \notin Named(cursor.next)
               PROVE  Right(LiveFacts(files)', d, content, y)
    BY <1>1, <1>11 DEF Vouched, AllRight
  <2>1. d \in Dir /\ d \notin leftOut \cup delta.doubtful \cup delta.walked /\ delta.dirs[d].st = "live"
    BY <1>1 DEF LiveRows
  <2>2. d \notin delta.listed
    BY <1>2, <1>1, <1>11, <1>12, <2>1 DEF Staging, Sure
  <2>3. frnOf[d] = ident[y] /\ dirs[d].st = "live" /\ \A n \in Children(d) : delta.files[n] = files[n]
    BY <1>1, <1>2, <2>1, <2>2 DEF Gathered
  <2>4. Right(LiveFacts(files), d, content, y)
    BY <1>2, <1>11, <2>1, <2>3 DEF Vouched, AllRight, LiveRows
  <2>5. \A n \in Children(d) : LiveFacts(files)'[n] = LiveFacts(files)[n]
    BY <1>1, <2>3 DEF LiveFacts, Children
  <2> QED BY <2>4, <2>5 DEF Right
<1>14. Staging'
  <2>1. \A d \in Sure \ delta.walked : frnOf'[d] = frnOf[d]
    BY <1>1, <1>12
  <2> QED BY <1>1, <1>2, <1>4, <1>5, <1>11, <2>1 DEF Staging
<1>15. MergeVouched'
  <2>1. delta.doubtful' \cup delta.walked' \subseteq leftOut' /\ \A n \in Entry : files'[n].seen < delta'.id
    BY <1>1, <1>4, <1>5, <1>8
  <2>2. ASSUME Usable(Stored)'
        PROVE  AllRight(StagedFacts(delta.staged), Sure, frnOf, content, ident, Named(delta.next))'
    BY <1>1, <1>2, <1>11, <2>2 DEF ListingVouched
  <2>3. ASSUME Usable(Stored)'
        PROVE  AllRight(LiveFacts(files), LiveRows(dirs) \ (delta.listed \cup leftOut), frnOf, content, ident,
                        Named(delta.next))'
    <3>1. AllRight(LiveFacts(delta.files),
                   LiveRows(delta.dirs) \ (delta.listed \cup Pending \cup leftOut \cup delta.doubtful),
                   delta.frnOf, content, ident, Named(delta.next))
      BY <1>1, <1>2, <1>11, <2>3 DEF ListingVouched
    <3>2. (LiveRows(dirs) \ (delta.listed \cup leftOut))'
            \subseteq LiveRows(delta.dirs) \ (delta.listed \cup Pending \cup leftOut \cup delta.doubtful)
      BY <1>1, <1>4, <1>5 DEF LiveRows
    <3>3. LiveFacts(files)' = LiveFacts(delta.files)
      BY <1>1 DEF LiveFacts
    <3> QED BY <1>1, <1>11, <3>1, <3>2, <3>3 DEF AllRight
  <2> QED BY <2>1, <2>2, <2>3 DEF MergeVouched
<1> QED BY <1>2, <1>4, <1>5, <1>7, <1>9, <1>10, <1>13, <1>14, <1>15
        DEF DeltaInv, Gathered, ListingVouched, CursorVouched

LEMMA NextOfTargets ==
    ASSUME delta \in Job, DOMAIN delta.target # {}
    PROVE  /\ NextTarget \in Pending /\ NextTarget \in Dir /\ LeftTargets \in Targets
           /\ Pending \subseteq {LeftTargets[f] : f \in DOMAIN LeftTargets} \cup {NextTarget}
           /\ {LeftTargets[f] : f \in DOMAIN LeftTargets} \subseteq Pending
           /\ \A f \in DOMAIN LeftTargets : f \in DOMAIN delta.target /\ LeftTargets[f] = delta.target[f]
           /\ Min(DOMAIN delta.target) \in DOMAIN delta.target
           /\ NextTarget = delta.target[Min(DOMAIN delta.target)]
<1>1. PICK S \in SUBSET (Nat \ {0}) : delta.target \in [S -> Dir]
  BY DEF Job, Targets
<1>2. Min(DOMAIN delta.target) \in S
  BY <1>1, MinIsIn
<1>3. LeftTargets \in [S \ {Min(DOMAIN delta.target)} -> Dir]
  BY <1>1 DEF LeftTargets
<1>4. \A f \in S \ {Min(DOMAIN delta.target)} : LeftTargets[f] = delta.target[f]
  BY <1>1 DEF LeftTargets
<1>5. LeftTargets \in Targets
  BY <1>3 DEF Targets
<1> QED BY <1>1, <1>2, <1>3, <1>4, <1>5 DEF Pending, NextTarget

LEMMA BeginHolds == ASSUME DeltaInv, BeginDelta PROVE DeltaInv'
<1>1. /\ delta = Quiet /\ scans < MaxScans /\ Usable(cursor) /\ scans' = scans + 1
      /\ UNCHANGED <<content, ident, journal, dirs, files, frnOf, cursor, leftOut>> /\ UNCHANGED driveVars
  BY DEF BeginDelta, rowVars, driveVars
<1>2. DriveInv /\ DriveTypes /\ DriveInv' /\ RowTypes /\ RowRules /\ Vouched
  BY <1>1, DriveStands DEF DeltaInv, DriveInv
<1>3. /\ cursor \in [id : Nat, next : Nat] /\ cursor.id = journal.id /\ cursor.next <= NextUsn
      /\ NextUsn \in Nat /\ journal.id \in {1, 2} /\ scans \in Nat /\ frnOf \in [Dir -> Nat]
  BY <1>1, <1>2, ScanAssumption DEF RowTypes, DriveTypes, Usable, NextUsn
<1>4. Touched(Unread) = Named(cursor.next)
  BY <1>1, <1>2, <1>3, UnreadNames
<1>5. PICK target \in Resolutions(Touched(Unread)) :
        delta' = [at |-> "listing", id |-> scans + 1,
                  target |-> target, journal |-> journal.id, next |-> NextUsn,
                  dirs |-> dirs, files |-> files, frnOf |-> frnOf,
                  staged |-> [n \in Entry |-> "none"],
                  listed |-> {}, walked |-> {},
                  doubtful |-> {d \in Dir : frnOf[d] \in DOMAIN target /\ target[frnOf[d]] # d}]
  BY DEF BeginDelta
<1>6. /\ DOMAIN target = {f \in Named(cursor.next) : \E d \in Dir : frnOf[d] = f /\ f # 0}
      /\ target \in [DOMAIN target -> Dir] /\ \A f \in DOMAIN target : frnOf[target[f]] = f
  BY <1>4, <1>5 DEF Resolutions
<1>7. DOMAIN target \in SUBSET (Nat \ {0}) /\ target \in Targets
  <2>1. DOMAIN target \in SUBSET (Nat \ {0})
    BY <1>3, <1>6
  <2> QED BY <1>6, <2>1 DEF Targets
<1>8. PICK job : job = delta'
  OBVIOUS
<1>9. /\ job.at = "listing" /\ job.id = scans + 1 /\ job.target = target /\ job.journal = journal.id
      /\ job.next = NextUsn /\ job.dirs = dirs /\ job.files = files /\ job.frnOf = frnOf
      /\ job.staged = [n \in Entry |-> "none"] /\ job.listed = {} /\ job.walked = {}
      /\ job.doubtful = {d \in Dir : frnOf[d] \in DOMAIN target /\ target[frnOf[d]] # d}
  BY <1>5, <1>8
<1>10. job \in Job /\ job # Quiet
  <2>1. scans + 1 \in 1 .. MaxScans
    BY <1>1, <1>2, ScanAssumption DEF RowTypes
  <2>2. [n \in Entry |-> "none"] \in [Entry -> Stamp \cup {"none"}]
    OBVIOUS
  <2>3. {d \in Dir : frnOf[d] \in DOMAIN target /\ target[frnOf[d]] # d} \in SUBSET Dir
    OBVIOUS
  <2>4. journal.id \in Nat /\ dirs \in [Dir -> DirRow] /\ files \in [Entry -> FileRow]
    BY <1>2, <1>3 DEF RowTypes
  <2>5. job \in Job
    BY <1>3, <1>5, <1>7, <1>8, <2>1, <2>2, <2>3, <2>4 DEF Job
  <2> QED BY <1>9, <2>5 DEF Quiet
<1>11. RowTypes' /\ RowRules'
  <2>1. scans' \in 0 .. MaxScans /\ \A n \in Entry : files'[n].seen <= scans'
    BY <1>1, <1>2, <1>3, ScanAssumption DEF RowTypes, RowRules, FileRow
  <2>2. Rooted(dirs, frnOf)' /\ Placed(cursor)'
    BY <1>1, <1>2 DEF RowRules, Rooted, Placed, NextUsn
  <2> QED BY <1>1, <1>2, <1>8, <1>10, <2>1, <2>2 DEF RowTypes, RowRules
<1>12. /\ Usable(cursor)' = Usable(cursor) /\ Named(cursor.next)' = Named(cursor.next)
       /\ Pending' = {target[f] : f \in DOMAIN target} /\ Sure' = {}
       /\ NextUsn' = NextUsn
  BY <1>1, <1>8, <1>9 DEF Usable, NextUsn, Named, Pending, Sure
<1>13. Vouched'
  BY <1>1, <1>2, <1>12 DEF Vouched, LiveFacts, LiveRows
<1>14. Begun'
  <2>1. Placed(Stored)'
    BY <1>1, <1>3, <1>8, <1>9, <1>12 DEF Placed, Stored
  <2> QED BY <1>1, <1>3, <1>8, <1>9, <2>1 DEF Begun
<1>15. Gathered'
  <2>1. \A n \in Entry : job.files[n].seen < job.id
    BY <1>2, <1>3, <1>9, ScanAssumption DEF RowRules, RowTypes, FileRow
  <2>2. Rooted(job.dirs, job.frnOf)
    BY <1>2, <1>9 DEF RowRules
  <2>3. \A d \in Pending' : frnOf[d] \in Named(cursor.next)
    BY <1>6, <1>12
  <2>4. \A f \in DOMAIN job.target : frnOf[job.target[f]] = f
    BY <1>6, <1>9
  <2> QED BY <1>1, <1>8, <1>9, <1>12, <2>1, <2>2, <2>3, <2>4 DEF Gathered, Rooted
<1>16. Staging'
  BY <1>8, <1>9, <1>12 DEF Staging
<1>17. ListingVouched'
  <2>1. AllRight(StagedFacts(delta.staged), Sure, delta.frnOf, content, ident, Named(delta.next))'
    BY <1>12 DEF AllRight
  <2>2. SUFFICES ASSUME NEW d \in LiveRows(dirs) \ (Pending' \cup leftOut \cup job.doubtful), d # Root,
                        NEW y \in Dir \ {Root},
                        ident[y] # 0, frnOf[d] = ident[y], ident[y] \notin Named(NextUsn)
                 PROVE  Right(LiveFacts(files), d, content, y)
    <3>1. (LiveRows(delta.dirs) \ (delta.listed \cup Pending \cup leftOut \cup delta.doubtful))'
            = LiveRows(dirs) \ (Pending' \cup leftOut \cup job.doubtful)
      BY <1>1, <1>8, <1>9 DEF LiveRows
    <3>2. LiveFacts(delta.files)' = LiveFacts(files) /\ Named(delta.next)' = Named(NextUsn)
          /\ delta.frnOf' = frnOf
      BY <1>1, <1>8, <1>9, <1>12 DEF LiveFacts, Named
    <3> QED BY <1>1, <2>1, <3>1, <3>2 DEF ListingVouched, AllRight
  <2>3. d \in Dir /\ ident[y] \notin Named(cursor.next)
    BY <1>6, <1>9, <1>12, <2>2 DEF LiveRows
  <2> QED BY <1>1, <1>2, <2>2, <2>3 DEF Vouched, AllRight
<1>18. MergeVouched' /\ CursorVouched'
  BY <1>8, <1>9 DEF MergeVouched, CursorVouched
<1> QED BY <1>2, <1>11, <1>13, <1>14, <1>15, <1>16, <1>17, <1>18 DEF DeltaInv

LEMMA UnlistableHolds == ASSUME DeltaInv, Unlistable PROVE DeltaInv'
<1>1. /\ delta.at = "listing" /\ DOMAIN delta.target # {}
      /\ delta' = [delta EXCEPT !.target = LeftTargets, !.doubtful = @ \cup {NextTarget}]
      /\ UNCHANGED <<content, ident, journal, dirs, files, frnOf, cursor, scans, leftOut>> /\ UNCHANGED driveVars
  BY DEF Unlistable, rowVars, driveVars
<1>2. DriveInv' /\ RowTypes /\ RowRules /\ Begun /\ Gathered /\ Staging /\ ListingVouched /\ Vouched
  BY <1>1, DriveStands DEF DeltaInv
<1>3. delta \in Job /\ delta # Quiet
  BY <1>1, <1>2, JobOrQuiet
<1>4. /\ NextTarget \in Pending /\ NextTarget \in Dir /\ LeftTargets \in Targets
      /\ Pending \subseteq {LeftTargets[f] : f \in DOMAIN LeftTargets} \cup {NextTarget}
      /\ {LeftTargets[f] : f \in DOMAIN LeftTargets} \subseteq Pending
      /\ \A f \in DOMAIN LeftTargets : f \in DOMAIN delta.target /\ LeftTargets[f] = delta.target[f]
  BY <1>1, <1>3, NextOfTargets
<1>5. PICK job : job = delta'
  OBVIOUS
<1>6. /\ job = [delta EXCEPT !.target = LeftTargets, !.doubtful = @ \cup {NextTarget}]
      /\ job.target = LeftTargets /\ job.doubtful = delta.doubtful \cup {NextTarget}
      /\ job.at = "listing" /\ job.id = delta.id /\ job.journal = delta.journal
      /\ job.next = delta.next /\ job.staged = delta.staged /\ job.dirs = delta.dirs /\ job.files = delta.files
      /\ job.frnOf = delta.frnOf /\ job.listed = delta.listed /\ job.walked = delta.walked
  BY <1>1, <1>3, <1>5 DEF Job
<1>7. job \in Job /\ job # Quiet
  <2>1. job \in Job
    BY <1>3, <1>4, <1>6 DEF Job
  <2> QED BY <1>6, <2>1 DEF Quiet
<1>8. RowTypes' /\ RowRules' /\ Vouched'
  BY <1>1, <1>2, <1>5, <1>7 DEF RowTypes, RowRules, Rooted, Placed, Vouched, Usable, NextUsn, Named, LiveFacts, LiveRows
<1>9. Begun'
  BY <1>1, <1>2, <1>3, <1>5, <1>6 DEF Begun, Placed, Stored, NextUsn
<1>10. /\ Usable(cursor)' = Usable(cursor) /\ Named(cursor.next)' = Named(cursor.next)
       /\ Usable(Stored)' = Usable(Stored) /\ Named(delta.next)' = Named(delta.next)
       /\ StagedFacts(delta.staged)' = StagedFacts(delta.staged) /\ LiveFacts(delta.files)' = LiveFacts(delta.files)
       /\ Sure' \subseteq Sure /\ Pending' \subseteq Pending /\ Pending \subseteq Pending' \cup {NextTarget}
  BY <1>1, <1>4, <1>5, <1>6 DEF Usable, NextUsn, Named, Stored, StagedFacts, LiveFacts, Sure, Pending
<1>11. Gathered'
  <2>1. \A f \in DOMAIN job.target : frnOf[job.target[f]] = f
    BY <1>1, <1>2, <1>4, <1>6 DEF Gathered
  <2>2. Pending' \cap job.listed = {} /\ Rooted(job.dirs, job.frnOf)
    BY <1>1, <1>2, <1>6, <1>10 DEF Gathered
  <2>3. /\ \A d \in Dir : dirs[d].st # "none" \/ d \in job.listed => job.dirs[d].st # "none"
        /\ \A n \in Entry : job.files[n].seen < job.id
        /\ Usable(cursor) => \A d \in Pending' : frnOf[d] \in Named(cursor.next)
    BY <1>1, <1>2, <1>6, <1>10 DEF Gathered
  <2>4. \A d \in Dir \ (job.doubtful \cup job.walked) :
             /\ job.frnOf[d] = frnOf[d]
             /\ d \notin job.listed /\ job.dirs[d].st = "live" =>
                  dirs[d].st = "live" /\ \A n \in Children(d) : job.files[n] = files[n]
    BY <1>1, <1>2, <1>6 DEF Gathered
  <2>5. Rooted(delta.dirs, delta.frnOf)' = Rooted(job.dirs, job.frnOf)
    BY <1>5 DEF Rooted
  <2> QED BY <1>1, <1>5, <1>10, <2>1, <2>2, <2>3, <2>4, <2>5 DEF Gathered
<1>12. Staging'
  BY <1>1, <1>2, <1>5, <1>6, <1>10 DEF Staging
<1>13. ListingVouched'
  <2> SUFFICES ASSUME Usable(Stored)'
               PROVE  /\ AllRight(StagedFacts(delta.staged), Sure, delta.frnOf, content, ident, Named(delta.next))'
                      /\ AllRight(LiveFacts(delta.files),
                                  LiveRows(delta.dirs) \ (delta.listed \cup Pending \cup leftOut \cup delta.doubtful),
                                  delta.frnOf, content, ident, Named(delta.next))'
    BY DEF ListingVouched
  <2>1. (LiveRows(delta.dirs) \ (delta.listed \cup Pending \cup leftOut \cup delta.doubtful))'
          \subseteq LiveRows(delta.dirs) \ (delta.listed \cup Pending \cup leftOut \cup delta.doubtful)
    BY <1>1, <1>5, <1>6, <1>10 DEF LiveRows
  <2>2. /\ AllRight(StagedFacts(delta.staged), Sure, delta.frnOf, content, ident, Named(delta.next))
        /\ AllRight(LiveFacts(delta.files),
                    LiveRows(delta.dirs) \ (delta.listed \cup Pending \cup leftOut \cup delta.doubtful),
                    delta.frnOf, content, ident, Named(delta.next))
    BY <1>1, <1>2, <1>10 DEF ListingVouched
  <2>3. delta.frnOf' = delta.frnOf
    BY <1>5, <1>6
  <2> QED BY <1>1, <1>10, <2>1, <2>2, <2>3 DEF AllRight
<1>14. MergeVouched' /\ CursorVouched'
  BY <1>5, <1>6 DEF MergeVouched, CursorVouched
<1> QED BY <1>2, <1>8, <1>9, <1>11, <1>12, <1>13, <1>14 DEF DeltaInv

LEMMA FullHolds == ASSUME DeltaInv, FullScan PROVE DeltaInv'
<1> DEFINE id == scans + 1
           there == {d \in Dir : IsDir(d)}
           rows == [n \in Entry |-> IF content[n] \in Stamp THEN content[n] ELSE "none"]
           interned == [d \in Dir |-> IF d \in there THEN [st |-> "live", seen |-> id] ELSE dirs[d]]
           merged == Upsert(files, rows, id)
           vanished == VanishedFiles(interned, merged, there, id)
           goneDirs == GoneDirs(interned, there, id)
<1>1. /\ delta = Quiet /\ scans < MaxScans /\ scans' = scans + 1 /\ delta' = Quiet
      /\ UNCHANGED <<content, ident, journal>> /\ UNCHANGED driveVars
      /\ files' = TombstoneFiles(merged, vanished) /\ dirs' = TombstoneDirs(interned, goneDirs)
      /\ frnOf' = [d \in Dir |-> IF d \in there \ {Root} /\ dirs[d].st = "none" THEN ident[d] ELSE frnOf[d]]
      /\ cursor' \in {cursor, [id |-> journal.id, next |-> NextUsn]}
      /\ leftOut' = {d \in Dir \ {Root} : frnOf'[d] # ident[d]}
  BY DEF FullScan, driveVars
<1>2. DriveInv /\ DriveTypes /\ DriveRules /\ DriveInv' /\ RowTypes /\ RowRules
  BY <1>1, DriveStands DEF DeltaInv, DriveInv
<1>3. /\ scans \in Nat /\ id \in 1 .. MaxScans /\ id > scans /\ MaxScans \in Nat
      /\ dirs \in [Dir -> DirRow] /\ files \in [Entry -> FileRow] /\ frnOf \in [Dir -> Nat]
  BY <1>1, <1>2, ScanAssumption DEF RowTypes
<1>4. /\ interned \in [Dir -> DirRow]
      /\ \A d \in there : interned[d] = [st |-> "live", seen |-> id]
      /\ \A d \in Dir \ there : interned[d] = dirs[d]
  BY <1>3 DEF DirRow, RowStatus
<1>5. /\ merged \in [Entry -> FileRow]
      /\ \A n \in Entry : content[n] \in Stamp => merged[n] = [st |-> "live", seen |-> id, facts |-> content[n]]
      /\ \A n \in Entry : content[n] \notin Stamp => merged[n] = files[n]
  <2>1. rows \in [Entry -> Stamp \cup {"none"}] /\ \A n \in Entry : rows[n] = IF content[n] \in Stamp THEN content[n] ELSE "none"
    OBVIOUS
  <2>2. "none" \notin Stamp
    BY StampAssumption
  <2> HIDE DEF rows, id
  <2>3. \A n \in Entry : content[n] \in Stamp => merged[n] = [st |-> "live", seen |-> id, facts |-> content[n]]
    BY <2>1, <2>2 DEF Upsert
  <2>4. \A n \in Entry : content[n] \notin Stamp => merged[n] = files[n]
    BY <2>1, <2>2 DEF Upsert
  <2>5. ASSUME NEW n \in Entry PROVE merged[n] \in FileRow
    <3>1. CASE content[n] \in Stamp
      <4>1. id \in 0 .. MaxScans /\ content[n] \in Facts
        BY <1>3, <3>1 DEF Facts
      <4>2. [st |-> "live", seen |-> id, facts |-> content[n]] \in FileRow
        BY <4>1 DEF FileRow, RowStatus
      <4> QED BY <2>3, <3>1, <4>2
    <3> QED BY <1>3, <2>4, <3>1
  <2> QED BY <2>3, <2>4, <2>5 DEF Upsert
<1>6. there \in SUBSET Dir /\ \A n \in Entry : n \in there => Parent[n] \in there
  BY <1>2, Tree DEF DriveRules, IsDir, Entry
<1>7. \A d \in there \ {Root} : Above[d] \subseteq there
  BY <1>6, Upward, Tree
<1>8. goneDirs \cap there = {}
  <2>1. \A d \in there : ~(interned[d].seen < id)
    BY <1>3, <1>4
  <2>2. MissingDirs(interned, there, id) \cap there = {}
    BY <2>1 DEF MissingDirs
  <2> QED BY <1>7, <2>2 DEF GoneDirs
<1> HIDE DEF there, rows, interned, merged, vanished, goneDirs, id
<1>9. /\ files' \in [Entry -> FileRow] /\ \A n \in Entry : files'[n].seen = merged[n].seen
      /\ \A n \in Entry : IF n \in vanished /\ merged[n].st = "live" THEN files'[n].st = "gone"
                          ELSE files'[n] = merged[n]
  <2>1. ASSUME NEW n \in Entry
        PROVE  /\ files'[n] \in FileRow /\ files'[n].seen = merged[n].seen
               /\ IF n \in vanished /\ merged[n].st = "live" THEN files'[n].st = "gone" ELSE files'[n] = merged[n]
    <3>1. files'[n] = IF n \in vanished /\ merged[n].st = "live" THEN [merged[n] EXCEPT !.st = "gone"] ELSE merged[n]
      BY <1>1 DEF TombstoneFiles
    <3>2. PICK r \in FileRow : r = merged[n]
      BY <1>5
    <3>3. [r EXCEPT !.st = "gone"] \in FileRow /\ [r EXCEPT !.st = "gone"].st = "gone"
          /\ [r EXCEPT !.st = "gone"].seen = r.seen
      BY DEF FileRow, RowStatus
    <3> QED BY <3>1, <3>2, <3>3
  <2>2. files' = [n \in Entry |-> files'[n]]
    BY <1>1 DEF TombstoneFiles
  <2> QED BY <2>1, <2>2
<1>10. dirs' \in [Dir -> DirRow] /\ \A d \in Dir : dirs'[d].st = "none" <=> interned[d].st = "none"
  <2>1. ASSUME NEW d \in Dir PROVE dirs'[d] \in DirRow /\ (dirs'[d].st = "none" <=> interned[d].st = "none")
    <3>1. dirs'[d] = IF d \in goneDirs /\ interned[d].st = "live" THEN [interned[d] EXCEPT !.st = "gone"] ELSE interned[d]
      BY <1>1 DEF TombstoneDirs
    <3>2. PICK r \in DirRow : r = interned[d]
      BY <1>4
    <3>3. [r EXCEPT !.st = "gone"] \in DirRow /\ [r EXCEPT !.st = "gone"].st = "gone"
      BY DEF DirRow, RowStatus
    <3> QED BY <3>1, <3>2, <3>3
  <2>2. dirs' = [d \in Dir |-> dirs'[d]]
    BY <1>1 DEF TombstoneDirs
  <2> QED BY <2>1, <2>2
<1>11. /\ frnOf' \in [Dir -> Nat]
       /\ \A d \in Dir : dirs'[d].st = "none" <=> d \notin there /\ dirs[d].st = "none"
  <2>1. \A d \in there : interned[d].st # "none"
    BY <1>4
  <2>2. ASSUME NEW d \in Dir PROVE interned[d].st = "none" <=> d \notin there /\ dirs[d].st = "none"
    <3>1. CASE d \in there
      BY <2>1, <3>1
    <3>2. CASE d \in Dir \ there
      <4>1. interned[d] = dirs[d]
        BY <1>4, <3>2
      <4> QED BY <3>2, <4>1
    <3> QED BY <3>1, <3>2
  <2> QED BY <1>1, <1>2, <1>3, <1>10, <2>2 DEF DriveTypes
<1>12. cursor' \in [id : Nat, next : Nat] /\ Placed(cursor)'
  <2>1. NextUsn' = NextUsn /\ NextUsn \in Nat /\ journal.id \in Nat
    BY <1>1, <1>2 DEF NextUsn, DriveTypes
  <2>2. CASE cursor' = cursor
    BY <1>1, <1>2, <2>1, <2>2 DEF RowTypes, RowRules, Placed
  <2>3. CASE cursor' = [id |-> journal.id, next |-> NextUsn]
    BY <1>1, <2>1, <2>3 DEF Placed
  <2> QED BY <1>1, <2>2, <2>3
<1>13. RowTypes'
  BY <1>1, <1>3, <1>9, <1>10, <1>11, <1>12 DEF RowTypes, id
<1>14. RowRules'
  <2>1. \A d \in Dir : dirs'[d].st = "none" => frnOf'[d] = 0
    BY <1>1, <1>2, <1>11 DEF RowRules, Rooted
  <2>2. \A d \in Dir \ {Root} : dirs'[d].st # "none" => dirs'[Parent[d]].st # "none"
    BY <1>2, <1>6, <1>11, Tree DEF RowRules, Rooted, Entry
  <2>3. \A n \in Entry : files'[n].seen <= scans'
    <3>1. \A n \in Entry : merged[n].seen <= id
      BY <1>2, <1>3, <1>5 DEF RowRules, FileRow
    <3> QED BY <1>1, <1>9, <3>1 DEF id
  <2> QED BY <1>12, <2>1, <2>2, <2>3 DEF RowRules, Rooted
<1>15. ASSUME NEW d \in Dir \ {Root}, IsDir(d), NEW n \in Children(d)
       PROVE  LiveFacts(files')[n] = Shown(content[n])
  <2>1. n \in Entry /\ Parent[n] = d /\ d \in there
    BY <1>15 DEF Children, there
  <2>2. CASE content[n] \in Stamp
    <3>1. merged[n].st = "live" /\ merged[n].seen = id /\ merged[n].facts = content[n]
      BY <1>5, <2>1, <2>2
    <3>2. n \notin vanished
      BY <1>3, <1>8, <2>1, <3>1 DEF vanished, VanishedFiles, MissingFiles, goneDirs
    <3>3. files'[n] = merged[n]
      BY <1>9, <2>1, <3>2
    <3> QED BY <2>1, <2>2, <3>1, <3>3 DEF LiveFacts, Shown
  <2>3. CASE content[n] \notin Stamp
    <3>1. merged[n] = files[n] /\ files[n].seen < id
      BY <1>2, <1>3, <1>5, <2>1, <2>3 DEF RowRules, FileRow
    <3>2. merged[n].st = "live" => n \in vanished
      BY <2>1, <3>1 DEF vanished, VanishedFiles, MissingFiles
    <3>3. files'[n].st # "live"
      BY <1>9, <2>1, <3>2
    <3> QED BY <2>1, <2>3, <3>3 DEF LiveFacts, Shown
  <2> QED BY <2>2, <2>3
<1>16. Vouched'
  <2>1. LiveFacts(files)' = LiveFacts(files')
    BY DEF LiveFacts
  <2> SUFFICES ASSUME NEW d \in (LiveRows(dirs) \ leftOut)' \ {Root}, NEW y \in Dir \ {Root},
                      ident[y] # 0, frnOf'[d] = ident[y]
               PROVE  Right(LiveFacts(files'), d, content, y)
    BY <1>1, <2>1 DEF Vouched, AllRight
  <2>2. d \in Dir \ {Root} /\ frnOf'[d] = ident[d]
    BY <1>1 DEF LiveRows
  <2>3. d = y /\ IsDir(d)
    BY <1>2, <2>2 DEF DriveRules
  <2> QED BY <1>15, <2>2, <2>3 DEF Right
<1> QED BY <1>1, <1>2, <1>13, <1>14, <1>16 DEF DeltaInv, Begun, Gathered, Staging, ListingVouched,
                                              MergeVouched, CursorVouched, Quiet

(* A cursor that can be used yet vouches for no less than the one that the *)
(* delta will store.                                                       *)
LEMMA StoredUsable ==
    ASSUME DriveTypes, RowTypes, Begun, delta # Quiet, Usable(cursor)
    PROVE  Usable(Stored) /\ Named(delta.next) \subseteq Named(cursor.next)
<1>1. /\ delta \in Job /\ cursor \in [id : Nat, next : Nat] /\ Stored \in [id : Nat, next : Nat]
      /\ Stored.id = delta.journal /\ Stored.next = delta.next
  BY JobOrQuiet DEF RowTypes, Stored
<1>2. /\ Stored.id = journal.id /\ cursor.next >= journal.low /\ journal.low \in Nat /\ journal.id \in {1, 2}
      /\ cursor.next <= Stored.next /\ Placed(Stored) /\ Stored.next \in Nat
  BY <1>1 DEF Usable, Begun, DriveTypes
<1>3. Usable(Stored)
  BY <1>1, <1>2 DEF Usable, Placed, Unset
<1>4. Len(journal.records) \in Nat /\ cursor.next \in Nat /\ delta.next \in Nat
  BY <1>1 DEF DriveTypes, Job
<1> QED BY <1>1, <1>2, <1>3, <1>4, NamesShrink DEF Named

LEMMA MergeHolds == ASSUME DeltaInv, MergeDelta PROVE DeltaInv'
<1> DEFINE merged == Upsert(files, delta.staged, delta.id)
           missed == Missed(merged)
<1>1. /\ delta.at = "merge" /\ files' = TombstoneFiles(merged, missed)
      /\ delta' = [delta EXCEPT !.at = "cursor"] /\ leftOut' = leftOut \ Sure
      /\ UNCHANGED <<content, ident, journal, dirs, frnOf, cursor, scans>> /\ UNCHANGED driveVars
  BY DEF MergeDelta, Sure, driveVars
<1>2. DriveInv' /\ DriveTypes /\ DriveTypes' /\ RowTypes /\ RowRules /\ Begun /\ Staging /\ MergeVouched
  BY <1>1, DriveStands DEF DeltaInv, DriveInv
<1>3. delta \in Job /\ delta # Quiet
  BY <1>1, <1>2, JobOrQuiet
<1>4. PICK job : job = delta'
  OBVIOUS
<1>5. /\ job \in Job /\ job # Quiet /\ job.at = "cursor" /\ job.id = delta.id /\ job.journal = delta.journal
      /\ job.next = delta.next
  <2>1. job = [delta EXCEPT !.at = "cursor"]
    BY <1>1, <1>4
  <2>2. job \in Job /\ job.at = "cursor"
    BY <1>3, <2>1 DEF Job
  <2>3. job # Quiet
    BY <2>2 DEF Quiet
  <2> QED BY <1>3, <2>1, <2>2, <2>3 DEF Job
<1>6. /\ delta.id = scans /\ delta.id \in 1 .. MaxScans /\ delta.staged \in [Entry -> Facts \cup {"none"}]
      /\ files \in [Entry -> FileRow] /\ MaxScans \in Nat /\ delta.id \in Nat /\ ~(delta.id < delta.id)
      /\ \A n \in Entry : files[n].seen < delta.id
  BY <1>1, <1>2, <1>3, ScanAssumption DEF RowTypes, Job, Begun, MergeVouched
<1>7. ASSUME NEW n \in Entry
      PROVE  /\ merged[n] \in FileRow
             /\ delta.staged[n] # "none" =>
                  merged[n].st = "live" /\ merged[n].seen = delta.id /\ merged[n].facts = delta.staged[n]
             /\ delta.staged[n] = "none" => merged[n] = files[n]
  <2>1. CASE delta.staged[n] = "none"
    BY <1>6, <2>1 DEF Upsert
  <2>2. CASE delta.staged[n] # "none"
    <3>1. merged[n] = [st |-> "live", seen |-> delta.id, facts |-> delta.staged[n]]
      BY <2>2 DEF Upsert
    <3>2. delta.staged[n] \in Facts /\ delta.id \in 0 .. MaxScans
      BY <1>6, <2>2, ScanAssumption DEF Facts
    <3>3. [st |-> "live", seen |-> delta.id, facts |-> delta.staged[n]] \in FileRow
      BY <3>2 DEF FileRow, RowStatus
    <3> HIDE DEF merged
    <3>4. merged[n].st = "live" /\ merged[n].seen = delta.id /\ merged[n].facts = delta.staged[n]
      BY <3>1
    <3> QED BY <2>2, <3>1, <3>3, <3>4
  <2> QED BY <2>1, <2>2
<1>8. missed = {n \in Entry : merged[n].st = "live" /\ merged[n].seen < delta.id /\ Parent[n] \in delta.listed}
  BY DEF Missed, MissingFiles
<1> HIDE DEF merged, missed
<1>9. ASSUME NEW n \in Entry
      PROVE  /\ files'[n] \in FileRow /\ files'[n].seen = merged[n].seen
             /\ IF n \in missed THEN files'[n].st = "gone" ELSE files'[n] = merged[n]
  <2>1. files'[n] = IF n \in missed THEN [merged[n] EXCEPT !.st = "gone"] ELSE merged[n]
    BY <1>1, <1>8 DEF TombstoneFiles
  <2>2. PICK r \in FileRow : r = merged[n]
    BY <1>7
  <2>3. [r EXCEPT !.st = "gone"] \in FileRow /\ [r EXCEPT !.st = "gone"].st = "gone"
        /\ [r EXCEPT !.st = "gone"].seen = r.seen
    BY DEF FileRow, RowStatus
  <2> QED BY <2>1, <2>2, <2>3
<1>10. files' \in [Entry -> FileRow]
  BY <1>1, <1>9 DEF TombstoneFiles
<1>11. RowTypes'
  BY <1>1, <1>2, <1>4, <1>5, <1>10 DEF RowTypes
<1>12. RowRules'
  <2>1. Rooted(dirs, frnOf)' /\ Placed(cursor)'
    BY <1>1, <1>2 DEF RowRules, Rooted, Placed, NextUsn
  <2>2. ASSUME NEW n \in Entry PROVE files'[n].seen <= scans'
    <3>1. CASE delta.staged[n] = "none"
      <4>1. files'[n].seen = files[n].seen /\ files[n].seen \in 0 .. MaxScans /\ files[n].seen < delta.id
        BY <1>6, <1>7, <1>9, <3>1 DEF FileRow
      <4> QED BY <1>1, <1>6, <4>1
    <3>2. CASE delta.staged[n] # "none"
      <4>1. files'[n].seen = delta.id
        BY <1>7, <1>9, <3>2
      <4> QED BY <1>1, <1>6, <4>1
    <3> QED BY <3>1, <3>2
  <2> QED BY <2>1, <2>2 DEF RowRules
<1>13. Begun'
  BY <1>1, <1>2, <1>3, <1>4, <1>5 DEF Begun, Placed, Stored, NextUsn
<1>14. ASSUME NEW n \in Entry, Parent[n] \in delta.listed
       PROVE  LiveFacts(files')[n] = StagedFacts(delta.staged)[n]
  <2>1. CASE delta.staged[n] = "none"
    <3>1. merged[n] = files[n] /\ files[n].seen < delta.id
      BY <1>6, <1>7, <2>1
    <3>2. merged[n].st = "live" => n \in missed
      BY <1>8, <1>14, <3>1
    <3>3. files'[n].st # "live"
      BY <1>9, <3>2
    <3> QED BY <2>1, <3>3 DEF LiveFacts, StagedFacts
  <2>2. CASE delta.staged[n] # "none"
    <3>1. merged[n].st = "live" /\ merged[n].seen = delta.id /\ merged[n].facts = delta.staged[n]
      BY <1>7, <2>2
    <3>2. n \notin missed
      BY <1>6, <1>8, <3>1
    <3>3. files'[n] = merged[n]
      BY <1>9, <3>2
    <3> QED BY <2>2, <3>1, <3>3 DEF LiveFacts, StagedFacts
  <2> QED BY <2>1, <2>2
<1>15. ASSUME NEW n \in Entry, Parent[n] \notin delta.listed
       PROVE  LiveFacts(files')[n] = LiveFacts(files)[n]
  <2>1. delta.staged[n] = "none" /\ n \notin missed
    BY <1>1, <1>2, <1>8, <1>15 DEF Staging
  <2>2. files'[n] = files[n]
    BY <1>7, <1>9, <2>1
  <2> QED BY <2>2 DEF LiveFacts
<1>16. ASSUME Usable(Stored)
       PROVE  AllRight(LiveFacts(files'), LiveRows(dirs) \ leftOut', frnOf, content, ident, Named(delta.next))
  <2>1. /\ delta.doubtful \subseteq leftOut
        /\ AllRight(StagedFacts(delta.staged), Sure, frnOf, content, ident, Named(delta.next))
        /\ AllRight(LiveFacts(files), LiveRows(dirs) \ (delta.listed \cup leftOut), frnOf,
                    content, ident, Named(delta.next))
    BY <1>1, <1>2, <1>16 DEF MergeVouched
  <2> SUFFICES ASSUME NEW d \in (LiveRows(dirs) \ leftOut') \ {Root}, NEW y \in Dir \ {Root},
                      ident[y] # 0, frnOf[d] = ident[y], ident[y] \notin Named(delta.next)
               PROVE  Right(LiveFacts(files'), d, content, y)
    BY DEF AllRight
  <2>2. CASE d \in Sure
    <3>1. Right(StagedFacts(delta.staged), d, content, y) /\ d \in delta.listed
      BY <2>1, <2>2 DEF AllRight, Sure
    <3>2. \A n \in Children(d) : LiveFacts(files')[n] = StagedFacts(delta.staged)[n]
      BY <1>14, <3>1 DEF Children
    <3> QED BY <3>1, <3>2 DEF Right
  <2>3. CASE d \notin Sure
    <3>1. d \notin leftOut /\ d \notin delta.listed
      BY <1>1, <2>1, <2>3 DEF Sure
    <3>2. Right(LiveFacts(files), d, content, y)
      BY <2>1, <3>1 DEF AllRight
    <3>3. \A n \in Children(d) : LiveFacts(files')[n] = LiveFacts(files)[n]
      BY <1>15, <3>1 DEF Children
    <3> QED BY <3>2, <3>3 DEF Right
  <2> QED BY <2>2, <2>3
<1>17. /\ Usable(Stored)' = Usable(Stored) /\ Usable(cursor)' = Usable(cursor)
       /\ Named(delta.next)' = Named(delta.next) /\ Named(cursor.next)' = Named(cursor.next)
       /\ LiveFacts(files)' = LiveFacts(files') /\ (LiveRows(dirs) \ leftOut)' = LiveRows(dirs) \ leftOut'
  BY <1>1, <1>4, <1>5 DEF Usable, NextUsn, Named, Stored, LiveFacts, LiveRows
<1>18. CursorVouched'
  BY <1>1, <1>16, <1>17 DEF CursorVouched
<1>19. Vouched'
  <2> SUFFICES ASSUME Usable(cursor)
               PROVE  AllRight(LiveFacts(files'), LiveRows(dirs) \ leftOut', frnOf, content, ident, Named(cursor.next))
    BY <1>1, <1>17 DEF Vouched
  <2>1. Usable(Stored) /\ Named(delta.next) \subseteq Named(cursor.next)
    BY <1>2, <1>3, StoredUsable
  <2> QED BY <1>16, <2>1 DEF AllRight
<1> QED BY <1>2, <1>4, <1>5, <1>11, <1>12, <1>13, <1>18, <1>19
        DEF DeltaInv, Gathered, Staging, ListingVouched, MergeVouched

(* What is walked of a listing is new, and has its parent listed. *)
LEMMA WalkedRows ==
    ASSUME DriveRules, Rooted(delta.dirs, delta.frnOf), NEW d \in Dir, NEW denied, NEW blind \in SUBSET Entry,
           denied \subseteq Walk(d, denied, blind), \A n \in blind : Parent[n] \in Read(d, denied, blind)
    PROVE  /\ There(d, blind) \subseteq Dir \ {Root} /\ d \notin There(d, blind)
           /\ Unseen(d, blind) \subseteq Walk(d, denied, blind)
           /\ Walk(d, denied, blind) \subseteq Dir \ {Root} /\ \A k \in There(d, blind) : IsDir(k)
           /\ \A x \in Walk(d, denied, blind) :
                /\ delta.dirs[x].st = "none" /\ IsDir(x)
                /\ Parent[x] \in {d} \cup Walk(d, denied, blind)
<1> DEFINE walk == Walk(d, denied, blind)
           rows == {x \in Dir : delta.dirs[x].st # "none"}
<1>1. /\ There(d, blind) \subseteq Dir \ {Root} /\ d \notin There(d, blind)
      /\ \A k \in There(d, blind) : k \in Entry /\ Parent[k] = d /\ IsDir(k)
  <2>1. \A k \in There(d, blind) : k \in Entry /\ Parent[k] = d /\ content[k] = "dir" /\ k # Root
    BY DEF There, Children, Entry
  <2>2. "dir" \notin Stamp
    BY StampAssumption
  <2>3. \A k \in There(d, blind) : k \in Dir
    BY <2>1, <2>2 DEF DriveRules
  <2> QED BY <2>1, <2>3, Tree DEF IsDir
<1>2. \A n \in Entry : n \in rows => Parent[n] \in rows
  BY Tree DEF Rooted, Entry
<1>3. \A x \in walk : \E k \in Unseen(d, blind) : /\ x = k \/ (x \in Entry /\ x \in Dir /\ k \in Above[x])
                                          /\ IsDir(x) /\ Above[x] \cap denied = {}
                                          /\ ({x} \cup Above[x]) \cap blind = {}
  BY DEF Walk, Subtree, Beneath
<1>4. \A k \in Unseen(d, blind) : k \in There(d, blind) /\ delta.dirs[k].st = "none"
  BY DEF Unseen
<1>5. walk \subseteq Dir \ {Root}
  BY <1>1, <1>3, <1>4 DEF Entry
<1>6. \A k \in Unseen(d, blind) : d \in Above[k] /\ Above[k] = {d} \cup Above[d]
  BY <1>1, <1>4, Tree
<1>7. Unseen(d, blind) \subseteq walk
  <2> SUFFICES ASSUME NEW k \in Unseen(d, blind) PROVE k \in walk
    OBVIOUS
  <2>1. ASSUME NEW a \in Above[k], a \in walk PROVE FALSE
    <3>1. PICK j \in Unseen(d, blind) : a = j \/ j \in Above[a]
      BY <1>3, <2>1
    <3>2. a = d \/ a \in Above[d]
      BY <1>6
    <3>3. a \in Node /\ d \in Node /\ k \in Node /\ Above[a] \subseteq Above[k]
      BY <1>1, <1>4, <1>5, <2>1, Tree DEF Entry
    <3>4. d \in Above[a]
      <4>1. j \in Node /\ d \in Above[j]
        BY <1>1, <1>4, <1>6, Tree DEF Entry
      <4>2. j \in Above[a] => Above[j] \subseteq Above[a]
        BY <3>3, Tree
      <4> QED BY <3>1, <4>1, <4>2
    <3>5. a \in Above[d] => Above[a] \subseteq Above[d]
      BY <3>3, Tree
    <3> QED BY <3>2, <3>3, <3>4, <3>5, Tree
  <2>2. k \in Subtree(k) /\ Above[k] \cap denied = {}
    BY <1>1, <1>4, <2>1 DEF Subtree
  <2>3. k \notin blind
    BY <1>4 DEF There
  <2>4. ASSUME NEW a \in Above[k], a \in blind PROVE FALSE
    <3>1. a \in Entry /\ Parent[a] \in {d} \cup walk
      BY <2>4 DEF Read
    <3>2. d \in Above[a]
      <4>1. CASE Parent[a] = d
        BY <3>1, <4>1, Tree
      <4>2. CASE Parent[a] \in walk
        <5>1. PICK j \in Unseen(d, blind) : Parent[a] = j \/ j \in Above[Parent[a]]
          BY <1>3, <4>2
        <5>2. j \in Above[a] /\ a \in Node
          BY <3>1, <5>1, Tree DEF Entry
        <5>3. Above[j] \subseteq Above[a]
          BY <5>2, Tree
        <5> QED BY <1>6, <5>3
      <4> QED BY <3>1, <4>1, <4>2
    <3>3. a = d \/ a \in Above[d]
      BY <1>6, <2>4
    <3>4. d \in Node /\ a \in Node /\ (a \in Above[d] => Above[a] \subseteq Above[d])
      BY <3>1, Tree DEF Entry
    <3> QED BY <3>2, <3>3, <3>4, Tree
  <2> QED BY <2>2, <2>3, <2>4 DEF Walk
<1>8. ASSUME NEW x \in walk PROVE delta.dirs[x].st = "none"
  <2>1. PICK k \in Unseen(d, blind) : x = k \/ (x \in Entry /\ k \in Above[x])
    BY <1>3
  <2>2. CASE x = k
    BY <1>4, <2>2
  <2>3. CASE x \in Entry /\ k \in Above[x]
    <3>1. x \in rows => Above[x] \subseteq rows
      BY <1>2, <2>3, Upward
    <3>2. k \notin rows
      BY <1>4
    <3> QED BY <1>5, <2>3, <3>1, <3>2
  <2> QED BY <2>1, <2>2, <2>3
<1>9. ASSUME NEW x \in walk PROVE Parent[x] \in {d} \cup walk
  <2>1. PICK k \in Unseen(d, blind) : /\ x = k \/ (x \in Entry /\ x \in Dir /\ k \in Above[x])
                               /\ IsDir(x) /\ Above[x] \cap denied = {}
                               /\ ({x} \cup Above[x]) \cap blind = {}
    BY <1>3
  <2>2. CASE x = k
    BY <1>1, <1>4, <2>2
  <2>3. CASE x \in Entry /\ k \in Above[x]
    <3>1. /\ Parent[x] \in Dir /\ Above[x] = {Parent[x]} \cup Above[Parent[x]]
      BY <2>3, Tree
    <3>2. IsDir(Parent[x])
      BY <1>5, <2>1, <2>3 DEF DriveRules, IsDir
    <3>3. Parent[x] # Root \/ k = Root
      BY <2>3, <3>1, Tree
    <3>4. Parent[x] \in Subtree(k)
      BY <1>1, <1>4, <2>3, <3>1, <3>2, <3>3, Tree DEF Subtree, Beneath, Entry
    <3> QED BY <2>1, <3>1, <3>4 DEF Walk
  <2> QED BY <2>1, <2>2, <2>3
<1> QED BY <1>1, <1>3, <1>5, <1>7, <1>8, <1>9

LEMMA ListHolds == ASSUME DeltaInv, ListTarget PROVE DeltaInv'
<1>1. /\ delta.at = "listing" /\ DOMAIN delta.target # {} /\ IsDir(NextTarget)
      /\ UNCHANGED <<content, ident, journal, dirs, files, frnOf, cursor, scans, leftOut>> /\ UNCHANGED driveVars
  BY DEF ListTarget, rowVars, driveVars
<1>2. /\ DriveInv /\ DriveTypes /\ DriveRules /\ DriveInv' /\ RowTypes /\ RowRules /\ Begun /\ Gathered
      /\ Staging /\ ListingVouched /\ Vouched
  BY <1>1, DriveStands DEF DeltaInv, DriveInv
<1>3. delta \in Job /\ delta # Quiet /\ delta.target \in Targets /\ delta.doubtful \in SUBSET Dir
      /\ delta.listed \in SUBSET Dir /\ delta.walked \in SUBSET Dir
  BY <1>1, <1>2, JobOrQuiet DEF Job
<1>4. /\ NextTarget \in Pending /\ NextTarget \in Dir /\ LeftTargets \in Targets
      /\ Pending \subseteq {LeftTargets[f] : f \in DOMAIN LeftTargets} \cup {NextTarget}
      /\ {LeftTargets[f] : f \in DOMAIN LeftTargets} \subseteq Pending
      /\ \A f \in DOMAIN LeftTargets : f \in DOMAIN delta.target /\ LeftTargets[f] = delta.target[f]
      /\ Min(DOMAIN delta.target) \in DOMAIN delta.target
      /\ NextTarget = delta.target[Min(DOMAIN delta.target)]
  BY <1>1, <1>3, NextOfTargets
<1>5. PICK d \in Dir : d = NextTarget
  BY <1>4
<1>6. PICK denied, blind :
        /\ blind \subseteq Entry
        /\ denied \subseteq Walk(d, denied, blind) /\ \A n \in blind : Parent[n] \in Read(d, denied, blind)
        /\ delta' = Listing(d, denied, blind)
  <2>1. \E denied, blind :
          /\ blind \subseteq Entry
          /\ denied \subseteq Walk(NextTarget, denied, blind)
          /\ \A n \in blind : Parent[n] \in Read(NextTarget, denied, blind)
          /\ delta' = Listing(NextTarget, denied, blind)
    <3> DEFINE reach == {NextTarget} \cup UNION {Subtree(k) : k \in Unseen(NextTarget, {})}
    <3>1. PICK denied \in SUBSET (reach \ {NextTarget}),
               blind \in SUBSET {n \in Entry : Parent[n] \in reach /\ Present(n)} :
            /\ denied \subseteq Walk(NextTarget, denied, blind)
            /\ \A n \in blind : Parent[n] \in Read(NextTarget, denied, blind)
            /\ delta' = Listing(NextTarget, denied, blind)
      BY Zenon DEF ListTarget
    <3>2. blind \subseteq Entry
      OBVIOUS
    <3> QED BY Zenon, <3>1, <3>2
  <2> QED BY <1>5, <2>1
<1> DEFINE walk == Walk(d, denied, blind)
           touched == {d} \cup There(d, blind) \cup walk
           unsure == denied \cup {Parent[n] : n \in blind} \cup {x \in {d} : delta.frnOf[x] # ident[x]}
                            \cup {k \in There(d, blind) \ Unseen(d, blind) : \/ delta.dirs[k].st = "gone"
                                                              \/ delta.frnOf[k] # ident[k]}
           found == [x \in Dir |-> IF x \in touched THEN [st |-> "live", seen |-> delta.id] ELSE delta.dirs[x]]
           fallen == {n \in Fallen(d, blind) : Parent[n] \in Fallen(d, blind)}
<1>7. PICK job : job = delta'
  OBVIOUS
<1>8. /\ job.at = "listing" /\ job.id = delta.id /\ job.journal = delta.journal /\ job.next = delta.next
      /\ job.target = LeftTargets
      /\ job.dirs = TombstoneDirs(found, Fallen(d, blind))
      /\ job.frnOf = [x \in Dir |-> IF x \in There(d, blind) \cup walk THEN ident[x] ELSE delta.frnOf[x]]
      /\ job.files = TombstoneFiles(delta.files, fallen)
      /\ job.staged = [n \in Entry |-> IF n \in blind THEN "unknown"
                                       ELSE IF Parent[n] \in ({d} \cup walk) \ denied /\ content[n] \in Stamp
                                       THEN content[n] ELSE delta.staged[n]]
      /\ job.listed = delta.listed \cup {d} \cup walk /\ job.walked = delta.walked \cup walk
      /\ job.doubtful = delta.doubtful \cup unsure
      /\ DOMAIN job = DOMAIN delta
  <2> DEFINE shown == [n \in Entry |-> IF n \in blind THEN "unknown"
                                      ELSE IF Parent[n] \in ({d} \cup walk) \ denied /\ content[n] \in Stamp
                                      THEN content[n] ELSE delta.staged[n]]
             numbers == [x \in Dir |-> IF x \in There(d, blind) \cup walk THEN ident[x] ELSE delta.frnOf[x]]
             rows == TombstoneDirs(found, Fallen(d, blind))
             kept == TombstoneFiles(delta.files, fallen)
  <2>1. job = [delta EXCEPT !.target = LeftTargets, !.dirs = rows, !.frnOf = numbers, !.files = kept,
                            !.staged = shown, !.listed = @ \cup {d} \cup walk, !.walked = @ \cup walk,
                            !.doubtful = @ \cup unsure]
    BY <1>3, <1>6, <1>7 DEF Job, Listing, Read
  <2> HIDE DEF walk, unsure, shown, numbers, rows, kept
  <2>0. delta = [at |-> delta.at, id |-> delta.id, target |-> delta.target, journal |-> delta.journal,
                 next |-> delta.next, dirs |-> delta.dirs, files |-> delta.files, frnOf |-> delta.frnOf,
                 staged |-> delta.staged, listed |-> delta.listed, walked |-> delta.walked,
                 doubtful |-> delta.doubtful]
    BY <1>3 DEF Job
  <2>2. /\ job.at = "listing" /\ job.id = delta.id /\ job.journal = delta.journal /\ job.next = delta.next
        /\ job.target = LeftTargets /\ job.dirs = rows /\ job.frnOf = numbers /\ job.files = kept
        /\ job.staged = shown /\ job.listed = delta.listed \cup {d} \cup walk
        /\ job.walked = delta.walked \cup walk /\ job.doubtful = delta.doubtful \cup unsure
        /\ DOMAIN job = DOMAIN delta
    BY Zenon, <1>1, <2>0, <2>1
  <2> QED BY Zenon, <2>2 DEF shown, numbers, rows, kept
<1>9. job = [at |-> job.at, id |-> job.id, target |-> job.target, journal |-> job.journal, next |-> job.next,
             dirs |-> job.dirs, files |-> job.files, frnOf |-> job.frnOf, staged |-> job.staged,
             listed |-> job.listed, walked |-> job.walked, doubtful |-> job.doubtful]
  BY <1>3, <1>6, <1>7 DEF Job, Listing
<1>10. /\ There(d, blind) \subseteq Dir \ {Root} /\ d \notin There(d, blind) /\ Unseen(d, blind) \subseteq walk
       /\ walk \subseteq Dir \ {Root} /\ \A k \in There(d, blind) : IsDir(k)
       /\ \A x \in walk : /\ delta.dirs[x].st = "none" /\ IsDir(x)
                          /\ Parent[x] \in {d} \cup walk
       /\ denied \subseteq walk /\ \A n \in blind : n \in Entry /\ Parent[n] \in {d} \cup walk
  BY <1>1, <1>2, <1>6, WalkedRows DEF Gathered, Read
<1> HIDE DEF walk, found, fallen, unsure
<1>11. /\ \A x \in Dir : delta.dirs[x] \in DirRow /\ dirs[x] \in DirRow
       /\ delta.files \in [Entry -> FileRow] /\ delta.frnOf \in [Dir -> Nat] /\ ident \in [Dir -> Nat]
       /\ delta.staged \in [Entry -> Facts \cup {"none"}] /\ delta.id \in 0 .. MaxScans
  BY <1>2, <1>3, ScanAssumption DEF Job, RowTypes, DriveTypes
<1>12. ASSUME NEW x \in Dir
       PROVE  /\ job.dirs[x] \in DirRow /\ (job.dirs[x].st = "none" <=> x \notin touched /\ delta.dirs[x].st = "none")
              /\ job.dirs[x].st = "live" => x \notin Fallen(d, blind) /\ (x \in touched \/ delta.dirs[x].st = "live")
  <2>1. PICK r \in DirRow : r = found[x]
    BY <1>11 DEF found, DirRow, RowStatus
  <2>2. job.dirs[x] = IF x \in Fallen(d, blind) /\ r.st = "live" THEN [r EXCEPT !.st = "gone"] ELSE r
    BY <1>8, <2>1 DEF TombstoneDirs
  <2>3. [r EXCEPT !.st = "gone"] \in DirRow /\ [r EXCEPT !.st = "gone"].st = "gone"
    BY DEF DirRow, RowStatus
  <2>4. r.st = IF x \in touched THEN "live" ELSE delta.dirs[x].st
    BY <2>1 DEF found
  <2> HIDE DEF touched
  <2> QED BY <2>2, <2>3, <2>4
<1>13. ASSUME NEW n \in Entry
       PROVE  /\ job.files[n] \in FileRow /\ job.files[n].seen = delta.files[n].seen
              /\ Parent[n] \notin Fallen(d, blind) => job.files[n] = delta.files[n]
  <2>1. PICK r \in FileRow : r = delta.files[n]
    BY <1>11
  <2>2. job.files[n] = IF n \in fallen /\ r.st = "live" THEN [r EXCEPT !.st = "gone"] ELSE r
    BY <1>8, <2>1 DEF TombstoneFiles
  <2>3. [r EXCEPT !.st = "gone"] \in FileRow /\ [r EXCEPT !.st = "gone"].seen = r.seen
    BY DEF FileRow, RowStatus
  <2> QED BY <2>1, <2>2, <2>3 DEF fallen
<1>14. job \in Job /\ job # Quiet
  <2>1. job.dirs \in [Dir -> DirRow]
    <3>1. job.dirs = [x \in Dir |-> job.dirs[x]]
      BY <1>8 DEF TombstoneDirs
    <3> QED BY <1>12, <3>1
  <2>2. job.files \in [Entry -> FileRow]
    <3>1. job.files = [n \in Entry |-> job.files[n]]
      BY <1>8 DEF TombstoneFiles
    <3> QED BY <1>13, <3>1
  <2>3. job.frnOf \in [Dir -> Nat]
    BY <1>8, <1>11
  <2>4. job.staged \in [Entry -> Facts \cup {"none"}]
    BY <1>8, <1>11 DEF Facts
  <2>5. job.listed \in SUBSET Dir /\ job.walked \in SUBSET Dir /\ job.doubtful \in SUBSET Dir
    BY <1>3, <1>8, <1>10, Tree DEF unsure
  <2>6. job.at \in {"listing", "merge", "cursor"} /\ job.id \in 1 .. MaxScans /\ job.target \in Targets
        /\ job.journal \in Nat /\ job.next \in Nat
    BY <1>3, <1>4, <1>8 DEF Job
  <2>7. job \in Job
    BY <1>9, <2>1, <2>2, <2>3, <2>4, <2>5, <2>6 DEF Job
  <2> QED BY <1>8, <2>7 DEF Quiet
<1> HIDE DEF touched
<1>15. RowTypes' /\ RowRules' /\ Vouched'
  BY <1>1, <1>2, <1>7, <1>14 DEF RowTypes, RowRules, Rooted, Placed, Vouched, Usable, NextUsn, Named, LiveFacts, LiveRows
<1>16. Begun'
  BY <1>1, <1>2, <1>3, <1>7, <1>8 DEF Begun, Placed, Stored, NextUsn
<1>17. /\ Usable(cursor)' = Usable(cursor) /\ Named(cursor.next)' = Named(cursor.next)
       /\ Usable(Stored)' = Usable(Stored) /\ Named(delta.next)' = Named(delta.next)
       /\ Pending' \subseteq Pending /\ Pending \subseteq Pending' \cup {d}
  BY <1>1, <1>4, <1>5, <1>7, <1>8 DEF Usable, NextUsn, Named, Stored, Pending
<1>18. \A p \in Pending : dirs[p].st # "none" /\ delta.dirs[p].st # "none" /\ p \notin delta.listed
  <2>0. \A f \in DOMAIN delta.target : f # 0 /\ delta.target[f] \in Dir
    BY <1>3 DEF Targets
  <2>1. ASSUME NEW p \in Pending PROVE dirs[p].st # "none"
    <3>1. PICK f \in DOMAIN delta.target : p = delta.target[f]
      BY DEF Pending
    <3>2. f # 0 /\ p \in Dir
      BY <2>0, <3>1
    <3>3. frnOf[p] = f
      BY <1>1, <1>2, <3>1 DEF Gathered
    <3> QED BY <1>2, <3>2, <3>3 DEF RowRules, Rooted
  <2>2. Pending \subseteq Dir
    BY <2>0 DEF Pending
  <2> QED BY <1>1, <1>2, <2>1, <2>2 DEF Gathered
<1>19. \A x \in walk : x \notin delta.listed /\ x \notin Pending /\ x # d
  BY <1>1, <1>2, <1>3, <1>4, <1>5, <1>10, <1>18 DEF Gathered
<1>20. d \notin Pending' /\ d \in Pending
  <2>1. ASSUME NEW f \in DOMAIN LeftTargets PROVE LeftTargets[f] # d
    <3>1. f \in DOMAIN delta.target /\ LeftTargets[f] = delta.target[f] /\ f # Min(DOMAIN delta.target)
      BY <1>4 DEF LeftTargets
    <3> QED BY <1>1, <1>2, <1>4, <1>5, <3>1 DEF Gathered
  <2> QED BY <1>4, <1>5, <1>7, <1>8, <2>1 DEF Pending
(* Rows that were not left out are as they were, but for those listed now. *)
<1>21. ASSUME NEW x \in Dir, x \notin job.doubtful, x \notin walk
       PROVE  /\ job.frnOf[x] = delta.frnOf[x]
              /\ x # d /\ job.dirs[x].st = "live" =>
                   delta.dirs[x].st = "live" /\ \A n \in Children(x) : job.files[n] = delta.files[n]
  <2>1. x \in There(d, blind) => x \in There(d, blind) \ Unseen(d, blind)
    BY <1>10, <1>21
  <2>2. x \in There(d, blind) => delta.frnOf[x] = ident[x] /\ delta.dirs[x].st # "gone" /\ delta.dirs[x].st # "none"
    BY <1>8, <1>21, <2>1 DEF unsure, Unseen
  <2>3. job.frnOf[x] = delta.frnOf[x]
    BY <1>8, <1>21, <2>2
  <2>4. ASSUME x # d, job.dirs[x].st = "live"
        PROVE  delta.dirs[x].st = "live" /\ \A n \in Children(x) : job.files[n] = delta.files[n]
    <3>1. x \notin Fallen(d, blind) /\ (x \in There(d, blind) \/ delta.dirs[x].st = "live")
      BY <1>12, <1>21, <2>4 DEF touched
    <3>2. delta.dirs[x].st = "live"
      BY <1>11, <2>2, <3>1 DEF DirRow, RowStatus
    <3> QED BY <1>13, <3>1, <3>2 DEF Children
  <2> QED BY <2>3, <2>4
<1>22. Gathered'
  <2>1. \A f \in DOMAIN job.target : frnOf[job.target[f]] = f
    BY <1>1, <1>2, <1>4, <1>8 DEF Gathered
  <2>2. Pending' \cap job.listed = {}
    BY <1>8, <1>17, <1>18, <1>19, <1>20
  <2>3. Rooted(job.dirs, job.frnOf)
    <3>1. ASSUME NEW x \in Dir, job.dirs[x].st = "none" PROVE job.frnOf[x] = 0
      <4>1. x \notin touched /\ delta.dirs[x].st = "none"
        BY <1>12, <3>1
      <4> QED BY <1>1, <1>2, <1>8, <4>1 DEF touched, Gathered, Rooted
    <3>2. ASSUME NEW x \in Dir \ {Root}, job.dirs[x].st # "none" PROVE job.dirs[Parent[x]].st # "none"
      <4>1. x \in Entry /\ Parent[x] \in Dir
        BY Tree
      <4>2. Parent[x] \in touched \/ delta.dirs[Parent[x]].st # "none"
        <5>1. CASE delta.dirs[x].st # "none"
          BY <1>1, <1>2, <5>1 DEF Gathered, Rooted
        <5>2. CASE x \in There(d, blind)
          BY <5>2 DEF There, Children, touched
        <5>3. CASE x \in walk
          BY <1>10, <5>3 DEF touched
        <5>4. x = d => delta.dirs[x].st # "none"
          BY <1>18, <1>20
        <5> QED BY <1>12, <3>2, <5>1, <5>2, <5>3, <5>4 DEF touched
      <4> QED BY <1>12, <4>1, <4>2
    <3> QED BY <3>1, <3>2 DEF Rooted
  <2>4. \A x \in Dir : dirs[x].st # "none" \/ x \in job.listed => job.dirs[x].st # "none"
    <3>1. \A x \in Dir : dirs[x].st # "none" \/ x \in delta.listed => delta.dirs[x].st # "none"
      BY <1>1, <1>2 DEF Gathered
    <3> QED BY <1>8, <1>12, <3>1 DEF touched
  <2>5. \A n \in Entry : job.files[n].seen < job.id
    BY <1>1, <1>2, <1>8, <1>13 DEF Gathered
  <2>6. ASSUME NEW x \in Dir \ (job.doubtful \cup job.walked)
        PROVE  /\ job.frnOf[x] = frnOf[x]
               /\ x \notin job.listed /\ job.dirs[x].st = "live" =>
                    dirs[x].st = "live" /\ \A n \in Children(x) : job.files[n] = files[n]
    <3>1. x \notin delta.doubtful \cup delta.walked /\ x \notin walk
      BY <1>8
    <3>2. /\ delta.frnOf[x] = frnOf[x]
          /\ x \notin delta.listed /\ delta.dirs[x].st = "live" =>
               dirs[x].st = "live" /\ \A n \in Children(x) : delta.files[n] = files[n]
      BY <1>1, <1>2, <3>1 DEF Gathered
    <3>3. x \notin job.listed => x # d /\ x \notin delta.listed
      BY <1>8
    <3> QED BY <1>21, <3>1, <3>2, <3>3
  <2>7. Usable(cursor) => \A p \in Pending' : frnOf[p] \in Named(cursor.next)
    BY <1>1, <1>2, <1>17 DEF Gathered
  <2>8. Rooted(delta.dirs, delta.frnOf)' = Rooted(job.dirs, job.frnOf)
    BY <1>7 DEF Rooted
  <2> QED BY <1>1, <1>7, <1>17, <2>1, <2>2, <2>3, <2>4, <2>5, <2>6, <2>7, <2>8 DEF Gathered
<1>23. Sure' = job.listed \ job.doubtful /\ \A x \in Sure' : x \in {d} \cup walk \/ x \in Sure
  BY <1>7, <1>8 DEF Sure
<1>24. Staging'
  <2>1. job.walked \subseteq job.listed
    BY <1>1, <1>2, <1>8 DEF Staging
  <2>2. \A n \in Entry : job.staged[n] # "none" => Parent[n] \in job.listed
    BY <1>1, <1>2, <1>8, <1>10 DEF Staging
  <2>3. ASSUME Usable(cursor), NEW x \in Sure' \ job.walked PROVE frnOf[x] \in Named(cursor.next)
    <3>1. CASE x = d
      BY <1>1, <1>2, <1>20, <2>3, <3>1 DEF Gathered
    <3>2. CASE x # d
      <4>1. x \in Sure \ delta.walked
        BY <1>8, <1>23, <3>2
      <4> QED BY <1>1, <1>2, <2>3, <4>1 DEF Staging
    <3> QED BY <3>1, <3>2
  <2> QED BY <1>1, <1>7, <1>8, <1>17, <2>1, <2>2, <2>3 DEF Staging
<1>25. ASSUME NEW x \in {d} \cup walk, x \notin job.doubtful, NEW n \in Children(x)
       PROVE  StagedFacts(job.staged)[n] = Shown(content[n])
  <2>1. n \in Entry /\ Parent[n] = x /\ x \notin denied /\ x \notin delta.listed /\ n \notin blind
    BY <1>8, <1>18, <1>19, <1>20, <1>25 DEF Children, unsure
  <2>2. delta.staged[n] = "none"
    BY <1>1, <1>2, <2>1 DEF Staging
  <2>3. job.staged[n] = IF content[n] \in Stamp THEN content[n] ELSE "none"
    BY <1>8, <2>1, <2>2
  <2>4. "none" \notin Stamp
    BY StampAssumption
  <2> QED BY <2>1, <2>3, <2>4 DEF StagedFacts, Shown
<1>26. ASSUME NEW x \in {d} \cup walk, x \notin job.doubtful PROVE job.frnOf[x] = ident[x]
  <2>1. x \in Dir /\ (x = d => delta.frnOf[x] = ident[x])
    BY <1>8, <1>10, <1>26 DEF unsure
  <2> QED BY <1>8, <2>1
<1>27. ASSUME Usable(Stored)
       PROVE  AllRight(StagedFacts(job.staged), Sure', job.frnOf, content, ident, Named(delta.next))
  <2> SUFFICES ASSUME NEW x \in Sure' \ {Root}, NEW y \in Dir \ {Root},
                      ident[y] # 0, job.frnOf[x] = ident[y], ident[y] \notin Named(delta.next)
               PROVE  Right(StagedFacts(job.staged), x, content, y)
    BY DEF AllRight
  <2>1. CASE x \in {d} \cup walk
    <3>1. x \in Dir /\ x \notin job.doubtful
      BY <1>10, <1>23, <2>1
    <3>2. x = y
      BY <1>2, <1>26, <2>1, <3>1 DEF DriveRules
    <3> QED BY <1>25, <2>1, <3>1, <3>2 DEF Right
  <2>2. CASE x \notin {d} \cup walk
    <3>1. x \in Sure /\ x \in Dir /\ x \notin job.doubtful
      BY <1>3, <1>23, <2>2 DEF Sure
    <3>2. job.frnOf[x] = delta.frnOf[x]
      BY <1>21, <2>2, <3>1
    <3>3. Right(StagedFacts(delta.staged), x, content, y)
      BY <1>1, <1>2, <1>27, <3>1, <3>2 DEF ListingVouched, AllRight
    <3>4. \A n \in Children(x) : StagedFacts(job.staged)[n] = StagedFacts(delta.staged)[n]
      BY <1>8, <1>10, <2>2 DEF StagedFacts, Children
    <3> QED BY <3>3, <3>4 DEF Right
  <2> QED BY <2>1, <2>2
<1>28. ASSUME Usable(Stored)
       PROVE  AllRight(LiveFacts(job.files),
                       LiveRows(job.dirs) \ (job.listed \cup Pending' \cup leftOut \cup job.doubtful),
                       job.frnOf, content, ident, Named(delta.next))
  <2> SUFFICES ASSUME NEW x \in (LiveRows(job.dirs) \ (job.listed \cup Pending' \cup leftOut \cup job.doubtful)) \ {Root},
                      NEW y \in Dir \ {Root},
                      ident[y] # 0, job.frnOf[x] = ident[y], ident[y] \notin Named(delta.next)
               PROVE  Right(LiveFacts(job.files), x, content, y)
    BY DEF AllRight
  <2>1. /\ x \in Dir /\ job.dirs[x].st = "live" /\ x \notin job.doubtful /\ x \notin walk /\ x # d
        /\ x \notin delta.listed \cup Pending \cup leftOut \cup delta.doubtful
    BY <1>8, <1>17 DEF LiveRows
  <2>2. job.frnOf[x] = delta.frnOf[x] /\ delta.dirs[x].st = "live"
        /\ \A n \in Children(x) : job.files[n] = delta.files[n]
    BY <1>21, <2>1
  <2>3. x \in LiveRows(delta.dirs) \ (delta.listed \cup Pending \cup leftOut \cup delta.doubtful)
    BY <2>1, <2>2 DEF LiveRows
  <2>4. Right(LiveFacts(delta.files), x, content, y)
    BY <1>1, <1>2, <1>28, <2>2, <2>3 DEF ListingVouched, AllRight
  <2>5. \A n \in Children(x) : LiveFacts(job.files)[n] = LiveFacts(delta.files)[n]
    BY <2>2 DEF LiveFacts, Children
  <2> QED BY <2>4, <2>5 DEF Right
<1>29. ListingVouched'
  <2>1. StagedFacts(delta.staged)' = StagedFacts(job.staged) /\ LiveFacts(delta.files)' = LiveFacts(job.files)
        /\ delta.frnOf' = job.frnOf
        /\ (LiveRows(delta.dirs) \ (delta.listed \cup Pending \cup leftOut \cup delta.doubtful))'
             = LiveRows(job.dirs) \ (job.listed \cup Pending' \cup leftOut \cup job.doubtful)
    BY <1>1, <1>7 DEF StagedFacts, LiveFacts, LiveRows
  <2> QED BY <1>1, <1>17, <1>27, <1>28, <2>1 DEF ListingVouched
<1>30. MergeVouched' /\ CursorVouched'
  BY <1>7, <1>8 DEF MergeVouched, CursorVouched
<1> QED BY <1>2, <1>15, <1>16, <1>22, <1>24, <1>29, <1>30 DEF DeltaInv

-----------------------------------------------------------------------------
LEMMA DeltaInvariant == DeltaSpec => []DeltaInv
<1>1. DeltaInv /\ [DeltaNext]_deltaVars => DeltaInv'
  BY DriveHolds, FullHolds, BeginHolds, UnlistableHolds, ListHolds, CommitHolds, MergeHolds, StoreHolds,
     CrashHolds, StutterHolds DEF DeltaNext
<1> QED BY <1>1, DeltaStart, PTL DEF DeltaSpec

(* Whenever a delta would be used, every directory whose number no unread  *)
(* record names is catalogued as it is on the drive, unless it is one of   *)
(* those that the property leaves out (delta.py and journal.py: the order  *)
(* of the listings, the merge and the cursor).                             *)
THEOREM CursorAlwaysCovers == DeltaSpec => []CursorCovers
<1>1. ASSUME DeltaInv PROVE CursorCovers
  <2> SUFFICES ASSUME Usable(cursor), NEW d \in Dir \ {Root},
                      IsDir(d), dirs[d].st = "live", frnOf[d] = ident[d],
                      ident[d] \notin Touched(Unread), d \notin leftOut,
                      NEW n \in Children(d)
               PROVE  Agrees(n)
    BY DEF CursorCovers
  <2>1. DriveTypes /\ DriveRules /\ RowTypes /\ Vouched /\ cursor \in [id : Nat, next : Nat]
    BY <1>1 DEF DeltaInv, DriveInv, RowTypes
  <2>2. ident[d] # 0 /\ ident[d] \notin Named(cursor.next)
    BY <2>1, UnreadNames DEF DriveRules
  <2>3. Right(LiveFacts(files), d, content, d)
    BY <2>1, <2>2 DEF Vouched, AllRight, LiveRows
  <2>4. PICK m \in Children(d) : EntryName[m] = EntryName[n] /\ LiveFacts(files)[n] = Shown(content[m])
    BY <2>3 DEF Right
  <2>5. m = n /\ n \in Entry
    BY <2>4, DeltaAssumption DEF Children
  <2>6. LiveFacts(files)[n] = Shown(content[n]) /\ LiveFacts(files)[n] = IF files[n].st = "live" THEN files[n].facts ELSE "absent"
    BY <2>4, <2>5 DEF LiveFacts
  <2>7. files[n].facts \in Stamp \cup {"unknown", "none"} /\ {"absent", "unknown", "none"} \cap Stamp = {}
    BY <2>1, <2>5, StampAssumption DEF RowTypes, FileRow, Facts
  <2>8. CASE files[n].st = "live"
    <3>1. files[n].facts = Shown(content[n]) /\ files[n].facts # "absent"
      BY <2>6, <2>7, <2>8
    <3>2. content[n] \in Stamp /\ files[n].facts = content[n]
      BY <3>1 DEF Shown
    <3> QED BY <2>8, <3>2 DEF Agrees
  <2>9. CASE files[n].st # "live"
    <3>1. content[n] \notin Stamp
      BY <2>6, <2>7, <2>9 DEF Shown
    <3> QED BY <2>9, <3>1 DEF Agrees
  <2> QED BY <2>8, <2>9
<1> QED BY <1>1, DeltaInvariant, PTL
=============================================================================
