------------------------------- MODULE ScanProofs ------------------------------
(***************************************************************************)
(* Theorems about Scan, for every tree, every set of scanning programs and *)
(* every value of the bounds.                                              *)
(***************************************************************************)
EXTENDS Scan, FiniteSetTheorems, TLAPS

--------------------------------------------------------------------------------
(* Types *)

LEMMA IdleType == Idle \in Local
BY ScanAssumption DEF Idle, Local, Step, WalkState, Observed, Kind, ScanState

LEMMA GotoType ==
    ASSUME proc \in [Proc -> Local], NEW p \in Proc, NEW l \in Local, Goto(p, l)
    PROVE  proc' \in [Proc -> Local]
BY DEF Goto

LEMMA CommitType ==
    ASSUME TypeOK, NEW p \in Proc, NEW new \in Catalog, Commit(p, new)
    PROVE  /\ cat' \in Catalog
           /\ tx' \in Catalog
           /\ lock' \in Proc \cup {NoProc}
           /\ stale' \subseteq Proc
BY DEF Commit, TypeOK, Overtaken

LEMMA WriteType ==
    ASSUME TypeOK, NEW p \in Proc, NEW new \in Catalog, Write(p, new)
    PROVE  /\ cat' \in Catalog
           /\ tx' \in Catalog
           /\ lock' \in Proc \cup {NoProc}
           /\ stale' \subseteq Proc
BY DEF Write, TypeOK

LEMMA NoWriteType ==
    ASSUME TypeOK, NoWrite
    PROVE  /\ cat' \in Catalog
           /\ tx' \in Catalog
           /\ lock' \in Proc \cup {NoProc}
           /\ stale' \subseteq Proc
BY DEF NoWrite, TypeOK

LEMMA QuietType ==
    ASSUME TypeOK, Quiet
    PROVE  /\ disk' \in [Entry -> Kind]
           /\ nolist' \subseteq Dir
           /\ nostat' \subseteq Dir
           /\ changes' \in 0 .. MaxChanges
           /\ crashes' \in 0 .. MaxCrashes
BY DEF Quiet, TypeOK

\* What each statement of the store does to the catalog keeps its shape.
LEMMA InternType ==
    ASSUME NEW t \in Catalog, NEW d \in Dir, NEW id \in ScanId
    PROVE  [t EXCEPT !.dir = InternDir(@, d, id)] \in Catalog
<1>1. [st |-> "live", seen |-> id] \in DirRow
  BY ScanAssumption DEF DirRow, RowStatus, ScanId
<1>2. InternDir(t.dir, d, id) \in [Dir -> DirRow]
  BY <1>1 DEF InternDir, Catalog
<1> QED BY <1>2 DEF Catalog

LEMMA StagedType ==
    ASSUME NEW t \in Catalog, NEW l \in Local, l.id \in ScanId, NEW ns \in SUBSET Entry,
           \A n \in ns : l.saw[n] \in Facts
    PROVE  Staged(t, l, ns) \in Catalog
<1> DEFINE row == [n \in Entry |-> IF n \in ns THEN l.saw[n] ELSE t.staged[l.id][n]]
<1>1. row \in [Entry -> Facts \cup {"none"}]
  BY DEF Catalog
<1>2. [t.staged EXCEPT ![l.id] = row] \in [ScanId -> [Entry -> Facts \cup {"none"}]]
  BY <1>1 DEF Catalog
<1>3. Staged(t, l, ns) = [t EXCEPT !.staged = [t.staged EXCEPT ![l.id] = row]]
  BY DEF Staged
<1> HIDE DEF row
<1> QED BY <1>2, <1>3 DEF Catalog

LEMMA ClearType ==
    ASSUME NEW t \in Catalog, NEW id \in ScanId
    PROVE  ClearStage(t, id) \in Catalog
BY DEF Catalog, ClearStage

LEMMA MergedType ==
    ASSUME NEW t \in Catalog, NEW id \in ScanId
    PROVE  Merged(t, id) \in Catalog
<1> DEFINE files == Upsert(t.file, t.staged[id], id)
           L     == t.listed[id]
           fs    == TombstoneFiles(files, VanishedFiles(t.dir, files, L, id))
           ds    == TombstoneDirs(t.dir, GoneDirs(t.dir, L, id))
<1>1. files \in [Entry -> FileRow]
  BY ScanAssumption DEF Catalog, Upsert, FileRow, RowStatus, ScanId
<1>2. fs \in [Entry -> FileRow]
  BY <1>1 DEF TombstoneFiles, FileRow, RowStatus
<1>3. ds \in [Dir -> DirRow]
  BY DEF TombstoneDirs, DirRow, RowStatus, Catalog
<1>4. [t EXCEPT !.file = fs, !.dir = ds] \in Catalog
  BY <1>2, <1>3 DEF Catalog
<1> QED BY <1>4, ClearType DEF Merged

LEMMA RollupType ==
    ASSUME NEW t \in Catalog
    PROVE  [t EXCEPT !.rollup = LiveBeneath(t.dir, t.file)] \in Catalog
BY DEF Catalog, LiveBeneath, Beneath

--------------------------------------------------------------------------------
(* The invariant holds at the start *)

LEMMA InitInv == Init => StoreInv
<1> SUFFICES ASSUME Init PROVE StoreInv
  OBVIOUS
<1>1. EmptyCatalog \in Catalog
  BY ScanAssumption DEF EmptyCatalog, Catalog, NoDirRow, NoFileRow, DirRow, FileRow,
                        RowStatus, ScanState, ScanId
<1>2. TypeOK
  BY <1>1, IdleType, DiskAssumption, BoundAssumption DEF Init, TypeOK
<1>3. WalkInv
  BY DEF Init, WalkInv, WalkOK, Idle
<1>4. IdInv /\ TxInv /\ ListedInv
  BY ProcAssumption DEF Init, IdInv, TxInv, ListedInv, Active, Idle
<1>5. MergeInv
  BY ScanAssumption DEF Init, MergeInv, NothingStaged, Active, Idle, EmptyCatalog, NoFileRow, ScanId
<1> QED BY <1>2, <1>3, <1>4, <1>5 DEF StoreInv

--------------------------------------------------------------------------------
(* Steps that change nothing but the state of a walking scan *)

\* What a step of the enumeration may do to the scan's own state.
Onward(p, l) ==
    /\ p \in Proc
    /\ proc[p].pc = "walk"
    /\ l \in Local
    /\ l.pc \in {"walk", "merge", "refuse"}
    /\ l.id = proc[p].id
    /\ l.outcome = proc[p].outcome
    /\ \A d \in Dir : proc[p].walk[d] = "read" => l.walk[d] = "read"
    /\ WalkOK(l)

LEMMA QuietStep ==
    ASSUME StoreInv, NEW p, NEW l, Onward(p, l), l.pc = "walk" \/ lock # p, Goto(p, l), NoWrite, Quiet
    PROVE  StoreInv'
<1>1. TypeOK'
  BY GotoType, NoWriteType, QuietType DEF StoreInv, TypeOK, Onward
<1>2. /\ proc' = [proc EXCEPT ![p] = l]
      /\ proc \in [Proc -> Local] /\ p \in Proc
      /\ cat' = cat /\ tx' = tx /\ lock' = lock
      /\ lock \in Proc \cup {NoProc}
  BY DEF StoreInv, TypeOK, Onward, Goto, NoWrite
<1>3. WalkInv'
  BY <1>2 DEF StoreInv, WalkInv, WalkOK, Onward
<1>4. IdInv'
  BY <1>2 DEF StoreInv, IdInv, Active, Onward
<1>5. TxInv'
  BY <1>2 DEF StoreInv, TxInv, Onward
<1>6. ListedInv'
  <2> SUFFICES ASSUME NEW q \in Proc, Active(q)',
                      NEW d \in cat.listed[proc'[q].id] \cup tx.listed[proc'[q].id]
               PROVE  proc'[q].walk[d] = "read"
    BY <1>2 DEF ListedInv
  <2>1. Active(q) /\ proc'[q].id = proc[q].id
    BY <1>2 DEF Active, Onward
  <2>2. proc[q].walk[d] = "read"
    BY <2>1 DEF StoreInv, ListedInv
  <2>3. d \in Dir
    BY <2>1, <1>2 DEF StoreInv, IdInv, TypeOK, Catalog
  <2> QED BY <1>2, <2>2, <2>3 DEF Onward
<1>7. MergeInv'
  BY <1>2 DEF StoreInv, MergeInv, Active, NothingStaged, Onward
<1> QED BY <1>1, <1>3, <1>4, <1>5, <1>6, <1>7 DEF StoreInv

--------------------------------------------------------------------------------
(* Steps that write inside the enumeration's transaction *)

\* What the enumeration may have written when it gets to new.
Enumerated(new, l) ==
    /\ new \in Catalog
    /\ new.file = tx.file
    /\ new.scan = tx.scan
    /\ \A d \in Dir : tx.dir[d].st = "live" => new.dir[d].st = "live"
    /\ \A i \in ScanId \ {l.id} : new.staged[i] = tx.staged[i] /\ new.listed[i] = tx.listed[i]
    /\ \A d \in new.listed[l.id] : l.walk[d] = "read"

\* To whoever may write, the transaction looks like the committed catalog but for its own rows.
LEMMA HolderView ==
    ASSUME StoreInv, NEW p \in Proc, CanWrite(p)
    PROVE  /\ tx.file = cat.file
           /\ tx.scan = cat.scan
           /\ \A d \in Dir : cat.dir[d].st = "live" => tx.dir[d].st = "live"
           /\ \A i \in ScanId \ {proc[p].id} : tx.staged[i] = cat.staged[i] /\ tx.listed[i] = cat.listed[i]
BY DEF StoreInv, TxInv, CanWrite

LEMMA WriteStep ==
    ASSUME StoreInv, NEW p, NEW l, Onward(p, l), l.pc = "walk", Goto(p, l),
           NEW new, Enumerated(new, l), Write(p, new), Quiet
    PROVE  StoreInv'
<1>1. TypeOK'
  BY GotoType, WriteType, QuietType DEF StoreInv, TypeOK, Onward, Enumerated
<1>2. /\ proc' = [proc EXCEPT ![p] = l]
      /\ proc \in [Proc -> Local] /\ p \in Proc
      /\ cat' = cat /\ tx' = new /\ lock' = p
      /\ CanWrite(p) /\ p # NoProc
  BY ProcAssumption DEF StoreInv, TypeOK, Onward, Goto, Write
<1>3. WalkInv'
  BY <1>2 DEF StoreInv, WalkInv, WalkOK, Onward
<1>4. IdInv'
  BY <1>2 DEF StoreInv, IdInv, Active, Onward
<1>5. TxInv'
  BY <1>2, HolderView DEF TxInv, Onward, Enumerated
<1>6. ListedInv'
  <2> SUFFICES ASSUME NEW q \in Proc, Active(q)',
                      NEW d \in cat.listed[proc'[q].id] \cup new.listed[proc'[q].id]
               PROVE  proc'[q].walk[d] = "read"
    BY <1>2 DEF ListedInv
  <2>1. Active(q) /\ proc'[q].id = proc[q].id /\ proc[q].id \in ScanId
    BY <1>2 DEF Active, Onward, StoreInv, IdInv
  <2>2. d \in Dir
    BY <2>1, <1>2 DEF StoreInv, IdInv, TypeOK, Catalog, Enumerated
  <2>3. CASE d \in cat.listed[proc[q].id]
    BY <2>1, <2>2, <2>3, <1>2 DEF StoreInv, ListedInv, Onward
  <2>4. CASE q = p /\ d \in new.listed[proc[q].id]
    BY <2>4, <1>2 DEF Enumerated, Onward
  <2>5. CASE q # p /\ d \in new.listed[proc[q].id]
    <3>1. proc[q].id # l.id
      BY <2>1, <2>5, <1>2 DEF StoreInv, IdInv, Active, Onward
    <3>2. d \in tx.listed[proc[q].id]
      BY <2>1, <2>5, <3>1 DEF Enumerated
    <3> QED BY <3>2, <2>1, <2>5, <1>2 DEF StoreInv, ListedInv
  <2> QED BY <2>1, <2>3, <2>4, <2>5
<1>7. MergeInv'
  BY <1>2 DEF StoreInv, MergeInv, Active, NothingStaged, Onward
<1> QED BY <1>1, <1>3, <1>4, <1>5, <1>6, <1>7 DEF StoreInv

LEMMA WalkCommitStep ==
    ASSUME StoreInv, NEW p, NEW l, Onward(p, l), Goto(p, l),
           NEW new, Enumerated(new, l), Commit(p, new), Quiet
    PROVE  StoreInv'
<1>1. TypeOK'
  BY GotoType, CommitType, QuietType DEF StoreInv, TypeOK, Onward, Enumerated
<1>2. /\ proc' = [proc EXCEPT ![p] = l]
      /\ proc \in [Proc -> Local] /\ p \in Proc
      /\ cat' = new /\ tx' = new /\ lock' = NoProc
      /\ CanWrite(p)
  BY DEF StoreInv, TypeOK, Onward, Goto, Commit
<1>3. WalkInv'
  BY <1>2 DEF StoreInv, WalkInv, WalkOK, Onward
<1>4. IdInv'
  BY <1>2, HolderView DEF StoreInv, IdInv, Active, Onward, Enumerated
<1>5. TxInv'
  BY <1>2 DEF TxInv
<1>6. ListedInv'
  <2> SUFFICES ASSUME NEW q \in Proc, Active(q)', NEW d \in new.listed[proc'[q].id]
               PROVE  proc'[q].walk[d] = "read"
    BY <1>2 DEF ListedInv
  <2>1. Active(q) /\ proc'[q].id = proc[q].id /\ proc[q].id \in ScanId
    BY <1>2 DEF Active, Onward, StoreInv, IdInv
  <2>2. CASE q = p
    BY <2>2, <1>2 DEF Enumerated, Onward
  <2>3. CASE q # p
    <3>1. proc[q].id # l.id
      BY <2>1, <2>3, <1>2 DEF StoreInv, IdInv, Active, Onward
    <3>2. d \in tx.listed[proc[q].id]
      BY <2>1, <3>1 DEF Enumerated
    <3> QED BY <3>2, <2>1, <2>3, <1>2 DEF StoreInv, ListedInv
  <2> QED BY <2>2, <2>3
<1>7. MergeInv'
  <2>1. proc[p].pc = "walk" /\ Active(p) /\ l.id = proc[p].id /\ l.id \in ScanId
    BY DEF Onward, Active, StoreInv, IdInv
  <2>2. new.file = cat.file /\ new.scan = cat.scan
    BY <1>2, HolderView DEF Enumerated, Onward
  <2>3. \A i \in ScanId : i # l.id /\ NothingStaged(cat, i) => NothingStaged(new, i)
    BY <1>2, <2>1, HolderView DEF Enumerated, NothingStaged, Onward
  <2>4. cat.scan[l.id] \notin {"unused", "done"} /\ \A n \in Entry : cat.file[n].seen # l.id
    <3>1. cat.scan[l.id] # "unused"
      BY <2>1, <1>2 DEF StoreInv, IdInv
    <3>2. proc[p].pc \notin {"rollup", "finish", "audit"}
      BY <2>1
    <3>3. ~(cat.scan[l.id] = "done" \/ \E n \in Entry : cat.file[n].seen = l.id)
      BY <2>1, <3>2, <1>2 DEF StoreInv, MergeInv
    <3> QED BY <3>1, <3>3
  <2>5. \A q \in Proc : /\ Active(q)' <=> Active(q)
                        /\ proc'[q].id = proc[q].id
                        /\ proc'[q].outcome = proc[q].outcome
                        /\ q # p => proc'[q] = proc[q]
    BY <1>2, <2>1 DEF Active, Onward
  <2>6. \A i \in ScanId : new.scan[i] = "unused" =>
          NothingStaged(new, i) /\ \A n \in Entry : new.file[n].seen # i
    BY <2>2, <2>3, <2>4 DEF StoreInv, MergeInv
  <2>7. \A i \in ScanId : (new.scan[i] = "done" \/ \E n \in Entry : new.file[n].seen = i) =>
         /\ NothingStaged(new, i)
         /\ \A q \in Proc : Active(q)' /\ proc'[q].id = i => proc'[q].pc \in {"rollup", "finish", "audit"}
    <3> SUFFICES ASSUME NEW i \in ScanId, new.scan[i] = "done" \/ \E n \in Entry : new.file[n].seen = i
                 PROVE  /\ NothingStaged(new, i)
                        /\ \A q \in Proc : Active(q)' /\ proc'[q].id = i =>
                             proc'[q].pc \in {"rollup", "finish", "audit"}
      OBVIOUS
    <3>1. i # l.id /\ (cat.scan[i] = "done" \/ \E n \in Entry : cat.file[n].seen = i)
      BY <2>2, <2>4
    <3>2. NothingStaged(new, i)
      BY <2>3, <3>1 DEF StoreInv, MergeInv
    <3>3. \A q \in Proc : Active(q)' /\ proc'[q].id = i => q # p
      BY <2>1, <2>5, <3>1
    <3>4. \A q \in Proc : Active(q)' /\ proc'[q].id = i => proc'[q].pc \in {"rollup", "finish", "audit"}
      BY <2>5, <3>1, <3>3 DEF StoreInv, MergeInv
    <3> QED BY <3>2, <3>4
  <2>8. \A q \in Proc : (proc'[q].pc = "rollup" \/ proc'[q].outcome = "done") =>
         /\ Active(q)'
         /\ proc'[q].pc \in {"rollup", "finish", "audit"}
         /\ NothingStaged(new, proc'[q].id)
    <3> SUFFICES ASSUME NEW q \in Proc, proc'[q].pc = "rollup" \/ proc'[q].outcome = "done"
                 PROVE  /\ Active(q)'
                        /\ proc'[q].pc \in {"rollup", "finish", "audit"}
                        /\ NothingStaged(new, proc'[q].id)
      OBVIOUS
    <3>1. q # p
      BY <1>2, <2>1, <2>5 DEF StoreInv, MergeInv, Onward
    <3>2. Active(q) /\ proc[q].id # l.id /\ proc[q].id \in ScanId /\ NothingStaged(cat, proc[q].id)
      BY <2>1, <2>5, <3>1 DEF StoreInv, MergeInv, IdInv, Onward
    <3> QED BY <2>3, <2>5, <3>1, <3>2 DEF StoreInv, MergeInv
  <2> QED BY <1>2, <2>6, <2>7, <2>8 DEF MergeInv, NothingStaged
<1> QED BY <1>1, <1>3, <1>4, <1>5, <1>6, <1>7 DEF StoreInv

--------------------------------------------------------------------------------
(* The enumeration, action by action *)

LEMMA WalkFacts ==
    ASSUME StoreInv, NEW p \in Proc, proc[p].pc = "walk"
    PROVE  /\ proc[p] \in Local
           /\ WalkOK(proc[p])
           /\ proc[p].id \in ScanId
           /\ tx \in Catalog
           /\ \A d \in tx.listed[proc[p].id] : d \in Dir /\ proc[p].walk[d] = "read"
BY DEF StoreInv, TypeOK, WalkInv, IdInv, ListedInv, Active, Catalog

\* Any field of a scan's state can be replaced by one of its type.
LEMMA LocalFields ==
    ASSUME NEW l \in Local
    PROVE  /\ \A x \in [Dir -> WalkState] : [l EXCEPT !.walk = x] \in Local
           /\ \A x \in [Entry -> Observed] : [l EXCEPT !.saw = x] \in Local
           /\ \A x \in SUBSET Dir : [l EXCEPT !.placed = x] \in Local
           /\ \A x \in SUBSET Dir : [l EXCEPT !.cur = x] \in Local
           /\ \A x \in SUBSET Entry : [l EXCEPT !.left = x] \in Local
           /\ \A x \in SUBSET Entry : [l EXCEPT !.pending = x] \in Local
           /\ \A x \in SUBSET Dir : [l EXCEPT !.fresh = x] \in Local
           /\ \A x \in Nat : [l EXCEPT !.since = x] \in Local
           /\ \A x \in Step : [l EXCEPT !.pc = x] \in Local
           /\ \A x \in ScanState : [l EXCEPT !.outcome = x] \in Local
           /\ \A x \in BOOLEAN : [l EXCEPT !.calm = x] \in Local
           /\ \A x \in ScanId : [l EXCEPT !.id = x] \in Local
           /\ \A x \in ExcludeChoices : [l EXCEPT !.excl = x] \in Local
           /\ \A x \in SUBSET Dir : [l EXCEPT !.before = x] \in Local
BY DEF Local, ScanId

LEMMA ListStep ==
    ASSUME StoreInv, NEW p \in Proc, NEW d \in Dir, List(p, d)
    PROVE  StoreInv'
<1>1. proc[p].pc = "walk" /\ proc[p].walk[d] = "queued" /\ NoWrite /\ Quiet
  BY DEF List
<1> DEFINE good == IsThere(d) /\ d \notin nolist
           w == [proc[p].walk EXCEPT ![d] = IF good THEN "listed" ELSE "denied"]
           s == IF good THEN [n \in Entry |-> IF Parent[n] = d THEN Look(n) ELSE proc[p].saw[n]]
                        ELSE proc[p].saw
           l == [proc[p] EXCEPT !.walk = w, !.saw = s]
<1>2. /\ w \in [Dir -> WalkState]
      /\ w[d] \in {"listed", "denied"}
      /\ \A e \in Dir \ {d} : w[e] = proc[p].walk[e]
  BY <1>1, WalkFacts DEF Local, WalkState
<1>3. /\ s \in [Entry -> Observed]
      /\ \A n \in Entry : Parent[n] # d => s[n] = proc[p].saw[n]
  <2>1. \A n \in Entry : Look(n) \in Observed
    BY DEF StoreInv, TypeOK, Look, Observed
  <2>2. proc[p].saw \in [Entry -> Observed]
    BY <1>1, WalkFacts DEF Local
  <2> HIDE DEF good
  <2> QED BY <2>1, <2>2
<1>4. Goto(p, l)
  <2>1. CASE good
    BY <2>1, <1>1, WalkFacts DEF List, Local
  <2>2. CASE ~good
    BY <2>2, <1>1, WalkFacts DEF List, Local
  <2> QED BY <2>1, <2>2
<1> HIDE DEF w, s
<1>5. l \in Local
  BY <1>1, <1>2, <1>3, WalkFacts, LocalFields
<1>6. l.walk = w /\ l.saw = s /\ l.cur = proc[p].cur /\ l.fresh = proc[p].fresh
      /\ l.left = proc[p].left /\ l.pending = proc[p].pending
      /\ l.pc = "walk" /\ l.id = proc[p].id /\ l.outcome = proc[p].outcome
  BY <1>1, WalkFacts DEF Local
<1> HIDE DEF l
<1>7. WalkOK(l)
  <2>1. \A e \in Dir : proc[p].walk[e] = "read" => w[e] = "read" /\ e # d
    BY <1>1, <1>2
  <2>2. \A e \in Dir : proc[p].walk[e] # "none" <=> w[e] # "none"
    BY <1>1, <1>2
  <2> QED BY <2>1, <2>2, <1>1, <1>3, <1>6, WalkFacts, TreeAssumption DEF WalkOK, Local, Entry
<1>8. Onward(p, l)
  BY <1>1, <1>2, <1>5, <1>6, <1>7 DEF Onward
<1> QED BY <1>1, <1>4, <1>6, <1>8, QuietStep

LEMMA TakeUnusableStep ==
    ASSUME StoreInv, NEW p \in Proc, NEW d \in Dir, TakeUnusable(p, d)
    PROVE  StoreInv'
<1> DEFINE w == [proc[p].walk EXCEPT ![d] = IF d \in proc[p].placed THEN "unread" ELSE "unplaced"]
           l == [proc[p] EXCEPT !.walk = w, !.placed = @ \ {d}]
<1>1. /\ proc[p].pc = "walk" /\ proc[p].walk[d] \in {"denied", "listed"}
      /\ NoWrite /\ Quiet /\ Goto(p, l)
  BY WalkFacts DEF TakeUnusable, Local
<1>2. /\ w \in [Dir -> WalkState]
      /\ w[d] \in {"unread", "unplaced"}
      /\ \A e \in Dir \ {d} : w[e] = proc[p].walk[e]
  BY <1>1, WalkFacts DEF Local, WalkState
<1> HIDE DEF w
<1>3. l \in Local
  <2>1. proc[p].placed \ {d} \in SUBSET Dir
    BY <1>1, WalkFacts DEF Local
  <2> QED BY <2>1, <1>1, <1>2, WalkFacts, LocalFields
<1>4. l.walk = w /\ l.saw = proc[p].saw /\ l.cur = proc[p].cur /\ l.fresh = proc[p].fresh
      /\ l.left = proc[p].left /\ l.pending = proc[p].pending
      /\ l.pc = "walk" /\ l.id = proc[p].id /\ l.outcome = proc[p].outcome
  BY <1>1, WalkFacts DEF Local
<1> HIDE DEF l
<1>5. WalkOK(l)
  <2>1. \A e \in Dir : proc[p].walk[e] = "read" => w[e] = "read"
    BY <1>1, <1>2
  <2>2. \A e \in Dir : proc[p].walk[e] # "none" <=> w[e] # "none"
    BY <1>1, <1>2
  <2> QED BY <2>1, <2>2, <1>1, <1>4, WalkFacts, TreeAssumption DEF WalkOK, Local, Entry
<1>6. Onward(p, l)
  BY <1>1, <1>2, <1>3, <1>4, <1>5 DEF Onward
<1> QED BY <1>1, <1>4, <1>6, QuietStep

LEMMA TakeListedStep ==
    ASSUME StoreInv, NEW p \in Proc, NEW d \in Dir, TakeListed(p, d)
    PROVE  StoreInv'
<1> DEFINE fresh == proc[p].fresh \cup {d}
           w == [proc[p].walk EXCEPT ![d] = "read"]
           c == {n \in Children(d) : proc[p].saw[n] # "absent"}
           f == IF Cardinality(fresh) >= BatchRows THEN {} ELSE fresh
           l == [proc[p] EXCEPT !.walk = w, !.placed = @ \ {d}, !.cur = {d}, !.left = c, !.fresh = f]
           new == [tx EXCEPT !.listed[proc[p].id] = @ \cup fresh]
<1>1. /\ proc[p].pc = "walk" /\ proc[p].walk[d] = "listed" /\ proc[p].cur = {}
      /\ Quiet /\ Goto(p, l) /\ (NoWrite \/ Write(p, new))
  BY WalkFacts DEF TakeListed, Local
<1>2. /\ w \in [Dir -> WalkState]
      /\ w[d] = "read"
      /\ \A e \in Dir \ {d} : w[e] = proc[p].walk[e]
      /\ fresh \in SUBSET Dir /\ f \in SUBSET Dir /\ f \subseteq fresh
      /\ c \in SUBSET Entry
      /\ \A n \in c : Parent[n] = d
  BY <1>1, WalkFacts DEF Local, WalkState, Children
<1>3. Enumerated(new, l)
  <2>1. l.walk = w /\ l.id = proc[p].id
    BY <1>1, WalkFacts DEF Local
  <2>2. [tx.listed EXCEPT ![proc[p].id] = @ \cup fresh] \in [ScanId -> SUBSET Dir]
    BY <1>1, <1>2, WalkFacts DEF Catalog
  <2>3. new \in Catalog
    BY <1>1, <2>2, WalkFacts DEF Catalog
  <2>4. \A e \in fresh : w[e] = "read"
    BY <1>1, <1>2, WalkFacts DEF WalkOK
  <2>5. \A e \in tx.listed[proc[p].id] : w[e] = "read"
    BY <1>1, <1>2, WalkFacts
  <2>6. new.listed[l.id] = tx.listed[proc[p].id] \cup fresh
    BY <1>1, <2>1, WalkFacts DEF Catalog
  <2>7. /\ new.file = tx.file /\ new.scan = tx.scan /\ new.dir = tx.dir /\ new.staged = tx.staged
        /\ \A i \in ScanId \ {l.id} : new.listed[i] = tx.listed[i]
    BY <1>1, <2>1, WalkFacts DEF Catalog
  <2> HIDE DEF new, w, fresh, l
  <2> QED BY <2>1, <2>3, <2>4, <2>5, <2>6, <2>7 DEF Enumerated
<1> HIDE DEF w, c, f, fresh, new
<1>4. l \in Local
  <2>1. proc[p].placed \ {d} \in SUBSET Dir /\ {d} \in SUBSET Dir
    BY <1>1, WalkFacts DEF Local
  <2> QED BY <2>1, <1>1, <1>2, WalkFacts, LocalFields
<1>5. l.walk = w /\ l.saw = proc[p].saw /\ l.cur = {d} /\ l.fresh = f
      /\ l.left = c /\ l.pending = proc[p].pending
      /\ l.pc = "walk" /\ l.id = proc[p].id /\ l.outcome = proc[p].outcome
  BY <1>1, WalkFacts DEF Local
<1> HIDE DEF l
<1>6. WalkOK(l)
  <2>1. \A e \in Dir : proc[p].walk[e] = "read" => w[e] = "read"
    BY <1>1, <1>2
  <2>2. \A e \in Dir \ {Root} : w[e] # "none" => w[Parent[e]] = "read" /\ Parent[e] # d
    BY <1>1, <1>2, WalkFacts, TreeAssumption DEF WalkOK, Entry
  <2>3. \A e \in l.cur \cup l.fresh : w[e] = "read"
    BY <2>1, <1>1, <1>2, <1>5, WalkFacts DEF WalkOK, Local, fresh
  <2>4. \A n \in l.left \cup l.pending : w[Parent[n]] = "read"
    BY <2>1, <1>1, <1>2, <1>5, WalkFacts, TreeAssumption DEF WalkOK, Local
  <2>5. \A n \in l.pending : l.saw[n] \in Facts
    BY <1>1, <1>5, WalkFacts DEF WalkOK
  <2> QED BY <2>2, <2>3, <2>4, <2>5, <1>5 DEF WalkOK
<1>7. Onward(p, l)
  BY <1>1, <1>2, <1>4, <1>5, <1>6 DEF Onward
<1> QED BY <1>1, <1>3, <1>5, <1>7, QuietStep, WriteStep

LEMMA RecordSkipStep ==
    ASSUME StoreInv, NEW p \in Proc, NEW n \in Entry, RecordSkip(p, n)
    PROVE  StoreInv'
<1> DEFINE l == [proc[p] EXCEPT !.left = @ \ {n}]
<1>1. proc[p].pc = "walk" /\ NoWrite /\ Quiet /\ Goto(p, l)
  BY WalkFacts DEF RecordSkip, Local
<1>2. l \in Local
  <2>1. proc[p].left \ {n} \in SUBSET Entry
    BY <1>1, WalkFacts DEF Local
  <2> QED BY <2>1, <1>1, WalkFacts, LocalFields
<1>3. /\ l.walk = proc[p].walk /\ l.saw = proc[p].saw /\ l.cur = proc[p].cur /\ l.fresh = proc[p].fresh
      /\ l.left \subseteq proc[p].left /\ l.pending = proc[p].pending
      /\ l.pc = "walk" /\ l.id = proc[p].id /\ l.outcome = proc[p].outcome
  BY <1>1, WalkFacts DEF Local
<1> HIDE DEF l
<1>4. WalkOK(l)
  BY <1>1, <1>3, WalkFacts DEF WalkOK
<1>5. Onward(p, l)
  BY <1>1, <1>2, <1>3, <1>4 DEF Onward
<1> QED BY <1>1, <1>3, <1>5, QuietStep

LEMMA RecordDirStep ==
    ASSUME StoreInv, NEW p \in Proc, NEW n \in Entry, RecordDir(p, n)
    PROVE  StoreInv'
<1> DEFINE l == [proc[p] EXCEPT !.left = @ \ {n}, !.placed = @ \cup {n}]
           new == [tx EXCEPT !.dir = InternDir(@, n, proc[p].id)]
<1>1. proc[p].pc = "walk" /\ Quiet /\ Goto(p, l) /\ Write(p, new) /\ n \in Dir
  BY WalkFacts DEF RecordDir, RecordedDir, Local
<1>2. l \in Local
  <2>1. proc[p].left \ {n} \in SUBSET Entry /\ proc[p].placed \cup {n} \in SUBSET Dir
    BY <1>1, WalkFacts DEF Local
  <2> QED BY <2>1, <1>1, WalkFacts, LocalFields
<1>3. /\ l.walk = proc[p].walk /\ l.saw = proc[p].saw /\ l.cur = proc[p].cur /\ l.fresh = proc[p].fresh
      /\ l.left \subseteq proc[p].left /\ l.pending = proc[p].pending
      /\ l.pc = "walk" /\ l.id = proc[p].id /\ l.outcome = proc[p].outcome
  BY <1>1, WalkFacts DEF Local
<1> HIDE DEF l
<1>4. WalkOK(l)
  BY <1>1, <1>3, WalkFacts DEF WalkOK
<1>5. Onward(p, l)
  BY <1>1, <1>2, <1>3, <1>4 DEF Onward
<1>6. Enumerated(new, l)
  <2>1. new \in Catalog
    BY <1>1, WalkFacts, InternType
  <2>2. /\ new.file = tx.file /\ new.scan = tx.scan /\ new.staged = tx.staged /\ new.listed = tx.listed
        /\ new.dir = InternDir(tx.dir, n, proc[p].id)
    BY <1>1, WalkFacts DEF Catalog
  <2>3. \A d \in Dir : tx.dir[d].st = "live" => new.dir[d].st = "live"
    BY <1>1, <2>2, WalkFacts DEF Catalog, InternDir
  <2> HIDE DEF new
  <2> QED BY <2>1, <2>2, <2>3, <1>1, <1>3, WalkFacts DEF Enumerated
<1> HIDE DEF new
<1> QED BY <1>1, <1>3, <1>5, <1>6, WriteStep

\* Staging what is left of the batches touches only the scan's own staged rows.
LEMMA StagedEnumerated ==
    ASSUME StoreInv, NEW p \in Proc, proc[p].pc = "walk",
           NEW l, l.id = proc[p].id, l.walk = proc[p].walk
    PROVE  Enumerated([Staged(tx, proc[p], proc[p].pending)
                          EXCEPT !.listed[proc[p].id] = @ \cup proc[p].fresh], l)
<1> DEFINE ns == proc[p].pending
           ds == proc[p].fresh
<1>0. /\ ns \in SUBSET Entry /\ \A n \in ns : proc[p].saw[n] \in Facts
      /\ ds \in SUBSET Dir /\ \A d \in ds : l.walk[d] = "read"
  BY WalkFacts DEF WalkOK, Local
<1> HIDE DEF ns, ds
<1> DEFINE st  == Staged(tx, proc[p], ns)
           new == [st EXCEPT !.listed[proc[p].id] = @ \cup ds]
<1>1. st \in Catalog
  BY <1>0, WalkFacts, StagedType
<1>2. /\ st.file = tx.file /\ st.scan = tx.scan /\ st.dir = tx.dir /\ st.listed = tx.listed
      /\ \A i \in ScanId \ {proc[p].id} : st.staged[i] = tx.staged[i]
  BY WalkFacts DEF Staged, Catalog
<1> HIDE DEF st
<1>3. /\ new.file = tx.file /\ new.scan = tx.scan /\ new.dir = tx.dir /\ new.staged = st.staged
      /\ new.listed = [tx.listed EXCEPT ![proc[p].id] = @ \cup ds]
  BY <1>1, <1>2, WalkFacts DEF Catalog
<1>4. new.listed \in [ScanId -> SUBSET Dir]
  <2>1. tx.listed \in [ScanId -> SUBSET Dir] /\ proc[p].id \in ScanId
    BY WalkFacts DEF Catalog
  <2> HIDE DEF new
  <2> QED BY <2>1, <1>0, <1>3
<1>5. new \in Catalog
  BY <1>1, <1>4 DEF Catalog
<1>6. \A d \in new.listed[proc[p].id] : l.walk[d] = "read"
  BY <1>0, <1>3, WalkFacts DEF Catalog
<1>7. \A i \in ScanId \ {proc[p].id} : new.staged[i] = tx.staged[i] /\ new.listed[i] = tx.listed[i]
  BY <1>2, <1>3, WalkFacts DEF Catalog
<1> HIDE DEF new
<1>8. Enumerated(new, l)
  BY <1>3, <1>5, <1>6, <1>7, <1>2 DEF Enumerated
<1> QED BY <1>8 DEF new, st, ns, ds

LEMMA RecordFileStep ==
    ASSUME StoreInv, NEW p \in Proc, NEW n \in Entry, RecordFile(p, n)
    PROVE  StoreInv'
<1> DEFINE pending == proc[p].pending \cup {n}
           full    == Cardinality(pending) >= BatchRows
           since   == proc[p].since + Cardinality(pending)
           commit  == full /\ since >= CheckpointRows
           pd == IF full THEN {} ELSE pending
           sn == IF commit THEN 0 ELSE IF full THEN since ELSE proc[p].since
           l == [proc[p] EXCEPT !.left = @ \ {n}, !.pending = pd, !.since = sn]
           new == Staged(tx, proc[p], pending)
<1>1. /\ proc[p].pc = "walk" /\ Quiet /\ Goto(p, l) /\ proc[p].saw[n] \in Facts
      /\ n \in proc[p].left
  BY WalkFacts DEF RecordFile, RecordedFile, Local
<1>2. NoWrite \/ Write(p, new) \/ Commit(p, new)
  BY DEF RecordFile
<1>3. /\ pending \in SUBSET Entry /\ pd \in SUBSET Entry /\ pd \subseteq pending
      /\ \A m \in pending : proc[p].saw[m] \in Facts
      /\ \A m \in pending : proc[p].walk[Parent[m]] = "read"
  BY <1>1, WalkFacts DEF Local, WalkOK
<1>4. sn \in Nat
  <2>1. IsFiniteSet(pending)
    BY <1>3, TreeAssumption, FS_Subset DEF Entry
  <2>2. Cardinality(pending) \in Nat
    BY <2>1, FS_CardinalityType
  <2>3. proc[p].since \in Nat
    BY <1>1, WalkFacts DEF Local
  <2> HIDE DEF pending
  <2> QED BY <2>2, <2>3
<1> HIDE DEF pd, sn, full, commit, since
<1>5. l \in Local
  <2>1. proc[p].left \ {n} \in SUBSET Entry
    BY <1>1, WalkFacts DEF Local
  <2> QED BY <2>1, <1>1, <1>3, <1>4, WalkFacts, LocalFields
<1>6. /\ l.walk = proc[p].walk /\ l.saw = proc[p].saw /\ l.cur = proc[p].cur /\ l.fresh = proc[p].fresh
      /\ l.left \subseteq proc[p].left /\ l.pending = pd
      /\ l.pc = "walk" /\ l.id = proc[p].id /\ l.outcome = proc[p].outcome
  BY <1>1, WalkFacts DEF Local
<1> HIDE DEF l
<1>7. WalkOK(l)
  BY <1>1, <1>3, <1>6, WalkFacts DEF WalkOK
<1>8. Onward(p, l)
  BY <1>1, <1>5, <1>6, <1>7 DEF Onward
<1>9. Enumerated(new, l)
  <2>1. new \in Catalog
    BY <1>1, <1>3, WalkFacts, StagedType
  <2>2. /\ new.file = tx.file /\ new.scan = tx.scan /\ new.dir = tx.dir /\ new.listed = tx.listed
        /\ \A i \in ScanId \ {proc[p].id} : new.staged[i] = tx.staged[i]
    BY <1>1, WalkFacts DEF Staged, Catalog
  <2> HIDE DEF new
  <2> QED BY <2>1, <2>2, <1>1, <1>6, WalkFacts DEF Enumerated
<1> HIDE DEF new
<1> QED BY <1>1, <1>2, <1>6, <1>8, <1>9, QuietStep, WriteStep, WalkCommitStep

LEMMA DescendStep ==
    ASSUME StoreInv, NEW p \in Proc, Descend(p)
    PROVE  StoreInv'
<1> DEFINE down(d) == d # Root /\ Parent[d] \in proc[p].cur /\ ShouldDescend(proc[p], d)
           w == [d \in Dir |-> IF down(d) THEN "queued" ELSE proc[p].walk[d]]
           l == [proc[p] EXCEPT !.cur = {}, !.walk = w]
<1>1. proc[p].pc = "walk" /\ NoWrite /\ Quiet /\ Goto(p, l) /\ proc[p].left = {}
  BY WalkFacts DEF Descend, Local
<1>2. w \in [Dir -> WalkState]
  BY <1>1, WalkFacts DEF Local, WalkState
<1>3. \A d \in Dir : down(d) => proc[p].walk[d] = "none" /\ proc[p].walk[Parent[d]] = "read"
  BY <1>1, WalkFacts DEF WalkOK
<1>4. \A d \in Dir : proc[p].walk[d] = "read" => w[d] = "read"
  BY <1>3
<1>5. \A d \in Dir \ {Root} : w[d] # "none" => w[Parent[d]] = "read"
  <2> SUFFICES ASSUME NEW d \in Dir \ {Root}, w[d] # "none" PROVE w[Parent[d]] = "read"
    OBVIOUS
  <2>1. proc[p].walk[Parent[d]] = "read"
    BY <1>1, <1>3, WalkFacts DEF WalkOK
  <2>2. Parent[d] \in Dir
    BY TreeAssumption DEF Entry
  <2> QED BY <2>1, <2>2, <1>4
<1> HIDE DEF w
<1>6. l \in Local
  BY <1>1, <1>2, WalkFacts, LocalFields
<1>7. /\ l.walk = w /\ l.saw = proc[p].saw /\ l.cur = {} /\ l.fresh = proc[p].fresh
      /\ l.left = {} /\ l.pending = proc[p].pending
      /\ l.pc = "walk" /\ l.id = proc[p].id /\ l.outcome = proc[p].outcome
  BY <1>1, WalkFacts DEF Local
<1> HIDE DEF l
<1>8. WalkOK(l)
  BY <1>1, <1>4, <1>5, <1>7, WalkFacts, TreeAssumption DEF WalkOK, Local
<1>9. Onward(p, l)
  BY <1>1, <1>4, <1>6, <1>7, <1>8 DEF Onward
<1> QED BY <1>1, <1>7, <1>9, QuietStep

LEMMA EndWalkStep ==
    ASSUME StoreInv, NEW p \in Proc, EndWalk(p)
    PROVE  StoreInv'
<1> DEFINE pc == IF proc[p].walk[Root] = "read" THEN "merge" ELSE "refuse"
           l == [proc[p] EXCEPT !.pc = pc, !.pending = {}, !.fresh = {}]
           new == [Staged(tx, proc[p], proc[p].pending) EXCEPT !.listed[proc[p].id] = @ \cup proc[p].fresh]
<1>1. proc[p].pc = "walk" /\ Quiet /\ Goto(p, l) /\ pc \in Step /\ proc[p].cur = {}
  BY WalkFacts DEF EndWalk, WalkOver, Step
<1>2. Commit(p, new) \/ (lock # p /\ NoWrite)
  BY DEF EndWalk
<1>3. l \in Local
  BY <1>1, WalkFacts, LocalFields
<1>4. /\ l.walk = proc[p].walk /\ l.saw = proc[p].saw /\ l.cur = proc[p].cur /\ l.fresh = {}
      /\ l.left = proc[p].left /\ l.pending = {}
      /\ l.pc \in {"merge", "refuse"} /\ l.id = proc[p].id /\ l.outcome = proc[p].outcome
  BY <1>1, WalkFacts DEF Local
<1> HIDE DEF l
<1>5. WalkOK(l)
  BY <1>1, <1>4, WalkFacts DEF WalkOK
<1>6. Onward(p, l)
  BY <1>1, <1>3, <1>4, <1>5 DEF Onward
<1>7. Enumerated(new, l)
  BY <1>1, <1>4, StagedEnumerated
<1> HIDE DEF new
<1> QED BY <1>1, <1>2, <1>4, <1>6, <1>7, QuietStep, WalkCommitStep

--------------------------------------------------------------------------------
(* Steps outside the enumeration *)

\* A step that writes nothing, or takes back what its connection had written.
Withdraw(p, l) ==
    /\ p \in Proc
    /\ l \in Local
    /\ Goto(p, l)
    /\ cat' = cat
    /\ IF lock = p THEN tx' = cat /\ lock' = NoProc ELSE tx' = tx /\ lock' = lock
    /\ stale' \subseteq Proc
    /\ WalkOK(l)
    /\ l.outcome # "done"
    /\ \/ l.pc = "idle"
       \/ /\ proc[p].pc \in {"walk", "merge"}
          /\ l.pc \in {"finish", "merging"}
          /\ l.id = proc[p].id
          /\ l.walk = proc[p].walk

LEMMA WithdrawStep ==
    ASSUME StoreInv, NEW p, NEW l, Withdraw(p, l),
           disk' = disk, nolist' = nolist, nostat' = nostat, changes' = changes,
           crashes' \in 0 .. MaxCrashes
    PROVE  StoreInv'
<1>1. TypeOK'
  BY GotoType DEF StoreInv, TypeOK, Withdraw
<1>2. /\ proc' = [proc EXCEPT ![p] = l]
      /\ proc \in [Proc -> Local] /\ p \in Proc /\ l \in Local
      /\ cat' = cat
      /\ lock \in Proc \cup {NoProc}
  BY DEF StoreInv, TypeOK, Withdraw, Goto
<1>3. WalkInv'
  BY <1>2 DEF StoreInv, WalkInv, WalkOK, Withdraw
<1>4. IdInv'
  BY <1>2 DEF StoreInv, IdInv, Active, Withdraw
<1>5. TxInv'
  BY <1>2, ProcAssumption DEF StoreInv, TxInv, Withdraw
<1>6. ListedInv'
  <2> SUFFICES ASSUME NEW q \in Proc, Active(q)',
                      NEW d \in cat.listed[proc'[q].id] \cup tx'.listed[proc'[q].id]
               PROVE  proc'[q].walk[d] = "read"
    BY <1>2 DEF ListedInv
  <2>1. Active(q) /\ proc'[q].id = proc[q].id /\ proc'[q].walk = proc[q].walk
    BY <1>2 DEF Active, Withdraw
  <2>2. tx' \in {cat, tx}
    BY DEF Withdraw
  <2> QED BY <2>1, <2>2 DEF StoreInv, ListedInv
<1>7. MergeInv'
  <2>1. \A q \in Proc : q # p => proc'[q] = proc[q]
    BY <1>2
  <2>2. proc'[p] = l
    BY <1>2
  <2>3. Active(p)' => /\ Active(p) /\ proc'[p].id = proc[p].id
                      /\ proc[p].pc \notin {"rollup", "finish", "audit"}
    BY <2>2 DEF Active, Withdraw
  <2>4. proc'[p].pc # "rollup" /\ proc'[p].outcome # "done"
    BY <2>2 DEF Withdraw
  <2>5. \A i \in ScanId : (cat.scan[i] = "done" \/ \E n \in Entry : cat.file[n].seen = i) =>
         /\ NothingStaged(cat, i)
         /\ \A q \in Proc : Active(q)' /\ proc'[q].id = i => proc'[q].pc \in {"rollup", "finish", "audit"}
    BY <2>1, <2>3 DEF StoreInv, MergeInv, Active
  <2>6. \A q \in Proc : (proc'[q].pc = "rollup" \/ proc'[q].outcome = "done") =>
         /\ Active(q)'
         /\ proc'[q].pc \in {"rollup", "finish", "audit"}
         /\ NothingStaged(cat, proc'[q].id)
    BY <2>1, <2>4 DEF StoreInv, MergeInv, Active
  <2> QED BY <1>2, <2>5, <2>6 DEF StoreInv, MergeInv, NothingStaged
<1> QED BY <1>1, <1>3, <1>4, <1>5, <1>6, <1>7 DEF StoreInv

LEMMA WithdrawSteps ==
    ASSUME StoreInv, NEW p \in Proc,
           \/ Abort(p, "failed") \/ Abort(p, "aborted") \/ MergeRead(p)
           \/ MergeOvertaken(p) \/ GiveUp(p) \/ Crash(p)
    PROVE  StoreInv'
<1>1. proc[p] \in Local /\ WalkOK(proc[p]) /\ lock \in Proc \cup {NoProc} /\ stale \subseteq Proc
  BY DEF StoreInv, TypeOK, WalkInv
<1>2. lock = p => proc[p].pc = "walk"
  BY ProcAssumption DEF StoreInv, TxInv
<1>3. proc[p].pc \in {"walk", "merge"} => proc[p].outcome # "done"
  BY DEF StoreInv, MergeInv
<1>4. Idle \in Local /\ WalkOK(Idle) /\ Idle.pc = "idle" /\ Idle.outcome # "done"
  BY IdleType DEF Idle, WalkOK
<1>5. CASE Abort(p, "failed") \/ Abort(p, "aborted")
  <2> PICK o \in {"failed", "aborted"} : Abort(p, o)
    BY <1>5
  <2> DEFINE l == [proc[p] EXCEPT !.pc = "finish", !.outcome = o]
  <2>1. proc[p].pc = "walk" /\ Rollback(p) /\ Goto(p, l) /\ Quiet
    BY <1>1 DEF Abort
  <2>2. l \in Local
    BY <1>1, LocalFields DEF Step, ScanState
  <2>3. /\ l.pc = "finish" /\ l.outcome = o /\ l.id = proc[p].id /\ l.walk = proc[p].walk
        /\ l.cur = proc[p].cur /\ l.fresh = proc[p].fresh /\ l.left = proc[p].left
        /\ l.pending = proc[p].pending /\ l.saw = proc[p].saw
    BY <1>1 DEF Local
  <2> HIDE DEF l
  <2>4. Withdraw(p, l)
    BY <2>1, <2>2, <2>3, <1>1 DEF Withdraw, Rollback, WalkOK
  <2> QED BY <2>1, <2>4, WithdrawStep DEF Quiet, StoreInv, TypeOK
<1>6. CASE MergeRead(p)
  <2> DEFINE l == [proc[p] EXCEPT !.pc = "merging"]
  <2>1. proc[p].pc = "merge" /\ Goto(p, l) /\ Quiet /\ UNCHANGED <<cat, tx, lock>> /\ stale' \subseteq Proc
    BY <1>1, <1>6 DEF MergeRead
  <2>2. l \in Local
    BY <1>1, LocalFields DEF Step
  <2>3. /\ l.pc = "merging" /\ l.outcome = proc[p].outcome /\ l.id = proc[p].id /\ l.walk = proc[p].walk
        /\ l.cur = proc[p].cur /\ l.fresh = proc[p].fresh /\ l.left = proc[p].left
        /\ l.pending = proc[p].pending /\ l.saw = proc[p].saw
    BY <1>1 DEF Local
  <2> HIDE DEF l
  <2>4. Withdraw(p, l)
    BY <2>1, <2>2, <2>3, <1>1, <1>2, <1>3 DEF Withdraw, WalkOK
  <2> QED BY <2>1, <2>4, WithdrawStep DEF Quiet, StoreInv, TypeOK
<1>7. CASE MergeOvertaken(p) \/ GiveUp(p)
  <2>1. Withdraw(p, Idle)
    BY <1>7, <1>1, <1>2, <1>4 DEF MergeOvertaken, GiveUp, Withdraw
  <2> QED BY <2>1, <1>7, WithdrawStep DEF MergeOvertaken, GiveUp, Quiet, StoreInv, TypeOK
<1>8. CASE Crash(p)
  <2>1. Withdraw(p, Idle)
    BY <1>8, <1>1, <1>4 DEF Crash, Withdraw
  <2>2. crashes' \in 0 .. MaxCrashes
    BY <1>8, BoundAssumption DEF Crash, StoreInv, TypeOK
  <2> QED BY <2>1, <2>2, <1>8, WithdrawStep DEF Crash
<1> QED BY <1>5, <1>6, <1>7, <1>8

\* A commit of a scan that is not in its enumeration.
Solo(p, l, new) ==
    /\ p \in Proc
    /\ proc[p].pc \notin {"idle", "walk"}
    /\ l \in Local
    /\ WalkOK(l)
    /\ new \in Catalog
    /\ \A i \in ScanId : new.listed[i] \subseteq cat.listed[i]
    /\ \A i \in ScanId \ {proc[p].id} :
          /\ new.scan[i] = cat.scan[i]
          /\ NothingStaged(cat, i) => NothingStaged(new, i)
          /\ \A n \in Entry : new.file[n].seen = i => cat.file[n].seen = i
    /\ new.scan[proc[p].id] # "unused"
    /\ (new.scan[proc[p].id] = "done" \/ \E n \in Entry : new.file[n].seen = proc[p].id) =>
          NothingStaged(new, proc[p].id) /\ l.pc \in {"idle", "rollup", "finish", "audit"}
    /\ l.pc = "idle" => l.outcome = "unused"
    /\ l.pc # "idle" =>
          /\ l.id = proc[p].id
          /\ \A d \in cat.listed[proc[p].id] : l.walk[d] = "read"
          /\ (l.pc = "rollup" \/ l.outcome = "done") =>
                l.pc \in {"rollup", "finish", "audit"} /\ NothingStaged(new, proc[p].id)

\* Only the enumeration holds the lock between two steps.
LEMMA LockFree ==
    ASSUME StoreInv, NEW p \in Proc, proc[p].pc # "walk", CanWrite(p)
    PROVE  lock = NoProc /\ tx = cat
BY ProcAssumption DEF StoreInv, TxInv, CanWrite

LEMMA SoloStep ==
    ASSUME StoreInv, NEW p, NEW l, NEW new, Solo(p, l, new), Goto(p, l), Commit(p, new), Quiet
    PROVE  StoreInv'
<1>1. TypeOK'
  BY GotoType, CommitType, QuietType DEF StoreInv, TypeOK, Solo
<1>2. /\ proc' = [proc EXCEPT ![p] = l]
      /\ proc \in [Proc -> Local] /\ p \in Proc /\ l \in Local
      /\ cat' = new /\ tx' = new /\ lock' = NoProc
  BY DEF StoreInv, TypeOK, Solo, Goto, Commit
<1>3. /\ Active(p) /\ proc[p].id \in ScanId
      /\ \A q \in Proc : q # p /\ Active(q) => proc[q].id # proc[p].id /\ proc[q].id \in ScanId
  BY <1>2 DEF StoreInv, IdInv, Active, Solo
<1>4. proc'[p] = l /\ \A q \in Proc : q # p => proc'[q] = proc[q]
  BY <1>2
<1>5. WalkInv'
  BY <1>4 DEF StoreInv, WalkInv, WalkOK, Solo
<1>6. IdInv'
  <2>1. \A q \in Proc : Active(q)' => Active(q) /\ proc'[q].id = proc[q].id
    BY <1>3, <1>4 DEF Active, Solo
  <2>2. \A i \in ScanId : cat.scan[i] # "unused" => new.scan[i] # "unused"
    BY DEF Solo
  <2> QED BY <1>2, <2>1, <2>2 DEF StoreInv, IdInv
<1>7. TxInv'
  BY <1>2 DEF TxInv
<1>8. ListedInv'
  <2> SUFFICES ASSUME NEW q \in Proc, Active(q)', NEW d \in new.listed[proc'[q].id]
               PROVE  proc'[q].walk[d] = "read"
    BY <1>2 DEF ListedInv
  <2>1. CASE q = p
    BY <2>1, <1>3, <1>4 DEF Active, Solo
  <2>2. CASE q # p
    BY <2>2, <1>3, <1>4 DEF Active, Solo, StoreInv, ListedInv
  <2> QED BY <2>1, <2>2
<1>9. MergeInv'
  <2>1. \A i \in ScanId : new.scan[i] = "unused" =>
          NothingStaged(new, i) /\ \A n \in Entry : new.file[n].seen # i
    BY DEF Solo, StoreInv, MergeInv
  <2>2. \A i \in ScanId : (new.scan[i] = "done" \/ \E n \in Entry : new.file[n].seen = i) =>
         /\ NothingStaged(new, i)
         /\ \A q \in Proc : Active(q)' /\ proc'[q].id = i => proc'[q].pc \in {"rollup", "finish", "audit"}
    <3> SUFFICES ASSUME NEW i \in ScanId, new.scan[i] = "done" \/ \E n \in Entry : new.file[n].seen = i
                 PROVE  /\ NothingStaged(new, i)
                        /\ \A q \in Proc : Active(q)' /\ proc'[q].id = i
                              => proc'[q].pc \in {"rollup", "finish", "audit"}
      OBVIOUS
    <3>1. CASE i = proc[p].id
      BY <3>1, <1>3, <1>4 DEF Active, Solo
    <3>2. CASE i # proc[p].id
      <4>1. cat.scan[i] = "done" \/ \E n \in Entry : cat.file[n].seen = i
        BY <3>2 DEF Solo
      <4>2. NothingStaged(new, i)
        BY <3>2, <4>1 DEF Solo, StoreInv, MergeInv
      <4>3. \A q \in Proc : Active(q)' /\ proc'[q].id = i => q # p
        BY <3>2, <1>4 DEF Active, Solo
      <4> QED BY <4>1, <4>2, <4>3, <1>4 DEF StoreInv, MergeInv, Active
    <3> QED BY <3>1, <3>2
  <2>3. \A q \in Proc : (proc'[q].pc = "rollup" \/ proc'[q].outcome = "done") =>
         /\ Active(q)'
         /\ proc'[q].pc \in {"rollup", "finish", "audit"}
         /\ NothingStaged(new, proc'[q].id)
    <3> SUFFICES ASSUME NEW q \in Proc, proc'[q].pc = "rollup" \/ proc'[q].outcome = "done"
                 PROVE  /\ Active(q)'
                        /\ proc'[q].pc \in {"rollup", "finish", "audit"}
                        /\ NothingStaged(new, proc'[q].id)
      OBVIOUS
    <3>1. CASE q = p
      BY <3>1, <1>4 DEF Active, Solo
    <3>2. CASE q # p
      <4>1. Active(q) /\ proc[q].pc \in {"rollup", "finish", "audit"} /\ NothingStaged(cat, proc[q].id)
        BY <3>2, <1>4 DEF StoreInv, MergeInv
      <4>2. NothingStaged(new, proc[q].id)
        BY <3>2, <4>1, <1>3 DEF Solo
      <4> QED BY <3>2, <4>1, <4>2, <1>4 DEF Active
    <3> QED BY <3>1, <3>2
  <2> QED BY <1>2, <2>1, <2>2, <2>3 DEF MergeInv, NothingStaged
<1> QED BY <1>1, <1>5, <1>6, <1>7, <1>8, <1>9 DEF StoreInv

\* What is known of a scan that commits outside its enumeration.
LEMMA SoloFacts ==
    ASSUME StoreInv, NEW p \in Proc, proc[p].pc \notin {"idle", "walk"}
    PROVE  /\ proc[p] \in Local
           /\ WalkOK(proc[p])
           /\ proc[p].id \in ScanId
           /\ cat \in Catalog
           /\ cat.scan[proc[p].id] # "unused"
           /\ \A d \in cat.listed[proc[p].id] : d \in Dir /\ proc[p].walk[d] = "read"
           /\ (cat.scan[proc[p].id] = "done" \/ \E n \in Entry : cat.file[n].seen = proc[p].id) =>
                NothingStaged(cat, proc[p].id) /\ proc[p].pc \in {"rollup", "finish", "audit"}
           /\ (proc[p].pc = "rollup" \/ proc[p].outcome = "done") =>
                proc[p].pc \in {"rollup", "finish", "audit"} /\ NothingStaged(cat, proc[p].id)
           /\ Idle \in Local /\ WalkOK(Idle) /\ Idle.pc = "idle" /\ Idle.outcome = "unused"
<1>1. Idle \in Local /\ WalkOK(Idle) /\ Idle.pc = "idle" /\ Idle.outcome = "unused"
  BY IdleType DEF Idle, WalkOK
<1>2. Active(p) /\ proc[p] \in Local /\ cat \in Catalog
  BY DEF Active, StoreInv, TypeOK
<1>3. WalkOK(proc[p])
  BY DEF StoreInv, WalkInv
<1>4. proc[p].id \in ScanId /\ cat.scan[proc[p].id] # "unused"
  BY <1>2 DEF StoreInv, IdInv
<1>5. \A d \in cat.listed[proc[p].id] : d \in Dir /\ proc[p].walk[d] = "read"
  BY <1>2, <1>4 DEF StoreInv, ListedInv, Catalog
<1> QED BY <1>1, <1>2, <1>3, <1>4, <1>5 DEF StoreInv, MergeInv

LEMMA InternRootStep ==
    ASSUME StoreInv, NEW p \in Proc, InternRoot(p)
    PROVE  StoreInv'
<1> DEFINE w   == [proc[p].walk EXCEPT ![Root] = "queued"]
           l   == [proc[p] EXCEPT !.pc = "walk", !.walk = w, !.placed = {Root}]
           new == [cat EXCEPT !.dir = InternDir(@, Root, proc[p].id)]
<1>1. proc[p].pc = "begun" /\ Quiet /\ Goto(p, l) /\ Commit(p, new) /\ Root \in Dir
  BY SoloFacts, TreeAssumption DEF InternRoot, Local
<1>2. /\ w \in [Dir -> WalkState]
      /\ \A d \in Dir : proc[p].walk[d] = "none"
      /\ \A d \in Dir \ {Root} : w[d] = "none"
  BY <1>1, SoloFacts DEF Local, WalkState, WalkOK
<1> HIDE DEF w
<1>3. l \in Local
  BY <1>1, <1>2, SoloFacts, LocalFields DEF Step
<1>4. /\ l.walk = w /\ l.cur = proc[p].cur /\ l.fresh = proc[p].fresh
      /\ l.left = proc[p].left /\ l.pending = proc[p].pending
      /\ l.pc = "walk" /\ l.id = proc[p].id /\ l.outcome = proc[p].outcome
  BY <1>1, SoloFacts DEF Local
<1> HIDE DEF l
<1>5. WalkOK(l)
  <2>1. l.cur = {} /\ l.fresh = {} /\ l.left = {} /\ l.pending = {}
    BY <1>1, <1>2, <1>4, SoloFacts, TreeAssumption DEF WalkOK, Local
  <2> QED BY <2>1, <1>2, <1>4 DEF WalkOK
<1>6. /\ new \in Catalog
      /\ new.file = cat.file /\ new.scan = cat.scan /\ new.staged = cat.staged /\ new.listed = cat.listed
  BY <1>1, SoloFacts, InternType DEF Catalog
<1> HIDE DEF new
<1>7. Solo(p, l, new)
  <2>1. cat.listed[proc[p].id] = {}
    BY <1>1, <1>2, SoloFacts
  <2> QED BY <2>1, <1>1, <1>3, <1>4, <1>5, <1>6, SoloFacts DEF Solo, NothingStaged
<1> QED BY <1>1, <1>7, SoloStep

\* Clearing a scan's staging leaves nothing of it and all of the others.
LEMMA ClearFacts ==
    ASSUME NEW t \in Catalog, NEW id \in ScanId
    PROVE  /\ NothingStaged(ClearStage(t, id), id)
           /\ \A i \in ScanId : ClearStage(t, id).listed[i] \subseteq t.listed[i]
           /\ \A i \in ScanId : NothingStaged(t, i) => NothingStaged(ClearStage(t, id), i)
           /\ ClearStage(t, id).file = t.file
           /\ ClearStage(t, id).dir = t.dir
           /\ ClearStage(t, id).scan = t.scan
<1> DEFINE c == ClearStage(t, id)
           none == [n \in Entry |-> "none"]
<1>1. /\ c.staged = [t.staged EXCEPT ![id] = none]
      /\ c.listed = [t.listed EXCEPT ![id] = {}]
      /\ c.file = t.file /\ c.dir = t.dir /\ c.scan = t.scan
  BY DEF ClearStage, Catalog
<1>2. t.staged \in [ScanId -> [Entry -> Facts \cup {"none"}]] /\ t.listed \in [ScanId -> SUBSET Dir]
  BY DEF Catalog
<1> HIDE DEF c
<1>3. /\ c.staged[id] = none /\ c.listed[id] = {}
      /\ \A i \in ScanId : i # id => c.staged[i] = t.staged[i] /\ c.listed[i] = t.listed[i]
  BY <1>1, <1>2
<1>4. NothingStaged(c, id)
  BY <1>3 DEF NothingStaged
<1>5. \A i \in ScanId : NothingStaged(t, i) => NothingStaged(c, i)
  BY <1>3, <1>4 DEF NothingStaged
<1>6. \A i \in ScanId : c.listed[i] \subseteq t.listed[i]
  BY <1>3
<1> QED BY <1>1, <1>4, <1>5, <1>6 DEF c

\* The fields the invariant speaks of, when a scan moves on without touching its walk.
Moved(p, l, pc, outcome) ==
    /\ l.walk = proc[p].walk /\ l.cur = proc[p].cur /\ l.fresh = proc[p].fresh
    /\ l.left = proc[p].left /\ l.pending = proc[p].pending /\ l.saw = proc[p].saw
    /\ l.id = proc[p].id /\ l.pc = pc /\ l.outcome = outcome

LEMMA MovedOK ==
    ASSUME NEW p \in Proc, WalkOK(proc[p]), NEW l, NEW pc, NEW outcome, Moved(p, l, pc, outcome),
           pc # "begun", pc = "finish" => outcome # "unused"
    PROVE  WalkOK(l)
BY DEF WalkOK, Moved

LEMMA MovedType ==
    ASSUME NEW p \in Proc, proc[p] \in Local, NEW pc \in Step, NEW outcome \in ScanState
    PROVE  /\ [proc[p] EXCEPT !.pc = pc, !.outcome = outcome] \in Local
           /\ Moved(p, [proc[p] EXCEPT !.pc = pc, !.outcome = outcome], pc, outcome)
           /\ [proc[p] EXCEPT !.pc = pc] \in Local
           /\ Moved(p, [proc[p] EXCEPT !.pc = pc], pc, proc[p].outcome)
<1>1. /\ [proc[p] EXCEPT !.pc = pc, !.outcome = outcome] \in Local
      /\ [proc[p] EXCEPT !.pc = pc] \in Local
  BY LocalFields
<1>2. Moved(p, [proc[p] EXCEPT !.pc = pc, !.outcome = outcome], pc, outcome)
  BY DEF Moved, Local
<1>3. Moved(p, [proc[p] EXCEPT !.pc = pc], pc, proc[p].outcome)
  BY DEF Moved, Local
<1> QED BY <1>1, <1>2, <1>3

LEMMA RefuseStep ==
    ASSUME StoreInv, NEW p \in Proc, Refuse(p)
    PROVE  StoreInv'
<1> DEFINE l   == [proc[p] EXCEPT !.pc = "finish", !.outcome = "failed"]
           new == ClearStage(cat, proc[p].id)
<1>1. proc[p].pc = "refuse" /\ Quiet /\ Goto(p, l) /\ Commit(p, new)
  BY SoloFacts DEF Refuse
<1>2. l \in Local /\ Moved(p, l, "finish", "failed")
  BY <1>1, SoloFacts, MovedType DEF Step, ScanState
<1> HIDE DEF l
<1>3. WalkOK(l)
  BY <1>1, <1>2, SoloFacts, MovedOK
<1>4. /\ new \in Catalog /\ NothingStaged(new, proc[p].id)
      /\ \A i \in ScanId : new.listed[i] \subseteq cat.listed[i]
      /\ \A i \in ScanId : NothingStaged(cat, i) => NothingStaged(new, i)
      /\ new.file = cat.file /\ new.scan = cat.scan
  BY <1>1, SoloFacts, ClearType, ClearFacts
<1> HIDE DEF new
<1>5. Solo(p, l, new)
  BY <1>1, <1>2, <1>3, <1>4, SoloFacts DEF Solo, Moved
<1> QED BY <1>1, <1>5, SoloStep

LEMMA MergeStep ==
    ASSUME StoreInv, NEW p \in Proc, Merge(p)
    PROVE  StoreInv'
<1> DEFINE id    == proc[p].id
           l     == [proc[p] EXCEPT !.pc = "rollup"]
           new   == Merged(cat, id)
           files == Upsert(cat.file, cat.staged[id], id)
           fs    == TombstoneFiles(files, VanishedFiles(cat.dir, files, cat.listed[id], id))
           ds    == TombstoneDirs(cat.dir, GoneDirs(cat.dir, cat.listed[id], id))
           t     == [cat EXCEPT !.file = fs, !.dir = ds]
<1>1. proc[p].pc = "merging" /\ Quiet /\ Goto(p, l) /\ Commit(p, new)
  BY SoloFacts DEF Merge
<1>2. l \in Local /\ Moved(p, l, "rollup", proc[p].outcome)
  BY <1>1, SoloFacts, MovedType DEF Step, ScanState
<1> HIDE DEF l
<1>3. WalkOK(l)
  BY <1>1, <1>2, SoloFacts, MovedOK
<1>4. files \in [Entry -> FileRow] /\ \A n \in Entry : files[n].seen \in {id, cat.file[n].seen}
  BY <1>1, SoloFacts, ScanAssumption DEF Catalog, Upsert, FileRow, RowStatus, ScanId
<1>5. fs \in [Entry -> FileRow] /\ \A n \in Entry : fs[n].seen \in {id, cat.file[n].seen}
  <2> HIDE DEF files
  <2> QED BY <1>4 DEF TombstoneFiles, FileRow, RowStatus
<1>6. ds \in [Dir -> DirRow]
  BY <1>1, SoloFacts DEF TombstoneDirs, DirRow, RowStatus, Catalog
<1>7. new = ClearStage(t, id)
  BY DEF Merged
<1> HIDE DEF fs, ds, new
<1>8. t \in Catalog /\ t.file = fs /\ t.scan = cat.scan /\ t.staged = cat.staged /\ t.listed = cat.listed
  BY <1>1, <1>5, <1>6, SoloFacts DEF Catalog
<1> HIDE DEF t
<1>9. /\ new \in Catalog /\ NothingStaged(new, id)
      /\ \A i \in ScanId : new.listed[i] \subseteq cat.listed[i]
      /\ \A i \in ScanId : NothingStaged(t, i) => NothingStaged(new, i)
      /\ new.file = fs /\ new.scan = cat.scan
  BY <1>1, <1>7, <1>8, SoloFacts, ClearType, ClearFacts
<1>10. \A i \in ScanId : NothingStaged(cat, i) => NothingStaged(t, i)
  BY <1>8 DEF NothingStaged
<1>11. Solo(p, l, new)
  BY <1>1, <1>2, <1>3, <1>5, <1>9, <1>10, SoloFacts DEF Solo, Moved
<1> QED BY <1>1, <1>11, SoloStep

LEMMA RollupStep ==
    ASSUME StoreInv, NEW p \in Proc, Rollup(p)
    PROVE  StoreInv'
<1> DEFINE l   == [proc[p] EXCEPT !.pc = "finish", !.outcome = "done"]
           new == [cat EXCEPT !.rollup = LiveBeneath(cat.dir, cat.file)]
<1>1. proc[p].pc = "rollup" /\ Quiet /\ Goto(p, l) /\ Commit(p, new)
  BY SoloFacts DEF Rollup
<1>2. l \in Local /\ Moved(p, l, "finish", "done")
  BY <1>1, SoloFacts, MovedType DEF Step, ScanState
<1> HIDE DEF l
<1>3. WalkOK(l)
  BY <1>1, <1>2, SoloFacts, MovedOK
<1>4. /\ new \in Catalog
      /\ new.file = cat.file /\ new.scan = cat.scan /\ new.staged = cat.staged /\ new.listed = cat.listed
  BY <1>1, SoloFacts, RollupType DEF Catalog
<1> HIDE DEF new
<1>5. Solo(p, l, new)
  BY <1>1, <1>2, <1>3, <1>4, SoloFacts DEF Solo, Moved, NothingStaged
<1> QED BY <1>1, <1>5, SoloStep

LEMMA FinishStep ==
    ASSUME StoreInv, NEW p \in Proc, Finish(p)
    PROVE  StoreInv'
<1> DEFINE l   == [proc[p] EXCEPT !.pc = "audit"]
           new == [cat EXCEPT !.scan[proc[p].id] = proc[p].outcome]
<1>1. proc[p].pc = "finish" /\ Quiet /\ Goto(p, l) /\ Commit(p, new)
  BY SoloFacts DEF Finish
<1>2. l \in Local /\ Moved(p, l, "audit", proc[p].outcome)
  BY <1>1, SoloFacts, MovedType DEF Step, ScanState
<1> HIDE DEF l
<1>3. WalkOK(l)
  BY <1>1, <1>2, SoloFacts, MovedOK
<1>4. cat.scan \in [ScanId -> ScanState] /\ proc[p].outcome \in ScanState \ {"unused"}
  BY <1>1, SoloFacts DEF Catalog, Local, WalkOK
<1>5. new.scan = [cat.scan EXCEPT ![proc[p].id] = proc[p].outcome]
  BY <1>1, SoloFacts DEF Catalog
<1>6. new.scan \in [ScanId -> ScanState]
  <2> HIDE DEF new
  <2> QED BY <1>4, <1>5
<1>7. /\ new \in Catalog
      /\ new.file = cat.file /\ new.staged = cat.staged /\ new.listed = cat.listed
  BY <1>1, <1>5, <1>6, SoloFacts DEF Catalog
<1> HIDE DEF new
<1>8. /\ new.scan[proc[p].id] = proc[p].outcome
      /\ \A i \in ScanId \ {proc[p].id} : new.scan[i] = cat.scan[i]
  BY <1>1, <1>4, <1>5, SoloFacts
<1>9. \A i \in ScanId : NothingStaged(cat, i) => NothingStaged(new, i)
  BY <1>7 DEF NothingStaged
<1>10. (new.scan[proc[p].id] = "done" \/ \E n \in Entry : new.file[n].seen = proc[p].id) =>
         NothingStaged(new, proc[p].id)
  BY <1>1, <1>7, <1>8, <1>9, SoloFacts
<1>11. Solo(p, l, new)
  BY <1>1, <1>2, <1>3, <1>4, <1>7, <1>8, <1>9, <1>10, SoloFacts DEF Solo, Moved
<1> QED BY <1>1, <1>11, SoloStep

LEMMA AuditStep ==
    ASSUME StoreInv, NEW p \in Proc, Audit(p)
    PROVE  StoreInv'
<1> DEFINE new == [cat EXCEPT !.audit = @ \cup {proc[p].id}]
<1>1. proc[p].pc = "audit" /\ Quiet /\ Goto(p, Idle) /\ Commit(p, new)
  BY SoloFacts DEF Audit
<1>2. /\ new \in Catalog
      /\ new.file = cat.file /\ new.scan = cat.scan /\ new.staged = cat.staged /\ new.listed = cat.listed
  BY <1>1, SoloFacts DEF Catalog
<1> HIDE DEF new
<1>3. Solo(p, Idle, new)
  BY <1>1, <1>2, SoloFacts DEF Solo, NothingStaged
<1> QED BY <1>1, <1>3, SoloStep

\* The fields the invariant speaks of are those of before.
Same(q) ==
    /\ proc'[q].walk = proc[q].walk /\ proc'[q].cur = proc[q].cur /\ proc'[q].fresh = proc[q].fresh
    /\ proc'[q].left = proc[q].left /\ proc'[q].pending = proc[q].pending
    /\ proc'[q].saw = proc[q].saw /\ proc'[q].id = proc[q].id /\ proc'[q].pc = proc[q].pc
    /\ proc'[q].outcome = proc[q].outcome

\* Losing its calm changes nothing the invariant speaks of.
LEMMA UncalmFacts ==
    ASSUME NEW q \in Proc, proc[q] \in Local, proc'[q] = [proc[q] EXCEPT !.calm = FALSE]
    PROVE  proc'[q] \in Local /\ Same(q)
<1>1. [proc[q] EXCEPT !.calm = FALSE] \in Local
  BY LocalFields
<1>2. Same(q)
  BY DEF Local, Same
<1> QED BY <1>1, <1>2

LEMMA BeginStep ==
    ASSUME StoreInv, NEW p \in Proc, NEW x \in ExcludeChoices, Begin(p, x)
    PROVE  StoreInv'
<1> DEFINE b(id, c) == [Idle EXCEPT !.pc = "begun", !.id = id, !.excl = x, !.calm = c, !.before = LiveDirs]
           busy == \E q \in Proc \ {p} : proc[q].pc # "idle"
           new(id) == [cat EXCEPT !.scan[id] = "running"]
<1>1. PICK id \in ScanId :
        /\ \A i \in ScanId : cat.scan[i] = "unused" <=> i >= id
        /\ Commit(p, new(id))
        /\ proc' = [q \in Proc |-> IF q = p THEN b(id, ~busy) ELSE [proc[q] EXCEPT !.calm = FALSE]]
  BY DEF Begin
<1>2. proc[p].pc = "idle" /\ Quiet
  BY DEF Begin
<1>3. cat \in Catalog /\ proc \in [Proc -> Local] /\ cat.scan[id] = "unused" /\ id \in Nat
  <2>1. cat \in Catalog /\ proc \in [Proc -> Local] /\ id \in Nat
    BY ScanAssumption DEF StoreInv, TypeOK, ScanId
  <2> HIDE DEF b, busy, new
  <2> QED BY <2>1, <1>1
<1>4. lock = NoProc /\ tx = cat
  BY <1>1, <1>2, LockFree DEF Commit
<1>5. /\ b(id, ~busy) \in Local
      /\ b(id, ~busy).pc = "begun" /\ b(id, ~busy).id = id /\ b(id, ~busy).outcome = "unused"
      /\ b(id, ~busy).walk = [d \in Dir |-> "none"] /\ b(id, ~busy).cur = {} /\ b(id, ~busy).fresh = {}
      /\ b(id, ~busy).left = {} /\ b(id, ~busy).pending = {}
  <2>1. LiveDirs \in SUBSET Dir /\ "begun" \in Step
    BY DEF LiveDirs, Step
  <2> HIDE DEF busy
  <2>2. b(id, ~busy) \in Local
    BY <2>1, IdleType, LocalFields
  <2> QED BY <2>2 DEF Idle
<1> DEFINE l == b(id, ~busy)
<1> HIDE DEF b, busy
<1>6. /\ proc'[p] = l
      /\ \A q \in Proc \ {p} : proc'[q] \in Local /\ Same(q)
  <2>1. proc'[p] = l
    BY <1>1
  <2>2. \A q \in Proc \ {p} : proc'[q] = [proc[q] EXCEPT !.calm = FALSE]
    BY <1>1
  <2> HIDE DEF l
  <2>3. \A q \in Proc \ {p} : proc'[q] \in Local /\ Same(q)
    BY <2>2, <1>3, UncalmFacts
  <2> QED BY <2>1, <2>3
<1> HIDE DEF l
<1>7. cat.scan \in [ScanId -> ScanState] /\ new(id).scan = [cat.scan EXCEPT ![id] = "running"]
  BY <1>3 DEF Catalog
<1>8. new(id).scan \in [ScanId -> ScanState]
  <2> HIDE DEF new
  <2> QED BY <1>7 DEF ScanState
<1>9. /\ new(id) \in Catalog
      /\ new(id).file = cat.file /\ new(id).staged = cat.staged /\ new(id).listed = cat.listed
  BY <1>3, <1>8 DEF Catalog
<1> DEFINE n == new(id)
<1> HIDE DEF new
<1>10. n.scan[id] = "running" /\ \A i \in ScanId \ {id} : n.scan[i] = cat.scan[i]
  BY <1>7
<1>11. cat' = n /\ tx' = n /\ lock' = NoProc
  BY <1>1 DEF Commit
<1> HIDE DEF n
<1>12. TypeOK'
  <2>1. proc' \in [Proc -> Local]
    <3>1. \A q \in Proc : proc'[q] \in Local
      BY <1>5, <1>6 DEF Same, l
    <3>2. proc' = [q \in Proc |-> proc'[q]]
      BY <1>1
    <3> QED BY <3>1, <3>2
  <2>2. cat' \in Catalog /\ tx' \in Catalog /\ lock' \in Proc \cup {NoProc} /\ stale' \subseteq Proc
    BY <1>1, <1>9, CommitType DEF StoreInv
  <2> QED BY <2>1, <2>2, <1>2, QuietType DEF StoreInv, TypeOK
<1>13. \A q \in Proc \ {p} : Active(q)' => Active(q) /\ proc[q].id \in ScanId \ {id}
  BY <1>3, <1>6 DEF Same, StoreInv, IdInv, Active
<1>14. WalkInv'
  <2>1. WalkOK(l)
    BY <1>5, TreeAssumption DEF l, WalkOK, Entry
  <2>2. \A q \in Proc \ {p} : WalkOK(proc'[q])
    BY <1>6 DEF Same, StoreInv, WalkInv, WalkOK
  <2> QED BY <2>1, <2>2, <1>6 DEF Same, WalkInv, WalkOK
<1>15. IdInv'
  <2>1. \A i \in ScanId : cat.scan[i] # "unused" => n.scan[i] # "unused"
    BY <1>10
  <2> QED BY <2>1, <1>5, <1>6, <1>10, <1>11, <1>13 DEF Same, l, StoreInv, IdInv, Active
<1>16. TxInv'
  BY <1>11 DEF TxInv
<1>17. n.listed = cat.listed /\ n.staged = cat.staged /\ n.file = cat.file
  BY <1>9 DEF n
<1>18. \A i \in ScanId : NothingStaged(n, i) <=> NothingStaged(cat, i)
  BY <1>17 DEF NothingStaged
<1>19. NothingStaged(cat, id) /\ \A m \in Entry : cat.file[m].seen # id
  BY <1>3 DEF StoreInv, MergeInv
<1>20. ListedInv'
  <2> SUFFICES ASSUME NEW q \in Proc, Active(q)', NEW d \in n.listed[proc'[q].id]
               PROVE  proc'[q].walk[d] = "read"
    BY <1>11 DEF ListedInv
  <2>1. CASE q = p
    BY <2>1, <1>5, <1>6, <1>17, <1>19 DEF l, NothingStaged
  <2>2. CASE q # p
    BY <2>2, <1>6, <1>13, <1>17 DEF Same, StoreInv, ListedInv
  <2> QED BY <2>1, <2>2
<1>21. MergeInv'
  <2>1. \A i \in ScanId : n.scan[i] = "unused" =>
          NothingStaged(n, i) /\ \A m \in Entry : n.file[m].seen # i
    BY <1>10, <1>17, <1>18 DEF StoreInv, MergeInv
  <2>2. \A i \in ScanId : (n.scan[i] = "done" \/ \E m \in Entry : n.file[m].seen = i) =>
         /\ NothingStaged(n, i)
         /\ \A q \in Proc : Active(q)' /\ proc'[q].id = i => proc'[q].pc \in {"rollup", "finish", "audit"}
    <3> SUFFICES ASSUME NEW i \in ScanId, n.scan[i] = "done" \/ \E m \in Entry : n.file[m].seen = i
                 PROVE  /\ NothingStaged(n, i)
                        /\ \A q \in Proc : Active(q)' /\ proc'[q].id = i
                              => proc'[q].pc \in {"rollup", "finish", "audit"}
      OBVIOUS
    <3>1. i # id
      BY <1>10, <1>17, <1>19
    <3>2. cat.scan[i] = "done" \/ \E m \in Entry : cat.file[m].seen = i
      BY <3>1, <1>10, <1>17
    <3>3. NothingStaged(n, i)
      BY <3>2, <1>18 DEF StoreInv, MergeInv
    <3>4. \A q \in Proc : Active(q)' /\ proc'[q].id = i => q # p
      BY <3>1, <1>5, <1>6 DEF Same, l
    <3> QED BY <3>2, <3>3, <3>4, <1>6, <1>13 DEF Same, StoreInv, MergeInv, Active
  <2>3. \A q \in Proc : (proc'[q].pc = "rollup" \/ proc'[q].outcome = "done") =>
         /\ Active(q)'
         /\ proc'[q].pc \in {"rollup", "finish", "audit"}
         /\ NothingStaged(n, proc'[q].id)
    <3> SUFFICES ASSUME NEW q \in Proc, proc'[q].pc = "rollup" \/ proc'[q].outcome = "done"
                 PROVE  /\ Active(q)'
                        /\ proc'[q].pc \in {"rollup", "finish", "audit"}
                        /\ NothingStaged(n, proc'[q].id)
      OBVIOUS
    <3>1. q # p
      BY <1>5, <1>6 DEF Same, l
    <3>2. Active(q) /\ proc[q].pc \in {"rollup", "finish", "audit"} /\ NothingStaged(cat, proc[q].id)
      BY <3>1, <1>6 DEF Same, StoreInv, MergeInv
    <3>3. proc[q].id \in ScanId
      BY <3>2 DEF StoreInv, IdInv
    <3> QED BY <3>1, <3>2, <3>3, <1>6, <1>18 DEF Same, Active
  <2> QED BY <1>11, <2>1, <2>2, <2>3 DEF MergeInv, NothingStaged
<1> QED BY <1>12, <1>14, <1>15, <1>16, <1>20, <1>21 DEF StoreInv

\* Nothing the invariant speaks of depends on the drive.
LEMMA SameStep ==
    ASSUME StoreInv, TypeOK', cat' = cat, tx' = tx, lock' = lock, \A q \in Proc : Same(q)
    PROVE  StoreInv'
<1>1. WalkInv'
  BY DEF StoreInv, WalkInv, WalkOK, Same
<1>2. \A q \in Proc : Active(q)' <=> Active(q)
  BY DEF Active, Same
<1>3. IdInv'
  BY <1>2 DEF StoreInv, IdInv, Same
<1>4. TxInv'
  BY DEF StoreInv, TypeOK, TxInv, Same
<1>5. ListedInv'
  BY <1>2 DEF StoreInv, ListedInv, Same
<1>6. MergeInv'
  BY <1>2 DEF StoreInv, MergeInv, NothingStaged, Same
<1> QED BY <1>1, <1>3, <1>4, <1>5, <1>6 DEF StoreInv

LEMMA OtherWriterStep == StoreInv /\ OtherWriter => StoreInv'
<1> SUFFICES ASSUME StoreInv, OtherWriter PROVE StoreInv'
  OBVIOUS
<1>1. TypeOK'
  BY DEF StoreInv, TypeOK, OtherWriter, Quiet
<1>2. \A q \in Proc : Same(q)
  BY DEF OtherWriter, Same
<1> QED BY <1>1, <1>2, SameStep DEF OtherWriter

LEMMA WorldStep == StoreInv /\ World => StoreInv'
<1> SUFFICES ASSUME StoreInv, World PROVE StoreInv'
  OBVIOUS
<1>1. Change
  BY DEF World, Place, ToggleList, ToggleStat
<1>2. disk' \in [Entry -> Kind] /\ nolist' \subseteq Dir /\ nostat' \subseteq Dir
  <2>1. CASE \E n \in Entry, k \in Kind : Place(n, k)
    <3> PICK n \in Entry, k \in Kind : Place(n, k)
      BY <2>1
    <3> QED BY DEF Place, Kind, StoreInv, TypeOK
  <2>2. CASE \E d \in Dir : ToggleList(d) \/ ToggleStat(d)
    BY <2>2 DEF ToggleList, ToggleStat, StoreInv, TypeOK
  <2> QED BY <2>1, <2>2 DEF World
<1>3. proc' \in [Proc -> Local] /\ \A q \in Proc : Same(q)
  <2>1. proc' = [q \in Proc |-> [proc[q] EXCEPT !.calm = FALSE]]
    BY <1>1 DEF Change
  <2>2. \A q \in Proc : proc[q] \in Local /\ proc'[q] = [proc[q] EXCEPT !.calm = FALSE]
    BY <2>1 DEF StoreInv, TypeOK
  <2>3. \A q \in Proc : proc'[q] \in Local /\ Same(q)
    BY <2>2, UncalmFacts
  <2>4. proc' = [q \in Proc |-> proc'[q]]
    BY <2>1
  <2> QED BY <2>3, <2>4
<1>4. changes' \in 0 .. MaxChanges
  BY <1>1, BoundAssumption DEF Change, StoreInv, TypeOK
<1>5. TypeOK'
  BY <1>1, <1>2, <1>3, <1>4 DEF Change, StoreInv, TypeOK
<1> QED BY <1>1, <1>3, <1>5, SameStep DEF Change

--------------------------------------------------------------------------------
(* The invariant is inductive *)

LEMMA NextInv == StoreInv /\ [Next]_vars => StoreInv'
<1> SUFFICES ASSUME StoreInv, [Next]_vars PROVE StoreInv'
  OBVIOUS
<1>1. ASSUME NEW p \in Proc, NEW x \in ExcludeChoices, Begin(p, x) PROVE StoreInv'
  BY <1>1, BeginStep
<1>2. ASSUME NEW p \in Proc, ScanStep(p) PROVE StoreInv'
  <2>1. CASE InternRoot(p)
    BY <2>1, InternRootStep
  <2>2. ASSUME NEW d \in Dir, List(p, d) \/ TakeUnusable(p, d) \/ TakeListed(p, d) PROVE StoreInv'
    BY <2>2, ListStep, TakeUnusableStep, TakeListedStep
  <2>3. ASSUME NEW n \in Entry, RecordSkip(p, n) \/ RecordDir(p, n) \/ RecordFile(p, n) PROVE StoreInv'
    BY <2>3, RecordSkipStep, RecordDirStep, RecordFileStep
  <2>4. CASE Descend(p)
    BY <2>4, DescendStep
  <2>5. CASE EndWalk(p)
    BY <2>5, EndWalkStep
  <2>6. CASE \/ Abort(p, "failed") \/ Abort(p, "aborted") \/ MergeRead(p)
             \/ MergeOvertaken(p) \/ GiveUp(p)
    BY <2>6, WithdrawSteps
  <2>7. CASE Refuse(p)
    BY <2>7, RefuseStep
  <2>8. CASE Merge(p)
    BY <2>8, MergeStep
  <2>9. CASE Rollup(p)
    BY <2>9, RollupStep
  <2>10. CASE Finish(p)
    BY <2>10, FinishStep
  <2>11. CASE Audit(p)
    BY <2>11, AuditStep
  <2> QED BY <1>2, <2>1, <2>2, <2>3, <2>4, <2>5, <2>6, <2>7, <2>8, <2>9, <2>10, <2>11 DEF ScanStep
<1>3. ASSUME NEW p \in Proc, Crash(p) PROVE StoreInv'
  BY <1>3, WithdrawSteps
<1>4. CASE OtherWriter
  BY <1>4, OtherWriterStep
<1>5. CASE World
  BY <1>5, WorldStep
<1>6. CASE UNCHANGED vars
  <2>1. TypeOK' /\ \A q \in Proc : Same(q)
    BY <1>6 DEF vars, StoreInv, TypeOK, Same
  <2> QED BY <2>1, <1>6, SameStep DEF vars
<1> QED BY <1>1, <1>2, <1>3, <1>4, <1>5, <1>6 DEF Next

\* Every reachable state satisfies the inductive invariant, whatever the tree,
\* the number of scanning programs and the sizes of the batches.
THEOREM StoreInvariant == Spec => []StoreInv
BY InitInv, NextInv, PTL DEF Spec

\* Every variable keeps its type.
THEOREM TypeCorrect == Spec => []TypeOK
<1>1. StoreInv => TypeOK
  BY DEF StoreInv
<1> QED BY <1>1, StoreInvariant, PTL

\* No crash, cancellation, lost lock or overlap leaves a scan both staged and
\* merged: merge_scan's transaction is the only way from one to the other.
THEOREM StagingIsAtomic == Spec => []StagedXorMerged
<1>1. StoreInv => StagedXorMerged
  BY DEF StoreInv, MergeInv, StagedXorMerged, NothingStaged
<1> QED BY <1>1, StoreInvariant, PTL

--------------------------------------------------------------------------------
(***************************************************************************)
(* The rows of the tree: what needs to know that no file is lost between a *)
(* listing and the merge, what a merge may take for gone, and what a scan  *)
(* that was alone leaves behind.                                           *)
(***************************************************************************)

(* A step keeps the files of every scan *)

\* Another scan's rows stay as they were, so only the moving scan has to be looked at.
LEMMA KeptFrame ==
    ASSUME StoreInv, KeptInv, NEW p \in Proc, NEW l, proc' = [proc EXCEPT ![p] = l],
           \A i \in ScanId : tx'.staged[i] = tx.staged[i] \/ (Active(p) /\ i = proc[p].id),
           l.pc \in {"walk", "merge", "merging"} => Kept(l, tx')
    PROVE  KeptInv'
<1> SUFFICES ASSUME NEW q \in Proc PROVE Kept(proc'[q], tx')
  BY DEF KeptInv
<1>1. CASE q = p
  <2>1. proc'[q] = l
    BY <1>1 DEF StoreInv, TypeOK
  <2> QED BY <2>1 DEF Kept
<1>2. CASE q # p
  <2>1. proc'[q] = proc[q] /\ Kept(proc[q], tx)
    BY <1>2 DEF StoreInv, TypeOK, KeptInv
  <2>2. CASE proc[q].pc \notin {"walk", "merge", "merging"}
    BY <2>1, <2>2 DEF Kept
  <2>3. CASE proc[q].pc \in {"walk", "merge", "merging"}
    <3>1. proc[q].id \in ScanId /\ (Active(p) => proc[q].id # proc[p].id)
      BY <1>2, <2>3 DEF StoreInv, IdInv, Active
    <3>2. tx'.staged[proc[q].id] = tx.staged[proc[q].id]
      BY <3>1
    <3> QED BY <2>1, <3>2 DEF Kept
  <2> QED BY <2>2, <2>3
<1> QED BY <1>1, <1>2

\* A step keeps a scan's own files when what it consumes waits in left, and
\* what it takes from left or pending is staged or nothing to record.
LEMMA KeptCarry ==
    ASSUME StoreInv, KeptInv, NEW p \in Proc, proc[p].pc \in {"walk", "merge", "merging"},
           NEW l, l.id = proc[p].id, l.excl = proc[p].excl,
           l.pc \in {"merge", "merging"} => l.left = {} /\ l.pending = {},
           \A n \in Entry : l.walk[Parent[n]] = "read" =>
               /\ l.saw[n] = proc[p].saw[n]
               /\ proc[p].walk[Parent[n]] = "read" \/ (RecordedFile(l, n) => n \in l.left),
           \A n \in proc[p].left \cup proc[p].pending : RecordedFile(proc[p], n) =>
               n \in l.left \cup l.pending \/ tx'.staged[l.id][n] # "none",
           \A n \in Entry : tx.staged[l.id][n] # "none" => tx'.staged[l.id][n] # "none"
    PROVE  Kept(l, tx')
<1> SUFFICES ASSUME NEW n \in Entry, l.walk[Parent[n]] = "read", RecordedFile(l, n)
             PROVE  n \in l.left \cup l.pending \/ tx'.staged[l.id][n] # "none"
  BY DEF Kept
<1>1. RecordedFile(proc[p], n)
  BY DEF RecordedFile, Skipped
<1>2. CASE proc[p].walk[Parent[n]] = "read"
  <2>1. n \in proc[p].left \cup proc[p].pending \/ tx.staged[proc[p].id][n] # "none"
    BY <1>1, <1>2 DEF KeptInv, Kept
  <2> QED BY <1>1, <2>1
<1>3. CASE proc[p].walk[Parent[n]] # "read"
  BY <1>3
<1> QED BY <1>2, <1>3

\* The transaction's staged rows after each kind of write of the enumeration.
LEMMA StagedRows ==
    ASSUME NEW t \in Catalog, NEW l \in Local, l.id \in ScanId, NEW ns \in SUBSET Entry,
           \A n \in ns : l.saw[n] \in Facts
    PROVE  /\ \A i \in ScanId \ {l.id} : Staged(t, l, ns).staged[i] = t.staged[i]
           /\ \A n \in Entry : t.staged[l.id][n] # "none" => Staged(t, l, ns).staged[l.id][n] # "none"
           /\ \A n \in ns : Staged(t, l, ns).staged[l.id][n] # "none"
           /\ Staged(t, l, ns).dir = t.dir /\ Staged(t, l, ns).file = t.file
<1> DEFINE row == [n \in Entry |-> IF n \in ns THEN l.saw[n] ELSE t.staged[l.id][n]]
<1>1. /\ Staged(t, l, ns).staged = [t.staged EXCEPT ![l.id] = row]
      /\ Staged(t, l, ns).dir = t.dir /\ Staged(t, l, ns).file = t.file
  BY DEF Staged, Catalog
<1>2. \A n \in ns : l.saw[n] # "none"
  BY StampAssumption DEF Facts
<1>3. t.staged \in [ScanId -> [Entry -> Facts \cup {"none"}]]
  BY DEF Catalog
<1>4. \A n \in Entry : (t.staged[l.id][n] # "none" => row[n] # "none") /\ (n \in ns => row[n] # "none")
  BY <1>2
<1> HIDE DEF row
<1> QED BY <1>1, <1>3, <1>4

LEMMA ListKeeps ==
    ASSUME StoreInv, KeptInv, NEW p \in Proc, NEW d \in Dir, List(p, d)
    PROVE  KeptInv'
<1>1. proc[p].pc = "walk" /\ proc[p].walk[d] = "queued" /\ tx' = tx /\ proc[p] \in Local
  BY WalkFacts DEF List, NoWrite
<1> DEFINE good == IsThere(d) /\ d \notin nolist
           w == [proc[p].walk EXCEPT ![d] = IF good THEN "listed" ELSE "denied"]
           s == IF good THEN [n \in Entry |-> IF Parent[n] = d THEN Look(n) ELSE proc[p].saw[n]]
                        ELSE proc[p].saw
           l == [proc[p] EXCEPT !.walk = w, !.saw = s]
<1>2. proc' = [proc EXCEPT ![p] = l]
  <2>1. CASE good
    BY <2>1, <1>1 DEF List, Goto, Local
  <2>2. CASE ~good
    BY <2>2, <1>1 DEF List, Goto, Local
  <2> QED BY <2>1, <2>2
<1>3. w[d] \in {"listed", "denied"} /\ \A e \in Dir \ {d} : w[e] = proc[p].walk[e]
  BY <1>1 DEF Local
<1>4. \A n \in Entry : Parent[n] # d => s[n] = proc[p].saw[n]
  OBVIOUS
<1>5. /\ l.walk = w /\ l.saw = s /\ l.excl = proc[p].excl /\ l.id = proc[p].id /\ l.pc = "walk"
      /\ l.left = proc[p].left /\ l.pending = proc[p].pending
  BY <1>1 DEF Local
<1> HIDE DEF l, w, s
<1>6. Kept(l, tx')
  <2>1. \A n \in Entry : l.walk[Parent[n]] = "read" =>
           proc[p].walk[Parent[n]] = "read" /\ l.saw[n] = proc[p].saw[n]
    BY <1>3, <1>4, <1>5, TreeAssumption
  <2> QED BY <2>1, <1>1, <1>5, KeptCarry
<1> QED BY <1>1, <1>2, <1>6, KeptFrame

LEMMA TakeUnusableKeeps ==
    ASSUME StoreInv, KeptInv, NEW p \in Proc, NEW d \in Dir, TakeUnusable(p, d)
    PROVE  KeptInv'
<1> DEFINE w == [proc[p].walk EXCEPT ![d] = IF d \in proc[p].placed THEN "unread" ELSE "unplaced"]
           l == [proc[p] EXCEPT !.walk = w, !.placed = @ \ {d}]
<1>1. proc[p].pc = "walk" /\ proc[p] \in Local /\ tx' = tx /\ proc' = [proc EXCEPT ![p] = l]
  BY WalkFacts DEF TakeUnusable, NoWrite, Goto, Local
<1>2. \A e \in Dir : w[e] = "read" => proc[p].walk[e] = "read"
  BY <1>1 DEF Local
<1>3. /\ l.walk = w /\ l.saw = proc[p].saw /\ l.excl = proc[p].excl /\ l.id = proc[p].id /\ l.pc = "walk"
      /\ l.left = proc[p].left /\ l.pending = proc[p].pending
  BY <1>1 DEF Local
<1> HIDE DEF l, w
<1>4. Kept(l, tx')
  BY <1>1, <1>2, <1>3, KeptCarry, TreeAssumption
<1> QED BY <1>1, <1>4, KeptFrame

LEMMA TakeListedKeeps ==
    ASSUME StoreInv, KeptInv, NEW p \in Proc, NEW d \in Dir, TakeListed(p, d)
    PROVE  KeptInv'
<1> DEFINE fresh == proc[p].fresh \cup {d}
           w == [proc[p].walk EXCEPT ![d] = "read"]
           c == {n \in Children(d) : proc[p].saw[n] # "absent"}
           f == IF Cardinality(fresh) >= BatchRows THEN {} ELSE fresh
           l == [proc[p] EXCEPT !.walk = w, !.placed = @ \ {d}, !.cur = {d}, !.left = c, !.fresh = f]
           new == [tx EXCEPT !.listed[proc[p].id] = @ \cup fresh]
<1>1. /\ proc[p].pc = "walk" /\ proc[p] \in Local /\ proc[p].cur = {}
      /\ proc' = [proc EXCEPT ![p] = l] /\ (NoWrite \/ Write(p, new))
  BY WalkFacts DEF TakeListed, Goto, Local
<1>2. tx'.staged = tx.staged
  <2>1. new.staged = tx.staged
    BY <1>1, WalkFacts DEF Catalog
  <2> HIDE DEF new
  <2> QED BY <2>1, <1>1 DEF NoWrite, Write
<1>3. \A e \in Dir \ {d} : w[e] = proc[p].walk[e]
  BY <1>1 DEF Local
<1>4. proc[p].left = {}
  BY <1>1, WalkFacts DEF WalkOK
<1>5. \A n \in Entry : Parent[n] = d /\ RecordedFile(proc[p], n) => n \in c
  BY StampAssumption DEF RecordedFile, Facts, Children
<1>6. /\ l.walk = w /\ l.saw = proc[p].saw /\ l.excl = proc[p].excl /\ l.id = proc[p].id
      /\ l.pc = "walk" /\ l.left = c /\ l.pending = proc[p].pending
  BY <1>1 DEF Local
<1> HIDE DEF l, w, c, f, fresh, new
<1>7. Kept(l, tx')
  <2>1. \A n \in Entry : l.walk[Parent[n]] = "read" =>
           proc[p].walk[Parent[n]] = "read" \/ (RecordedFile(l, n) => n \in l.left)
    <3>1. \A n \in Entry : RecordedFile(l, n) => RecordedFile(proc[p], n)
      BY <1>6 DEF RecordedFile, Skipped
    <3> QED BY <3>1, <1>3, <1>5, <1>6, TreeAssumption
  <2> QED BY <2>1, <1>1, <1>2, <1>4, <1>6, KeptCarry
<1> QED BY <1>1, <1>2, <1>7, KeptFrame

LEMMA RecordSkipKeeps ==
    ASSUME StoreInv, KeptInv, NEW p \in Proc, NEW n \in Entry, RecordSkip(p, n)
    PROVE  KeptInv'
<1> DEFINE l == [proc[p] EXCEPT !.left = @ \ {n}]
<1>1. /\ proc[p].pc = "walk" /\ proc[p] \in Local /\ tx' = tx /\ ~RecordedFile(proc[p], n)
      /\ proc' = [proc EXCEPT ![p] = l]
  BY WalkFacts DEF RecordSkip, RecordedFile, NoWrite, Goto, Local
<1>2. /\ l.walk = proc[p].walk /\ l.saw = proc[p].saw /\ l.excl = proc[p].excl /\ l.id = proc[p].id
      /\ l.pc = "walk" /\ l.left = proc[p].left \ {n} /\ l.pending = proc[p].pending
  BY <1>1 DEF Local
<1> HIDE DEF l
<1>3. Kept(l, tx')
  BY <1>1, <1>2, KeptCarry
<1> QED BY <1>1, <1>3, KeptFrame

LEMMA RecordDirKeeps ==
    ASSUME StoreInv, KeptInv, NEW p \in Proc, NEW n \in Entry, RecordDir(p, n)
    PROVE  KeptInv'
<1> DEFINE l == [proc[p] EXCEPT !.left = @ \ {n}, !.placed = @ \cup {n}]
           new == [tx EXCEPT !.dir = InternDir(@, n, proc[p].id)]
<1>1. /\ proc[p].pc = "walk" /\ proc[p] \in Local /\ tx' = new /\ proc[p].saw[n] = "dir"
      /\ proc' = [proc EXCEPT ![p] = l]
  BY WalkFacts DEF RecordDir, RecordedDir, Write, Goto, Local
<1>2. tx'.staged = tx.staged
  BY <1>1, WalkFacts DEF Catalog
<1>3. ~RecordedFile(proc[p], n)
  BY <1>1, StampAssumption DEF RecordedFile, Facts
<1>4. /\ l.walk = proc[p].walk /\ l.saw = proc[p].saw /\ l.excl = proc[p].excl /\ l.id = proc[p].id
      /\ l.pc = "walk" /\ l.left = proc[p].left \ {n} /\ l.pending = proc[p].pending
  BY <1>1 DEF Local
<1> HIDE DEF l, new
<1>5. Kept(l, tx')
  BY <1>1, <1>2, <1>3, <1>4, KeptCarry
<1> QED BY <1>1, <1>2, <1>5, KeptFrame

LEMMA RecordFileKeeps ==
    ASSUME StoreInv, KeptInv, NEW p \in Proc, NEW n \in Entry, RecordFile(p, n)
    PROVE  KeptInv'
<1> DEFINE pending == proc[p].pending \cup {n}
           full    == Cardinality(pending) >= BatchRows
           since   == proc[p].since + Cardinality(pending)
           commit  == full /\ since >= CheckpointRows
           pd == IF full THEN {} ELSE pending
           sn == IF commit THEN 0 ELSE IF full THEN since ELSE proc[p].since
           l == [proc[p] EXCEPT !.left = @ \ {n}, !.pending = pd, !.since = sn]
           new == Staged(tx, proc[p], pending)
<1>1. /\ proc[p].pc = "walk" /\ proc[p] \in Local /\ proc' = [proc EXCEPT ![p] = l]
      /\ proc[p].saw[n] \in Facts /\ proc[p].id \in ScanId /\ tx \in Catalog
  BY WalkFacts DEF RecordFile, RecordedFile, Goto, Local
<1>2. (full /\ tx' = new) \/ (~full /\ tx' = tx)
  BY DEF RecordFile, NoWrite, Write, Commit
<1>3. pending \in SUBSET Entry /\ \A m \in pending : proc[p].saw[m] \in Facts
  BY <1>1, WalkFacts DEF Local, WalkOK
<1>4. /\ \A i \in ScanId \ {proc[p].id} : tx'.staged[i] = tx.staged[i]
      /\ \A m \in Entry : tx.staged[proc[p].id][m] # "none" => tx'.staged[proc[p].id][m] # "none"
      /\ \A m \in pending : m \in pd \/ tx'.staged[proc[p].id][m] # "none"
  <2> HIDE DEF pending, full
  <2> QED BY <1>1, <1>2, <1>3, StagedRows
<1>5. /\ l.walk = proc[p].walk /\ l.saw = proc[p].saw /\ l.excl = proc[p].excl /\ l.id = proc[p].id
      /\ l.pc = "walk" /\ l.left = proc[p].left \ {n} /\ l.pending = pd
  <2> HIDE DEF pd, sn
  <2> QED BY <1>1 DEF Local
<1>6. proc[p].left \cup proc[p].pending \subseteq (proc[p].left \ {n}) \cup pending
  OBVIOUS
<1> HIDE DEF l, pd, sn, full, commit, since, new, pending
<1>7. Kept(l, tx')
  BY <1>1, <1>4, <1>5, <1>6, KeptCarry
<1> QED BY <1>1, <1>4, <1>7, KeptFrame DEF Active

LEMMA DescendKeeps ==
    ASSUME StoreInv, KeptInv, NEW p \in Proc, Descend(p)
    PROVE  KeptInv'
<1> DEFINE w == [d \in Dir |-> IF d # Root /\ Parent[d] \in proc[p].cur /\ ShouldDescend(proc[p], d)
                               THEN "queued" ELSE proc[p].walk[d]]
           l == [proc[p] EXCEPT !.cur = {}, !.walk = w]
<1>1. /\ proc[p].pc = "walk" /\ proc[p] \in Local /\ tx' = tx
      /\ proc' = [proc EXCEPT ![p] = l]
  BY WalkFacts DEF Descend, NoWrite, Goto, Local
<1>2. \A d \in Dir : w[d] = "read" => proc[p].walk[d] = "read"
  OBVIOUS
<1>3. /\ l.walk = w /\ l.saw = proc[p].saw /\ l.excl = proc[p].excl /\ l.id = proc[p].id
      /\ l.pc = "walk" /\ l.left = proc[p].left /\ l.pending = proc[p].pending
  <2> HIDE DEF w
  <2> QED BY <1>1 DEF Local
<1> HIDE DEF l, w
<1>4. Kept(l, tx')
  BY <1>1, <1>2, <1>3, KeptCarry, TreeAssumption
<1> QED BY <1>1, <1>4, KeptFrame

LEMMA EndWalkKeeps ==
    ASSUME StoreInv, KeptInv, NEW p \in Proc, EndWalk(p)
    PROVE  KeptInv'
<1> DEFINE ns == proc[p].pending
           st == Staged(tx, proc[p], ns)
           pc == IF proc[p].walk[Root] = "read" THEN "merge" ELSE "refuse"
           l == [proc[p] EXCEPT !.pc = pc, !.pending = {}, !.fresh = {}]
           new == [st EXCEPT !.listed[proc[p].id] = @ \cup proc[p].fresh]
<1>1. /\ proc[p].pc = "walk" /\ proc[p] \in Local /\ proc' = [proc EXCEPT ![p] = l]
      /\ proc[p].id \in ScanId /\ tx \in Catalog /\ proc[p].cur = {}
  BY WalkFacts DEF EndWalk, WalkOver, Goto
<1>2. tx' = new \/ (ns = {} /\ tx' = tx)
  BY DEF EndWalk, Commit, NoWrite
<1>3. ns \in SUBSET Entry /\ (\A m \in ns : proc[p].saw[m] \in Facts) /\ proc[p].left = {}
  BY <1>1, WalkFacts DEF Local, WalkOK
<1>4. new.staged = st.staged
  <2>1. st \in Catalog
    BY <1>1, <1>3, StagedType
  <2> HIDE DEF st
  <2> QED BY <2>1 DEF Catalog
<1>5. /\ \A i \in ScanId \ {proc[p].id} : tx'.staged[i] = tx.staged[i]
      /\ \A m \in Entry : tx.staged[proc[p].id][m] # "none" => tx'.staged[proc[p].id][m] # "none"
      /\ \A m \in ns : tx'.staged[proc[p].id][m] # "none"
  <2> HIDE DEF new, ns
  <2> QED BY <1>1, <1>2, <1>3, <1>4, StagedRows DEF st
<1>6. /\ l.walk = proc[p].walk /\ l.saw = proc[p].saw /\ l.excl = proc[p].excl /\ l.id = proc[p].id
      /\ l.left = {} /\ l.pending = {}
  BY <1>1, <1>3 DEF Local
<1> HIDE DEF l, new, st
<1>7. Kept(l, tx')
  BY <1>1, <1>3, <1>5, <1>6, KeptCarry
<1> QED BY <1>1, <1>5, <1>7, KeptFrame DEF Active

\* Steps that leave the enumeration behind keep nothing of their own.
LEMMA OverKeeps ==
    ASSUME StoreInv, KeptInv, NEW p \in Proc,
           \/ Abort(p, "failed") \/ Abort(p, "aborted") \/ MergeOvertaken(p) \/ GiveUp(p) \/ Crash(p)
    PROVE  KeptInv'
<1>1. tx' = tx \/ (lock = p /\ tx' = cat)
  BY DEF Abort, Rollback, MergeOvertaken, GiveUp, Crash
<1>2. \A i \in ScanId : tx'.staged[i] = tx.staged[i] \/ (Active(p) /\ i = proc[p].id)
  <2>1. CASE tx' = tx
    BY <2>1
  <2>2. CASE lock = p /\ tx' = cat
    BY <2>2, ProcAssumption DEF StoreInv, TxInv, Active
  <2> QED BY <1>1, <2>1, <2>2
<1>3. CASE Abort(p, "failed") \/ Abort(p, "aborted")
  <2> PICK o \in {"failed", "aborted"} : Abort(p, o)
    BY <1>3
  <2> DEFINE l == [proc[p] EXCEPT !.pc = "finish", !.outcome = o]
  <2>1. proc' = [proc EXCEPT ![p] = l]
    BY DEF Abort, Goto
  <2>2. l.pc = "finish"
    BY DEF StoreInv, TypeOK, Local
  <2> HIDE DEF l
  <2> QED BY <2>1, <2>2, <1>2, KeptFrame
<1>4. CASE MergeOvertaken(p) \/ GiveUp(p) \/ Crash(p)
  <2>1. proc' = [proc EXCEPT ![p] = Idle] /\ Idle.pc = "idle"
    BY <1>4 DEF MergeOvertaken, GiveUp, Crash, Goto, Idle
  <2> QED BY <2>1, <1>2, KeptFrame
<1> QED BY <1>3, <1>4

LEMMA MergeReadKeeps ==
    ASSUME StoreInv, KeptInv, NEW p \in Proc, MergeRead(p)
    PROVE  KeptInv'
<1> DEFINE l == [proc[p] EXCEPT !.pc = "merging"]
<1>1. proc[p].pc = "merge" /\ proc[p] \in Local /\ proc' = [proc EXCEPT ![p] = l] /\ tx' = tx
  BY DEF MergeRead, Goto, StoreInv, TypeOK
<1>2. /\ l.walk = proc[p].walk /\ l.saw = proc[p].saw /\ l.excl = proc[p].excl /\ l.id = proc[p].id
      /\ l.left = proc[p].left /\ l.pending = proc[p].pending
  BY <1>1 DEF Local
<1> HIDE DEF l
<1>3. l.left = {} /\ l.pending = {}
  BY <1>1, <1>2 DEF KeptInv, Kept
<1>4. Kept(l, tx')
  BY <1>1, <1>2, <1>3, KeptCarry
<1> QED BY <1>1, <1>4, KeptFrame

LEMMA InternRootKeeps ==
    ASSUME StoreInv, KeptInv, NEW p \in Proc, InternRoot(p)
    PROVE  KeptInv'
<1> DEFINE l   == [proc[p] EXCEPT !.pc = "walk", !.walk[Root] = "queued", !.placed = {Root}]
           new == [cat EXCEPT !.dir = InternDir(@, Root, proc[p].id)]
<1>1. /\ proc[p].pc = "begun" /\ proc' = [proc EXCEPT ![p] = l] /\ CanWrite(p) /\ tx' = new
      /\ proc[p] \in Local /\ cat \in Catalog
  BY DEF InternRoot, Goto, Commit, StoreInv, TypeOK
<1>2. tx'.staged = tx.staged
  BY <1>1, LockFree DEF Catalog
<1>3. l.pc = "walk" /\ \A d \in Dir : l.walk[d] # "read"
  BY <1>1, SoloFacts DEF WalkOK, Local
<1> HIDE DEF l
<1>4. Kept(l, tx')
  BY <1>3, TreeAssumption DEF Kept
<1> QED BY <1>1, <1>2, <1>4, KeptFrame

\* A scan that commits after its enumeration clears no rows but its own.
LEMMA CommitKeeps ==
    ASSUME StoreInv, KeptInv, NEW p \in Proc,
           \/ Refuse(p) \/ Merge(p) \/ Rollup(p) \/ Finish(p) \/ Audit(p)
    PROVE  KeptInv'
<1>1. proc[p].pc \notin {"idle", "walk"} /\ CanWrite(p)
  BY DEF Refuse, Merge, Rollup, Finish, Audit, Commit
<1>2. tx = cat /\ cat \in Catalog /\ proc[p] \in Local /\ Active(p)
  BY <1>1, LockFree, SoloFacts DEF Active
<1>3. \A i \in ScanId \ {proc[p].id} : tx'.staged[i] = tx.staged[i]
  <2>1. CASE Refuse(p)
    BY <2>1, <1>2 DEF Refuse, Commit, ClearStage, Catalog
  <2>2. CASE Merge(p)
    BY <2>2, <1>2 DEF Merge, Merged, Commit, ClearStage, Catalog
  <2>3. CASE Rollup(p) \/ Finish(p) \/ Audit(p)
    BY <2>3, <1>2 DEF Rollup, Finish, Audit, Commit, Catalog
  <2> QED BY <2>1, <2>2, <2>3
<1> DEFINE l == proc'[p]
<1>4. proc' = [proc EXCEPT ![p] = l] /\ l.pc \in {"finish", "rollup", "audit", "idle"}
  <2>1. proc \in [Proc -> Local]
    BY DEF StoreInv, TypeOK
  <2>2. CASE Refuse(p)
    BY <2>1, <2>2, <1>2 DEF Refuse, Goto, Local
  <2>3. CASE Merge(p)
    BY <2>1, <2>3, <1>2 DEF Merge, Goto, Local
  <2>4. CASE Rollup(p)
    BY <2>1, <2>4, <1>2 DEF Rollup, Goto, Local
  <2>5. CASE Finish(p)
    BY <2>1, <2>5, <1>2 DEF Finish, Goto, Local
  <2>6. CASE Audit(p)
    BY <2>1, <2>6, <1>2 DEF Audit, Goto, Idle
  <2> QED BY <2>2, <2>3, <2>4, <2>5, <2>6
<1> HIDE DEF l
<1> QED BY <1>2, <1>3, <1>4, KeptFrame

\* A step that changes neither the rows nor what the scans know.
SameWalk(q) ==
    /\ proc'[q].walk = proc[q].walk /\ proc'[q].saw = proc[q].saw /\ proc'[q].excl = proc[q].excl
    /\ proc'[q].left = proc[q].left /\ proc'[q].pending = proc[q].pending
    /\ proc'[q].id = proc[q].id /\ proc'[q].pc = proc[q].pc

LEMMA SameKept ==
    ASSUME NEW q \in Proc, Kept(proc[q], tx), tx'.staged = tx.staged, SameWalk(q)
    PROVE  Kept(proc'[q], tx')
BY DEF Kept, RecordedFile, Skipped, SameWalk

LEMMA UncalmSame ==
    ASSUME NEW q \in Proc, proc[q] \in Local, proc'[q] = [proc[q] EXCEPT !.calm = FALSE]
    PROVE  SameWalk(q)
BY DEF Local, SameWalk

LEMMA BeginKeeps ==
    ASSUME StoreInv, KeptInv, NEW p \in Proc, NEW x \in ExcludeChoices, Begin(p, x)
    PROVE  KeptInv'
<1>1. PICK id \in ScanId :
        /\ Commit(p, [cat EXCEPT !.scan[id] = "running"])
        /\ proc' = [q \in Proc |->
                       IF q = p
                       THEN [Idle EXCEPT !.pc = "begun", !.id = id, !.excl = x,
                                         !.calm = ~(\E r \in Proc \ {p} : proc[r].pc # "idle"),
                                         !.before = LiveDirs]
                       ELSE [proc[q] EXCEPT !.calm = FALSE]]
  BY DEF Begin
<1>2. tx'.staged = tx.staged
  <2>1. proc[p].pc = "idle" /\ CanWrite(p) /\ cat \in Catalog
    BY <1>1 DEF Begin, Commit, StoreInv, TypeOK
  <2> QED BY <1>1, <2>1, LockFree DEF Commit, Catalog
<1>3. proc'[p].pc = "begun"
  BY <1>1 DEF Idle
<1>4. \A q \in Proc \ {p} : Kept(proc'[q], tx')
  <2> SUFFICES ASSUME NEW q \in Proc \ {p} PROVE Kept(proc'[q], tx')
    OBVIOUS
  <2>1. proc'[q] = [proc[q] EXCEPT !.calm = FALSE] /\ proc[q] \in Local
    BY <1>1 DEF StoreInv, TypeOK
  <2> QED BY <2>1, <1>2, UncalmSame, SameKept DEF KeptInv
<1> QED BY <1>3, <1>4 DEF KeptInv, Kept

LEMMA NextKeeps == StoreInv /\ KeptInv /\ [Next]_vars => KeptInv'
<1> SUFFICES ASSUME StoreInv, KeptInv, [Next]_vars PROVE KeptInv'
  OBVIOUS
<1>1. ASSUME NEW p \in Proc, NEW x \in ExcludeChoices, Begin(p, x) PROVE KeptInv'
  BY <1>1, BeginKeeps
<1>2. ASSUME NEW p \in Proc, ScanStep(p) PROVE KeptInv'
  <2>1. CASE InternRoot(p)
    BY <2>1, InternRootKeeps
  <2>2. ASSUME NEW d \in Dir, List(p, d) \/ TakeUnusable(p, d) \/ TakeListed(p, d) PROVE KeptInv'
    BY <2>2, ListKeeps, TakeUnusableKeeps, TakeListedKeeps
  <2>3. ASSUME NEW n \in Entry, RecordSkip(p, n) \/ RecordDir(p, n) \/ RecordFile(p, n) PROVE KeptInv'
    BY <2>3, RecordSkipKeeps, RecordDirKeeps, RecordFileKeeps
  <2>4. CASE Descend(p) \/ EndWalk(p) \/ MergeRead(p)
    BY <2>4, DescendKeeps, EndWalkKeeps, MergeReadKeeps
  <2>5. CASE Abort(p, "failed") \/ Abort(p, "aborted") \/ MergeOvertaken(p) \/ GiveUp(p)
    BY <2>5, OverKeeps
  <2>6. CASE Refuse(p) \/ Merge(p) \/ Rollup(p) \/ Finish(p) \/ Audit(p)
    BY <2>6, CommitKeeps
  <2> QED BY <1>2, <2>1, <2>2, <2>3, <2>4, <2>5, <2>6 DEF ScanStep
<1>3. ASSUME NEW p \in Proc, Crash(p) PROVE KeptInv'
  BY <1>3, OverKeeps
<1>4. CASE OtherWriter \/ UNCHANGED vars
  BY <1>4 DEF OtherWriter, vars, KeptInv, Kept
<1>5. CASE World
  <2>1. Change
    BY <1>5 DEF World, Place, ToggleList, ToggleStat
  <2>2. \A q \in Proc : proc[q] \in Local /\ proc'[q] = [proc[q] EXCEPT !.calm = FALSE]
    BY <2>1 DEF Change, StoreInv, TypeOK
  <2>3. tx' = tx
    BY <2>1 DEF Change
  <2> QED BY <2>2, <2>3, UncalmSame, SameKept DEF KeptInv
<1> QED BY <1>1, <1>2, <1>3, <1>4, <1>5 DEF Next

--------------------------------------------------------------------------------
(* The invariant *)

LEMMA InitKeeps == Init => KeptInv
BY DEF Init, KeptInv, Kept, Idle

\* Every reachable state satisfies the inductive invariant, whatever the tree,
\* the number of scanning programs and the sizes of the batches.
THEOREM InductiveInvariant == Spec => []ScanInv
<1>1. Init => ScanInv
  BY InitInv, InitKeeps DEF ScanInv
<1>2. ScanInv /\ [Next]_vars => ScanInv'
  BY NextInv, NextKeeps DEF ScanInv
<1> QED BY <1>1, <1>2, PTL DEF Spec

--------------------------------------------------------------------------------
(* What a step may tombstone *)

\* The body of UnlistedUntouched.
OnlyListedGoes ==
    /\ \A n \in Entry : FileGoes(n) =>
         \E p \in Proc : /\ MergesNow(p)
                         /\ \/ FileUnrecorded(proc[p], n)
                            \/ \E a \in Above[n] \ {Root} : ListedGoes(p, a)
    /\ \A d \in Dir : DirGoes(d) =>
         \E p \in Proc : MergesNow(p) /\ \E a \in OnPath(d) : ListedGoes(p, a)

\* The rows a scan's enumeration has committed are none of those that go.
LEMMA EnumerationKeeps ==
    ASSUME StoreInv, NEW p \in Proc, proc[p].pc = "walk", CanWrite(p),
           cat'.file = tx.file, cat'.dir = tx.dir
    PROVE  OnlyListedGoes
BY HolderView DEF OnlyListedGoes, FileGoes, DirGoes

LEMMA MergeGoes ==
    ASSUME StoreInv, KeptInv, NEW p \in Proc, Merge(p)
    PROVE  OnlyListedGoes
<1> DEFINE id    == proc[p].id
           L     == cat.listed[id]
           rows  == cat.staged[id]
           files == Upsert(cat.file, rows, id)
           vf    == VanishedFiles(cat.dir, files, L, id)
           gd    == GoneDirs(cat.dir, L, id)
           fs    == TombstoneFiles(files, vf)
           ds    == TombstoneDirs(cat.dir, gd)
<1>1. /\ proc[p].pc = "merging" /\ Goto(p, [proc[p] EXCEPT !.pc = "rollup"])
      /\ Commit(p, Merged(cat, id))
  BY DEF Merge
<1>2. MergesNow(p)
  BY <1>1 DEF MergesNow, Goto, StoreInv, TypeOK, Local
<1>3. cat'.file = fs /\ cat'.dir = ds
  BY <1>1, SoloFacts DEF Commit, Merged, ClearStage, Catalog
<1>4. /\ tx = cat /\ id \in ScanId /\ id \in Nat
      /\ L \in SUBSET Dir /\ \A a \in L : proc[p].walk[a] = "read"
  BY <1>1, SoloFacts, LockFree, ScanAssumption DEF Commit, ScanId
<1>5. ASSUME NEW d \in gd
      PROVE  d \in Dir /\ \E a \in OnPath(d) : ListedGoes(p, a)
  <2>1. PICK a \in {d} \cup Above[d] : a \in MissingDirs(cat.dir, L, id)
    BY <1>5 DEF GoneDirs
  <2>2. a \in Dir \ {Root} /\ cat.dir[a].st = "live" /\ Parent[a] \in L
    BY <2>1 DEF MissingDirs
  <2>3. a \in gd
    BY <2>1, <2>2 DEF GoneDirs
  <2>4. cat'.dir[a].st = "gone"
    <3>1. [cat.dir[a] EXCEPT !.st = "gone"].st = "gone"
      BY <1>1, <2>2, SoloFacts DEF Catalog, DirRow
    <3> HIDE DEF gd
    <3> QED BY <3>1, <1>3, <2>2, <2>3 DEF TombstoneDirs
  <2>5. d \in Dir
    BY <1>5 DEF GoneDirs
  <2> QED BY <2>1, <2>2, <2>4, <2>5, <1>4 DEF OnPath, ListedGoes, DirGoes
<1>6. ASSUME NEW n \in Entry, FileGoes(n)
      PROVE  FileUnrecorded(proc[p], n) \/ \E a \in Above[n] \ {Root} : ListedGoes(p, a)
  <2>1. n \in vf
    <3> SUFFICES ASSUME n \notin vf PROVE FALSE
      OBVIOUS
    <3>1. fs[n] = files[n]
      BY DEF TombstoneFiles
    <3>2. files[n].st = "live"
      BY <1>6 DEF FileGoes, Upsert
    <3> HIDE DEF fs, files
    <3> QED BY <3>1, <3>2, <1>3, <1>6 DEF FileGoes
  <2>2. CASE n \in MissingFiles(files, L, id)
    <3>1. Parent[n] \in L /\ files[n].seen < id
      BY <2>2 DEF MissingFiles
    <3>2. rows[n] = "none"
      BY <3>1, <1>4 DEF Upsert
    <3>3. proc[p].left = {} /\ proc[p].pending = {}
      BY <1>1 DEF KeptInv, Kept
    <3>4. ~RecordedFile(proc[p], n)
      BY <1>1, <1>4, <3>1, <3>2, <3>3 DEF KeptInv, Kept
    <3> QED BY <1>4, <3>1, <3>4 DEF FileUnrecorded
  <2>3. CASE Parent[n] \in gd
    <3>1. Above[n] = {Parent[n]} \cup Above[Parent[n]]
      BY TreeAssumption
    <3> QED BY <3>1, <2>3, <1>5 DEF OnPath
  <2> QED BY <2>1, <2>2, <2>3 DEF VanishedFiles
<1>7. \A d \in Dir : DirGoes(d) => d \in gd
  BY <1>3 DEF DirGoes, TombstoneDirs
<1> HIDE DEF gd
<1> QED BY <1>2, <1>5, <1>6, <1>7 DEF OnlyListedGoes

LEMMA NextGoes == StoreInv /\ KeptInv /\ [Next]_vars => OnlyListedGoes
<1> SUFFICES ASSUME StoreInv, KeptInv, [Next]_vars PROVE OnlyListedGoes
  OBVIOUS
<1>1. cat \in Catalog /\ tx \in Catalog
  BY DEF StoreInv, TypeOK
<1>2. CASE cat'.file = cat.file /\ cat'.dir = cat.dir
  BY <1>2 DEF OnlyListedGoes, FileGoes, DirGoes
<1>3. CASE UNCHANGED cat
  BY <1>2, <1>3
<1>4. ASSUME NEW p \in Proc, NEW x \in ExcludeChoices, Begin(p, x) PROVE OnlyListedGoes
  <2>1. PICK id \in ScanId : Commit(p, [cat EXCEPT !.scan[id] = "running"])
    BY <1>4 DEF Begin
  <2> QED BY <2>1, <1>1, <1>2 DEF Commit, Catalog
<1>5. ASSUME NEW p \in Proc, ScanStep(p) PROVE OnlyListedGoes
  <2>1. CASE InternRoot(p)
    <3>1. cat' = [cat EXCEPT !.dir = InternDir(@, Root, proc[p].id)]
      BY <2>1 DEF InternRoot, Commit
    <3>2. cat'.file = cat.file /\ cat'.dir = InternDir(cat.dir, Root, proc[p].id)
      BY <3>1, <1>1 DEF Catalog
    <3> QED BY <3>2, <1>1 DEF OnlyListedGoes, FileGoes, DirGoes, InternDir, Catalog
  <2>2. ASSUME NEW d \in Dir, List(p, d) \/ TakeUnusable(p, d) \/ TakeListed(p, d) PROVE OnlyListedGoes
    BY <2>2, <1>3 DEF List, TakeUnusable, TakeListed, NoWrite, Write
  <2>3. ASSUME NEW n \in Entry, RecordSkip(p, n) \/ RecordDir(p, n) PROVE OnlyListedGoes
    BY <2>3, <1>3 DEF RecordSkip, RecordDir, NoWrite, Write
  <2>4. ASSUME NEW n \in Entry, RecordFile(p, n) PROVE OnlyListedGoes
    <3>1. proc[p].pc = "walk"
      BY <2>4 DEF RecordFile
    <3>2. PICK ns : NoWrite \/ Write(p, Staged(tx, proc[p], ns)) \/ Commit(p, Staged(tx, proc[p], ns))
      BY <2>4 DEF RecordFile
    <3>3. CASE Commit(p, Staged(tx, proc[p], ns))
      <4>1. CanWrite(p) /\ cat'.file = tx.file /\ cat'.dir = tx.dir
        BY <3>3, <1>1 DEF Commit, Staged, Catalog
      <4> QED BY <4>1, <3>1, EnumerationKeeps
    <3> QED BY <3>2, <3>3, <1>3 DEF NoWrite, Write
  <2>5. CASE EndWalk(p)
    <3>1. CASE NoWrite
      BY <3>1, <1>3 DEF NoWrite
    <3>2. CASE Commit(p, [Staged(tx, proc[p], proc[p].pending)
                             EXCEPT !.listed[proc[p].id] = @ \cup proc[p].fresh])
      <4>1. CanWrite(p) /\ cat'.file = tx.file /\ cat'.dir = tx.dir
        BY <3>2, <1>1 DEF Commit, Staged, Catalog
      <4> QED BY <4>1, <2>5, EnumerationKeeps DEF EndWalk, WalkOver
    <3> QED BY <2>5, <3>1, <3>2 DEF EndWalk
  <2>6. CASE Merge(p)
    BY <2>6, MergeGoes
  <2>7. CASE Refuse(p) \/ Rollup(p) \/ Finish(p) \/ Audit(p)
    <3>1. cat'.file = cat.file /\ cat'.dir = cat.dir
      BY <2>7, <1>1 DEF Refuse, Rollup, Finish, Audit, Commit, ClearStage, Catalog
    <3> QED BY <3>1, <1>2
  <2>8. CASE \/ Descend(p) \/ Abort(p, "failed") \/ Abort(p, "aborted") \/ MergeRead(p)
             \/ MergeOvertaken(p) \/ GiveUp(p)
    BY <2>8, <1>3 DEF Descend, NoWrite, Abort, Rollback, MergeRead, MergeOvertaken, GiveUp
  <2> QED BY <1>5, <2>1, <2>2, <2>3, <2>4, <2>5, <2>6, <2>7, <2>8 DEF ScanStep
<1>6. ASSUME NEW p \in Proc, Crash(p) PROVE OnlyListedGoes
  BY <1>6, <1>3 DEF Crash
<1>7. CASE OtherWriter
  BY <1>7, <1>3 DEF OtherWriter
<1>8. CASE World
  BY <1>8, <1>3 DEF World, Place, ToggleList, ToggleStat, Change
<1>9. CASE UNCHANGED vars
  BY <1>9, <1>3 DEF vars
<1> QED BY <1>4, <1>5, <1>6, <1>7, <1>8, <1>9 DEF Next

\* A directory that was not listed is unknown, never gone: whatever the drive
\* does and however many scans overlap, a file goes only if the merging scan
\* listed its directory and recorded no such file there, or with a directory
\* above it that goes too; and the topmost of those is an entry of a directory
\* the scan listed.
THEOREM UnlistedNeverGone == Spec => UnlistedUntouched
<1>1. ScanInv /\ [Next]_vars => [OnlyListedGoes]_vars
  BY NextGoes DEF ScanInv
<1>2. UnlistedUntouched <=> [][OnlyListedGoes]_vars
  BY DEF UnlistedUntouched, OnlyListedGoes
<1> QED BY <1>1, <1>2, InductiveInvariant, PTL DEF Spec

--------------------------------------------------------------------------------
(* What each step of the enumeration takes a scan's state to *)

\* What a step of the enumeration leaves alone.
SameScan(p) ==
    /\ proc[p] \in Local /\ proc' = [proc EXCEPT ![p] = proc'[p]]
    /\ proc'[p].id = proc[p].id /\ proc'[p].excl = proc[p].excl /\ proc'[p].calm = proc[p].calm
    /\ proc'[p].outcome = proc[p].outcome /\ proc[p].pc = "walk"
    /\ UNCHANGED <<disk, nolist, nostat>>

SameList(p)  == proc'[p].saw = proc[p].saw
SameRows(p)  == proc'[p].pending = proc[p].pending /\ proc'[p].fresh = proc[p].fresh
SameTree(t)  == t.dir = tx.dir /\ t.file = tx.file

LEMMA ListShape ==
    ASSUME StoreInv, NEW p \in Proc, NEW d \in Dir, List(p, d)
    PROVE  /\ SameScan(p) /\ SameRows(p) /\ proc'[p].pc = "walk" /\ proc[p].walk[d] = "queued"
           /\ \A e \in Dir \ {d} : proc'[p].walk[e] = proc[p].walk[e]
           /\ proc'[p].walk[d] \in {"listed", "denied"}
           /\ \A n \in Entry : Parent[n] # d => proc'[p].saw[n] = proc[p].saw[n]
           /\ proc'[p].walk[d] = "listed" => \A n \in Entry : Parent[n] = d => proc'[p].saw[n] = Look(n)
           /\ proc'[p].placed = proc[p].placed /\ proc'[p].cur = proc[p].cur /\ proc'[p].left = proc[p].left
           /\ tx' = tx /\ cat' = cat
<1> DEFINE good == IsThere(d) /\ d \notin nolist
           w == [proc[p].walk EXCEPT ![d] = IF good THEN "listed" ELSE "denied"]
           s == IF good THEN [n \in Entry |-> IF Parent[n] = d THEN Look(n) ELSE proc[p].saw[n]]
                        ELSE proc[p].saw
           l == [proc[p] EXCEPT !.walk = w, !.saw = s]
<1>1. /\ proc[p].pc = "walk" /\ proc[p].walk[d] = "queued" /\ proc[p] \in Local
      /\ UNCHANGED <<disk, nolist, nostat, cat, tx>>
  BY WalkFacts DEF List, NoWrite, Quiet
<1>2. proc' = [proc EXCEPT ![p] = l]
  <2>1. CASE good
    BY <2>1, <1>1 DEF List, Goto, Local
  <2>2. CASE ~good
    BY <2>2, <1>1 DEF List, Goto, Local
  <2> QED BY <2>1, <2>2
<1>3. w[d] = (IF good THEN "listed" ELSE "denied") /\ \A e \in Dir \ {d} : w[e] = proc[p].walk[e]
  BY <1>1 DEF Local
<1>4. /\ \A n \in Entry : Parent[n] # d => s[n] = proc[p].saw[n]
      /\ good => \A n \in Entry : Parent[n] = d => s[n] = Look(n)
  OBVIOUS
<1>5. /\ l.walk = w /\ l.saw = s /\ l.excl = proc[p].excl /\ l.id = proc[p].id /\ l.pc = "walk"
      /\ l.left = proc[p].left /\ l.pending = proc[p].pending /\ l.placed = proc[p].placed
      /\ l.cur = proc[p].cur /\ l.fresh = proc[p].fresh /\ l.calm = proc[p].calm /\ l.outcome = proc[p].outcome
  BY <1>1 DEF Local
<1> HIDE DEF l, w, s, good
<1>6. proc'[p] = l
  BY <1>2 DEF StoreInv, TypeOK
<1> QED BY <1>1, <1>2, <1>3, <1>4, <1>5, <1>6 DEF SameScan, SameRows

LEMMA TakeUnusableShape ==
    ASSUME StoreInv, NEW p \in Proc, NEW d \in Dir, TakeUnusable(p, d)
    PROVE  /\ SameScan(p) /\ SameList(p) /\ SameRows(p) /\ proc'[p].pc = "walk"
           /\ proc[p].walk[d] \in {"listed", "denied"}
           /\ proc[p].walk[d] = "listed" => d \notin proc[p].placed
           /\ \A e \in Dir \ {d} : proc'[p].walk[e] = proc[p].walk[e]
           /\ proc'[p].walk[d] = IF d \in proc[p].placed THEN "unread" ELSE "unplaced"
           /\ proc'[p].placed = proc[p].placed \ {d}
           /\ proc'[p].cur = proc[p].cur /\ proc'[p].left = proc[p].left
           /\ tx' = tx /\ cat' = cat
<1> DEFINE w == [proc[p].walk EXCEPT ![d] = IF d \in proc[p].placed THEN "unread" ELSE "unplaced"]
           pl == proc[p].placed \ {d}
           l == [proc[p] EXCEPT !.walk = w, !.placed = pl]
<1>1. /\ proc[p].pc = "walk" /\ proc[p] \in Local /\ UNCHANGED <<disk, nolist, nostat, cat, tx>>
      /\ proc' = [proc EXCEPT ![p] = l]
      /\ proc[p].walk[d] = "denied" \/ (proc[p].walk[d] = "listed" /\ d \notin proc[p].placed)
  BY WalkFacts DEF TakeUnusable, NoWrite, Goto, Local, Quiet
<1>2. /\ w[d] = (IF d \in proc[p].placed THEN "unread" ELSE "unplaced")
      /\ \A e \in Dir \ {d} : w[e] = proc[p].walk[e]
  BY <1>1 DEF Local
<1>5. /\ l.walk = w /\ l.saw = proc[p].saw /\ l.excl = proc[p].excl /\ l.id = proc[p].id /\ l.pc = "walk"
      /\ l.left = proc[p].left /\ l.pending = proc[p].pending /\ l.placed = pl
      /\ l.cur = proc[p].cur /\ l.fresh = proc[p].fresh /\ l.calm = proc[p].calm /\ l.outcome = proc[p].outcome
  BY <1>1 DEF Local
<1> HIDE DEF l, w
<1>6. proc'[p] = l
  BY <1>1 DEF StoreInv, TypeOK
<1> QED BY <1>1, <1>2, <1>5, <1>6 DEF SameScan, SameRows, SameList

LEMMA TakeListedShape ==
    ASSUME StoreInv, NEW p \in Proc, NEW d \in Dir, TakeListed(p, d)
    PROVE  /\ SameScan(p) /\ SameList(p) /\ proc'[p].pc = "walk"
           /\ proc[p].walk[d] = "listed" /\ d \in proc[p].placed
           /\ \A e \in Dir \ {d} : proc'[p].walk[e] = proc[p].walk[e]
           /\ proc'[p].walk[d] = "read"
           /\ proc'[p].placed = proc[p].placed \ {d}
           /\ proc[p].cur = {} /\ proc'[p].cur = {d} /\ proc[p].left = {}
           /\ proc'[p].left = {n \in Children(d) : proc[p].saw[n] # "absent"}
           /\ proc'[p].pending = proc[p].pending
           /\ SameTree(tx') /\ tx'.staged = tx.staged /\ cat' = cat
           /\ proc[p].fresh \cup {d} \cup tx.listed[proc[p].id] \subseteq proc'[p].fresh \cup tx'.listed[proc[p].id]
<1> DEFINE fresh == proc[p].fresh \cup {d}
           w == [proc[p].walk EXCEPT ![d] = "read"]
           c == {n \in Children(d) : proc[p].saw[n] # "absent"}
           full == Cardinality(fresh) >= BatchRows
           f == IF full THEN {} ELSE fresh
           pl == proc[p].placed \ {d}
           cd == {d}
           l == [proc[p] EXCEPT !.walk = w, !.placed = pl, !.cur = cd, !.left = c, !.fresh = f]
           more == tx.listed[proc[p].id] \cup fresh
           new == [tx EXCEPT !.listed = [tx.listed EXCEPT ![proc[p].id] = more]]
<1>1. /\ proc[p].pc = "walk" /\ proc[p] \in Local /\ proc[p].cur = {} /\ proc[p].id \in ScanId /\ tx \in Catalog
      /\ proc' = [proc EXCEPT ![p] = l] /\ UNCHANGED <<disk, nolist, nostat, cat>>
      /\ IF full THEN tx' = new ELSE tx' = tx
      /\ proc[p].walk[d] = "listed" /\ d \in proc[p].placed
  BY WalkFacts DEF TakeListed, Goto, Local, Quiet, NoWrite, Write
<1>2. /\ new.dir = tx.dir /\ new.file = tx.file /\ new.staged = tx.staged
      /\ new.listed[proc[p].id] = more
  <2> HIDE DEF more
  <2> QED BY <1>1 DEF Catalog
<1>3. w[d] = "read" /\ \A e \in Dir \ {d} : w[e] = proc[p].walk[e]
  BY <1>1 DEF Local
<1>4. proc[p].left = {}
  BY <1>1, WalkFacts DEF WalkOK
<1>5. /\ l.walk = w /\ l.saw = proc[p].saw /\ l.excl = proc[p].excl /\ l.id = proc[p].id /\ l.pc = "walk"
      /\ l.left = c /\ l.pending = proc[p].pending /\ l.placed = pl
      /\ l.cur = cd /\ l.fresh = f /\ l.calm = proc[p].calm /\ l.outcome = proc[p].outcome
  <2> HIDE DEF w, c, f, pl, cd
  <2> QED BY <1>1 DEF Local
<1> HIDE DEF l, w, c, new, full
<1>6. proc'[p] = l
  BY <1>1 DEF StoreInv, TypeOK
<1>7. SameTree(tx') /\ tx'.staged = tx.staged
  BY <1>1, <1>2 DEF SameTree
<1>8. fresh \cup tx.listed[proc[p].id] \subseteq l.fresh \cup tx'.listed[proc[p].id]
  BY <1>1, <1>2, <1>5
<1> QED BY <1>1, <1>3, <1>4, <1>5, <1>6, <1>7, <1>8 DEF SameScan, SameList, c

LEMMA RecordSkipShape ==
    ASSUME StoreInv, NEW p \in Proc, NEW n \in Entry, RecordSkip(p, n)
    PROVE  /\ SameScan(p) /\ SameList(p) /\ SameRows(p) /\ proc'[p].pc = "walk"
           /\ proc'[p].walk = proc[p].walk /\ proc'[p].placed = proc[p].placed /\ proc'[p].cur = proc[p].cur
           /\ n \in proc[p].left /\ proc'[p].left = proc[p].left \ {n} /\ Skipped(proc[p], n)
           /\ tx' = tx /\ cat' = cat
<1> DEFINE lf == proc[p].left \ {n}
           l == [proc[p] EXCEPT !.left = lf]
<1>1. /\ proc[p].pc = "walk" /\ proc[p] \in Local /\ Skipped(proc[p], n) /\ n \in proc[p].left
      /\ proc' = [proc EXCEPT ![p] = l] /\ UNCHANGED <<disk, nolist, nostat, cat, tx>>
  BY WalkFacts DEF RecordSkip, NoWrite, Goto, Local, Quiet
<1>5. /\ l.walk = proc[p].walk /\ l.saw = proc[p].saw /\ l.excl = proc[p].excl /\ l.id = proc[p].id /\ l.pc = "walk"
      /\ l.left = lf /\ l.pending = proc[p].pending /\ l.placed = proc[p].placed
      /\ l.cur = proc[p].cur /\ l.fresh = proc[p].fresh /\ l.calm = proc[p].calm /\ l.outcome = proc[p].outcome
  <2> HIDE DEF lf
  <2> QED BY <1>1 DEF Local
<1> HIDE DEF l
<1>6. proc'[p] = l
  BY <1>1 DEF StoreInv, TypeOK
<1> QED BY <1>1, <1>5, <1>6 DEF SameScan, SameList, SameRows

LEMMA RecordDirShape ==
    ASSUME StoreInv, NEW p \in Proc, NEW n \in Entry, RecordDir(p, n)
    PROVE  /\ SameScan(p) /\ SameList(p) /\ SameRows(p) /\ proc'[p].pc = "walk"
           /\ proc'[p].walk = proc[p].walk /\ proc'[p].cur = proc[p].cur
           /\ n \in proc[p].left /\ proc'[p].left = proc[p].left \ {n} /\ RecordedDir(proc[p], n)
           /\ proc'[p].placed = proc[p].placed \cup {n}
           /\ tx'.dir = InternDir(tx.dir, n, proc[p].id) /\ tx'.file = tx.file
           /\ tx'.staged = tx.staged /\ tx'.listed = tx.listed /\ cat' = cat
<1> DEFINE lf == proc[p].left \ {n}
           pl == proc[p].placed \cup {n}
           l == [proc[p] EXCEPT !.left = lf, !.placed = pl]
           dirs == InternDir(tx.dir, n, proc[p].id)
           new == [tx EXCEPT !.dir = dirs]
<1>1. /\ proc[p].pc = "walk" /\ proc[p] \in Local /\ tx' = new /\ tx \in Catalog
      /\ proc' = [proc EXCEPT ![p] = l] /\ UNCHANGED <<disk, nolist, nostat, cat>>
      /\ RecordedDir(proc[p], n) /\ n \in proc[p].left
  BY WalkFacts DEF RecordDir, Write, Goto, Local, Quiet
<1>2. new.dir = dirs /\ new.file = tx.file /\ new.staged = tx.staged /\ new.listed = tx.listed
  <2> HIDE DEF dirs
  <2> QED BY <1>1 DEF Catalog
<1>5. /\ l.walk = proc[p].walk /\ l.saw = proc[p].saw /\ l.excl = proc[p].excl /\ l.id = proc[p].id /\ l.pc = "walk"
      /\ l.left = lf /\ l.pending = proc[p].pending /\ l.placed = pl
      /\ l.cur = proc[p].cur /\ l.fresh = proc[p].fresh /\ l.calm = proc[p].calm /\ l.outcome = proc[p].outcome
  <2> HIDE DEF lf, pl
  <2> QED BY <1>1 DEF Local
<1> HIDE DEF l, new
<1>6. proc'[p] = l
  BY <1>1 DEF StoreInv, TypeOK
<1> QED BY <1>1, <1>2, <1>5, <1>6 DEF SameScan, SameList, SameRows

\* Flushed rows say what was seen; the others are as they were.
Flushes(p, ns) ==
    \A m \in Entry : tx'.staged[proc[p].id][m] = IF m \in ns THEN proc[p].saw[m] ELSE tx.staged[proc[p].id][m]

LEMMA StagedExactly ==
    ASSUME NEW t \in Catalog, NEW l \in Local, l.id \in ScanId, NEW ns \in SUBSET Entry
    PROVE  /\ \A m \in Entry : Staged(t, l, ns).staged[l.id][m] = IF m \in ns THEN l.saw[m] ELSE t.staged[l.id][m]
           /\ Staged(t, l, ns).dir = t.dir /\ Staged(t, l, ns).file = t.file /\ Staged(t, l, ns).listed = t.listed
<1> DEFINE row == [n \in Entry |-> IF n \in ns THEN l.saw[n] ELSE t.staged[l.id][n]]
<1>1. /\ Staged(t, l, ns).staged = [t.staged EXCEPT ![l.id] = row]
      /\ Staged(t, l, ns).dir = t.dir /\ Staged(t, l, ns).file = t.file /\ Staged(t, l, ns).listed = t.listed
  BY DEF Staged, Catalog
<1>2. t.staged \in [ScanId -> [Entry -> Facts \cup {"none"}]]
  BY DEF Catalog
<1>3. \A m \in Entry : row[m] = IF m \in ns THEN l.saw[m] ELSE t.staged[l.id][m]
  OBVIOUS
<1> HIDE DEF row
<1> QED BY <1>1, <1>2, <1>3

LEMMA RecordFileShape ==
    ASSUME StoreInv, NEW p \in Proc, NEW n \in Entry, RecordFile(p, n)
    PROVE  /\ SameScan(p) /\ SameList(p) /\ proc'[p].pc = "walk"
           /\ proc'[p].walk = proc[p].walk /\ proc'[p].cur = proc[p].cur /\ proc'[p].placed = proc[p].placed
           /\ n \in proc[p].left /\ proc'[p].left = proc[p].left \ {n} /\ RecordedFile(proc[p], n)
           /\ proc'[p].fresh = proc[p].fresh /\ SameTree(tx') /\ tx'.listed = tx.listed
           /\ cat' = cat \/ cat' = tx'
           /\ \/ /\ proc'[p].pending = proc[p].pending \cup {n}
                 /\ \A m \in Entry : tx'.staged[proc[p].id][m] = tx.staged[proc[p].id][m]
              \/ proc'[p].pending = {} /\ Flushes(p, proc[p].pending \cup {n})
<1> DEFINE pending == proc[p].pending \cup {n}
           full    == Cardinality(pending) >= BatchRows
           since   == proc[p].since + Cardinality(pending)
           commit  == full /\ since >= CheckpointRows
           pd == IF full THEN {} ELSE pending
           sn == IF commit THEN 0 ELSE IF full THEN since ELSE proc[p].since
           lf == proc[p].left \ {n}
           l == [proc[p] EXCEPT !.left = lf, !.pending = pd, !.since = sn]
           new == Staged(tx, proc[p], pending)
<1>1. /\ proc[p].pc = "walk" /\ proc[p] \in Local /\ proc' = [proc EXCEPT ![p] = l]
      /\ RecordedFile(proc[p], n) /\ n \in proc[p].left /\ proc[p].id \in ScanId /\ tx \in Catalog
      /\ UNCHANGED <<disk, nolist, nostat>>
  BY WalkFacts DEF RecordFile, Goto, Local, Quiet
<1>2. /\ (full /\ tx' = new) \/ (~full /\ tx' = tx)
      /\ cat' = cat \/ cat' = tx'
  BY DEF RecordFile, NoWrite, Write, Commit
<1>3. pending \in SUBSET Entry
  BY <1>1 DEF Local
<1>4. /\ \A m \in Entry : new.staged[proc[p].id][m] = IF m \in pending THEN proc[p].saw[m] ELSE tx.staged[proc[p].id][m]
      /\ new.dir = tx.dir /\ new.file = tx.file /\ new.listed = tx.listed
  <2> HIDE DEF pending
  <2> QED BY <1>1, <1>3, StagedExactly
<1>5. /\ l.walk = proc[p].walk /\ l.saw = proc[p].saw /\ l.excl = proc[p].excl /\ l.id = proc[p].id /\ l.pc = "walk"
      /\ l.left = lf /\ l.pending = pd /\ l.placed = proc[p].placed
      /\ l.cur = proc[p].cur /\ l.fresh = proc[p].fresh /\ l.calm = proc[p].calm /\ l.outcome = proc[p].outcome
  <2> HIDE DEF pd, sn, lf
  <2> QED BY <1>1 DEF Local
<1> HIDE DEF l, new, full, sn
<1>6. proc'[p] = l
  BY <1>1 DEF StoreInv, TypeOK
<1>7. SameTree(tx') /\ tx'.listed = tx.listed
  BY <1>2, <1>4 DEF SameTree
<1>8. CASE full
  BY <1>1, <1>2, <1>4, <1>5, <1>6, <1>7, <1>8 DEF SameScan, SameList, Flushes
<1>9. CASE ~full
  BY <1>1, <1>2, <1>5, <1>6, <1>7, <1>9 DEF SameScan, SameList
<1> QED BY <1>8, <1>9

LEMMA DescendShape ==
    ASSUME StoreInv, NEW p \in Proc, Descend(p)
    PROVE  /\ SameScan(p) /\ SameList(p) /\ SameRows(p) /\ proc'[p].pc = "walk"
           /\ \A d \in Dir : proc'[p].walk[d] = IF d # Root /\ Parent[d] \in proc[p].cur /\ ShouldDescend(proc[p], d)
                                                THEN "queued" ELSE proc[p].walk[d]
           /\ proc'[p].placed = proc[p].placed /\ proc'[p].cur = {}
           /\ proc[p].left = {} /\ proc'[p].left = {}
           /\ tx' = tx /\ cat' = cat
<1> DEFINE w == [d \in Dir |-> IF d # Root /\ Parent[d] \in proc[p].cur /\ ShouldDescend(proc[p], d)
                               THEN "queued" ELSE proc[p].walk[d]]
           none == {}
           l == [proc[p] EXCEPT !.cur = none, !.walk = w]
<1>1. /\ proc[p].pc = "walk" /\ proc[p] \in Local /\ proc[p].left = {}
      /\ proc' = [proc EXCEPT ![p] = l] /\ UNCHANGED <<disk, nolist, nostat, cat, tx>>
  BY WalkFacts DEF Descend, NoWrite, Goto, Local, Quiet
<1>2. \A d \in Dir : w[d] = IF d # Root /\ Parent[d] \in proc[p].cur /\ ShouldDescend(proc[p], d)
                            THEN "queued" ELSE proc[p].walk[d]
  OBVIOUS
<1>5. /\ l.walk = w /\ l.saw = proc[p].saw /\ l.excl = proc[p].excl /\ l.id = proc[p].id /\ l.pc = "walk"
      /\ l.left = proc[p].left /\ l.pending = proc[p].pending /\ l.placed = proc[p].placed
      /\ l.cur = {} /\ l.fresh = proc[p].fresh /\ l.calm = proc[p].calm /\ l.outcome = proc[p].outcome
  <2> HIDE DEF w
  <2> QED BY <1>1 DEF Local
<1> HIDE DEF l, w
<1>6. proc'[p] = l
  BY <1>1 DEF StoreInv, TypeOK
<1> QED BY <1>1, <1>2, <1>5, <1>6 DEF SameScan, SameList, SameRows

LEMMA EndWalkShape ==
    ASSUME StoreInv, NEW p \in Proc, EndWalk(p)
    PROVE  /\ SameScan(p) /\ SameList(p) /\ proc'[p].pc = IF proc[p].walk[Root] = "read" THEN "merge" ELSE "refuse"
           /\ \A d \in Dir : proc[p].walk[d] \notin {"queued", "listed", "denied"}
           /\ proc'[p].walk = proc[p].walk /\ proc'[p].placed = proc[p].placed
           /\ proc[p].cur = {} /\ proc'[p].cur = {} /\ proc[p].left = {} /\ proc'[p].left = {}
           /\ proc'[p].pending = {} /\ proc'[p].fresh = {}
           /\ SameTree(tx') /\ (cat' = tx' \/ (cat' = cat /\ tx' = tx))
           /\ Flushes(p, proc[p].pending)
           /\ proc[p].fresh \cup tx.listed[proc[p].id] \subseteq tx'.listed[proc[p].id]
<1> DEFINE ns == proc[p].pending
           st == Staged(tx, proc[p], ns)
           pc == IF proc[p].walk[Root] = "read" THEN "merge" ELSE "refuse"
           none == {}
           l == [proc[p] EXCEPT !.pc = pc, !.pending = none, !.fresh = none]
           more == st.listed[proc[p].id] \cup proc[p].fresh
           new == [st EXCEPT !.listed = [st.listed EXCEPT ![proc[p].id] = more]]
<1>1. /\ proc[p].pc = "walk" /\ proc[p] \in Local /\ proc' = [proc EXCEPT ![p] = l]
      /\ proc[p].id \in ScanId /\ tx \in Catalog /\ proc[p].cur = {}
      /\ \A d \in Dir : proc[p].walk[d] \notin {"queued", "listed", "denied"}
      /\ UNCHANGED <<disk, nolist, nostat>>
  BY WalkFacts DEF EndWalk, WalkOver, Goto, Quiet
<1>2. (tx' = new /\ cat' = new) \/ (ns = {} /\ proc[p].fresh = {} /\ tx' = tx /\ cat' = cat)
  BY DEF EndWalk, Commit, NoWrite
<1>3. ns \in SUBSET Entry /\ (\A m \in ns : proc[p].saw[m] \in Facts) /\ proc[p].left = {}
  BY <1>1, WalkFacts DEF Local, WalkOK
<1>4. /\ \A m \in Entry : st.staged[proc[p].id][m] = IF m \in ns THEN proc[p].saw[m] ELSE tx.staged[proc[p].id][m]
      /\ st.dir = tx.dir /\ st.file = tx.file /\ st.listed = tx.listed
  <2> HIDE DEF ns
  <2> QED BY <1>1, <1>3, StagedExactly
<1>5. st \in Catalog
  BY <1>1, <1>3, StagedType
<1>6. new.staged = st.staged /\ new.dir = st.dir /\ new.file = st.file /\ new.listed[proc[p].id] = more
  <2> HIDE DEF st, more
  <2> QED BY <1>1, <1>5 DEF Catalog
<1>7. /\ l.walk = proc[p].walk /\ l.saw = proc[p].saw /\ l.excl = proc[p].excl /\ l.id = proc[p].id /\ l.pc = pc
      /\ l.left = proc[p].left /\ l.pending = {} /\ l.placed = proc[p].placed
      /\ l.cur = proc[p].cur /\ l.fresh = {} /\ l.calm = proc[p].calm /\ l.outcome = proc[p].outcome
  <2> HIDE DEF pc
  <2> QED BY <1>1 DEF Local
<1> HIDE DEF l, new, st
<1>8. proc'[p] = l
  BY <1>1 DEF StoreInv, TypeOK
<1>9. /\ SameTree(tx') /\ Flushes(p, proc[p].pending)
      /\ proc[p].fresh \cup tx.listed[proc[p].id] \subseteq tx'.listed[proc[p].id]
  <2>1. CASE tx' = new
    BY <1>4, <1>6, <2>1 DEF SameTree, Flushes
  <2>2. CASE ns = {} /\ proc[p].fresh = {} /\ tx' = tx
    BY <2>2 DEF SameTree, Flushes
  <2> QED BY <1>2, <2>1, <2>2
<1>10. cat' = tx' \/ (cat' = cat /\ tx' = tx)
  BY <1>2
<1> QED BY <1>1, <1>3, <1>7, <1>8, <1>9, <1>10 DEF SameScan, SameList
--------------------------------------------------------------------------------
(* What the other steps take it to *)

\* The scan moves on; what it knows of its walk is as it was.
SameWork(p) ==
    /\ proc[p] \in Local /\ proc' = [proc EXCEPT ![p] = proc'[p]]
    /\ proc'[p].id = proc[p].id /\ proc'[p].excl = proc[p].excl /\ proc'[p].calm = proc[p].calm
    /\ proc'[p].walk = proc[p].walk /\ proc'[p].saw = proc[p].saw /\ proc'[p].placed = proc[p].placed
    /\ proc'[p].cur = proc[p].cur /\ proc'[p].left = proc[p].left
    /\ proc'[p].pending = proc[p].pending /\ proc'[p].fresh = proc[p].fresh
    /\ UNCHANGED <<disk, nolist, nostat>>

LEMMA WorkOn ==
    ASSUME StoreInv, NEW p \in Proc, NEW pc, NEW o, Quiet,
           Goto(p, [proc[p] EXCEPT !.pc = pc, !.outcome = o])
    PROVE  SameWork(p) /\ proc'[p].pc = pc /\ proc'[p].outcome = o
<1> DEFINE l == [proc[p] EXCEPT !.pc = pc, !.outcome = o]
<1>1. proc[p] \in Local /\ proc' = [proc EXCEPT ![p] = l]
  BY DEF Goto, StoreInv, TypeOK
<1>2. /\ l.walk = proc[p].walk /\ l.saw = proc[p].saw /\ l.excl = proc[p].excl /\ l.id = proc[p].id
      /\ l.left = proc[p].left /\ l.pending = proc[p].pending /\ l.placed = proc[p].placed
      /\ l.cur = proc[p].cur /\ l.fresh = proc[p].fresh /\ l.calm = proc[p].calm
      /\ l.pc = pc /\ l.outcome = o
  BY <1>1 DEF Local
<1> HIDE DEF l
<1>3. proc'[p] = l
  BY <1>1 DEF StoreInv, TypeOK
<1> QED BY <1>1, <1>2, <1>3 DEF SameWork, Quiet

LEMMA AbortShape ==
    ASSUME StoreInv, NEW p \in Proc, NEW o, Abort(p, o)
    PROVE  /\ SameWork(p) /\ proc[p].pc = "walk" /\ proc'[p].pc = "finish" /\ proc'[p].outcome = o
           /\ cat' = cat /\ (tx' = cat \/ tx' = tx)
<1>1. Quiet /\ Goto(p, [proc[p] EXCEPT !.pc = "finish", !.outcome = o])
  BY DEF Abort
<1>2. SameWork(p) /\ proc'[p].pc = "finish" /\ proc'[p].outcome = o
  BY <1>1, WorkOn
<1> QED BY <1>2 DEF Abort, Rollback

LEMMA MergeReadShape ==
    ASSUME StoreInv, NEW p \in Proc, MergeRead(p)
    PROVE  /\ SameWork(p) /\ proc[p].pc = "merge" /\ proc'[p].pc = "merging"
           /\ proc'[p].outcome = proc[p].outcome /\ cat' = cat /\ tx' = tx
<1>1. proc[p] \in Local
  BY DEF StoreInv, TypeOK
<1>2. Quiet /\ Goto(p, [proc[p] EXCEPT !.pc = "merging", !.outcome = proc[p].outcome])
  BY <1>1 DEF MergeRead, Local
<1>3. SameWork(p) /\ proc'[p].pc = "merging" /\ proc'[p].outcome = proc[p].outcome
  BY <1>2, WorkOn
<1> QED BY <1>3 DEF MergeRead

\* The rows of a merge: the staged files go in, and what went missing is marked.
MergedFiles(p) == Upsert(cat.file, cat.staged[proc[p].id], proc[p].id)
MergeGone(p)   == GoneDirs(cat.dir, cat.listed[proc[p].id], proc[p].id)
MergeLost(p)   == VanishedFiles(cat.dir, MergedFiles(p), cat.listed[proc[p].id], proc[p].id)

LEMMA MergeShape ==
    ASSUME StoreInv, NEW p \in Proc, Merge(p)
    PROVE  /\ SameWork(p) /\ proc[p].pc = "merging" /\ proc'[p].pc = "rollup"
           /\ proc'[p].outcome = proc[p].outcome /\ tx = cat /\ tx' = cat'
           /\ cat'.dir = TombstoneDirs(cat.dir, MergeGone(p))
           /\ cat'.file = TombstoneFiles(MergedFiles(p), MergeLost(p))
           /\ cat'.scan = cat.scan /\ cat'.rollup = cat.rollup
<1>1. proc[p] \in Local
  BY DEF StoreInv, TypeOK
<1>2. Quiet /\ Goto(p, [proc[p] EXCEPT !.pc = "rollup", !.outcome = proc[p].outcome])
  BY <1>1 DEF Merge, Local
<1>3. SameWork(p) /\ proc'[p].pc = "rollup" /\ proc'[p].outcome = proc[p].outcome
  BY <1>2, WorkOn
<1>4. proc[p].pc = "merging" /\ Commit(p, Merged(cat, proc[p].id))
  BY DEF Merge
<1>5. tx = cat /\ tx' = cat' /\ cat' = Merged(cat, proc[p].id)
  BY <1>4, LockFree DEF Commit
<1>6. /\ Merged(cat, proc[p].id).dir = TombstoneDirs(cat.dir, MergeGone(p))
      /\ Merged(cat, proc[p].id).file = TombstoneFiles(MergedFiles(p), MergeLost(p))
      /\ Merged(cat, proc[p].id).scan = cat.scan /\ Merged(cat, proc[p].id).rollup = cat.rollup
  <2>1. cat \in Catalog
    BY DEF StoreInv, TypeOK
  <2> QED BY <2>1 DEF Merged, ClearStage, Catalog, MergeGone, MergedFiles, MergeLost
<1> QED BY <1>3, <1>4, <1>5, <1>6

LEMMA RefuseShape ==
    ASSUME StoreInv, NEW p \in Proc, Refuse(p)
    PROVE  /\ SameWork(p) /\ proc[p].pc = "refuse" /\ proc'[p].pc = "finish" /\ proc'[p].outcome = "failed"
           /\ tx = cat /\ tx' = cat' /\ cat'.dir = cat.dir /\ cat'.file = cat.file
           /\ cat'.scan = cat.scan /\ cat'.rollup = cat.rollup
<1>1. /\ Quiet /\ Goto(p, [proc[p] EXCEPT !.pc = "finish", !.outcome = "failed"])
      /\ proc[p].pc = "refuse" /\ Commit(p, ClearStage(cat, proc[p].id))
  BY DEF Refuse
<1>2. SameWork(p) /\ proc'[p].pc = "finish" /\ proc'[p].outcome = "failed"
  BY <1>1, WorkOn
<1>3. tx = cat /\ tx' = cat' /\ cat' = ClearStage(cat, proc[p].id) /\ cat \in Catalog
  BY <1>1, LockFree DEF Commit, StoreInv, TypeOK
<1> QED BY <1>1, <1>2, <1>3 DEF ClearStage, Catalog

LEMMA RollupShape ==
    ASSUME StoreInv, NEW p \in Proc, Rollup(p)
    PROVE  /\ SameWork(p) /\ proc[p].pc = "rollup" /\ proc'[p].pc = "finish" /\ proc'[p].outcome = "done"
           /\ tx = cat /\ tx' = cat' /\ cat'.dir = cat.dir /\ cat'.file = cat.file
           /\ cat'.scan = cat.scan /\ cat'.rollup = LiveBeneath(cat.dir, cat.file)
<1>1. /\ Quiet /\ Goto(p, [proc[p] EXCEPT !.pc = "finish", !.outcome = "done"])
      /\ proc[p].pc = "rollup" /\ Commit(p, [cat EXCEPT !.rollup = LiveBeneath(cat.dir, cat.file)])
  BY DEF Rollup
<1>2. SameWork(p) /\ proc'[p].pc = "finish" /\ proc'[p].outcome = "done"
  BY <1>1, WorkOn
<1>3. tx = cat /\ tx' = cat' /\ cat' = [cat EXCEPT !.rollup = LiveBeneath(cat.dir, cat.file)] /\ cat \in Catalog
  BY <1>1, LockFree DEF Commit, StoreInv, TypeOK
<1> QED BY <1>1, <1>2, <1>3 DEF Catalog

LEMMA FinishShape ==
    ASSUME StoreInv, NEW p \in Proc, Finish(p)
    PROVE  /\ SameWork(p) /\ proc[p].pc = "finish" /\ proc'[p].pc = "audit"
           /\ proc'[p].outcome = proc[p].outcome
           /\ tx = cat /\ tx' = cat' /\ cat'.dir = cat.dir /\ cat'.file = cat.file /\ cat'.rollup = cat.rollup
           /\ \A i \in ScanId : cat'.scan[i] = IF i = proc[p].id THEN proc[p].outcome ELSE cat.scan[i]
<1>1. proc[p] \in Local /\ cat \in Catalog
  BY DEF StoreInv, TypeOK
<1> DEFINE scans == [cat.scan EXCEPT ![proc[p].id] = proc[p].outcome]
<1>2. /\ Quiet /\ Goto(p, [proc[p] EXCEPT !.pc = "audit", !.outcome = proc[p].outcome])
      /\ proc[p].pc = "finish" /\ Commit(p, [cat EXCEPT !.scan = scans])
  BY <1>1 DEF Finish, Local
<1>3. SameWork(p) /\ proc'[p].pc = "audit" /\ proc'[p].outcome = proc[p].outcome
  BY <1>2, WorkOn
<1>4. tx = cat /\ tx' = cat' /\ cat' = [cat EXCEPT !.scan = scans]
  BY <1>2, LockFree DEF Commit
<1>5. \A i \in ScanId : scans[i] = IF i = proc[p].id THEN proc[p].outcome ELSE cat.scan[i]
  BY <1>1 DEF Catalog
<1> HIDE DEF scans
<1>6. cat'.scan = scans /\ cat'.dir = cat.dir /\ cat'.file = cat.file /\ cat'.rollup = cat.rollup
  BY <1>1, <1>4 DEF Catalog
<1> QED BY <1>2, <1>3, <1>4, <1>5, <1>6

\* The program is done with the scan, or dead.
LEMMA EndShape ==
    ASSUME StoreInv, NEW p \in Proc, Audit(p) \/ MergeOvertaken(p) \/ GiveUp(p) \/ Crash(p)
    PROVE  /\ proc' = [proc EXCEPT ![p] = proc'[p]] /\ proc'[p] = Idle
           /\ UNCHANGED <<disk, nolist, nostat>>
           /\ cat'.dir = cat.dir /\ cat'.file = cat.file /\ cat'.scan = cat.scan /\ cat'.rollup = cat.rollup
           /\ SameTree(tx') \/ (tx'.dir = cat.dir /\ tx'.file = cat.file)
<1>1. proc' = [proc EXCEPT ![p] = Idle] /\ cat \in Catalog /\ tx \in Catalog /\ proc \in [Proc -> Local]
      /\ UNCHANGED <<disk, nolist, nostat>>
  BY DEF Audit, MergeOvertaken, GiveUp, Crash, Goto, StoreInv, TypeOK, Quiet
<1>2. CASE Audit(p)
  <2>1. tx = cat /\ tx' = cat' /\ cat' = [cat EXCEPT !.audit = @ \cup {proc[p].id}]
    BY <1>2, LockFree DEF Audit, Commit
  <2> QED BY <1>1, <2>1 DEF Catalog, SameTree
<1>3. CASE MergeOvertaken(p) \/ GiveUp(p) \/ Crash(p)
  BY <1>1, <1>3 DEF MergeOvertaken, GiveUp, Crash, SameTree
<1> QED BY <1>2, <1>3

LEMMA InternRootShape ==
    ASSUME StoreInv, NEW p \in Proc, InternRoot(p)
    PROVE  /\ proc[p] \in Local /\ proc' = [proc EXCEPT ![p] = proc'[p]]
           /\ proc'[p].id = proc[p].id /\ proc'[p].excl = proc[p].excl /\ proc'[p].calm = proc[p].calm
           /\ proc'[p].outcome = proc[p].outcome /\ proc'[p].saw = proc[p].saw
           /\ proc[p].pc = "begun" /\ proc'[p].pc = "walk"
           /\ \A d \in Dir : proc'[p].walk[d] = IF d = Root THEN "queued" ELSE "none"
           /\ proc'[p].placed = {Root} /\ proc'[p].cur = {} /\ proc'[p].left = {}
           /\ proc'[p].pending = {} /\ proc'[p].fresh = {}
           /\ UNCHANGED <<disk, nolist, nostat>>
           /\ tx = cat /\ tx' = cat' /\ cat'.dir = InternDir(cat.dir, Root, proc[p].id)
           /\ cat'.file = cat.file /\ cat'.scan = cat.scan /\ cat'.staged = cat.staged /\ cat'.listed = cat.listed
           /\ cat'.rollup = cat.rollup
<1> DEFINE w   == [proc[p].walk EXCEPT ![Root] = "queued"]
           pl  == {Root}
           l   == [proc[p] EXCEPT !.pc = "walk", !.walk = w, !.placed = pl]
           ds  == InternDir(cat.dir, Root, proc[p].id)
           new == [cat EXCEPT !.dir = ds]
<1>1. proc[p].pc = "begun" /\ Quiet /\ proc' = [proc EXCEPT ![p] = l] /\ Commit(p, new) /\ Root \in Dir
  BY SoloFacts, TreeAssumption DEF InternRoot, Local, Goto
<1>2. /\ w[Root] = "queued" /\ \A d \in Dir \ {Root} : w[d] = "none"
      /\ \A d \in Dir : proc[p].walk[d] = "none"
  BY <1>1, SoloFacts DEF Local, WalkState, WalkOK
<1>3. proc[p].cur = {} /\ proc[p].fresh = {} /\ proc[p].left = {} /\ proc[p].pending = {}
  BY <1>1, <1>2, SoloFacts, TreeAssumption DEF WalkOK, Local
<1>4. /\ l.walk = w /\ l.saw = proc[p].saw /\ l.excl = proc[p].excl /\ l.id = proc[p].id /\ l.pc = "walk"
      /\ l.left = proc[p].left /\ l.pending = proc[p].pending /\ l.placed = pl
      /\ l.cur = proc[p].cur /\ l.fresh = proc[p].fresh /\ l.calm = proc[p].calm /\ l.outcome = proc[p].outcome
  <2> HIDE DEF w, pl
  <2> QED BY <1>1, SoloFacts DEF Local
<1>5. /\ new.dir = ds /\ new.file = cat.file /\ new.scan = cat.scan /\ new.staged = cat.staged
      /\ new.listed = cat.listed /\ new.rollup = cat.rollup
  <2> HIDE DEF ds
  <2> QED BY <1>1, SoloFacts DEF Catalog
<1>6. tx = cat /\ tx' = cat' /\ cat' = new
  BY <1>1, LockFree DEF Commit
<1> HIDE DEF l, w, new
<1>7. proc'[p] = l
  BY <1>1 DEF StoreInv, TypeOK
<1>8. \A d \in Dir : proc'[p].walk[d] = IF d = Root THEN "queued" ELSE "none"
  BY <1>2, <1>4, <1>7
<1>9. /\ cat'.dir = InternDir(cat.dir, Root, proc[p].id)
      /\ cat'.file = cat.file /\ cat'.scan = cat.scan /\ cat'.staged = cat.staged
      /\ cat'.listed = cat.listed /\ cat'.rollup = cat.rollup
  BY <1>5, <1>6
<1>10. UNCHANGED <<disk, nolist, nostat>> /\ proc' = [proc EXCEPT ![p] = proc'[p]] /\ proc[p] \in Local
  BY <1>1, <1>7, SoloFacts DEF Quiet
<1> QED BY <1>1, <1>3, <1>4, <1>6, <1>7, <1>8, <1>9, <1>10\* What a scan knows is as it was, and if it is still calm so is the drive.
SameState(q) ==
    /\ proc'[q].id = proc[q].id /\ proc'[q].excl = proc[q].excl
    /\ proc'[q].pc = proc[q].pc /\ proc'[q].outcome = proc[q].outcome
    /\ proc'[q].walk = proc[q].walk /\ proc'[q].saw = proc[q].saw /\ proc'[q].placed = proc[q].placed
    /\ proc'[q].cur = proc[q].cur /\ proc'[q].left = proc[q].left
    /\ proc'[q].pending = proc[q].pending /\ proc'[q].fresh = proc[q].fresh
    /\ proc'[q].calm => proc[q].calm /\ UNCHANGED <<disk, nolist, nostat>>

LEMMA UncalmState ==
    ASSUME NEW q \in Proc, proc[q] \in Local, proc'[q] = [proc[q] EXCEPT !.calm = FALSE]
    PROVE  SameState(q)
BY DEF Local, SameState

LEMMA BystanderShape ==
    ASSUME StoreInv, OtherWriter \/ World \/ UNCHANGED vars
    PROVE  /\ \A q \in Proc : SameState(q)
           /\ cat' = cat /\ tx' = tx
<1>1. CASE OtherWriter \/ UNCHANGED vars
  BY <1>1 DEF OtherWriter, vars, SameState, Quiet
<1>2. CASE World
  <2>1. Change
    BY <1>2 DEF World, Place, ToggleList, ToggleStat
  <2>2. \A q \in Proc : proc[q] \in Local /\ proc'[q] = [proc[q] EXCEPT !.calm = FALSE]
    BY <2>1 DEF Change, StoreInv, TypeOK
  <2> QED BY <2>1, <2>2, UncalmState DEF Change
<1> QED BY <1>1, <1>2

LEMMA BeginShape ==
    ASSUME StoreInv, NEW p \in Proc, NEW x \in ExcludeChoices, Begin(p, x)
    PROVE  /\ proc[p].pc = "idle" /\ proc'[p].pc = "begun" /\ proc'[p].id \in ScanId
           /\ proc'[p].outcome = "unused" /\ proc'[p].walk = [d \in Dir |-> "none"]
           /\ proc'[p].placed = {} /\ proc'[p].cur = {} /\ proc'[p].left = {}
           /\ proc'[p].pending = {} /\ proc'[p].fresh = {}
           /\ \A q \in Proc \ {p} : SameState(q)
           /\ UNCHANGED <<disk, nolist, nostat>>
           /\ tx = cat /\ tx' = cat' /\ cat'.dir = cat.dir /\ cat'.file = cat.file
           /\ cat'.rollup = cat.rollup
           /\ \A i \in ScanId : cat.scan[i] = "unused" <=> i >= proc'[p].id
           /\ \A i \in ScanId : cat'.scan[i] = IF i = proc'[p].id THEN "running" ELSE cat.scan[i]
<1> DEFINE b(id, c) == [Idle EXCEPT !.pc = "begun", !.id = id, !.excl = x, !.calm = c, !.before = LiveDirs]
           busy == \E q \in Proc \ {p} : proc[q].pc # "idle"
<1>1. PICK id \in ScanId :
        /\ \A i \in ScanId : cat.scan[i] = "unused" <=> i >= id
        /\ Commit(p, [cat EXCEPT !.scan[id] = "running"])
        /\ proc' = [q \in Proc |-> IF q = p THEN b(id, ~busy) ELSE [proc[q] EXCEPT !.calm = FALSE]]
  BY DEF Begin
<1>2. proc[p].pc = "idle" /\ Quiet /\ cat \in Catalog /\ proc \in [Proc -> Local]
  BY DEF Begin, StoreInv, TypeOK
<1>3. \A c : /\ b(id, c).pc = "begun" /\ b(id, c).id = id /\ b(id, c).outcome = "unused"
             /\ b(id, c).walk = [d \in Dir |-> "none"] /\ b(id, c).cur = {} /\ b(id, c).fresh = {}
             /\ b(id, c).left = {} /\ b(id, c).pending = {} /\ b(id, c).placed = {}
  BY DEF Idle
<1> HIDE DEF b, busy
<1>4. proc'[p] = b(id, ~busy) /\ \A q \in Proc \ {p} : proc'[q] = [proc[q] EXCEPT !.calm = FALSE]
  BY <1>1
<1>5. \A q \in Proc \ {p} : SameState(q)
  BY <1>2, <1>4, UncalmState
<1> DEFINE scans == [cat.scan EXCEPT ![id] = "running"]
<1>6. tx = cat /\ tx' = cat' /\ cat' = [cat EXCEPT !.scan = scans]
  BY <1>1, <1>2, LockFree DEF Commit
<1>7. \A i \in ScanId : scans[i] = IF i = id THEN "running" ELSE cat.scan[i]
  BY <1>2 DEF Catalog
<1> HIDE DEF scans
<1>8. cat'.scan = scans /\ cat'.dir = cat.dir /\ cat'.file = cat.file /\ cat'.rollup = cat.rollup
  BY <1>2, <1>6 DEF Catalog
<1>9. proc'[p].id = id /\ \A i \in ScanId : cat'.scan[i] = IF i = id THEN "running" ELSE cat.scan[i]
  BY <1>3, <1>4, <1>7, <1>8
<1>10. /\ proc'[p].pc = "begun" /\ proc'[p].outcome = "unused" /\ proc'[p].walk = [d \in Dir |-> "none"]
       /\ proc'[p].placed = {} /\ proc'[p].cur = {} /\ proc'[p].left = {}
       /\ proc'[p].pending = {} /\ proc'[p].fresh = {}
  BY <1>3, <1>4
<1>11. UNCHANGED <<disk, nolist, nostat>>
  BY <1>2 DEF Quiet
<1> QED BY <1>1, <1>2, <1>5, <1>6, <1>8, <1>9, <1>10, <1>11

--------------------------------------------------------------------------------
(* Every listing has a row to go under *)

\* A directory that is waited for has been interned; what the walker is about to
\* submit is interned or still to be recorded; and a walk comes to a directory
\* only through directories it has read.
Placing(l) ==
    /\ \A d \in Dir : l.walk[d] \in {"queued", "listed", "denied"} => d \in l.placed
    /\ \A d \in Dir : l.walk[d] # "unplaced"
    /\ \A d \in Dir \ {Root} : Parent[d] \in l.cur /\ ShouldDescend(l, d) => d \in l.placed \cup l.left
    /\ \A d \in Dir : l.walk[d] # "none" => \A a \in Above[d] : l.walk[a] = "read"

PlacingInv == \A p \in Proc : Placing(proc[p])

LEMMA PlacingFrame ==
    ASSUME StoreInv, PlacingInv, NEW p \in Proc, proc' = [proc EXCEPT ![p] = proc'[p]], Placing(proc'[p])
    PROVE  PlacingInv'
<1>1. \A q \in Proc \ {p} : proc'[q] = proc[q]
  BY DEF StoreInv, TypeOK
<1> QED BY <1>1 DEF PlacingInv, Placing, ShouldDescend

LEMMA TreeFacts ==
    /\ Root \in Dir /\ \A d \in Dir : d \in Node /\ Above[d] \subseteq Dir
    /\ \A d \in Dir \ {Root} : d \in Entry
    /\ \A n \in Entry : n \in Node /\ Parent[n] \in Dir /\ Parent[n] \in Above[n] /\ Above[n] \subseteq Dir
    /\ \A n \in Entry : Above[n] = {Parent[n]} \cup Above[Parent[n]]
    /\ \A n \in Node : \A a \in Above[n] : Above[a] \subseteq Above[n]
    /\ Above[Root] = {}
BY TreeAssumption DEF Entry

LEMMA ListPlaces ==
    ASSUME StoreInv, PlacingInv, NEW p \in Proc, NEW d \in Dir, List(p, d)
    PROVE  PlacingInv'
<1>1. Placing(proc[p]) /\ WalkOK(proc[p]) /\ proc[p] \in Local
  BY ListShape, WalkFacts DEF PlacingInv, SameScan
<1>2. \A e \in Dir : proc[p].walk[e] = "read" => proc'[p].walk[e] = "read"
  BY ListShape
<1>3. \A e \in Dir : proc'[p].walk[e] \in {"queued", "listed", "denied"} => e \in proc'[p].placed
  BY <1>1, ListShape DEF Placing
<1>4. \A e \in Dir : proc'[p].walk[e] # "unplaced"
  BY <1>1, ListShape DEF Placing
<1>5. \A e \in Dir \ {Root} : Parent[e] \in proc'[p].cur /\ ShouldDescend(proc'[p], e) =>
         e \in proc'[p].placed \cup proc'[p].left
  <2> SUFFICES ASSUME NEW e \in Dir \ {Root}, Parent[e] \in proc'[p].cur, ShouldDescend(proc'[p], e)
               PROVE  e \in proc'[p].placed \cup proc'[p].left
    OBVIOUS
  <2>1. Parent[e] # d
    BY <1>1, ListShape, TreeFacts DEF WalkOK
  <2>2. ShouldDescend(proc[p], e)
    BY <2>1, ListShape, TreeFacts DEF ShouldDescend, SameScan
  <2> QED BY <2>2, <1>1, ListShape DEF Placing
<1>6. \A e \in Dir : proc'[p].walk[e] # "none" => \A a \in Above[e] : proc'[p].walk[a] = "read"
  BY <1>1, <1>2, ListShape, TreeFacts DEF Placing
<1> QED BY <1>3, <1>4, <1>5, <1>6, ListShape, PlacingFrame DEF Placing, SameScan

LEMMA TakeUnusablePlaces ==
    ASSUME StoreInv, PlacingInv, NEW p \in Proc, NEW d \in Dir, TakeUnusable(p, d)
    PROVE  PlacingInv'
<1>1. Placing(proc[p]) /\ WalkOK(proc[p]) /\ proc[p] \in Local /\ proc[p].cur = {}
  BY TakeUnusableShape, WalkFacts DEF PlacingInv, SameScan, TakeUnusable
<1>2. \A e \in Dir : proc[p].walk[e] = "read" => proc'[p].walk[e] = "read"
  BY TakeUnusableShape
<1>3. d \in proc[p].placed
  BY <1>1, TakeUnusableShape DEF Placing
<1>4. proc'[p].walk[d] = "unread" /\ proc'[p].cur = {}
  BY <1>1, <1>3, TakeUnusableShape
<1>5. \A e \in Dir : proc'[p].walk[e] \in {"queued", "listed", "denied"} => e \in proc'[p].placed
  BY <1>1, <1>4, TakeUnusableShape DEF Placing
<1>6. \A e \in Dir : proc'[p].walk[e] # "unplaced"
  BY <1>1, <1>4, TakeUnusableShape DEF Placing
<1>7. \A e \in Dir : proc'[p].walk[e] # "none" => \A a \in Above[e] : proc'[p].walk[a] = "read"
  BY <1>1, <1>2, TakeUnusableShape, TreeFacts DEF Placing
<1> QED BY <1>4, <1>5, <1>6, <1>7, TakeUnusableShape, PlacingFrame DEF Placing, SameScan

LEMMA TakeListedPlaces ==
    ASSUME StoreInv, PlacingInv, NEW p \in Proc, NEW d \in Dir, TakeListed(p, d)
    PROVE  PlacingInv'
<1>1. Placing(proc[p])
  BY DEF PlacingInv
<1>2. \A e \in Dir : proc[p].walk[e] = "read" => proc'[p].walk[e] = "read"
  BY TakeListedShape
<1>3. \A e \in Dir : proc'[p].walk[e] \in {"queued", "listed", "denied"} => e \in proc'[p].placed
  BY <1>1, TakeListedShape DEF Placing
<1>4. \A e \in Dir : proc'[p].walk[e] # "unplaced"
  BY <1>1, TakeListedShape DEF Placing
<1>5. \A e \in Dir \ {Root} : Parent[e] \in proc'[p].cur /\ ShouldDescend(proc'[p], e) =>
         e \in proc'[p].left
  <2> SUFFICES ASSUME NEW e \in Dir \ {Root}, Parent[e] \in proc'[p].cur, ShouldDescend(proc'[p], e)
               PROVE  e \in proc'[p].left
    OBVIOUS
  <2>1. Parent[e] = d /\ proc[p].saw[e] = "dir"
    BY TakeListedShape DEF ShouldDescend, SameList
  <2> QED BY <2>1, TakeListedShape, TreeFacts DEF Children
<1>6. \A e \in Dir : proc'[p].walk[e] # "none" => \A a \in Above[e] : proc'[p].walk[a] = "read"
  BY <1>1, <1>2, TakeListedShape, TreeFacts DEF Placing
<1> QED BY <1>3, <1>4, <1>5, <1>6, TakeListedShape, PlacingFrame DEF Placing, SameScan

LEMMA RecordPlaces ==
    ASSUME StoreInv, PlacingInv, NEW p \in Proc, NEW n \in Entry,
           RecordSkip(p, n) \/ RecordDir(p, n) \/ RecordFile(p, n)
    PROVE  PlacingInv'
<1>1. Placing(proc[p])
  BY DEF PlacingInv
<1>2. /\ SameScan(p) /\ SameList(p)
      /\ proc'[p].walk = proc[p].walk /\ proc'[p].cur = proc[p].cur
      /\ proc[p].placed \subseteq proc'[p].placed /\ proc'[p].left = proc[p].left \ {n}
  BY RecordSkipShape, RecordDirShape, RecordFileShape
<1>3. ShouldDescend(proc[p], n) => n \in proc'[p].placed
  <2>1. CASE RecordSkip(p, n)
    BY <2>1, RecordSkipShape DEF ShouldDescend, Skipped
  <2>2. CASE RecordDir(p, n)
    BY <2>2, RecordDirShape
  <2>3. CASE RecordFile(p, n)
    BY <2>3, RecordFileShape, StampAssumption DEF ShouldDescend, RecordedFile, Facts
  <2> QED BY <2>1, <2>2, <2>3
<1>4. \A e \in Dir : ShouldDescend(proc'[p], e) => ShouldDescend(proc[p], e)
  BY <1>2 DEF ShouldDescend, SameScan, SameList
<1>5. Placing(proc'[p])
  BY <1>1, <1>2, <1>3, <1>4 DEF Placing
<1> QED BY <1>2, <1>5, PlacingFrame DEF SameScan

LEMMA DescendPlaces ==
    ASSUME StoreInv, PlacingInv, NEW p \in Proc, Descend(p)
    PROVE  PlacingInv'
<1>1. Placing(proc[p]) /\ WalkOK(proc[p])
  BY DescendShape DEF PlacingInv, StoreInv, WalkInv
<1>2. \A e \in Dir \ {Root} : Parent[e] \in proc[p].cur => proc[p].walk[e] = "none"
  BY <1>1 DEF WalkOK
<1>3. \A e \in Dir : proc[p].walk[e] # "none" => proc'[p].walk[e] = proc[p].walk[e]
  BY <1>2, DescendShape
<1>4. \A e \in Dir : proc'[p].walk[e] \in {"queued", "listed", "denied"} => e \in proc'[p].placed
  BY <1>1, DescendShape DEF Placing
<1>5. \A e \in Dir : proc'[p].walk[e] # "unplaced"
  BY <1>1, DescendShape DEF Placing
<1>6. \A e \in Dir : proc'[p].walk[e] # "none" => \A a \in Above[e] : proc'[p].walk[a] = "read"
  <2> SUFFICES ASSUME NEW e \in Dir, proc'[p].walk[e] # "none", NEW a \in Above[e]
               PROVE  proc'[p].walk[a] = "read"
    OBVIOUS
  <2>1. a \in Dir
    BY TreeFacts
  <2>2. CASE proc[p].walk[e] # "none"
    BY <1>1, <1>3, <2>1, <2>2 DEF Placing
  <2>3. CASE proc[p].walk[e] = "none"
    <3>1. e \in Dir \ {Root} /\ Parent[e] \in proc[p].cur
      BY <2>3, DescendShape
    <3>2. proc[p].walk[Parent[e]] = "read" /\ Parent[e] \in Dir
      BY <1>1, <3>1, TreeFacts DEF WalkOK
    <3>3. proc[p].walk[a] = "read"
      BY <1>1, <3>1, <3>2, TreeFacts DEF Placing
    <3> QED BY <3>3, <1>3, <2>1
  <2> QED BY <2>2, <2>3
<1> QED BY <1>4, <1>5, <1>6, DescendShape, PlacingFrame DEF Placing, SameScan

LEMMA SamePlacing ==
    ASSUME NEW q \in Proc, Placing(proc[q]),
           proc'[q].walk = proc[q].walk, proc'[q].saw = proc[q].saw, proc'[q].placed = proc[q].placed,
           proc'[q].cur = proc[q].cur, proc'[q].left = proc[q].left, proc'[q].excl = proc[q].excl
    PROVE  Placing(proc'[q])
BY DEF Placing, ShouldDescend

\* Nothing is waited for before the walk, nor after the program is done.
LEMMA NothingToPlace ==
    ASSUME NEW l, l.walk = [d \in Dir |-> "none"], l.cur = {}
    PROVE  Placing(l)
BY DEF Placing

LEMMA NextPlaces == StoreInv /\ PlacingInv /\ [Next]_vars => PlacingInv'
<1> SUFFICES ASSUME StoreInv, PlacingInv, [Next]_vars PROVE PlacingInv'
  OBVIOUS
<1>1. ASSUME NEW p \in Proc, NEW x \in ExcludeChoices, Begin(p, x) PROVE PlacingInv'
  <2>1. Placing(proc'[p])
    BY <1>1, BeginShape, NothingToPlace
  <2>2. \A q \in Proc \ {p} : Placing(proc'[q])
    BY <1>1, BeginShape, SamePlacing DEF SameState, PlacingInv
  <2> QED BY <2>1, <2>2 DEF PlacingInv, Placing, ShouldDescend
<1>2. ASSUME NEW p \in Proc, ScanStep(p) PROVE PlacingInv'
  <2>1. CASE InternRoot(p)
    <3>1. Placing(proc'[p])
      BY <2>1, InternRootShape, TreeFacts DEF Placing
    <3> QED BY <2>1, <3>1, InternRootShape, PlacingFrame
  <2>2. ASSUME NEW d \in Dir, List(p, d) \/ TakeUnusable(p, d) \/ TakeListed(p, d) PROVE PlacingInv'
    BY <2>2, ListPlaces, TakeUnusablePlaces, TakeListedPlaces
  <2>3. ASSUME NEW n \in Entry, RecordSkip(p, n) \/ RecordDir(p, n) \/ RecordFile(p, n) PROVE PlacingInv'
    BY <2>3, RecordPlaces
  <2>4. CASE Descend(p)
    BY <2>4, DescendPlaces
  <2>5. CASE EndWalk(p)
    <3>1. Placing(proc'[p])
      BY <2>5, EndWalkShape DEF PlacingInv, Placing
    <3> QED BY <2>5, <3>1, EndWalkShape, PlacingFrame DEF SameScan
  <2>6. CASE \/ Abort(p, "failed") \/ Abort(p, "aborted") \/ MergeRead(p) \/ Merge(p)
             \/ Refuse(p) \/ Rollup(p) \/ Finish(p)
    <3>1. SameWork(p)
      BY <2>6, AbortShape, MergeReadShape, MergeShape, RefuseShape, RollupShape, FinishShape
    <3>2. Placing(proc'[p])
      BY <3>1, SamePlacing DEF SameWork, PlacingInv
    <3> QED BY <3>1, <3>2, PlacingFrame DEF SameWork
  <2>7. CASE Audit(p) \/ MergeOvertaken(p) \/ GiveUp(p)
    <3>1. Placing(proc'[p])
      BY <2>7, EndShape, NothingToPlace DEF Idle
    <3> QED BY <2>7, <3>1, EndShape, PlacingFrame
  <2> QED BY <1>2, <2>1, <2>2, <2>3, <2>4, <2>5, <2>6, <2>7 DEF ScanStep
<1>3. ASSUME NEW p \in Proc, Crash(p) PROVE PlacingInv'
  <2>1. Placing(proc'[p])
    BY <1>3, EndShape, NothingToPlace DEF Idle
  <2> QED BY <1>3, <2>1, EndShape, PlacingFrame
<1>4. CASE OtherWriter \/ World \/ UNCHANGED vars
  <2>1. \A q \in Proc : Placing(proc'[q])
    BY <1>4, BystanderShape, SamePlacing DEF SameState, PlacingInv
  <2> QED BY <2>1 DEF PlacingInv, Placing, ShouldDescend
<1> QED BY <1>1, <1>2, <1>3, <1>4 DEF Next

--------------------------------------------------------------------------------
(* A program that scans alone finds its own rows where it put them *)

\* No other program scans: what the run scan_alone assumes.
Alone == \A p, q \in Proc : p = q

Own(t, d, i) == t.dir[d].st = "live" /\ t.dir[d].seen = i

\* A row below the root carries the scan's number only if the scan recorded it.
SeenIsRecorded(l, t) ==
    \A d \in Dir \ {Root} : t.dir[d].seen = l.id => l.walk[Parent[d]] = "read" /\ RecordedDir(l, d)

\* What was interned, or walked, is live and carries the scan's number.
PlacedIsOwn(l, t) == \A d \in Dir : d \in l.placed \/ l.walk[d] # "none" => Own(t, d, l.id)

\* So does every directory the scan had to record and has come to.
RecordedIsOwn(l, t) ==
    \A d \in Dir \ {Root} : l.walk[Parent[d]] = "read" /\ RecordedDir(l, d) =>
        d \in l.left \/ Own(t, d, l.id)

ReadIsListed(l, t) == \A d \in Dir : l.walk[d] = "read" => d \in t.listed[l.id] \cup l.fresh

\* The staged rows are what the listings showed.
StagedIsSaw(l, t) ==
    \A n \in Entry : t.staged[l.id][n] # "none" =>
        l.walk[Parent[n]] = "read" /\ RecordedFile(l, n) /\ t.staged[l.id][n] = l.saw[n]

PendingIsFile(l) == \A n \in l.pending : RecordedFile(l, n)

Remembered(l, t) == SeenIsRecorded(l, t) /\ StagedIsSaw(l, t)

Recorded(l, t) ==
    /\ PlacedIsOwn(l, t) /\ RecordedIsOwn(l, t) /\ ReadIsListed(l, t) /\ PendingIsFile(l)
    /\ l.pc # "walk" => l.left = {} /\ l.pending = {} /\ l.fresh = {}

\* LiveUnderLive, of the committed catalog or of the open transaction.
LiveUnder(t) ==
    /\ \A n \in Entry : t.file[n].st = "live" => \A a \in Above[n] : t.dir[a].st = "live"
    /\ \A d \in Dir : t.dir[d].st = "live" => \A a \in Above[d] : t.dir[a].st = "live"

SeenBefore(t) == \A d \in Dir : t.dir[d].seen \in ScanId => cat.scan[t.dir[d].seen] # "unused"

OwnInv ==
    /\ LiveUnder(cat) /\ LiveUnder(tx)
    /\ SeenBefore(cat) /\ SeenBefore(tx)
    /\ \A p \in Proc : Active(p) => \A j \in ScanId : j > proc[p].id => cat.scan[j] = "unused"
    /\ \A p \in Proc : proc[p].pc \in {"begun", "walk", "merge", "merging"} => Remembered(proc[p], tx)
    /\ \A p \in Proc : proc[p].pc \in {"walk", "merge", "merging"} => Recorded(proc[p], tx)

LEMMA OwnInit == Init => OwnInv
<1> SUFFICES ASSUME Init PROVE OwnInv
  OBVIOUS
<1>1. /\ cat = EmptyCatalog /\ tx = EmptyCatalog /\ \A p \in Proc : proc[p].pc = "idle"
  BY DEF Init, Idle
<1>2. /\ \A d \in Dir : EmptyCatalog.dir[d].st = "none" /\ EmptyCatalog.dir[d].seen = 0
      /\ \A n \in Entry : EmptyCatalog.file[n].st = "none"
  BY DEF EmptyCatalog, NoDirRow, NoFileRow
<1>3. 0 \notin ScanId
  BY ScanAssumption DEF ScanId
<1> QED BY <1>1, <1>2, <1>3 DEF OwnInv, LiveUnder, SeenBefore, Active

\* What was seen of an entry decides what is recorded of it.
LEMMA SameVerdict ==
    ASSUME NEW p \in Proc, NEW n \in Entry, proc'[p].excl = proc[p].excl, proc'[p].saw[n] = proc[p].saw[n]
    PROVE  /\ RecordedFile(proc'[p], n) <=> RecordedFile(proc[p], n)
           /\ RecordedDir(proc'[p], n) <=> RecordedDir(proc[p], n)
BY DEF RecordedFile, RecordedDir, Skipped

\* The step of a program that scans alone is the only one to look at.
LEMMA OwnFrame ==
    ASSUME Alone, OwnInv, StoreInv, NEW p \in Proc, proc' = [proc EXCEPT ![p] = proc'[p]],
           Active(p), proc'[p].id = proc[p].id, cat'.scan = cat.scan,
           LiveUnder(cat'), LiveUnder(tx'),
           \A d \in Dir : cat'.dir[d].seen \in {cat.dir[d].seen, tx.dir[d].seen, proc[p].id},
           \A d \in Dir : tx'.dir[d].seen \in {cat.dir[d].seen, tx.dir[d].seen, proc[p].id},
           proc'[p].pc \in {"begun", "walk", "merge", "merging"} => Remembered(proc'[p], tx'),
           proc'[p].pc \in {"walk", "merge", "merging"} => Recorded(proc'[p], tx')
    PROVE  OwnInv'
<1>1. \A q \in Proc : q = p
  BY DEF Alone
<1>2. cat.scan[proc[p].id] # "unused"
  BY DEF StoreInv, IdInv
<1>3. SeenBefore(cat)' /\ SeenBefore(tx)'
  BY <1>2 DEF OwnInv, SeenBefore
<1>4. \A q \in Proc : Active(q)' => \A j \in ScanId : j > proc'[q].id => cat'.scan[j] = "unused"
  BY <1>1 DEF OwnInv
<1>5. \A q \in Proc : proc'[q].pc \in {"begun", "walk", "merge", "merging"} => Remembered(proc'[q], tx')
  BY <1>1
<1>6. \A q \in Proc : proc'[q].pc \in {"walk", "merge", "merging"} => Recorded(proc'[q], tx')
  BY <1>1
<1>7. LiveUnder(cat)' /\ LiveUnder(tx)'
  BY DEF LiveUnder
<1> QED BY <1>3, <1>4, <1>5, <1>6, <1>7
    DEF OwnInv, SeenIsRecorded, Recorded, Remembered, PlacedIsOwn, RecordedIsOwn, ReadIsListed, StagedIsSaw, PendingIsFile, Own, RecordedDir, RecordedFile, Skipped

LEMMA CommittedScans ==
    ASSUME StoreInv, NEW p \in Proc, (\E n \in Entry : RecordFile(p, n)) \/ EndWalk(p)
    PROVE  cat'.scan = cat.scan
<1>1. proc[p].pc = "walk" /\ tx \in Catalog
  BY WalkFacts DEF RecordFile, EndWalk, WalkOver
<1>2. PICK ns : \/ NoWrite \/ Write(p, Staged(tx, proc[p], ns)) \/ Commit(p, Staged(tx, proc[p], ns))
                \/ Commit(p, [Staged(tx, proc[p], ns) EXCEPT !.listed[proc[p].id] = @ \cup proc[p].fresh])
  BY DEF RecordFile, EndWalk
<1>3. CASE NoWrite \/ Write(p, Staged(tx, proc[p], ns))
  BY <1>3 DEF NoWrite, Write
<1>4. CASE \/ Commit(p, Staged(tx, proc[p], ns))
           \/ Commit(p, [Staged(tx, proc[p], ns) EXCEPT !.listed[proc[p].id] = @ \cup proc[p].fresh])
  <2>1. CanWrite(p) /\ cat'.scan = tx.scan
    BY <1>1, <1>4 DEF Commit, Staged, Catalog
  <2> QED BY <2>1, HolderView
<1> QED BY <1>2, <1>3, <1>4

\* A step of the enumeration that leaves the rows of the tree alone.
LEMMA WalkFrame ==
    ASSUME Alone, OwnInv, StoreInv, NEW p \in Proc, SameScan(p), cat'.scan = cat.scan,
           SameTree(tx'), cat' = cat \/ cat' = tx',
           Remembered(proc'[p], tx'),
           proc'[p].pc \in {"walk", "merge"} => Recorded(proc'[p], tx'),
           proc'[p].pc # "merging"
    PROVE  OwnInv'
<1>1. LiveUnder(tx') /\ LiveUnder(cat')
  BY DEF OwnInv, LiveUnder, SameTree
<1>2. Active(p)
  BY DEF Active, SameScan
<1>3. /\ \A d \in Dir : tx'.dir[d].seen = tx.dir[d].seen
      /\ \A d \in Dir : cat'.dir[d].seen \in {cat.dir[d].seen, tx.dir[d].seen}
  BY DEF SameTree
<1> QED BY <1>1, <1>2, <1>3, OwnFrame DEF SameScan

\* What is known when a step of the enumeration begins.
LEMMA WalkKnows ==
    ASSUME OwnInv, StoreInv, PlacingInv, NEW p \in Proc, SameScan(p)
    PROVE  /\ SeenIsRecorded(proc[p], tx) /\ PlacedIsOwn(proc[p], tx) /\ RecordedIsOwn(proc[p], tx)
           /\ ReadIsListed(proc[p], tx) /\ StagedIsSaw(proc[p], tx) /\ PendingIsFile(proc[p])
           /\ WalkOK(proc[p]) /\ Placing(proc[p]) /\ proc[p] \in Local /\ proc[p].pc = "walk"
BY DEF OwnInv, Recorded, Remembered, StoreInv, WalkInv, PlacingInv, SameScan

LEMMA ListOwn ==
    ASSUME Alone, OwnInv, StoreInv, PlacingInv, NEW p \in Proc, NEW d \in Dir, List(p, d)
    PROVE  OwnInv'
<1>1. /\ SameScan(p) /\ SameRows(p) /\ proc'[p].pc = "walk" /\ tx' = tx /\ cat' = cat
      /\ proc'[p].placed = proc[p].placed /\ proc'[p].left = proc[p].left
      /\ proc[p].walk[d] = "queued" /\ proc'[p].walk[d] \in {"listed", "denied"}
      /\ \A e \in Dir \ {d} : proc'[p].walk[e] = proc[p].walk[e]
  BY ListShape
<1>2. \A n \in Entry : proc[p].walk[Parent[n]] = "read" =>
         /\ RecordedFile(proc'[p], n) <=> RecordedFile(proc[p], n)
         /\ RecordedDir(proc'[p], n) <=> RecordedDir(proc[p], n)
         /\ proc'[p].saw[n] = proc[p].saw[n]
  <2> SUFFICES ASSUME NEW n \in Entry, proc[p].walk[Parent[n]] = "read"
               PROVE  /\ RecordedFile(proc'[p], n) <=> RecordedFile(proc[p], n)
                      /\ RecordedDir(proc'[p], n) <=> RecordedDir(proc[p], n)
                      /\ proc'[p].saw[n] = proc[p].saw[n]
    OBVIOUS
  <2>1. proc'[p].saw[n] = proc[p].saw[n]
    BY <1>1, ListShape
  <2> QED BY <2>1, <1>1, SameVerdict DEF SameScan
<1>3. \A e \in Dir : proc'[p].walk[e] = "read" <=> proc[p].walk[e] = "read"
  BY <1>1
<1>4. SeenIsRecorded(proc'[p], tx')
  BY <1>1, <1>2, <1>3, WalkKnows, TreeFacts DEF SeenIsRecorded, SameScan
<1>5. PlacedIsOwn(proc'[p], tx')
  BY <1>1, WalkKnows DEF PlacedIsOwn, Own, SameScan
<1>6. RecordedIsOwn(proc'[p], tx')
  BY <1>1, <1>2, <1>3, WalkKnows, TreeFacts DEF RecordedIsOwn, Own, SameScan
<1>7. ReadIsListed(proc'[p], tx')
  BY <1>1, <1>3, WalkKnows DEF ReadIsListed, SameScan, SameRows
<1>8. StagedIsSaw(proc'[p], tx')
  BY <1>1, <1>2, <1>3, WalkKnows, TreeFacts DEF StagedIsSaw, SameScan
<1>9. PendingIsFile(proc'[p])
  BY <1>1, <1>2, WalkKnows, TreeFacts DEF PendingIsFile, SameRows, WalkOK, Local
<1> QED BY <1>1, <1>4, <1>5, <1>6, <1>7, <1>8, <1>9, WalkFrame DEF Recorded, Remembered, SameTree

\* The listings are as they were: what was read stays read, and means the same.
LEMMA SameMeaning ==
    ASSUME NEW p \in Proc, SameScan(p), SameList(p)
    PROVE  \A n \in Entry : /\ RecordedFile(proc'[p], n) <=> RecordedFile(proc[p], n)
                            /\ RecordedDir(proc'[p], n) <=> RecordedDir(proc[p], n)
                            /\ proc'[p].saw[n] = proc[p].saw[n]
BY SameVerdict DEF SameScan, SameList

LEMMA TakeUnusableOwn ==
    ASSUME Alone, OwnInv, StoreInv, PlacingInv, NEW p \in Proc, NEW d \in Dir, TakeUnusable(p, d)
    PROVE  OwnInv'
<1>1. /\ SameScan(p) /\ SameList(p) /\ SameRows(p) /\ proc'[p].pc = "walk" /\ tx' = tx /\ cat' = cat
      /\ proc'[p].placed \subseteq proc[p].placed /\ proc'[p].left = proc[p].left
      /\ proc[p].walk[d] \in {"listed", "denied"} /\ proc'[p].walk[d] \in {"unread", "unplaced"}
      /\ \A e \in Dir \ {d} : proc'[p].walk[e] = proc[p].walk[e]
  BY TakeUnusableShape
<1>2. \A n \in Entry : /\ RecordedFile(proc'[p], n) <=> RecordedFile(proc[p], n)
                       /\ RecordedDir(proc'[p], n) <=> RecordedDir(proc[p], n)
                       /\ proc'[p].saw[n] = proc[p].saw[n]
  BY <1>1, SameMeaning
<1>3. \A e \in Dir : proc'[p].walk[e] = "read" <=> proc[p].walk[e] = "read"
  BY <1>1
<1>4. SeenIsRecorded(proc'[p], tx')
  BY <1>1, <1>2, <1>3, WalkKnows, TreeFacts DEF SeenIsRecorded, SameScan
<1>5. PlacedIsOwn(proc'[p], tx')
  BY <1>1, WalkKnows DEF PlacedIsOwn, Own, SameScan
<1>6. RecordedIsOwn(proc'[p], tx')
  BY <1>1, <1>2, <1>3, WalkKnows, TreeFacts DEF RecordedIsOwn, Own, SameScan
<1>7. ReadIsListed(proc'[p], tx')
  BY <1>1, <1>3, WalkKnows DEF ReadIsListed, SameScan, SameRows
<1>8. StagedIsSaw(proc'[p], tx')
  BY <1>1, <1>2, <1>3, WalkKnows, TreeFacts DEF StagedIsSaw, SameScan
<1>9. PendingIsFile(proc'[p])
  BY <1>1, <1>2, WalkKnows DEF PendingIsFile, SameRows, Local
<1> QED BY <1>1, <1>4, <1>5, <1>6, <1>7, <1>8, <1>9, WalkFrame DEF Recorded, Remembered, SameTree

LEMMA TakeListedOwn ==
    ASSUME Alone, OwnInv, StoreInv, PlacingInv, NEW p \in Proc, NEW d \in Dir, TakeListed(p, d)
    PROVE  OwnInv'
<1>1. /\ SameScan(p) /\ SameList(p) /\ proc'[p].pc = "walk" /\ cat' = cat
      /\ SameTree(tx') /\ tx'.staged = tx.staged
      /\ proc'[p].placed \subseteq proc[p].placed /\ proc[p].left = {}
      /\ proc'[p].left = {n \in Children(d) : proc[p].saw[n] # "absent"}
      /\ proc[p].walk[d] = "listed" /\ proc'[p].walk[d] = "read"
      /\ proc'[p].pending = proc[p].pending
      /\ \A e \in Dir \ {d} : proc'[p].walk[e] = proc[p].walk[e]
  BY TakeListedShape
<1>2. \A n \in Entry : /\ RecordedFile(proc'[p], n) <=> RecordedFile(proc[p], n)
                       /\ RecordedDir(proc'[p], n) <=> RecordedDir(proc[p], n)
                       /\ proc'[p].saw[n] = proc[p].saw[n]
  BY <1>1, SameMeaning
<1>3. \A e \in Dir : proc'[p].walk[e] = "read" <=> proc[p].walk[e] = "read" \/ e = d
  BY <1>1
<1>4. SeenIsRecorded(proc'[p], tx')
  BY <1>1, <1>2, <1>3, WalkKnows, TreeFacts DEF SeenIsRecorded, SameScan, SameTree
<1>5. PlacedIsOwn(proc'[p], tx')
  BY <1>1, WalkKnows DEF PlacedIsOwn, Own, SameScan, SameTree
<1>6. RecordedIsOwn(proc'[p], tx')
  <2> SUFFICES ASSUME NEW e \in Dir \ {Root}, proc'[p].walk[Parent[e]] = "read", RecordedDir(proc'[p], e)
               PROVE  e \in proc'[p].left \/ Own(tx', e, proc'[p].id)
    BY DEF RecordedIsOwn
  <2>1. CASE Parent[e] = d
    <3>1. e \in Children(d) /\ proc[p].saw[e] = "dir"
      BY <1>2, <2>1, TreeFacts DEF Children, RecordedDir
    <3> QED BY <3>1, <1>1
  <2>2. CASE Parent[e] # d
    <3>1. proc[p].walk[Parent[e]] = "read" /\ RecordedDir(proc[p], e)
      BY <1>2, <1>3, <2>2, TreeFacts
    <3> QED BY <3>1, <1>1, WalkKnows DEF RecordedIsOwn, Own, SameTree, SameScan
  <2> QED BY <2>1, <2>2
<1>7. ReadIsListed(proc'[p], tx')
  BY <1>1, <1>3, WalkKnows, TakeListedShape DEF ReadIsListed, SameScan
<1>8. StagedIsSaw(proc'[p], tx')
  BY <1>1, <1>2, <1>3, WalkKnows, TreeFacts DEF StagedIsSaw, SameScan
<1>9. PendingIsFile(proc'[p])
  BY <1>1, <1>2, WalkKnows DEF PendingIsFile, Local
<1> QED BY <1>1, <1>4, <1>5, <1>6, <1>7, <1>8, <1>9, WalkFrame DEF Recorded, Remembered

LEMMA RecordSkipOwn ==
    ASSUME Alone, OwnInv, StoreInv, PlacingInv, NEW p \in Proc, NEW n \in Entry, RecordSkip(p, n)
    PROVE  OwnInv'
<1>1. /\ SameScan(p) /\ SameList(p) /\ SameRows(p) /\ proc'[p].pc = "walk" /\ tx' = tx /\ cat' = cat
      /\ proc'[p].walk = proc[p].walk /\ proc'[p].placed = proc[p].placed
      /\ proc'[p].left = proc[p].left \ {n} /\ ~RecordedDir(proc[p], n)
  BY RecordSkipShape DEF RecordedDir
<1>2. \A m \in Entry : /\ RecordedFile(proc'[p], m) <=> RecordedFile(proc[p], m)
                       /\ RecordedDir(proc'[p], m) <=> RecordedDir(proc[p], m)
                       /\ proc'[p].saw[m] = proc[p].saw[m]
  BY <1>1, SameMeaning
<1>4. SeenIsRecorded(proc'[p], tx')
  BY <1>1, <1>2, WalkKnows, TreeFacts DEF SeenIsRecorded, SameScan
<1>5. PlacedIsOwn(proc'[p], tx')
  BY <1>1, WalkKnows DEF PlacedIsOwn, Own, SameScan
<1>6. RecordedIsOwn(proc'[p], tx')
  BY <1>1, <1>2, WalkKnows, TreeFacts DEF RecordedIsOwn, Own, SameScan
<1>7. ReadIsListed(proc'[p], tx')
  BY <1>1, WalkKnows DEF ReadIsListed, SameScan, SameRows
<1>8. StagedIsSaw(proc'[p], tx')
  BY <1>1, <1>2, WalkKnows, TreeFacts DEF StagedIsSaw, SameScan
<1>9. PendingIsFile(proc'[p])
  BY <1>1, <1>2, WalkKnows DEF PendingIsFile, SameRows, Local
<1> QED BY <1>1, <1>4, <1>5, <1>6, <1>7, <1>8, <1>9, WalkFrame DEF Recorded, Remembered, SameTree

LEMMA RecordDirOwn ==
    ASSUME Alone, OwnInv, StoreInv, PlacingInv, NEW p \in Proc, NEW n \in Entry, RecordDir(p, n)
    PROVE  OwnInv'
<1>1. /\ SameScan(p) /\ SameList(p) /\ SameRows(p) /\ proc'[p].pc = "walk" /\ cat' = cat
      /\ proc'[p].walk = proc[p].walk /\ proc'[p].placed = proc[p].placed \cup {n}
      /\ n \in proc[p].left /\ proc'[p].left = proc[p].left \ {n} /\ RecordedDir(proc[p], n) /\ n \in Dir
      /\ tx'.dir = InternDir(tx.dir, n, proc[p].id) /\ tx'.file = tx.file
      /\ tx'.staged = tx.staged /\ tx'.listed = tx.listed
  BY RecordDirShape DEF RecordedDir
<1>2. \A m \in Entry : /\ RecordedFile(proc'[p], m) <=> RecordedFile(proc[p], m)
                       /\ RecordedDir(proc'[p], m) <=> RecordedDir(proc[p], m)
                       /\ proc'[p].saw[m] = proc[p].saw[m]
  BY <1>1, SameMeaning
<1>3. /\ tx'.dir[n].st = "live" /\ tx'.dir[n].seen = proc[p].id
      /\ \A d \in Dir \ {n} : tx'.dir[d] = tx.dir[d]
  <2>1. tx \in Catalog
    BY DEF StoreInv, TypeOK
  <2> QED BY <2>1, <1>1 DEF InternDir, Catalog
<1>10. proc[p].walk[Parent[n]] = "read"
  BY <1>1, WalkKnows DEF WalkOK
<1>4. SeenIsRecorded(proc'[p], tx')
  BY <1>1, <1>2, <1>3, <1>10, WalkKnows, TreeFacts DEF SeenIsRecorded, SameScan
<1>5. PlacedIsOwn(proc'[p], tx')
  BY <1>1, <1>3, WalkKnows DEF PlacedIsOwn, Own, SameScan
<1>6. RecordedIsOwn(proc'[p], tx')
  BY <1>1, <1>2, <1>3, WalkKnows, TreeFacts DEF RecordedIsOwn, Own, SameScan
<1>7. ReadIsListed(proc'[p], tx')
  BY <1>1, WalkKnows DEF ReadIsListed, SameScan, SameRows
<1>8. StagedIsSaw(proc'[p], tx')
  BY <1>1, <1>2, WalkKnows, TreeFacts DEF StagedIsSaw, SameScan
<1>9. PendingIsFile(proc'[p])
  BY <1>1, <1>2, WalkKnows DEF PendingIsFile, SameRows, Local
<1>11. LiveUnder(tx') /\ LiveUnder(cat')
  <2>1. \A d \in Dir : tx.dir[d].st = "live" => tx'.dir[d].st = "live"
    BY <1>3
  <2>2. \A a \in Above[n] : tx'.dir[a].st = "live"
    <3> SUFFICES ASSUME NEW a \in Above[n] PROVE tx.dir[a].st = "live"
      BY <2>1, TreeFacts
    <3>1. a \in Dir /\ proc[p].walk[a] = "read"
      <4>1. a = Parent[n] \/ a \in Above[Parent[n]]
        BY TreeFacts
      <4> QED BY <4>1, <1>1, <1>10, WalkKnows, TreeFacts DEF Placing
    <3> QED BY <3>1, <1>1, WalkKnows DEF PlacedIsOwn, Own
  <2>3. LiveUnder(tx')
    BY <1>1, <1>3, <2>1, <2>2, TreeFacts DEF OwnInv, LiveUnder
  <2> QED BY <2>3, <1>1 DEF OwnInv
<1>12. \A d \in Dir : tx'.dir[d].seen \in {tx.dir[d].seen, proc[p].id}
  BY <1>3
<1>13. Active(p)
  BY <1>1 DEF SameScan, Active
<1>14. Recorded(proc'[p], tx') /\ Remembered(proc'[p], tx')
  BY <1>1, <1>4, <1>5, <1>6, <1>7, <1>8, <1>9 DEF Recorded, Remembered
<1> QED BY <1>1, <1>11, <1>12, <1>13, <1>14, OwnFrame DEF SameScan

LEMMA RecordFileOwn ==
    ASSUME Alone, OwnInv, StoreInv, PlacingInv, NEW p \in Proc, NEW n \in Entry, RecordFile(p, n)
    PROVE  OwnInv'
<1>1. /\ SameScan(p) /\ SameList(p) /\ proc'[p].pc = "walk" /\ (cat' = cat \/ cat' = tx')
      /\ proc'[p].walk = proc[p].walk /\ proc'[p].placed = proc[p].placed
      /\ n \in proc[p].left /\ proc'[p].left = proc[p].left \ {n} /\ RecordedFile(proc[p], n)
      /\ proc'[p].fresh = proc[p].fresh /\ SameTree(tx') /\ tx'.listed = tx.listed
      /\ cat'.scan = cat.scan
  BY RecordFileShape, CommittedScans
<1>2. \A m \in Entry : /\ RecordedFile(proc'[p], m) <=> RecordedFile(proc[p], m)
                       /\ RecordedDir(proc'[p], m) <=> RecordedDir(proc[p], m)
                       /\ proc'[p].saw[m] = proc[p].saw[m]
  BY <1>1, SameMeaning
<1>3. ~RecordedDir(proc[p], n)
  BY <1>1, StampAssumption DEF RecordedFile, RecordedDir, Facts
<1>10. /\ proc'[p].pending \subseteq proc[p].pending \cup {n}
       /\ \A m \in Entry : tx'.staged[proc[p].id][m] # tx.staged[proc[p].id][m] =>
             m \in proc[p].pending \cup {n} /\ tx'.staged[proc[p].id][m] = proc[p].saw[m]
  BY RecordFileShape DEF Flushes
<1>11. \A m \in proc[p].pending \cup {n} :
          m \in Entry /\ proc[p].walk[Parent[m]] = "read" /\ RecordedFile(proc[p], m)
  BY <1>1, WalkKnows DEF WalkOK, Local, PendingIsFile
<1>4. SeenIsRecorded(proc'[p], tx')
  BY <1>1, <1>2, WalkKnows, TreeFacts DEF SeenIsRecorded, SameScan, SameTree
<1>5. PlacedIsOwn(proc'[p], tx')
  BY <1>1, WalkKnows DEF PlacedIsOwn, Own, SameScan, SameTree
<1>6. RecordedIsOwn(proc'[p], tx')
  BY <1>1, <1>2, <1>3, WalkKnows, TreeFacts DEF RecordedIsOwn, Own, SameScan, SameTree
<1>7. ReadIsListed(proc'[p], tx')
  BY <1>1, WalkKnows DEF ReadIsListed, SameScan
<1>8. StagedIsSaw(proc'[p], tx')
  <2> SUFFICES ASSUME NEW m \in Entry, tx'.staged[proc'[p].id][m] # "none"
               PROVE  /\ proc'[p].walk[Parent[m]] = "read" /\ RecordedFile(proc'[p], m)
                      /\ tx'.staged[proc'[p].id][m] = proc'[p].saw[m]
    BY DEF StagedIsSaw
  <2>1. CASE tx'.staged[proc[p].id][m] = tx.staged[proc[p].id][m]
    BY <2>1, <1>1, <1>2, WalkKnows DEF StagedIsSaw, SameScan
  <2>2. CASE tx'.staged[proc[p].id][m] # tx.staged[proc[p].id][m]
    BY <2>2, <1>1, <1>2, <1>10, <1>11 DEF SameScan
  <2> QED BY <2>1, <2>2
<1>9. PendingIsFile(proc'[p])
  BY <1>2, <1>10, <1>11 DEF PendingIsFile
<1> QED BY <1>1, <1>4, <1>5, <1>6, <1>7, <1>8, <1>9, WalkFrame DEF Recorded, Remembered

LEMMA DescendOwn ==
    ASSUME Alone, OwnInv, StoreInv, PlacingInv, NEW p \in Proc, Descend(p)
    PROVE  OwnInv'
<1>1. /\ SameScan(p) /\ SameList(p) /\ SameRows(p) /\ proc'[p].pc = "walk" /\ tx' = tx /\ cat' = cat
      /\ proc'[p].placed = proc[p].placed /\ proc[p].left = {} /\ proc'[p].left = {}
      /\ \A d \in Dir : proc'[p].walk[d] = IF d # Root /\ Parent[d] \in proc[p].cur /\ ShouldDescend(proc[p], d)
                                           THEN "queued" ELSE proc[p].walk[d]
  BY DescendShape
<1>2. \A n \in Entry : /\ RecordedFile(proc'[p], n) <=> RecordedFile(proc[p], n)
                       /\ RecordedDir(proc'[p], n) <=> RecordedDir(proc[p], n)
                       /\ proc'[p].saw[n] = proc[p].saw[n]
  BY <1>1, SameMeaning
<1>3. \A e \in Dir : proc'[p].walk[e] = "read" <=> proc[p].walk[e] = "read"
  <2>1. \A e \in Dir \ {Root} : Parent[e] \in proc[p].cur => proc[p].walk[e] = "none"
    BY <1>1, WalkKnows DEF WalkOK
  <2> QED BY <2>1, <1>1
<1>4. SeenIsRecorded(proc'[p], tx')
  BY <1>1, <1>2, <1>3, WalkKnows, TreeFacts DEF SeenIsRecorded, SameScan
<1>5. PlacedIsOwn(proc'[p], tx')
  <2>1. \A d \in Dir : proc'[p].walk[d] # "none" => proc[p].walk[d] # "none" \/ d \in proc[p].placed
    BY <1>1, WalkKnows DEF Placing
  <2> QED BY <2>1, <1>1, WalkKnows DEF PlacedIsOwn, Own, SameScan
<1>6. RecordedIsOwn(proc'[p], tx')
  BY <1>1, <1>2, <1>3, WalkKnows, TreeFacts DEF RecordedIsOwn, Own, SameScan
<1>7. ReadIsListed(proc'[p], tx')
  BY <1>1, <1>3, WalkKnows DEF ReadIsListed, SameScan, SameRows
<1>8. StagedIsSaw(proc'[p], tx')
  BY <1>1, <1>2, <1>3, WalkKnows, TreeFacts DEF StagedIsSaw, SameScan
<1>9. PendingIsFile(proc'[p])
  BY <1>1, <1>2, WalkKnows DEF PendingIsFile, SameRows, Local
<1> QED BY <1>1, <1>4, <1>5, <1>6, <1>7, <1>8, <1>9, WalkFrame DEF Recorded, Remembered, SameTree

LEMMA EndWalkOwn ==
    ASSUME Alone, OwnInv, StoreInv, PlacingInv, NEW p \in Proc, EndWalk(p)
    PROVE  OwnInv'
<1>1. /\ SameScan(p) /\ SameList(p) /\ proc'[p].pc \in {"merge", "refuse"}
      /\ proc'[p].walk = proc[p].walk /\ proc'[p].placed = proc[p].placed
      /\ proc[p].left = {} /\ proc'[p].left = {} /\ proc'[p].pending = {} /\ proc'[p].fresh = {}
      /\ SameTree(tx') /\ (cat' = tx' \/ cat' = cat)
      /\ Flushes(p, proc[p].pending)
      /\ proc[p].fresh \cup tx.listed[proc[p].id] \subseteq tx'.listed[proc[p].id]
      /\ cat'.scan = cat.scan
  BY EndWalkShape, CommittedScans
<1>2. \A m \in Entry : /\ RecordedFile(proc'[p], m) <=> RecordedFile(proc[p], m)
                       /\ RecordedDir(proc'[p], m) <=> RecordedDir(proc[p], m)
                       /\ proc'[p].saw[m] = proc[p].saw[m]
  BY <1>1, SameMeaning
<1>3. \A m \in proc[p].pending :
          m \in Entry /\ proc[p].walk[Parent[m]] = "read" /\ RecordedFile(proc[p], m)
  BY <1>1, WalkKnows DEF WalkOK, Local, PendingIsFile
<1>4. SeenIsRecorded(proc'[p], tx')
  BY <1>1, <1>2, WalkKnows, TreeFacts DEF SeenIsRecorded, SameScan, SameTree
<1>5. PlacedIsOwn(proc'[p], tx')
  BY <1>1, WalkKnows DEF PlacedIsOwn, Own, SameScan, SameTree
<1>6. RecordedIsOwn(proc'[p], tx')
  BY <1>1, <1>2, WalkKnows, TreeFacts DEF RecordedIsOwn, Own, SameScan, SameTree
<1>7. ReadIsListed(proc'[p], tx')
  BY <1>1, WalkKnows DEF ReadIsListed, SameScan
<1>8. StagedIsSaw(proc'[p], tx')
  BY <1>1, <1>2, <1>3, WalkKnows DEF StagedIsSaw, SameScan, Flushes
<1>9. PendingIsFile(proc'[p])
  BY <1>1 DEF PendingIsFile
<1> QED BY <1>1, <1>4, <1>5, <1>6, <1>7, <1>8, <1>9, WalkFrame DEF Recorded, Remembered

LEMMA InternRootOwn ==
    ASSUME Alone, OwnInv, StoreInv, PlacingInv, NEW p \in Proc, InternRoot(p)
    PROVE  OwnInv'
<1>1. proc[p].pc = "begun" /\ cat \in Catalog /\ Root \in Dir
  BY InternRootShape, TreeFacts DEF StoreInv, TypeOK
<1>2. /\ \A d \in Dir : proc[p].walk[d] = "none" /\ d \notin proc[p].cur
      /\ Remembered(proc[p], tx)
  BY <1>1, InternRootShape, SoloFacts DEF OwnInv, WalkOK
<1>3. /\ cat'.dir[Root].st = "live" /\ cat'.dir[Root].seen = proc[p].id
      /\ \A d \in Dir \ {Root} : cat'.dir[d] = cat.dir[d]
  <2>1. cat'.dir = InternDir(cat.dir, Root, proc[p].id)
    BY InternRootShape
  <2> QED BY <2>1, <1>1 DEF InternDir, Catalog
<1>4. SeenIsRecorded(proc'[p], tx')
  BY <1>2, <1>3, InternRootShape, TreeFacts DEF SeenIsRecorded, Remembered
<1>5. StagedIsSaw(proc'[p], tx')
  BY <1>2, InternRootShape, TreeFacts DEF StagedIsSaw, Remembered
<1>6. PlacedIsOwn(proc'[p], tx')
  BY <1>3, InternRootShape DEF PlacedIsOwn, Own
<1>7. RecordedIsOwn(proc'[p], tx') /\ ReadIsListed(proc'[p], tx') /\ PendingIsFile(proc'[p])
  BY InternRootShape, TreeFacts DEF RecordedIsOwn, ReadIsListed, PendingIsFile
<1>8. LiveUnder(cat') /\ LiveUnder(tx')
  <2>1. \A d \in Dir : cat.dir[d].st = "live" => cat'.dir[d].st = "live"
    BY <1>3
  <2>2. LiveUnder(cat')
    BY <1>3, <2>1, InternRootShape, TreeFacts DEF OwnInv, LiveUnder
  <2> QED BY <2>2, InternRootShape
<1>9. \A d \in Dir : cat'.dir[d].seen \in {cat.dir[d].seen, proc[p].id}
  BY <1>3
<1>10. Active(p) /\ Recorded(proc'[p], tx') /\ Remembered(proc'[p], tx')
  BY <1>1, <1>4, <1>5, <1>6, <1>7, InternRootShape DEF Active, Recorded, Remembered
<1> QED BY <1>8, <1>9, <1>10, InternRootShape, OwnFrame

LEMMA MergeReadOwn ==
    ASSUME Alone, OwnInv, StoreInv, PlacingInv, NEW p \in Proc, MergeRead(p)
    PROVE  OwnInv'
<1>1. /\ SameWork(p) /\ proc[p].pc = "merge" /\ proc'[p].pc = "merging" /\ cat' = cat /\ tx' = tx
  BY MergeReadShape
<1>2. Recorded(proc[p], tx) /\ Remembered(proc[p], tx) /\ Active(p)
  BY <1>1 DEF OwnInv, Active
<1>3. \A n \in Entry : /\ RecordedFile(proc'[p], n) <=> RecordedFile(proc[p], n)
                       /\ RecordedDir(proc'[p], n) <=> RecordedDir(proc[p], n)
  BY <1>1, SameVerdict DEF SameWork
<1>4. Recorded(proc'[p], tx')
  <2>1. \A n \in proc[p].pending : n \in Entry
    BY <1>1 DEF SameWork, Local
  <2> QED BY <2>1, <1>1, <1>2, <1>3, TreeFacts
          DEF SameWork, Recorded, PlacedIsOwn, RecordedIsOwn, ReadIsListed, PendingIsFile, Own
<1>5. Remembered(proc'[p], tx')
  BY <1>1, <1>2, <1>3, TreeFacts DEF SameWork, Remembered, SeenIsRecorded, StagedIsSaw
<1> QED BY <1>1, <1>2, <1>4, <1>5, OwnFrame DEF SameWork, OwnInv

LEMMA BeginOwn ==
    ASSUME Alone, OwnInv, StoreInv, PlacingInv, NEW p \in Proc, NEW x \in ExcludeChoices, Begin(p, x)
    PROVE  OwnInv'
<1>1. \A q \in Proc : q = p
  BY DEF Alone
<1> PICK i \in ScanId : i = proc'[p].id
  BY BeginShape
<1>2. /\ proc'[p].pc = "begun" /\ proc'[p].walk = [d \in Dir |-> "none"]
      /\ cat'.dir = cat.dir /\ cat'.file = cat.file /\ tx' = cat'
      /\ \A j \in ScanId : cat.scan[j] = "unused" <=> j >= i
      /\ \A j \in ScanId : cat'.scan[j] = IF j = i THEN "running" ELSE cat.scan[j]
  BY BeginShape
<1>3. i \in Nat
  BY ScanAssumption DEF ScanId
<1>4. cat.scan[i] = "unused"
  BY <1>2, <1>3
<1>5. LiveUnder(cat') /\ LiveUnder(tx')
  BY <1>2 DEF OwnInv, LiveUnder
<1>6. SeenBefore(cat)' /\ SeenBefore(tx)'
  BY <1>2 DEF OwnInv, SeenBefore
<1>7. \A j \in ScanId : j > i => cat'.scan[j] = "unused"
  <2>1. \A j \in ScanId : j \in Nat
    BY ScanAssumption DEF ScanId
  <2> QED BY <2>1, <1>2, <1>3
<1>8. SeenIsRecorded(proc'[p], tx')
  BY <1>2, <1>4 DEF OwnInv, SeenBefore, SeenIsRecorded
<1>9. StagedIsSaw(proc'[p], tx')
  <2>1. cat'.staged = cat.staged
    BY DEF Begin, Commit, StoreInv, TypeOK, Catalog
  <2>2. \A n \in Entry : cat.staged[i][n] = "none"
    BY <1>4 DEF StoreInv, MergeInv, NothingStaged
  <2> QED BY <2>1, <2>2, <1>2 DEF StagedIsSaw
<1>10. \A q \in Proc : Active(q)' => \A j \in ScanId : j > proc'[q].id => cat'.scan[j] = "unused"
  BY <1>1, <1>7
<1>11. \A q \in Proc : proc'[q].pc = "begun" /\ Remembered(proc'[q], tx')
  BY <1>1, <1>2, <1>8, <1>9 DEF Remembered
<1>12. LiveUnder(cat)' /\ LiveUnder(tx)'
  BY <1>5 DEF LiveUnder
<1> QED BY <1>6, <1>10, <1>11, <1>12
    DEF OwnInv, SeenIsRecorded, Remembered, StagedIsSaw, RecordedDir, RecordedFile, Skipped

LEMMA BystanderOwn ==
    ASSUME OwnInv, StoreInv, OtherWriter \/ World \/ UNCHANGED vars
    PROVE  OwnInv'
<1>1. cat' = cat /\ tx' = tx /\ \A q \in Proc : SameState(q)
  BY BystanderShape
<1>2. \A q \in Proc : \A n \in Entry : /\ RecordedFile(proc'[q], n) <=> RecordedFile(proc[q], n)
                                       /\ RecordedDir(proc'[q], n) <=> RecordedDir(proc[q], n)
  BY <1>1, SameVerdict DEF SameState
<1>3. ASSUME NEW q \in Proc, proc'[q].pc \in {"begun", "walk", "merge", "merging"}
      PROVE  Remembered(proc'[q], tx')
  BY <1>1, <1>2, <1>3, TreeFacts DEF SameState, OwnInv, Remembered, SeenIsRecorded, StagedIsSaw
<1>4. ASSUME NEW q \in Proc, proc'[q].pc \in {"walk", "merge", "merging"}
      PROVE  Recorded(proc'[q], tx')
  <2>1. Recorded(proc[q], tx) /\ \A n \in proc[q].pending : n \in Entry
    BY <1>1, <1>4 DEF SameState, OwnInv, StoreInv, TypeOK, Local
  <2> QED BY <2>1, <1>1, <1>2, TreeFacts
          DEF SameState, Recorded, PlacedIsOwn, RecordedIsOwn, ReadIsListed, PendingIsFile, Own
<1>5. LiveUnder(cat)' /\ LiveUnder(tx)' /\ SeenBefore(cat)' /\ SeenBefore(tx)'
  BY <1>1 DEF OwnInv, LiveUnder, SeenBefore
<1>6. \A q \in Proc : Active(q)' => \A j \in ScanId : j > proc'[q].id => cat'.scan[j] = "unused"
  BY <1>1 DEF OwnInv, SameState, Active
<1> QED BY <1>3, <1>4, <1>5, <1>6
    DEF OwnInv, SeenIsRecorded, Recorded, Remembered, PlacedIsOwn, RecordedIsOwn, ReadIsListed, StagedIsSaw, PendingIsFile, Own, RecordedDir, RecordedFile, Skipped

\* A step that ends the scan, or moves it past the merge, keeps the tree.
LEMMA RestOwn ==
    ASSUME Alone, OwnInv, StoreInv, NEW p \in Proc,
           \/ Abort(p, "failed") \/ Abort(p, "aborted") \/ Refuse(p) \/ Rollup(p) \/ Finish(p)
           \/ Audit(p) \/ MergeOvertaken(p) \/ GiveUp(p) \/ Crash(p)
    PROVE  OwnInv'
<1>1. \A q \in Proc : q = p
  BY DEF Alone
<1>2. /\ proc'[p].pc \in {"idle", "finish", "audit"}
      /\ cat'.dir = cat.dir /\ cat'.file = cat.file
      /\ SameTree(tx') \/ (tx'.dir = cat.dir /\ tx'.file = cat.file)
  BY AbortShape, RefuseShape, RollupShape, FinishShape, EndShape DEF SameTree, Idle
<1>3. \A i \in ScanId : cat'.scan[i] = "unused" <=> cat.scan[i] = "unused"
  <2>1. CASE Finish(p)
    <3>1. cat.scan[proc[p].id] # "unused" /\ proc[p].outcome # "unused"
      BY <2>1, FinishShape, SoloFacts DEF WalkOK
    <3> QED BY <3>1, <2>1, FinishShape
  <2>2. CASE ~Finish(p)
    BY <2>2, AbortShape, RefuseShape, RollupShape, EndShape
  <2> QED BY <2>1, <2>2
<1>4. proc'[p].pc # "idle" => Active(p) /\ proc'[p].id = proc[p].id
  BY AbortShape, RefuseShape, RollupShape, FinishShape, EndShape DEF SameWork, Active, Idle
<1>5. LiveUnder(cat)' /\ LiveUnder(tx)'
  BY <1>2 DEF OwnInv, LiveUnder, SameTree
<1>6. SeenBefore(cat)' /\ SeenBefore(tx)'
  BY <1>2, <1>3 DEF OwnInv, SeenBefore, SameTree
<1>7. \A q \in Proc : Active(q)' => \A j \in ScanId : j > proc'[q].id => cat'.scan[j] = "unused"
  BY <1>1, <1>3, <1>4 DEF OwnInv, Active
<1> QED BY <1>1, <1>2, <1>5, <1>6, <1>7 DEF OwnInv

--------------------------------------------------------------------------------
(* What a merge makes of the tree *)

\* The merge's scan, its listings and its own rows.
LEMMA MergeKnows ==
    ASSUME OwnInv, StoreInv, KeptInv, PlacingInv, NEW p \in Proc, Merge(p)
    PROVE  /\ tx = cat /\ cat \in Catalog /\ proc[p].id \in ScanId /\ proc[p].id \in Nat /\ Active(p)
           /\ Placing(proc[p]) /\ PlacedIsOwn(proc[p], cat)
           /\ \A d \in Dir : d \in cat.listed[proc[p].id] <=> proc[p].walk[d] = "read"
           /\ \A d \in Dir \ {Root} : proc[p].walk[Parent[d]] = "read" /\ RecordedDir(proc[p], d) =>
                 Own(cat, d, proc[p].id)
           /\ \A d \in Dir \ {Root} : cat.dir[d].seen = proc[p].id => RecordedDir(proc[p], d)
           /\ \A n \in Entry : cat.staged[proc[p].id][n] # "none" =>
                 proc[p].walk[Parent[n]] = "read" /\ cat.staged[proc[p].id][n] = proc[p].saw[n]
           /\ \A n \in Entry : cat.staged[proc[p].id][n] # "none" <=>
                 proc[p].walk[Parent[n]] = "read" /\ RecordedFile(proc[p], n)
           /\ \A j \in ScanId : j > proc[p].id => cat.scan[j] = "unused"
<1>1. tx = cat /\ proc[p].pc = "merging"
  BY MergeShape
<1>2. /\ cat \in Catalog /\ proc[p].id \in ScanId /\ Active(p)
      /\ \A d \in cat.listed[proc[p].id] : d \in Dir /\ proc[p].walk[d] = "read"
  BY <1>1, SoloFacts DEF Active
<1>3. proc[p].id \in Nat
  BY <1>2, ScanAssumption DEF ScanId
<1>4. /\ PlacedIsOwn(proc[p], cat) /\ RecordedIsOwn(proc[p], cat) /\ ReadIsListed(proc[p], cat)
      /\ SeenIsRecorded(proc[p], cat) /\ StagedIsSaw(proc[p], cat)
      /\ proc[p].left = {} /\ proc[p].pending = {} /\ proc[p].fresh = {}
  BY <1>1 DEF OwnInv, Recorded, Remembered
<1>5. Placing(proc[p])
  BY DEF PlacingInv
<1>6. \A n \in Entry : proc[p].walk[Parent[n]] = "read" /\ RecordedFile(proc[p], n) =>
         cat.staged[proc[p].id][n] # "none"
  BY <1>1, <1>4 DEF KeptInv, Kept
<1>7. \A j \in ScanId : j > proc[p].id => cat.scan[j] = "unused"
  BY <1>2 DEF OwnInv
<1>8. \A d \in Dir : d \in cat.listed[proc[p].id] <=> proc[p].walk[d] = "read"
  BY <1>2, <1>4 DEF ReadIsListed
<1>9. \A d \in Dir \ {Root} : proc[p].walk[Parent[d]] = "read" /\ RecordedDir(proc[p], d) =>
         Own(cat, d, proc[p].id)
  BY <1>4 DEF RecordedIsOwn
<1>10. \A d \in Dir \ {Root} : cat.dir[d].seen = proc[p].id => RecordedDir(proc[p], d)
  BY <1>4 DEF SeenIsRecorded
<1>11. \A n \in Entry : cat.staged[proc[p].id][n] # "none" =>
         /\ proc[p].walk[Parent[n]] = "read" /\ RecordedFile(proc[p], n)
         /\ cat.staged[proc[p].id][n] = proc[p].saw[n]
  BY <1>4 DEF StagedIsSaw
<1> QED BY <1>1, <1>2, <1>3, <1>4, <1>5, <1>6, <1>7, <1>8, <1>9, <1>10, <1>11

\* No row is from a later scan, so one without the merging scan's number is older.
LEMMA OlderRows ==
    ASSUME OwnInv, StoreInv, KeptInv, PlacingInv, NEW p \in Proc, Merge(p)
    PROVE  /\ \A d \in Dir : cat.dir[d].seen < proc[p].id <=> cat.dir[d].seen # proc[p].id
           /\ \A n \in Entry : cat.file[n].seen < proc[p].id
<1>1. \A i \in 0 .. MaxScans : i \in Nat /\ (i \in ScanId \/ i = 0)
  BY ScanAssumption DEF ScanId
<1>2. \A i \in ScanId : cat.scan[i] # "unused" => i <= proc[p].id
  <2>1. \A i \in ScanId : i \in Nat
    BY ScanAssumption DEF ScanId
  <2> QED BY <2>1, MergeKnows
<1>3. proc[p].id \in Nat /\ proc[p].id > 0 /\ cat \in Catalog
  BY MergeKnows, ScanAssumption DEF ScanId
<1>4. ASSUME NEW d \in Dir
      PROVE  cat.dir[d].seen < proc[p].id <=> cat.dir[d].seen # proc[p].id
  <2>1. cat.dir[d].seen \in 0 .. MaxScans
    BY <1>3 DEF Catalog, DirRow
  <2>2. cat.dir[d].seen \in ScanId => cat.scan[cat.dir[d].seen] # "unused"
    BY DEF OwnInv, SeenBefore
  <2> HIDE DEF SeenBefore
  <2> QED BY <2>1, <2>2, <1>1, <1>2, <1>3
<1>5. ASSUME NEW n \in Entry
      PROVE  cat.file[n].seen < proc[p].id
  <2>1. cat.file[n].seen \in 0 .. MaxScans
    BY <1>3 DEF Catalog, FileRow
  <2>2. cat.file[n].seen \in ScanId => cat.scan[cat.file[n].seen] # "unused"
    BY DEF StoreInv, MergeInv
  <2>3. cat.file[n].seen # proc[p].id
    BY MergeShape, SoloFacts
  <2> QED BY <2>1, <2>2, <2>3, <1>1, <1>2, <1>3
<1> QED BY <1>4, <1>5

\* A live directory goes for missing just when its parent was read and it was not recorded.
LEMMA MissingExactly ==
    ASSUME OwnInv, StoreInv, KeptInv, PlacingInv, NEW p \in Proc, Merge(p), NEW d \in Dir \ {Root}
    PROVE  d \in MissingDirs(cat.dir, cat.listed[proc[p].id], proc[p].id) <=>
              /\ cat.dir[d].st = "live"
              /\ proc[p].walk[Parent[d]] = "read" /\ ~RecordedDir(proc[p], d)
<1>1. Parent[d] \in Dir
  BY TreeFacts
<1> QED BY <1>1, MergeKnows, OlderRows DEF MissingDirs, Own

\* A directory that was read is in no danger, nor is one that was recorded.
LEMMA ReadStays ==
    ASSUME OwnInv, StoreInv, KeptInv, PlacingInv, NEW p \in Proc, Merge(p), NEW d \in Dir,
           \/ proc[p].walk[d] = "read"
           \/ d # Root /\ proc[p].walk[Parent[d]] = "read" /\ RecordedDir(proc[p], d)
    PROVE  d \notin MergeGone(p) /\ cat.dir[d].st = "live"
<1>1. \A a \in Above[d] : a \in Dir /\ proc[p].walk[a] = "read"
  <2>1. CASE proc[p].walk[d] = "read"
    BY <2>1, MergeKnows, TreeFacts DEF Placing
  <2>2. CASE d # Root /\ proc[p].walk[Parent[d]] = "read"
    BY <2>2, MergeKnows, TreeFacts DEF Placing
  <2> QED BY <2>1, <2>2
<1>2. \A a \in {d} \cup Above[d] : Own(cat, a, proc[p].id)
  BY <1>1, MergeKnows DEF PlacedIsOwn
<1>3. \A a \in {d} \cup Above[d] : a \notin MissingDirs(cat.dir, cat.listed[proc[p].id], proc[p].id)
  BY <1>1, <1>2, OlderRows DEF MissingDirs, Own
<1> QED BY <1>2, <1>3 DEF MergeGone, GoneDirs, Own

LEMMA MergedDirs ==
    ASSUME OwnInv, StoreInv, KeptInv, PlacingInv, NEW p \in Proc, Merge(p)
    PROVE  \A d \in Dir : /\ cat'.dir[d].st = "live" <=> cat.dir[d].st = "live" /\ d \notin MergeGone(p)
                          /\ cat'.dir[d].seen = cat.dir[d].seen
<1> SUFFICES ASSUME NEW d \in Dir
             PROVE  /\ cat'.dir[d].st = "live" <=> cat.dir[d].st = "live" /\ d \notin MergeGone(p)
                    /\ cat'.dir[d].seen = cat.dir[d].seen
  OBVIOUS
<1>1. cat.dir[d] \in DirRow
  BY MergeKnows DEF Catalog
<1>2. cat'.dir[d] = IF d \in MergeGone(p) /\ cat.dir[d].st = "live"
                    THEN [cat.dir[d] EXCEPT !.st = "gone"] ELSE cat.dir[d]
  <2>1. d \in Dir /\ cat'.dir = TombstoneDirs(cat.dir, MergeGone(p))
    BY MergeShape
  <2> QED BY ONLY <2>1 DEF TombstoneDirs
<1> QED BY <1>1, <1>2 DEF DirRow

LEMMA MergedFileRows ==
    ASSUME OwnInv, StoreInv, KeptInv, PlacingInv, NEW p \in Proc, Merge(p), NEW n \in Entry
    PROVE  /\ proc[p].walk[Parent[n]] = "read" /\ RecordedFile(proc[p], n) =>
                cat'.file[n].st = "live" /\ cat'.file[n].facts = proc[p].saw[n]
           /\ proc[p].walk[Parent[n]] = "read" /\ ~RecordedFile(proc[p], n) => cat'.file[n].st # "live"
           /\ cat'.file[n].st = "live" =>
                /\ Parent[n] \notin MergeGone(p)
                /\ cat.file[n].st = "live" \/ proc[p].walk[Parent[n]] = "read"
<1> DEFINE i == proc[p].id
<1>1. /\ MergedFiles(p)[n] = IF cat.staged[i][n] = "none" THEN cat.file[n]
                             ELSE [st |-> "live", seen |-> i, facts |-> cat.staged[i][n]]
      /\ cat.file[n] \in FileRow /\ Parent[n] \in Dir
  BY MergeKnows, TreeFacts DEF MergedFiles, Upsert, Catalog
<1>2. cat'.file[n] = IF n \in MergeLost(p) /\ MergedFiles(p)[n].st = "live"
                     THEN [MergedFiles(p)[n] EXCEPT !.st = "gone"] ELSE MergedFiles(p)[n]
  <2>1. n \in Entry /\ cat'.file = TombstoneFiles(MergedFiles(p), MergeLost(p))
    BY MergeShape
  <2> QED BY ONLY <2>1 DEF TombstoneFiles
<1>3. n \in MergeLost(p) <=>
         \/ Parent[n] \in MergeGone(p)
         \/ MergedFiles(p)[n].st = "live" /\ MergedFiles(p)[n].seen < i /\ proc[p].walk[Parent[n]] = "read"
  BY <1>1, MergeKnows DEF MergeLost, VanishedFiles, MissingFiles, MergeGone
<1>4. CASE cat.staged[i][n] # "none"
  <2>1. proc[p].walk[Parent[n]] = "read" /\ RecordedFile(proc[p], n) /\ cat.staged[i][n] = proc[p].saw[n]
    BY <1>4, MergeKnows
  <2>2. Parent[n] \notin MergeGone(p)
    BY <2>1, <1>1, ReadStays
  <2>3. n \notin MergeLost(p)
    BY <2>2, <1>1, <1>3, <1>4, MergeKnows
  <2> QED BY <2>1, <2>2, <2>3, <1>1, <1>2, <1>4
<1>5. CASE cat.staged[i][n] = "none"
  <2>1. ~(proc[p].walk[Parent[n]] = "read" /\ RecordedFile(proc[p], n))
    BY <1>5, MergeKnows
  <2>2. MergedFiles(p)[n] = cat.file[n] /\ cat.file[n].seen < i
    BY <1>1, <1>5, OlderRows
  <2>3. [cat.file[n] EXCEPT !.st = "gone"].st = "gone"
    BY <1>1 DEF FileRow
  <2>4. cat'.file[n].st = "live" => cat.file[n].st = "live" /\ n \notin MergeLost(p)
    BY <2>2, <2>3, <1>2
  <2> QED BY <2>1, <2>2, <2>4, <1>3
<1> QED BY <1>4, <1>5

LEMMA MergeOwn ==
    ASSUME Alone, OwnInv, StoreInv, KeptInv, PlacingInv, NEW p \in Proc, Merge(p)
    PROVE  OwnInv'
<1>1. \A d \in Dir, a \in Dir : a \in Above[d] /\ a \in MergeGone(p) /\ cat.dir[d].st = "live" => d \in MergeGone(p)
  <2> SUFFICES ASSUME NEW d \in Dir, NEW a \in Above[d], a \in MergeGone(p), cat.dir[d].st = "live"
               PROVE  d \in MergeGone(p)
    OBVIOUS
  <2>1. Above[a] \subseteq Above[d] /\ d # Root
    BY TreeFacts
  <2> QED BY <2>1 DEF MergeGone, GoneDirs
<1>2. \A d \in Dir : cat'.dir[d].st = "live" => \A a \in Above[d] : cat'.dir[a].st = "live"
  <2> SUFFICES ASSUME NEW d \in Dir, cat'.dir[d].st = "live", NEW a \in Above[d]
               PROVE  cat'.dir[a].st = "live"
    OBVIOUS
  <2>1. a \in Dir
    BY TreeFacts
  <2>2. cat.dir[d].st = "live" /\ d \notin MergeGone(p)
    BY MergedDirs
  <2>3. cat.dir[a].st = "live"
    BY <2>2 DEF OwnInv, LiveUnder
  <2> QED BY <1>1, <2>1, <2>2, <2>3, MergedDirs
<1>3. \A n \in Entry : cat'.file[n].st = "live" => \A a \in Above[n] : cat'.dir[a].st = "live"
  <2> SUFFICES ASSUME NEW n \in Entry, cat'.file[n].st = "live", NEW a \in Above[n]
               PROVE  cat'.dir[a].st = "live"
    OBVIOUS
  <2>1. Parent[n] \in Dir /\ (a = Parent[n] \/ a \in Above[Parent[n]])
    BY TreeFacts
  <2>2. Parent[n] \notin MergeGone(p)
    BY MergedFileRows
  <2>3. cat.dir[Parent[n]].st = "live"
    <3>1. CASE proc[p].walk[Parent[n]] = "read"
      BY <3>1, <2>1, ReadStays
    <3>2. CASE cat.file[n].st = "live"
      BY <3>2, TreeFacts DEF OwnInv, LiveUnder
    <3> QED BY <3>1, <3>2, MergedFileRows
  <2>4. cat'.dir[Parent[n]].st = "live"
    BY <2>1, <2>2, <2>3, MergedDirs
  <2> QED BY <2>1, <2>4, <1>2
<1>4. LiveUnder(cat')
  BY <1>2, <1>3 DEF LiveUnder
<1> QED BY <1>4, MergedDirs, MergeShape, MergeKnows, OwnFrame DEF SameWork

LEMMA NextOwn ==
    ASSUME Alone, OwnInv, StoreInv, KeptInv, PlacingInv, [Next]_vars
    PROVE  OwnInv'
<1>1. ASSUME NEW p \in Proc, NEW x \in ExcludeChoices, Begin(p, x) PROVE OwnInv'
  BY <1>1, BeginOwn
<1>2. ASSUME NEW p \in Proc, ScanStep(p) PROVE OwnInv'
  <2>1. CASE InternRoot(p) \/ MergeRead(p) \/ Merge(p)
    BY <2>1, InternRootOwn, MergeReadOwn, MergeOwn
  <2>2. ASSUME NEW d \in Dir, List(p, d) \/ TakeUnusable(p, d) \/ TakeListed(p, d) PROVE OwnInv'
    BY <2>2, ListOwn, TakeUnusableOwn, TakeListedOwn
  <2>3. ASSUME NEW n \in Entry, RecordSkip(p, n) \/ RecordDir(p, n) \/ RecordFile(p, n) PROVE OwnInv'
    BY <2>3, RecordSkipOwn, RecordDirOwn, RecordFileOwn
  <2>4. CASE Descend(p) \/ EndWalk(p)
    BY <2>4, DescendOwn, EndWalkOwn
  <2>5. CASE \/ Abort(p, "failed") \/ Abort(p, "aborted") \/ Refuse(p) \/ Rollup(p) \/ Finish(p)
             \/ Audit(p) \/ MergeOvertaken(p) \/ GiveUp(p)
    BY <2>5, RestOwn
  <2> QED BY <1>2, <2>1, <2>2, <2>3, <2>4, <2>5 DEF ScanStep
<1>3. ASSUME NEW p \in Proc, Crash(p) PROVE OwnInv'
  BY <1>3, RestOwn
<1>4. CASE OtherWriter \/ World \/ UNCHANGED vars
  BY <1>4, BystanderOwn
<1> QED BY <1>1, <1>2, <1>3, <1>4 DEF Next

LEMMA PlacingInit == Init => PlacingInv
BY NothingToPlace DEF Init, PlacingInv, Idle

\* However many scans overlap, every listing the walker delivers finds the
\* directory row it goes under: ScanCounters.unplaced stays zero.
THEOREM EveryListingPlaced == Spec => []NoUnplaced
<1>1. ScanInv /\ PlacingInv /\ [Next]_vars => PlacingInv'
  BY NextPlaces DEF ScanInv
<1>2. PlacingInv => NoUnplaced
  BY DEF PlacingInv, Placing, NoUnplaced
<1> QED BY <1>1, <1>2, PlacingInit, InductiveInvariant, PTL DEF Spec

\* What the theorems about a program that scans alone follow from.
TreeInv == ScanInv /\ PlacingInv /\ OwnInv

LEMMA TreeInvariant == ASSUME Alone PROVE Spec => []TreeInv
<1>1. Init => TreeInv
  BY InitInv, InitKeeps, PlacingInit, OwnInit DEF TreeInv, ScanInv
<1>2. TreeInv /\ [Next]_vars => TreeInv'
  BY NextInv, NextKeeps, NextPlaces, NextOwn DEF TreeInv, ScanInv
<1> QED BY <1>1, <1>2, PTL DEF Spec

\* While one program scans, the committed tree holds together, whatever the
\* drive does and wherever the program is stopped: no listing is without its
\* directory's row, and no live row hangs under a vanished directory.
THEOREM TreeAlwaysHolds == ASSUME Alone PROVE Spec => []TreeHolds
<1>1. TreeInv => TreeHolds
  BY DEF TreeInv, OwnInv, PlacingInv, Placing, LiveUnder, TreeHolds, NoUnplaced, LiveUnderLive
<1> QED BY <1>1, TreeInvariant, PTL

--------------------------------------------------------------------------------
(* A row goes only for what the scan itself read *)

\* The body of TombstoneJustified.
OnlyUnrecordedGoes ==
    /\ \A n \in Entry : FileGoes(n) =>
         \E p \in Proc : /\ MergesNow(p)
                         /\ \/ FileUnrecorded(proc[p], n)
                            \/ \E a \in Above[n] \ {Root} : DirUnrecorded(proc[p], a)
    /\ \A d \in Dir \ {Root} : DirGoes(d) =>
         \E p \in Proc : /\ MergesNow(p)
                         /\ \E a \in OnPath(d) : DirUnrecorded(proc[p], a)

\* Only a merge takes a scan from "merging" to "rollup".
LEMMA MergesOnly ==
    ASSUME StoreInv, [Next]_vars, NEW p \in Proc, MergesNow(p)
    PROVE  Merge(p)
<1>1. proc[p].pc = "merging" /\ proc'[p].pc = "rollup"
  BY DEF MergesNow
<1>2. ASSUME NEW q \in Proc, q # p, proc' = [proc EXCEPT ![q] = proc'[q]] PROVE FALSE
  BY <1>1, <1>2 DEF StoreInv, TypeOK
<1>3. ASSUME NEW q \in Proc, NEW x \in ExcludeChoices, Begin(q, x) PROVE FALSE
  BY <1>1, <1>3, BeginShape DEF SameState
<1>4. ASSUME NEW q \in Proc, ScanStep(q), ~Merge(p) PROVE FALSE
  <2>1. CASE InternRoot(q)
    BY <2>1, <1>1, <1>2, InternRootShape
  <2>2. ASSUME NEW d \in Dir, List(q, d) \/ TakeUnusable(q, d) \/ TakeListed(q, d) PROVE FALSE
    <3>1. SameScan(q)
      BY <2>2, ListShape, TakeUnusableShape, TakeListedShape
    <3> QED BY <3>1, <1>1, <1>2 DEF SameScan
  <2>3. ASSUME NEW n \in Entry, RecordSkip(q, n) \/ RecordDir(q, n) \/ RecordFile(q, n) PROVE FALSE
    <3>1. SameScan(q)
      BY <2>3, RecordSkipShape, RecordDirShape, RecordFileShape
    <3> QED BY <3>1, <1>1, <1>2 DEF SameScan
  <2>4. CASE Descend(q) \/ EndWalk(q)
    <3>1. SameScan(q)
      BY <2>4, DescendShape, EndWalkShape
    <3> QED BY <3>1, <1>1, <1>2 DEF SameScan
  <2>5. CASE \/ Abort(q, "failed") \/ Abort(q, "aborted") \/ MergeRead(q) \/ Refuse(q)
             \/ Rollup(q) \/ Finish(q)
    <3>1. SameWork(q) /\ proc'[q].pc \in {"finish", "merging", "audit"}
      BY <2>5, AbortShape, MergeReadShape, RefuseShape, RollupShape, FinishShape
    <3> QED BY <3>1, <1>1, <1>2 DEF SameWork
  <2>6. CASE Audit(q) \/ MergeOvertaken(q) \/ GiveUp(q)
    BY <2>6, <1>1, <1>2, EndShape DEF Idle
  <2>7. CASE Merge(q)
    BY <2>7, <1>2, <1>4, MergeShape DEF SameWork
  <2> QED BY <1>4, <2>1, <2>2, <2>3, <2>4, <2>5, <2>6, <2>7 DEF ScanStep
<1>5. ASSUME NEW q \in Proc, Crash(q) PROVE FALSE
  BY <1>1, <1>2, <1>5, EndShape DEF Idle
<1>6. ASSUME OtherWriter \/ World \/ UNCHANGED vars PROVE FALSE
  BY <1>1, <1>6, BystanderShape DEF SameState
<1> QED BY <1>3, <1>4, <1>5, <1>6 DEF Next

LEMMA NextJustified ==
    ASSUME TreeInv, [Next]_vars
    PROVE  OnlyUnrecordedGoes
<1>1. OnlyListedGoes
  BY NextGoes DEF TreeInv, ScanInv
<1>2. ASSUME NEW p \in Proc, MergesNow(p), NEW a \in Entry, ListedGoes(p, a)
      PROVE  DirUnrecorded(proc[p], a)
  <2>1. Merge(p) /\ proc[p].walk[Parent[a]] = "read" /\ DirGoes(a)
    BY <1>2, MergesOnly DEF TreeInv, ScanInv, ListedGoes
  <2>2. ASSUME RecordedDir(proc[p], a) PROVE FALSE
    <3>1. a \in Dir /\ a # Root
      BY <2>2 DEF RecordedDir, Entry
    <3>2. a \notin MergeGone(p)
      BY <2>1, <2>2, <3>1, ReadStays DEF TreeInv, ScanInv
    <3>3. cat'.dir[a].st = "live" <=> cat.dir[a].st = "live"
      BY <2>1, <3>1, <3>2, MergedDirs DEF TreeInv, ScanInv
    <3> QED BY <2>1, <3>3 DEF DirGoes
  <2> QED BY <2>1, <2>2 DEF DirUnrecorded
<1>3. \A n \in Entry : FileGoes(n) =>
        \E p \in Proc : /\ MergesNow(p)
                        /\ \/ FileUnrecorded(proc[p], n)
                           \/ \E a \in Above[n] \ {Root} : DirUnrecorded(proc[p], a)
  <2> SUFFICES ASSUME NEW n \in Entry, FileGoes(n)
               PROVE  \E p \in Proc : /\ MergesNow(p)
                        /\ \/ FileUnrecorded(proc[p], n)
                           \/ \E a \in Above[n] \ {Root} : DirUnrecorded(proc[p], a)
    OBVIOUS
  <2>1. PICK p \in Proc : /\ MergesNow(p)
                          /\ \/ FileUnrecorded(proc[p], n)
                             \/ \E a \in Above[n] \ {Root} : ListedGoes(p, a)
    BY <1>1 DEF OnlyListedGoes
  <2>2. \A a \in Above[n] \ {Root} : a \in Entry
    BY TreeFacts
  <2> QED BY <2>1, <2>2, <1>2
<1>4. \A d \in Dir \ {Root} : DirGoes(d) =>
        \E p \in Proc : MergesNow(p) /\ \E a \in OnPath(d) : DirUnrecorded(proc[p], a)
  <2> SUFFICES ASSUME NEW d \in Dir \ {Root}, DirGoes(d)
               PROVE  \E p \in Proc : MergesNow(p) /\ \E a \in OnPath(d) : DirUnrecorded(proc[p], a)
    OBVIOUS
  <2>1. PICK p \in Proc : MergesNow(p) /\ \E a \in OnPath(d) : ListedGoes(p, a)
    BY <1>1 DEF OnlyListedGoes
  <2>2. \A a \in OnPath(d) : a \in Entry
    BY TreeFacts DEF OnPath
  <2> QED BY <2>1, <2>2, <1>2
<1> QED BY <1>3, <1>4 DEF OnlyUnrecordedGoes

\* While one program scans, a row is marked vanished only by a merge whose scan
\* read the directory of some entry on the row's path and did not record the
\* entry there: never for a directory that could not be listed, and never one
\* that the scan itself had interned.
THEOREM TombstonesJustified == ASSUME Alone PROVE Spec => TombstoneJustified
<1>1. TreeInv /\ [Next]_vars => [OnlyUnrecordedGoes]_vars
  BY NextJustified
<1>2. TombstoneJustified <=> [][OnlyUnrecordedGoes]_vars
  BY DEF TombstoneJustified, OnlyUnrecordedGoes
<1> QED BY <1>1, <1>2, TreeInvariant, PTL DEF Spec

--------------------------------------------------------------------------------
(* What a scan of a still drive establishes *)

\* While nothing interfered, what the listings showed is what the drive holds.
Faithful(l) ==
    l.calm /\ l.pc \in {"walk", "merge", "merging"} =>
        \A n \in Entry : l.walk[Parent[n]] \in {"listed", "read"} => l.saw[n] = Look(n)

\* What QuietScanExact says of one scan.
Exact(l) ==
    \A n \in Entry :
        /\ Reached(l, n) /\ n \notin l.excl /\ Parent[n] \notin nostat =>
             /\ (cat.file[n].st = "live") <=> (disk[n] \in Stamp)
             /\ cat.file[n].st = "live" => cat.file[n].facts = disk[n]
             /\ n \in Dir => ((cat.dir[n].st = "live") <=> (disk[n] = "dir"))
        /\ Absent(l, n) => /\ cat.file[n].st # "live"
                           /\ n \in Dir => cat.dir[n].st # "live"

CalmInv ==
    \A p \in Proc : /\ Faithful(proc[p])
                    /\ proc[p].calm /\ (proc[p].pc = "rollup" \/ proc[p].outcome = "done") => Exact(proc[p])

\* A step that leaves the rows, the walk and the drive alone leaves the scan exact.
LEMMA SameExact ==
    ASSUME NEW p \in Proc, Exact(proc[p]), proc'[p].walk = proc[p].walk, proc'[p].excl = proc[p].excl,
           disk' = disk, nostat' = nostat, cat'.file = cat.file, cat'.dir = cat.dir
    PROVE  Exact(proc[p])'
BY DEF Exact, Reached, Absent

\* What a faithful scan recorded of an entry whose directory it could stat.
LEMMA FaithfulVerdict ==
    ASSUME StoreInv, NEW p \in Proc, proc[p].pc = "merging", proc[p].calm, Faithful(proc[p]),
           NEW n \in Entry, proc[p].walk[Parent[n]] = "read", Parent[n] \notin nostat
    PROVE  /\ proc[p].saw[n] = disk[n]
           /\ RecordedFile(proc[p], n) <=> n \notin proc[p].excl /\ disk[n] \in Stamp
           /\ RecordedDir(proc[p], n) <=> n \notin proc[p].excl /\ disk[n] = "dir" /\ n \in Dir
<1>1. proc[p].saw[n] = disk[n]
  BY DEF Faithful, Look
<1>2. disk[n] # "unknown" /\ "link" \notin Stamp
  BY StampAssumption DEF StoreInv, TypeOK, Kind
<1> QED BY <1>1, <1>2 DEF RecordedFile, RecordedDir, Skipped, Facts

\* A live directory that was not recorded where it should have been goes.
LEMMA UnrecordedGoes ==
    ASSUME OwnInv, StoreInv, KeptInv, PlacingInv, NEW p \in Proc, Merge(p), NEW d \in Dir \ {Root},
           proc[p].walk[Parent[d]] = "read"
    PROVE  cat'.dir[d].st = "live" <=> RecordedDir(proc[p], d)
<1>1. CASE RecordedDir(proc[p], d)
  BY <1>1, ReadStays, MergedDirs
<1>2. CASE ~RecordedDir(proc[p], d)
  <2>1. cat.dir[d].st = "live" => d \in MergeGone(p)
    BY <1>2, MissingExactly DEF MergeGone, GoneDirs
  <2> QED BY <1>2, <2>1, MergedDirs
<1> QED BY <1>1, <1>2

LEMMA MergeExact ==
    ASSUME TreeInv, OwnInv', NEW p \in Proc, Merge(p), proc[p].calm, Faithful(proc[p])
    PROVE  Exact(proc[p])'
<1>1. /\ OwnInv /\ StoreInv /\ KeptInv /\ PlacingInv
      /\ proc[p].pc = "merging" /\ disk' = disk /\ nostat' = nostat
      /\ proc'[p].walk = proc[p].walk /\ proc'[p].excl = proc[p].excl
  BY MergeShape DEF TreeInv, ScanInv, SameWork
<1>2. \A n \in Entry : Reached(proc[p], n) => proc[p].walk[Parent[n]] = "read"
  BY TreeFacts DEF Reached
<1>3. ASSUME NEW n \in Entry, Reached(proc[p], n), n \notin proc[p].excl, Parent[n] \notin nostat
      PROVE  /\ (cat'.file[n].st = "live") <=> (disk[n] \in Stamp)
             /\ cat'.file[n].st = "live" => cat'.file[n].facts = disk[n]
             /\ n \in Dir => ((cat'.dir[n].st = "live") <=> (disk[n] = "dir"))
  <2>1. /\ proc[p].walk[Parent[n]] = "read" /\ proc[p].saw[n] = disk[n]
        /\ RecordedFile(proc[p], n) <=> disk[n] \in Stamp
        /\ RecordedDir(proc[p], n) <=> disk[n] = "dir" /\ n \in Dir
    BY <1>1, <1>2, <1>3, FaithfulVerdict
  <2>2. n \in Dir => n \in Dir \ {Root}
    BY DEF Entry
  <2> QED BY <1>1, <2>1, <2>2, MergedFileRows, UnrecordedGoes
<1>4. ASSUME NEW n \in Entry, Absent(proc[p], n)
      PROVE  cat'.file[n].st # "live" /\ (n \in Dir => cat'.dir[n].st # "live")
  <2>1. PICK a \in (Above[n] \cup {n}) \ {Root} :
          /\ Reached(proc[p], a) /\ Parent[a] \notin nostat
          /\ disk[a] # "dir" \/ a \in proc[p].excl
          /\ a = n => disk[a] \notin Stamp
    BY <1>4 DEF Absent
  <2>2. a \in Entry /\ (a # n => a \in Dir \ {Root})
    BY <2>1, TreeFacts
  <2>3. /\ proc[p].walk[Parent[a]] = "read" /\ ~RecordedDir(proc[p], a)
        /\ a = n => ~RecordedFile(proc[p], a)
    BY <1>1, <1>2, <2>1, <2>2, FaithfulVerdict
  <2>4. a \in Dir => cat'.dir[a].st # "live"
    BY <1>1, <2>2, <2>3, UnrecordedGoes DEF Entry
  <2>5. CASE a = n
    BY <1>1, <2>2, <2>3, <2>4, <2>5, MergedFileRows
  <2>6. CASE a # n
    <3>1. LiveUnder(cat)' /\ a \in Above[n]
      BY <2>1, <2>6 DEF OwnInv
    <3> QED BY <2>2, <2>4, <2>6, <3>1 DEF LiveUnder
  <2> QED BY <2>5, <2>6
<1>5. ASSUME NEW n \in Entry
      PROVE  /\ Reached(proc[p], n)' <=> Reached(proc[p], n)
             /\ Absent(proc[p], n)' <=> Absent(proc[p], n)
  BY <1>1 DEF Reached, Absent
<1> QED BY <1>1, <1>3, <1>4, <1>5 DEF Exact

\* A scan that has not merged has not ended well.
LEMMA NotYetDone ==
    ASSUME StoreInv, NEW p \in Proc, proc[p].pc \in {"idle", "begun", "walk", "merge", "merging", "refuse"}
    PROVE  proc[p].outcome # "done" /\ proc[p].pc # "rollup"
BY DEF StoreInv, MergeInv

\* The only program's step is the only one to look at.
LEMMA CalmFrame ==
    ASSUME Alone, NEW p \in Proc, Faithful(proc[p])',
           proc'[p].calm /\ (proc'[p].pc = "rollup" \/ proc'[p].outcome = "done") => Exact(proc[p])'
    PROVE  CalmInv'
<1>1. \A q \in Proc : q = p
  BY DEF Alone
<1> QED BY <1>1 DEF CalmInv

LEMMA ScanCalm ==
    ASSUME Alone, TreeInv, CalmInv, OwnInv', NEW p \in Proc, ScanStep(p)
    PROVE  CalmInv'
<1>1. StoreInv /\ Faithful(proc[p])
  BY DEF TreeInv, ScanInv, CalmInv
<1>2. CASE InternRoot(p)
  <2>1. Faithful(proc[p])'
    BY <1>1, <1>2, InternRootShape, TreeFacts DEF Faithful
  <2>2. proc'[p].pc # "rollup" /\ proc'[p].outcome # "done"
    BY <1>1, <1>2, InternRootShape, NotYetDone
  <2> QED BY <2>1, <2>2, CalmFrame
<1>3. ASSUME NEW d \in Dir, List(p, d) PROVE CalmInv'
  <2>1. SameScan(p) /\ proc'[p].pc = "walk"
    BY <1>1, <1>3, ListShape
  <2>2. Faithful(proc[p])'
    <3> SUFFICES ASSUME proc'[p].calm, NEW n \in Entry, proc'[p].walk[Parent[n]] \in {"listed", "read"}
                 PROVE  proc'[p].saw[n] = Look(n)
      BY <2>1 DEF Faithful, SameScan, Look
    <3>1. CASE Parent[n] = d
      BY <1>1, <1>3, <3>1, ListShape
    <3>2. CASE Parent[n] # d
      <4>1. proc'[p].walk[Parent[n]] = proc[p].walk[Parent[n]] /\ proc'[p].saw[n] = proc[p].saw[n]
        BY <1>1, <1>3, <3>2, ListShape, TreeFacts
      <4> QED BY <1>1, <2>1, <4>1 DEF Faithful, SameScan
    <3> QED BY <3>1, <3>2
  <2>3. proc'[p].pc # "rollup" /\ proc'[p].outcome # "done"
    BY <1>1, <2>1, NotYetDone DEF SameScan
  <2> QED BY <2>2, <2>3, CalmFrame
<1>4. ASSUME SameScan(p), SameList(p), proc'[p].pc \in {"walk", "merge", "refuse"},
             \A d \in Dir : proc'[p].walk[d] \in {"listed", "read"} => proc[p].walk[d] \in {"listed", "read"}
      PROVE  CalmInv'
  <2>1. Faithful(proc[p])'
    BY <1>1, <1>4, TreeFacts DEF Faithful, SameScan, SameList, Look
  <2>2. proc'[p].pc # "rollup" /\ proc'[p].outcome # "done"
    BY <1>1, <1>4, NotYetDone DEF SameScan
  <2> QED BY <2>1, <2>2, CalmFrame
<1>5. ASSUME NEW d \in Dir, TakeUnusable(p, d) \/ TakeListed(p, d) PROVE CalmInv'
  <2>1. SameScan(p) /\ SameList(p) /\ proc'[p].pc = "walk"
    BY <1>1, <1>5, TakeUnusableShape, TakeListedShape
  <2>2. \A e \in Dir : proc'[p].walk[e] \in {"listed", "read"} => proc[p].walk[e] \in {"listed", "read"}
    BY <1>1, <1>5, TakeUnusableShape, TakeListedShape
  <2> QED BY <2>1, <2>2, <1>4
<1>6. ASSUME NEW n \in Entry, RecordSkip(p, n) \/ RecordDir(p, n) \/ RecordFile(p, n) PROVE CalmInv'
  BY <1>1, <1>4, <1>6, RecordSkipShape, RecordDirShape, RecordFileShape
<1>7. CASE Descend(p)
  BY <1>1, <1>4, <1>7, DescendShape
<1>8. CASE EndWalk(p)
  BY <1>1, <1>4, <1>8, EndWalkShape
<1>9. CASE Abort(p, "failed") \/ Abort(p, "aborted") \/ Refuse(p)
  <2>1. proc'[p].pc = "finish" /\ proc'[p].outcome # "done"
    BY <1>1, <1>9, AbortShape, RefuseShape
  <2> QED BY <2>1, CalmFrame DEF Faithful
<1>10. CASE MergeRead(p)
  <2>1. /\ SameWork(p) /\ proc[p].pc = "merge" /\ proc'[p].pc = "merging"
        /\ proc'[p].outcome = proc[p].outcome
    BY <1>1, <1>10, MergeReadShape
  <2>2. Faithful(proc[p])'
    BY <1>1, <2>1 DEF Faithful, SameWork, Look
  <2> QED BY <1>1, <2>1, <2>2, NotYetDone, CalmFrame
<1>11. CASE Merge(p)
  <2>1. SameWork(p) /\ proc'[p].pc = "rollup"
    BY <1>1, <1>11, MergeShape
  <2>2. proc'[p].calm => Exact(proc[p])'
    BY <1>1, <1>11, <2>1, MergeExact DEF SameWork
  <2> QED BY <2>1, <2>2, CalmFrame DEF Faithful
<1>12. CASE Rollup(p) \/ Finish(p)
  <2>1. /\ SameWork(p) /\ cat'.dir = cat.dir /\ cat'.file = cat.file
        /\ proc[p].pc = "rollup" \/ proc'[p].outcome = proc[p].outcome
        /\ proc'[p].pc \in {"finish", "audit"}
    BY <1>1, <1>12, RollupShape, FinishShape
  <2>2. proc'[p].calm /\ proc'[p].outcome = "done" => Exact(proc[p])
    BY <2>1 DEF CalmInv, SameWork
  <2>3. proc'[p].calm /\ proc'[p].outcome = "done" => Exact(proc[p])'
    BY <2>1, <2>2, SameExact DEF SameWork
  <2> QED BY <2>1, <2>3, CalmFrame DEF Faithful
<1>13. CASE Audit(p) \/ MergeOvertaken(p) \/ GiveUp(p)
  BY <1>1, <1>13, EndShape, CalmFrame DEF Faithful, Idle
<1> QED BY <1>2, <1>3, <1>5, <1>6, <1>7, <1>8, <1>9, <1>10, <1>11, <1>12, <1>13 DEF ScanStep

LEMMA NextCalm ==
    ASSUME Alone, TreeInv, CalmInv, OwnInv', [Next]_vars
    PROVE  CalmInv'
<1>1. StoreInv
  BY DEF TreeInv, ScanInv
<1>2. ASSUME NEW p \in Proc, NEW x \in ExcludeChoices, Begin(p, x) PROVE CalmInv'
  BY <1>1, <1>2, BeginShape, CalmFrame DEF Faithful
<1>3. ASSUME NEW p \in Proc, ScanStep(p) PROVE CalmInv'
  BY <1>3, ScanCalm
<1>4. ASSUME NEW p \in Proc, Crash(p) PROVE CalmInv'
  BY <1>1, <1>4, EndShape, CalmFrame DEF Faithful, Idle
<1>5. CASE OtherWriter \/ World \/ UNCHANGED vars
  <2> SUFFICES ASSUME NEW p \in Proc
               PROVE  /\ Faithful(proc[p])'
                      /\ proc'[p].calm /\ (proc'[p].pc = "rollup" \/ proc'[p].outcome = "done") =>
                           Exact(proc[p])'
    BY DEF CalmInv
  <2>1. cat' = cat /\ SameState(p)
    BY <1>1, <1>5, BystanderShape
  <2>2. Faithful(proc[p])'
    BY <2>1 DEF CalmInv, Faithful, SameState, Look
  <2>3. proc'[p].calm /\ (proc'[p].pc = "rollup" \/ proc'[p].outcome = "done") => Exact(proc[p])'
    BY <2>1, SameExact DEF CalmInv, SameState
  <2> QED BY <2>2, <2>3
<1> QED BY <1>2, <1>3, <1>4, <1>5 DEF Next

\* A scan whose drive held still ends with a catalog that is right about every
\* directory it could list: the live rows are what the drive holds, with its
\* current metadata, and nothing lives where nothing is.
THEOREM QuietScansExact == ASSUME Alone PROVE Spec => []QuietScanExact
<1>1. Init => CalmInv
  BY DEF Init, CalmInv, Faithful, Idle
<1>2. TreeInv /\ TreeInv' /\ CalmInv /\ [Next]_vars => CalmInv'
  BY NextCalm DEF TreeInv
<1>3. CalmInv => QuietScanExact
  BY DEF CalmInv, Exact, QuietScanExact
<1> QED BY <1>1, <1>2, <1>3, TreeInvariant, PTL DEF Spec

--------------------------------------------------------------------------------
(* The totals *)

Totalled(p) ==
    proc[p].pc = "finish" /\ proc[p].outcome = "done" => cat.rollup = LiveBeneath(cat.dir, cat.file)

TotalInv == RollupAgrees /\ \A p \in Proc : Totalled(p)

\* While a scan is at work, none of the scans that are done is the newest.
LEMMA WorkingIsNewest ==
    ASSUME Alone, OwnInv, StoreInv, NEW p \in Proc, Active(p), NEW i \in ScanId, i # proc[p].id,
           cat.scan[i] = "done"
    PROVE  \E j \in ScanId : j > i /\ cat.scan[j] # "unused"
<1>1. proc[p].id \in ScanId /\ cat.scan[proc[p].id] # "unused"
  BY DEF StoreInv, IdInv
<1>2. ~(i > proc[p].id)
  BY DEF OwnInv
<1>3. i \in Nat /\ proc[p].id \in Nat
  BY <1>1, ScanAssumption DEF ScanId
<1> QED BY <1>1, <1>2, <1>3

\* A step of a scan that is not yet done leaves no done scan the newest.
LEMMA BusyTotals ==
    ASSUME Alone, OwnInv, StoreInv, NEW p \in Proc, Active(p), cat.scan[proc[p].id] # "done",
           cat'.scan = cat.scan, proc'[p].pc = "finish" => proc'[p].outcome # "done"
    PROVE  TotalInv'
<1>1. \A q \in Proc : q = p
  BY DEF Alone
<1>2. RollupAgrees'
  BY WorkingIsNewest DEF RollupAgrees
<1> QED BY <1>1, <1>2 DEF TotalInv, Totalled

LEMMA NextTotals ==
    ASSUME Alone, OwnInv, StoreInv, TotalInv, [Next]_vars
    PROVE  TotalInv'
<1>1. \A p, q \in Proc : p = q
  BY DEF Alone
<1>2. ASSUME cat'.scan = cat.scan, cat'.rollup = cat.rollup, cat'.dir = cat.dir, cat'.file = cat.file,
             \A p \in Proc : proc'[p].pc = "finish" /\ proc'[p].outcome = "done" =>
                                proc[p].pc = "finish" /\ proc[p].outcome = "done"
      PROVE  TotalInv'
  BY <1>2 DEF TotalInv, RollupAgrees, Totalled
<1>3. ASSUME NEW p \in Proc, NEW x \in ExcludeChoices, Begin(p, x) PROVE TotalInv'
  <2>1. RollupAgrees'
    <3> SUFFICES ASSUME NEW i \in ScanId, cat'.scan[i] = "done"
                 PROVE  \E j \in ScanId : j > i /\ cat'.scan[j] # "unused"
      BY DEF RollupAgrees
    <3> PICK k \in ScanId : k = proc'[p].id
      BY <1>3, BeginShape
    <3>1. i # k /\ cat.scan[i] = "done" /\ cat'.scan[k] = "running"
      BY <1>3, BeginShape
    <3>2. ~(i >= k)
      BY <1>3, <3>1, BeginShape
    <3>3. i \in Nat /\ k \in Nat
      BY ScanAssumption DEF ScanId
    <3> QED BY <3>1, <3>2, <3>3
  <2> QED BY <1>1, <1>3, <2>1, BeginShape DEF TotalInv, Totalled
<1>4. ASSUME NEW p \in Proc, ScanStep(p) PROVE TotalInv'
  <2>1. proc[p].pc \in {"begun", "walk", "merge", "merging", "refuse"} =>
          Active(p) /\ cat.scan[proc[p].id] # "done" /\ proc[p].outcome # "done"
    <3> SUFFICES ASSUME proc[p].pc \in {"begun", "walk", "merge", "merging", "refuse"}
                 PROVE  Active(p) /\ cat.scan[proc[p].id] # "done" /\ proc[p].outcome # "done"
      OBVIOUS
    <3>1. Active(p) /\ proc[p].id \in ScanId
      BY DEF Active, StoreInv, IdInv
    <3> QED BY <3>1, NotYetDone DEF StoreInv, MergeInv
  <2>2. CASE InternRoot(p)
    BY <2>1, <2>2, InternRootShape, BusyTotals
  <2>3. ASSUME NEW d \in Dir, List(p, d) \/ TakeUnusable(p, d) \/ TakeListed(p, d) PROVE TotalInv'
    <3>1. SameScan(p) /\ proc'[p].pc = "walk" /\ cat' = cat
      BY <2>3, ListShape, TakeUnusableShape, TakeListedShape
    <3> QED BY <2>1, <3>1, BusyTotals DEF SameScan
  <2>4. ASSUME NEW n \in Entry, RecordSkip(p, n) \/ RecordDir(p, n) \/ RecordFile(p, n) PROVE TotalInv'
    <3>1. SameScan(p) /\ proc'[p].pc = "walk" /\ cat'.scan = cat.scan
      BY <2>4, RecordSkipShape, RecordDirShape, RecordFileShape, CommittedScans
    <3> QED BY <2>1, <3>1, BusyTotals DEF SameScan
  <2>5. CASE Descend(p) \/ EndWalk(p)
    <3>1. SameScan(p) /\ proc'[p].pc # "finish" /\ cat'.scan = cat.scan
      BY <2>5, DescendShape, EndWalkShape, CommittedScans
    <3> QED BY <2>1, <3>1, BusyTotals DEF SameScan
  <2>6. CASE Abort(p, "failed") \/ Abort(p, "aborted") \/ Refuse(p) \/ MergeRead(p) \/ Merge(p)
    <3>1. /\ proc[p].pc \in {"walk", "refuse", "merge", "merging"} /\ cat'.scan = cat.scan
          /\ proc'[p].pc = "finish" => proc'[p].outcome # "done"
      BY <2>6, AbortShape, RefuseShape, MergeReadShape, MergeShape
    <3> QED BY <2>1, <3>1, BusyTotals
  <2>7. CASE Rollup(p)
    BY <1>1, <2>7, RollupShape DEF TotalInv, RollupAgrees, Totalled
  <2>8. CASE Finish(p)
    <3>1. /\ cat'.dir = cat.dir /\ cat'.file = cat.file /\ cat'.rollup = cat.rollup
          /\ proc[p].pc = "finish" /\ proc'[p].pc = "audit"
          /\ \A i \in ScanId : cat'.scan[i] = IF i = proc[p].id THEN proc[p].outcome ELSE cat.scan[i]
      BY <2>8, FinishShape
    <3>2. proc[p].outcome # "unused" /\ Active(p)
      BY <3>1, SoloFacts DEF WalkOK, Active
    <3>3. RollupAgrees'
      <4> SUFFICES ASSUME NEW i \in ScanId, cat'.scan[i] = "done",
                          \A j \in ScanId : j > i => cat'.scan[j] = "unused"
                   PROVE  cat.rollup = LiveBeneath(cat.dir, cat.file)
        BY <3>1 DEF RollupAgrees
      <4>1. CASE i = proc[p].id
        BY <3>1, <4>1 DEF TotalInv, Totalled
      <4>2. CASE i # proc[p].id
        BY <3>1, <3>2, <4>2, WorkingIsNewest
      <4> QED BY <4>1, <4>2
    <3> QED BY <1>1, <3>1, <3>3 DEF TotalInv, Totalled
  <2>9. CASE Audit(p) \/ MergeOvertaken(p) \/ GiveUp(p)
    BY <1>1, <1>2, <2>9, EndShape DEF Idle
  <2> QED BY <1>4, <2>2, <2>3, <2>4, <2>5, <2>6, <2>7, <2>8, <2>9 DEF ScanStep
<1>5. ASSUME NEW p \in Proc, Crash(p) PROVE TotalInv'
  BY <1>1, <1>2, <1>5, EndShape DEF Idle
<1>6. CASE OtherWriter \/ World \/ UNCHANGED vars
  BY <1>2, <1>6, BystanderShape DEF SameState
<1> QED BY <1>3, <1>4, <1>5, <1>6 DEF Next

\* Once the newest scan is recorded as done, every directory's totals count the
\* live files beneath it, whatever was begun, cancelled or lost before it.
THEOREM RollupsAgree == ASSUME Alone PROVE Spec => []RollupAgrees
<1>1. Init => TotalInv
  BY DEF Init, TotalInv, RollupAgrees, Totalled, EmptyCatalog, Idle
<1>2. TreeInv /\ TotalInv /\ [Next]_vars => TotalInv'
  BY NextTotals DEF TreeInv, ScanInv
<1>3. TotalInv => RollupAgrees
  BY DEF TotalInv
<1> QED BY <1>1, <1>2, <1>3, TreeInvariant, PTL DEF Spec
====
