----------------------------- MODULE RecordsProofs -----------------------------
(***************************************************************************)
(* The audit log verifies at all times and only grows; it has every change *)
(* that was committed; an accepted folder has one holder; and decisions    *)
(* stand: for any number of programs, folders, acts and crashes.  And a    *)
(* finished export is whole, for any number of exporters, kinds and files. *)
(*                                                                         *)
(* A transaction extends the log of the catalog it saw at its first        *)
(* statement.  The argument is that what it saw is still the catalog when  *)
(* it commits: its first write found no newer commit, and the lock it has  *)
(* since then keeps every other writer out.  What a transaction may do to  *)
(* candidates, collections and entries is then compared with that catalog. *)
(***************************************************************************)
EXTENDS Records, Bundles, FiniteSetTheorems, SequenceTheorems, TLAPS

IsLog(log) == \E S : log \in Seq(S)

(* The new log has all of the old one, and more. *)
Grows(old, new) ==
    /\ IsLog(old) /\ IsLog(new)
    /\ Len(old) < Len(new)
    /\ \A i \in 1 .. Len(old) : new[i] = old[i]

Sound(log) == IsLog(log) /\ Verifies(log)

(* A catalog with a sound log. *)
Good(c) == "log" \in DOMAIN c /\ Sound(c.log)

-----------------------------------------------------------------------------
LEMMA LogIsSequence ==
    ASSUME NEW log, IsLog(log)
    PROVE  Len(log) \in Nat /\ DOMAIN log = 1 .. Len(log)
<1>1. PICK S : log \in Seq(S)
  BY DEF IsLog
<1> QED
  BY <1>1

LEMMA AppendToLog ==
    ASSUME NEW log, IsLog(log), NEW e
    PROVE  /\ IsLog(Append(log, e)) /\ Len(Append(log, e)) = Len(log) + 1
           /\ \A i \in 1 .. Len(log) : Append(log, e)[i] = log[i]
           /\ Append(log, e)[Len(log) + 1] = e
<1>1. PICK S : log \in Seq(S)
  BY DEF IsLog
<1>2. PICK T : T = S \cup {e}
  OBVIOUS
<1>3. log \in Seq(T) /\ e \in T
  BY <1>1, <1>2
<1>4. Append(log, e) \in Seq(T)
  BY <1>3
<1>5. IsLog(Append(log, e))
  BY <1>4 DEF IsLog
<1> QED
  BY <1>3, <1>5

(* What verifying amounts to: each row follows the one before it. *)
Follows(rows, j) ==
    /\ rows[j].id = ExpectedId(rows, j)
    /\ rows[j].prev = ExpectedPrev(rows, j)
    /\ rows[j].hash = EntryHash(rows[j].prev, rows[j].id, rows[j].what)

LEMMA VerifiesMeans ==
    ASSUME NEW rows
    PROVE  Verifies(rows) <=> \A j \in DOMAIN rows : Follows(rows, j)
BY Zenon DEF Verifies, Problems, Follows

LEMMA ExtendGrows ==
    ASSUME NEW log, Sound(log), NEW what
    PROVE  Sound(Extended(log, what)) /\ Grows(log, Extended(log, what))
<1> DEFINE new == Extended(log, what)
<1>1. IsLog(log) /\ Verifies(log) /\ Len(log) \in Nat /\ DOMAIN log = 1 .. Len(log)
  BY LogIsSequence DEF Sound
<1>2. /\ IsLog(new) /\ Len(new) = Len(log) + 1
      /\ \A i \in 1 .. Len(log) : new[i] = log[i]
      /\ new[Len(log) + 1] = Chained(log, what)
  BY <1>1, AppendToLog DEF Extended
<1>3. DOMAIN new = 1 .. Len(new)
  BY <1>2, LogIsSequence
<1>4. ASSUME NEW j \in 1 .. Len(log) PROVE Follows(new, j)
  <2>1. Follows(log, j)
    BY <1>1, <1>4, VerifiesMeans
  <2>2. ExpectedId(new, j) = ExpectedId(log, j) /\ ExpectedPrev(new, j) = ExpectedPrev(log, j)
    <3>1. CASE j = 1
      BY <3>1 DEF ExpectedId, ExpectedPrev
    <3>2. CASE j # 1
      <4>1. j - 1 \in 1 .. Len(log)
        BY <1>1, <3>2
      <4>2. new[j - 1] = log[j - 1]
        BY <1>2, <4>1
      <4> QED
        BY <3>2, <4>2 DEF ExpectedId, ExpectedPrev
    <3> QED
      BY <3>1, <3>2
  <2> QED
    BY <1>2, <2>1, <2>2 DEF Follows
<1>5. Follows(new, Len(log) + 1)
  <2>1. CASE Len(log) = 0
    <3>1. log = <<>>
      BY <1>1, <2>1 DEF IsLog
    <3>2. ExpectedId(new, Len(log) + 1) = 1 /\ ExpectedPrev(new, Len(log) + 1) = NoHash
      BY <2>1 DEF ExpectedId, ExpectedPrev
    <3>3. LastId(log) + 1 = 1 /\ LastHash(log) = NoHash
      BY <3>1 DEF LastId, LastHash
    <3> QED
      BY <1>2, <3>2, <3>3 DEF Follows, Chained
  <2>2. CASE Len(log) # 0
    <3>1. log # <<>> /\ Len(log) + 1 # 1 /\ (Len(log) + 1) - 1 = Len(log) /\ Len(log) \in 1 .. Len(log)
      BY <1>1, <2>2
    <3>2. new[Len(log)] = log[Len(log)]
      BY <1>2, <3>1
    <3>3. LastId(log) = log[Len(log)].id /\ LastHash(log) = log[Len(log)].hash
      BY <3>1 DEF LastId, LastHash
    <3>4. /\ ExpectedId(new, Len(log) + 1) = LastId(log) + 1
          /\ ExpectedPrev(new, Len(log) + 1) = LastHash(log)
      BY <3>1, <3>2, <3>3 DEF ExpectedId, ExpectedPrev
    <3> QED
      BY <1>2, <3>4 DEF Follows, Chained
  <2> QED
    BY <2>1, <2>2
<1>6. Verifies(new)
  <2>1. \A j \in DOMAIN new : j \in 1 .. Len(log) \/ j = Len(log) + 1
    BY <1>1, <1>2, <1>3
  <2> QED
    BY <1>4, <1>5, <2>1, VerifiesMeans
<1>7. Len(log) < Len(new)
  BY <1>1, <1>2
<1> QED
  BY <1>1, <1>2, <1>6, <1>7 DEF Sound, Grows

LEMMA GrowsOn ==
    ASSUME NEW a, NEW b, NEW c, Grows(a, b), Grows(b, c)
    PROVE  Grows(a, c)
<1>1. Len(a) \in Nat /\ Len(b) \in Nat /\ Len(c) \in Nat
  BY LogIsSequence DEF Grows
<1>2. Len(a) < Len(b) /\ Len(b) < Len(c)
  BY DEF Grows
<1>3. ASSUME NEW i \in 1 .. Len(a) PROVE c[i] = a[i]
  <2>1. i \in 1 .. Len(b)
    BY <1>1, <1>2
  <2> QED
    BY <2>1 DEF Grows
<1> QED
  BY <1>1, <1>2, <1>3 DEF Grows

LEMMA LogToGood ==
    ASSUME NEW c, Good(c), NEW n, NEW what
    PROVE  Good(LogTo(c, n, what)) /\ Grows(c.log, LogTo(c, n, what).log)
<1>1. LogTo(c, n, what).log = Extended(c.log, <<n, what>>) /\ "log" \in DOMAIN LogTo(c, n, what)
  BY DEF LogTo, Good
<1> QED
  BY <1>1, ExtendGrows DEF Good

(* A change of anything but the log. *)
SameLog(c, d) == "log" \in DOMAIN d /\ d.log = c.log

LEMMA ProposeAllKeepsLog ==
    ASSUME NEW c, Good(c), NEW fs
    PROVE  SameLog(c, ProposeAll(c, fs)) /\ Good(ProposeAll(c, fs))
BY DEF ProposeAll, SameLog, Good

LEMMA SameLogGood ==
    ASSUME NEW c, Good(c), NEW d, SameLog(c, d), NEW n, NEW what
    PROVE  Good(LogTo(d, n, what)) /\ Grows(c.log, LogTo(d, n, what).log)
<1>1. Good(d) /\ d.log = c.log
  BY DEF Good, SameLog
<1> QED
  BY <1>1, LogToGood

BodyActs == {"accept", "into", "split", "infer", "plan", "versions"}

(* Each transaction leaves at least one entry, and takes none away. *)
LEMMA ResultGrows ==
    ASSUME NEW r, r.act \in BodyActs, NEW n, NEW c, Good(c), NEW t
    PROVE  Good(Result(r, n, c, t)) /\ Grows(c.log, Result(r, n, c, t).log)
<1> DEFINE Extends(d) == Good(d) /\ Grows(c.log, d.log)
<1>1. ASSUME NEW d, Extends(d), NEW f, NEW status
      PROVE  Extends(Decide(d, n, f, status))
  <2>1. SameLog(d, [d EXCEPT !.cand[f] = status])
    BY <1>1 DEF Good, SameLog
  <2>2. Good(Decide(d, n, f, status)) /\ Grows(d.log, Decide(d, n, f, status).log)
    BY <1>1, <2>1, SameLogGood DEF Decide
  <2> QED
    BY <1>1, <2>2, GrowsOn
<1>2. ASSUME NEW d, Good(d), NEW k, NEW f
      PROVE  Good(AddSubtreeRule(d, n, k, f)) /\ Grows(d.log, AddSubtreeRule(d, n, k, f).log)
  <2>1. SameLog(d, [d EXCEPT !.rules = @ \cup {[coll |-> k, dir |-> f]}])
    BY <1>2 DEF Good, SameLog
  <2> QED
    BY <1>2, <2>1, SameLogGood DEF AddSubtreeRule
<1>3. CASE r.act = "accept"
  <2> DEFINE d == CreateCollection(c, n, t)
             k == Len(c.colls) + 1
             e == AddSubtreeRule(d, n, k, r.dir)
  <2>1. SameLog(c, [c EXCEPT !.colls = Append(@, t)])
    BY DEF Good, SameLog
  <2>2. Good(d) /\ Grows(c.log, d.log)
    BY <2>1, SameLogGood DEF CreateCollection
  <2>3. Good(e) /\ Grows(d.log, e.log)
    BY <1>2, <2>2
  <2>4. Extends(e)
    BY <2>2, <2>3, GrowsOn
  <2>5. Extends(Decide(e, n, r.dir, "accepted"))
    BY <1>1, <2>4
  <2>6. Result(r, n, c, t) = Decide(e, n, r.dir, "accepted")
    BY <1>3 DEF Result, AcceptNew
  <2> QED
    BY <2>5, <2>6
<1>4. CASE r.act = "into"
  <2> DEFINE e == AddSubtreeRule(c, n, r.coll, r.dir)
  <2>1. Extends(e)
    BY <1>2
  <2>2. Extends(Decide(e, n, r.dir, "accepted"))
    BY <1>1, <2>1
  <2>3. Result(r, n, c, t) = Decide(e, n, r.dir, "accepted")
    BY <1>4 DEF Result, AcceptInto
  <2> QED
    BY <2>2, <2>3
<1>5. CASE r.act = "split"
  <2> DEFINE d == Decide(c, n, r.dir, "rejected")
             e == LogTo(d, n, "split")
  <2>1. SameLog(c, [c EXCEPT !.cand[r.dir] = "rejected"])
    BY DEF Good, SameLog
  <2>2. Good(d) /\ Grows(c.log, d.log)
    BY <2>1, SameLogGood DEF Decide
  <2>3. Good(e) /\ Grows(d.log, e.log)
    BY <2>2, LogToGood
  <2>4. Extends(e)
    BY <2>2, <2>3, GrowsOn
  <2>5. Extends(ProposeAll(e, Subfolders[r.dir]))
    BY <2>4, ProposeAllKeepsLog DEF SameLog
  <2>6. Result(r, n, c, t) = ProposeAll(e, Subfolders[r.dir])
    BY <1>5 DEF Result, Split
  <2> QED
    BY <2>5, <2>6
<1>6. CASE r.act = "infer"
  <2>1. SameLog(c, ProposeAll(c, r.dirs))
    BY ProposeAllKeepsLog
  <2>2. Extends(Infer(c, n, r.dirs))
    BY <2>1, SameLogGood DEF Infer
  <2>3. Result(r, n, c, t) = Infer(c, n, r.dirs)
    BY <1>6 DEF Result
  <2> QED
    BY <2>2, <2>3
<1>7. CASE r.act = "plan"
  <2>1. \A new : SameLog(c, [c EXCEPT !.plans = new])
    BY DEF Good, SameLog
  <2>2. Extends(CreatePlan(c, n))
    BY <2>1, SameLogGood DEF CreatePlan
  <2>3. Result(r, n, c, t) = CreatePlan(c, n)
    BY <1>7 DEF Result
  <2> QED
    BY <2>2, <2>3
<1>8. CASE r.act = "versions"
  <2>1. SameLog(c, [c EXCEPT !.versions = n])
    BY DEF Good, SameLog
  <2>2. Extends(ReplaceVersionSets(c, n))
    BY <2>1, SameLogGood DEF ReplaceVersionSets
  <2>3. Result(r, n, c, t) = ReplaceVersionSets(c, n)
    BY <1>8 DEF Result
  <2> QED
    BY <2>2, <2>3
<1> QED
  BY <1>3, <1>4, <1>5, <1>6, <1>7, <1>8 DEF BodyActs

-----------------------------------------------------------------------------
(* What a program's transaction is, next to what it is doing: a snapshot   *)
(* when it is about to write, and an extension of the catalog, under its   *)
(* lock, when it is about to commit.                                       *)
InTx(p) ==
    /\ "at" \in DOMAIN prog[p]
    /\ prog[p].at \in {"begin", "body"} => "req" \in DOMAIN prog[p] /\ prog[p].req.act \in BodyActs
    /\ prog[p].at \notin {"body", "commit"} => ~Opened(p)
    /\ prog[p].at = "body" /\ Opened(p) => tx[p].view = tx[p].base
    /\ prog[p].at = "commit" => /\ lock = p
                                /\ Good(tx[p].view) /\ Grows(db.log, tx[p].view.log)

RecInv ==
    /\ DOMAIN tx = Programs /\ DOMAIN prog = Programs
    /\ Good(db)
    /\ \A p \in Programs : InTx(p)

(* What every step does to the log. *)
LogStep == db'.log = db.log \/ Grows(db.log, db'.log)

(* A step of one program that leaves the catalog and does not take the     *)
(* lock away from another, keeps what is true of the others.               *)
LEMMA OthersKeep ==
    ASSUME RecInv, NEW p \in Programs, NEW q \in Programs, q # p,
           NEW s, NEW x, Become(p, s), tx' = [tx EXCEPT ![p] = x],
           db' = db \/ prog[q].at # "commit", lock = q => lock' = q
    PROVE  InTx(q)'
<1>1. prog'[q] = prog[q] /\ tx'[q] = tx[q]
  BY DEF RecInv, Become
<1> QED
  BY <1>1 DEF RecInv, InTx, Opened

(* A program that may write is not in another's way. *)
LEMMA WriterIsAlone ==
    ASSUME RecInv, NEW p \in Programs, NEW q \in Programs, q # p, CanWrite(p)
    PROVE  prog[q].at # "commit" /\ lock # q
BY RecordsAssumption DEF RecInv, InTx, CanWrite

LEMMA AskHolds == ASSUME RecInv, NEW p \in Programs, Ask(p) PROVE RecInv' /\ LogStep
<1>1. PICK r \in Requests :
        Become(p, [at |-> IF r.act \in Plain THEN "change"
                          ELSE IF r.act \in ReadsFirst THEN "begin" ELSE "body",
                   n |-> acts + 1, req |-> r])
  BY DEF Ask
<1>2. UNCHANGED <<db, tx, lock>> /\ prog[p] = Idle
  BY DEF Ask
<1>3. r.act \in {"reject", "edit"} \cup BodyActs
  BY DEF Requests, BodyActs
<1>4. PICK at \in {"change", "begin", "body"} :
        /\ Become(p, [at |-> at, n |-> acts + 1, req |-> r])
        /\ at # "change" => r.act \in BodyActs
  <2>1. CASE r.act \in Plain
    BY <1>1, <2>1
  <2>2. CASE r.act \notin Plain /\ r.act \in ReadsFirst
    BY <1>1, <1>3, <2>2 DEF Plain
  <2>3. CASE r.act \notin Plain /\ r.act \notin ReadsFirst
    BY <1>1, <1>3, <2>3 DEF Plain
  <2> QED
    BY <2>1, <2>2, <2>3
<1>5. /\ prog'[p].at = at /\ prog'[p].req = r /\ {"at", "req"} \subseteq DOMAIN prog'[p]
      /\ DOMAIN prog' = Programs /\ DOMAIN tx' = Programs
  BY <1>2, <1>4 DEF RecInv, Become
<1>6. ~Opened(p)
  BY <1>2 DEF RecInv, InTx, Idle
<1>7. InTx(p)'
  BY <1>2, <1>4, <1>5, <1>6 DEF InTx, Opened
<1>8. ASSUME NEW q \in Programs, q # p PROVE InTx(q)'
  <2>1. prog'[q] = prog[q]
    BY <1>4, <1>8 DEF RecInv, Become
  <2> QED
    BY <1>2, <2>1 DEF RecInv, InTx, Opened
<1> QED
  BY <1>2, <1>5, <1>7, <1>8 DEF RecInv, LogStep

LEMMA ChangePlainlyHolds ==
    ASSUME RecInv, NEW p \in Programs, ChangePlainly(p) PROVE RecInv' /\ LogStep
<1>1. /\ prog[p].at = "change" /\ CanWrite(p) /\ UNCHANGED <<tx, lock>>
      /\ db' = Changed(prog[p].req) /\ Become(p, [prog[p] EXCEPT !.at = "entry"])
  BY DEF ChangePlainly
<1>2. db'.log = db.log /\ Good(db')
  <2>1. \A f : SameLog(db, [db EXCEPT !.cand[f] = "rejected"])
    BY DEF RecInv, Good, SameLog
  <2>2. \A k, t : SameLog(db, [db EXCEPT !.colls[k] = t])
    BY DEF RecInv, Good, SameLog
  <2>3. SameLog(db, db')
    BY <1>1, <2>1, <2>2 DEF Changed
  <2> QED
    BY <2>3 DEF RecInv, Good, SameLog
<1>3. /\ prog'[p] = [prog[p] EXCEPT !.at = "entry"] /\ DOMAIN prog' = Programs
      /\ DOMAIN tx' = Programs
  BY <1>1 DEF RecInv, Become
<1>4. prog'[p].at = "entry" /\ "at" \in DOMAIN prog'[p]
  BY <1>3 DEF RecInv, InTx
<1>5. ~Opened(p)
  BY <1>1 DEF RecInv, InTx
<1>6. InTx(p)'
  BY <1>1, <1>4, <1>5 DEF InTx, Opened
<1>7. ASSUME NEW q \in Programs, q # p PROVE InTx(q)'
  <2>1. prog'[q] = prog[q] /\ prog[q].at # "commit"
    BY <1>1, <1>7, WriterIsAlone DEF RecInv, Become
  <2> QED
    BY <1>1, <2>1 DEF RecInv, InTx, Opened
<1> QED
  BY <1>2, <1>3, <1>6, <1>7 DEF RecInv, LogStep

LEMMA AppendEntryHolds ==
    ASSUME RecInv, NEW p \in Programs, AppendEntry(p) PROVE RecInv' /\ LogStep
<1>1. /\ prog[p].at = "entry" /\ CanWrite(p) /\ UNCHANGED <<tx, lock>>
      /\ db' = LogTo(db, prog[p].n, prog[p].req.act) /\ Become(p, Idle)
  BY DEF AppendEntry
<1>2. Good(db') /\ Grows(db.log, db'.log)
  BY <1>1, LogToGood DEF RecInv
<1>3. /\ prog'[p].at = "idle" /\ "at" \in DOMAIN prog'[p] /\ DOMAIN prog' = Programs
      /\ DOMAIN tx' = Programs
  BY <1>1 DEF RecInv, Become, Idle
<1>4. ~Opened(p)
  BY <1>1 DEF RecInv, InTx
<1>5. InTx(p)'
  BY <1>1, <1>3, <1>4 DEF InTx, Opened
<1>6. ASSUME NEW q \in Programs, q # p PROVE InTx(q)'
  <2>1. prog'[q] = prog[q] /\ prog[q].at # "commit"
    BY <1>1, <1>6, WriterIsAlone DEF RecInv, Become
  <2> QED
    BY <1>1, <2>1 DEF RecInv, InTx, Opened
<1> QED
  BY <1>2, <1>3, <1>5, <1>6 DEF RecInv, LogStep

LEMMA BeginDeferredHolds ==
    ASSUME RecInv, NEW p \in Programs, BeginDeferred(p) PROVE RecInv' /\ LogStep
<1> DEFINE x == [is |-> "open", base |-> db, view |-> db]
<1>1. /\ prog[p].at = "begin" /\ tx' = [tx EXCEPT ![p] = x]
      /\ Become(p, [prog[p] EXCEPT !.at = "body"]) /\ UNCHANGED <<db, lock>>
  BY DEF BeginDeferred
<1>2. /\ prog'[p] = [prog[p] EXCEPT !.at = "body"] /\ tx'[p] = x
      /\ DOMAIN prog' = Programs /\ DOMAIN tx' = Programs
  BY <1>1 DEF RecInv, Become
<1>3. /\ prog'[p].at = "body" /\ prog'[p].req = prog[p].req /\ prog[p].req.act \in BodyActs
      /\ {"at", "req"} \subseteq DOMAIN prog'[p]
  BY <1>1, <1>2 DEF RecInv, InTx
<1>4. tx'[p].view = tx'[p].base
  BY <1>2
<1>5. InTx(p)'
  BY <1>3, <1>4 DEF InTx
<1>6. ASSUME NEW q \in Programs, q # p PROVE InTx(q)'
  BY <1>1, <1>6, OthersKeep
<1> QED
  BY <1>1, <1>2, <1>5, <1>6 DEF RecInv, LogStep

LEMMA WriteBodyHolds ==
    ASSUME RecInv, NEW p \in Programs, WriteBody(p) PROVE RecInv' /\ LogStep
<1>1. PICK t \in Titles :
        tx' = [tx EXCEPT ![p] = [is |-> "open", base |-> db,
                                 view |-> Result(prog[p].req, prog[p].n, View(p), t)]]
  BY DEF WriteBody
<1>2. /\ prog[p].at = "body" /\ CanWrite(p) /\ ~Stale(p) /\ lock' = p
      /\ Become(p, [prog[p] EXCEPT !.at = "commit"]) /\ UNCHANGED db
  BY DEF WriteBody
<1>3. View(p) = db
  BY <1>2 DEF RecInv, InTx, View, Stale
<1>4. prog[p].req.act \in BodyActs /\ "at" \in DOMAIN prog[p]
  BY <1>2 DEF RecInv, InTx
<1> DEFINE result == Result(prog[p].req, prog[p].n, db, t)
<1>5. Good(result) /\ Grows(db.log, result.log)
  BY <1>4, ResultGrows DEF RecInv
<1>6. /\ prog'[p].at = "commit" /\ "at" \in DOMAIN prog'[p] /\ DOMAIN prog' = Programs
      /\ DOMAIN tx' = Programs
  BY <1>1, <1>2, <1>4 DEF RecInv, Become
<1>7. tx'[p].view = result
  BY <1>1, <1>3 DEF RecInv
<1>8. InTx(p)'
  BY <1>2, <1>5, <1>6, <1>7 DEF InTx
<1>9. ASSUME NEW q \in Programs, q # p PROVE InTx(q)'
  <2>1. lock # q
    BY <1>2, <1>9, WriterIsAlone
  <2> QED
    BY <1>1, <1>2, <1>9, <2>1, OthersKeep
<1> QED
  BY <1>2, <1>6, <1>8, <1>9 DEF RecInv, LogStep

(* A program that undoes its transaction, and does nothing else to the     *)
(* catalog. *)
LEMMA UndoHolds ==
    ASSUME RecInv, NEW p \in Programs, tx' = [tx EXCEPT ![p] = Closed], Become(p, Idle),
           UNCHANGED db, lock' \in {lock, IF lock = p THEN NoProgram ELSE lock}
    PROVE  RecInv' /\ LogStep
<1>1. /\ prog'[p].at = "idle" /\ "at" \in DOMAIN prog'[p] /\ DOMAIN prog' = Programs
      /\ DOMAIN tx' = Programs /\ tx'[p].is = "closed"
  BY DEF RecInv, Become, Idle, Closed
<1>2. InTx(p)'
  BY <1>1 DEF InTx, Opened
<1>3. ASSUME NEW q \in Programs, q # p PROVE InTx(q)'
  BY <1>3, OthersKeep
<1> QED
  BY <1>1, <1>2, <1>3 DEF RecInv, LogStep

LEMMA CommitHolds ==
    ASSUME RecInv, NEW p \in Programs, Commit(p) PROVE RecInv' /\ LogStep
<1>1. /\ prog[p].at = "commit" /\ db' = tx[p].view /\ tx' = [tx EXCEPT ![p] = Closed]
      /\ lock' = NoProgram /\ Become(p, Idle)
  BY DEF Commit
<1>2. Good(db') /\ Grows(db.log, db'.log) /\ lock = p
  BY <1>1 DEF RecInv, InTx
<1>3. /\ prog'[p].at = "idle" /\ "at" \in DOMAIN prog'[p] /\ DOMAIN prog' = Programs
      /\ DOMAIN tx' = Programs /\ tx'[p].is = "closed"
  BY <1>1 DEF RecInv, Become, Idle, Closed
<1>4. InTx(p)'
  BY <1>3 DEF InTx, Opened
<1>5. ASSUME NEW q \in Programs, q # p PROVE InTx(q)'
  <2>1. prog[q].at # "commit" /\ lock # q
    BY <1>2, <1>5, WriterIsAlone DEF CanWrite
  <2> QED
    BY <1>1, <1>5, <2>1, OthersKeep
<1> QED
  BY <1>2, <1>3, <1>4, <1>5 DEF RecInv, LogStep

LEMMA InitHolds == RecordsInit => RecInv
<1> SUFFICES ASSUME RecordsInit PROVE RecInv  OBVIOUS
<1>1. "log" \in DOMAIN db /\ db.log = <<>>
  BY DEF RecordsInit
<1>2. IsLog(<<>>)
  <2>1. <<>> \in Seq({})
    OBVIOUS
  <2> QED
    BY <2>1 DEF IsLog
<1>3. DOMAIN <<>> = {}
  OBVIOUS
<1>4. Verifies(<<>>)
  BY <1>3, VerifiesMeans
<1>5. \A p \in Programs : prog[p].at = "idle" /\ "at" \in DOMAIN prog[p] /\ tx[p].is = "closed"
  BY DEF RecordsInit, Idle, Closed
<1>6. DOMAIN tx = Programs /\ DOMAIN prog = Programs
  BY DEF RecordsInit
<1>7. \A p \in Programs : InTx(p)
  BY <1>5 DEF InTx, Opened
<1> QED
  BY <1>1, <1>2, <1>4, <1>6, <1>7 DEF RecInv, Good, Sound

LEMMA StepHolds == RecInv /\ [RecordsNext]_recordVars => RecInv' /\ LogStep
<1> SUFFICES ASSUME RecInv, [RecordsNext]_recordVars PROVE RecInv' /\ LogStep  OBVIOUS
<1>1. CASE UNCHANGED recordVars
  BY <1>1 DEF recordVars, RecInv, InTx, Opened, LogStep
<1>2. ASSUME NEW p \in Programs,
             \/ Ask(p) \/ ChangePlainly(p) \/ AppendEntry(p) \/ BeginDeferred(p)
             \/ WriteBody(p) \/ Rollback(p) \/ Commit(p) \/ TimeOut(p) \/ Crash(p)
      PROVE  RecInv' /\ LogStep
  <2>1. CASE Rollback(p) \/ TimeOut(p) \/ Crash(p)
    <3>1. tx' = [tx EXCEPT ![p] = Closed] /\ Become(p, Idle) /\ UNCHANGED db
      BY <2>1 DEF Rollback, TimeOut, Crash, Stop
    <3>2. lock' \in {lock, IF lock = p THEN NoProgram ELSE lock}
      BY <2>1 DEF Rollback, TimeOut, Crash, Stop
    <3> QED
      BY <3>1, <3>2, UndoHolds
  <2> QED
    BY <1>2, <2>1, AskHolds, ChangePlainlyHolds, AppendEntryHolds, BeginDeferredHolds,
       WriteBodyHolds, CommitHolds
<1> QED
  BY <1>1, <1>2 DEF RecordsNext

LEMMA InvHolds == RecordsSpec => []RecInv
<1>1. RecInv /\ [RecordsNext]_recordVars => RecInv'
  BY StepHolds
<1> QED
  BY InitHolds, <1>1, PTL DEF RecordsSpec

(* The audit log verifies at all times, however the entries of             *)
(* transactions and those that commit by themselves come in between each   *)
(* other (core/store/audit.py, plans.py, curation.py).                     *)
THEOREM ChainStaysIntact == RecordsSpec => []ChainIntact
<1>1. RecInv => ChainIntact
  BY DEF RecInv, Good, Sound, ChainIntact
<1> QED
  BY <1>1, InvHolds, PTL

LEMMA SaysGrows ==
    ASSUME NEW old, NEW new, Grows(old, new)
    PROVE  AuditTrail!IsStrictPrefix(Says(old), Says(new))
<1>1. /\ Len(old) \in Nat /\ Len(new) \in Nat /\ Len(old) < Len(new)
      /\ DOMAIN old = 1 .. Len(old) /\ DOMAIN new = 1 .. Len(new)
      /\ \A i \in 1 .. Len(old) : new[i] = old[i]
  BY LogIsSequence DEF Grows
<1> DEFINE s == Says(old)
           t == Says(new)
<1>2. /\ s = [i \in 1 .. Len(old) |-> old[i].what] /\ t = [i \in 1 .. Len(new) |-> new[i].what]
  BY <1>1 DEF Says
<1>3. PICK S : \A i \in 1 .. Len(new) : new[i].what \in S
  <2>1. \A i \in 1 .. Len(new) : new[i].what \in {new[j].what : j \in 1 .. Len(new)}
    OBVIOUS
  <2> QED
    BY <2>1
<1>4. \A i \in 1 .. Len(old) : i \in 1 .. Len(new) /\ old[i].what \in S
  BY <1>1, <1>3
<1>5. s \in Seq(S) /\ t \in Seq(S) /\ Len(s) = Len(old) /\ Len(t) = Len(new)
  BY <1>1, <1>2, <1>3, <1>4
<1>6. \A i \in 1 .. Len(s) : s[i] = t[i]
  BY <1>1, <1>2, <1>4, <1>5
<1>7. SubSeq(s, 1, Len(s)) = SubSeq(t, 1, Len(s))
  <2>1. /\ SubSeq(s, 1, Len(s)) = [i \in 1 .. Len(s) |-> s[i]]
        /\ SubSeq(t, 1, Len(s)) = [i \in 1 .. Len(s) |-> t[i]]
    BY <1>1, <1>5
  <2>2. [i \in 1 .. Len(s) |-> s[i]] = [i \in 1 .. Len(s) |-> t[i]]
    BY <1>6
  <2> QED
    BY <2>1, <2>2
<1>8. Len(s) <= Len(t) /\ s # t
  BY <1>1, <1>5
<1> QED
  BY <1>7, <1>8 DEF AuditTrail!IsStrictPrefix, AuditTrail!IsPrefix

(* The audit log implements one that is only ever appended to: what a      *)
(* reader has seen of it stays, at its place (core/store/audit.py).        *)
THEOREM LogImplementsAppendOnly == RecordsSpec => LogOnlyGrows
<1>1. RecordsInit => AuditTrail!Init
  <2> SUFFICES ASSUME RecordsInit PROVE Trail = <<>>
    BY DEF AuditTrail!Init
  <2>1. db.log = <<>> /\ DOMAIN db.log = {}
    BY DEF RecordsInit
  <2>2. Trail = [i \in {} |-> db.log[i].what]
    BY <2>1 DEF Trail, Says
  <2> QED
    BY <2>2
<1>2. RecInv /\ [RecordsNext]_recordVars => [AuditTrail!Next]_Trail
  <2> SUFFICES ASSUME RecInv, [RecordsNext]_recordVars
               PROVE  Trail' = Trail \/ AuditTrail!IsStrictPrefix(Trail, Trail')
    BY DEF AuditTrail!Next
  <2>1. CASE db'.log = db.log
    BY <2>1 DEF Trail, Says
  <2>2. CASE Grows(db.log, db'.log)
    BY <2>2, SaysGrows DEF Trail
  <2> QED
    BY <2>1, <2>2, StepHolds DEF LogStep
<1> QED
  BY <1>1, <1>2, InvHolds, PTL DEF RecordsSpec, LogOnlyGrows, AuditTrail!Spec

-----------------------------------------------------------------------------
(* What an act makes of the catalog: one that is still well formed, with   *)
(* the act in its log, the decisions that were made kept, and each folder  *)
(* in the collections its decision says.                                   *)
Fields == {"cand", "rules", "colls", "plans", "versions", "log"}

Proper(c) == DOMAIN c = Fields /\ IsCatalog(c) /\ Good(c)

TellsOf(log) == {log[i].what[1] : i \in DOMAIN log}

Decided(c, f) == c.cand[f] \in {"accepted", "rejected"}

HeldAsDecided(c, f) ==
    Cardinality({r \in c.rules : r.dir = f}) = IF c.cand[f] = "accepted" THEN 1 ELSE 0

(* The part of it that the entries have nothing to do with. *)
Keeps(c, d) ==
    /\ Proper(d)
    /\ DOMAIN c.colls \subseteq DOMAIN d.colls
    /\ \A f \in Folders : Decided(c, f) => d.cand[f] = c.cand[f]
    /\ \A f \in Folders : HeldAsDecided(c, f) => HeldAsDecided(d, f)

Serves(c, d, n) == Keeps(c, d) /\ TellsOf(d.log) = TellsOf(c.log) \cup {n}

SameButLog(c, d) ==
    /\ DOMAIN d = DOMAIN c
    /\ d.cand = c.cand /\ d.rules = c.rules /\ d.colls = c.colls
    /\ d.plans = c.plans /\ d.versions = c.versions

LEMMA LogToTells ==
    ASSUME NEW c, Proper(c), NEW n \in 1 .. MaxActs, NEW what
    PROVE  LET d == LogTo(c, n, what)
           IN  /\ Proper(d) /\ SameButLog(c, d)
               /\ TellsOf(d.log) = TellsOf(c.log) \cup {n}
<1> DEFINE e == Chained(c.log, <<n, what>>)
           d == LogTo(c, n, what)
<1>1. IsLog(c.log) /\ Len(c.log) \in Nat /\ DOMAIN c.log = 1 .. Len(c.log)
  BY LogIsSequence DEF Proper, Good, Sound
<1>2. SameButLog(c, d) /\ d.log = Append(c.log, e) /\ DOMAIN d = Fields
  BY DEF LogTo, Proper, SameButLog, Fields, Extended
<1>3. /\ IsLog(d.log) /\ Len(d.log) = Len(c.log) + 1
      /\ \A i \in 1 .. Len(c.log) : d.log[i] = c.log[i]
      /\ d.log[Len(c.log) + 1] = e
  BY <1>1, <1>2, AppendToLog
<1>4. DOMAIN d.log = 1 .. Len(c.log) + 1
  BY <1>3, LogIsSequence
<1>5. e.what[1] = n /\ e.id = LastId(c.log) + 1
  BY DEF Chained
<1>6. LastId(c.log) \in Nat
  <2>1. CASE c.log = <<>>
    BY <2>1 DEF LastId
  <2>2. CASE c.log # <<>>
    <3>1. Len(c.log) # 0
      BY <1>1, <2>2 DEF IsLog
    <3>2. Len(c.log) \in DOMAIN c.log
      BY <1>1, <3>1
    <3> QED
      BY <2>2, <3>2 DEF LastId, Proper, IsCatalog
  <2> QED
    BY <2>1, <2>2
<1>7. \A i \in DOMAIN d.log : d.log[i].id \in Nat /\ d.log[i].what[1] \in 1 .. MaxActs
  <2> SUFFICES ASSUME NEW i \in DOMAIN d.log
               PROVE  d.log[i].id \in Nat /\ d.log[i].what[1] \in 1 .. MaxActs
    OBVIOUS
  <2>1. CASE i \in 1 .. Len(c.log)
    BY <1>1, <1>3, <2>1 DEF Proper, IsCatalog
  <2>2. CASE i = Len(c.log) + 1
    BY <1>3, <1>5, <1>6, <2>2
  <2> QED
    BY <1>1, <1>4, <2>1, <2>2
<1>8. Good(d)
  BY LogToGood DEF Proper
<1>9. Proper(d)
  BY <1>2, <1>7, <1>8 DEF Proper, IsCatalog, SameButLog
<1>10. TellsOf(d.log) = TellsOf(c.log) \cup {n}
  <2>1. TellsOf(d.log) \subseteq TellsOf(c.log) \cup {n}
    <3> SUFFICES ASSUME NEW i \in DOMAIN d.log PROVE d.log[i].what[1] \in TellsOf(c.log) \cup {n}
      BY DEF TellsOf
    <3>1. i \in 1 .. Len(c.log) \/ i = Len(c.log) + 1
      BY <1>1, <1>4
    <3> QED
      BY <1>1, <1>3, <1>5, <3>1 DEF TellsOf
  <2>2. ASSUME NEW i \in DOMAIN c.log PROVE c.log[i].what[1] \in TellsOf(d.log)
    <3>1. i \in DOMAIN d.log /\ d.log[i] = c.log[i]
      BY <1>1, <1>3, <1>4
    <3> QED
      BY <3>1 DEF TellsOf
  <2>3. n \in TellsOf(d.log)
    <3>1. Len(c.log) + 1 \in DOMAIN d.log
      BY <1>1, <1>4
    <3> QED
      BY <1>3, <1>5, <3>1 DEF TellsOf
  <2> QED
    BY <2>1, <2>2, <2>3 DEF TellsOf
<1> QED
  BY <1>2, <1>9, <1>10

(* An entry on top of what keeps the catalog. *)
LEMMA EntryServes ==
    ASSUME NEW c, NEW d, NEW n \in 1 .. MaxActs, NEW what, Keeps(c, d),
           TellsOf(d.log) \in {TellsOf(c.log), TellsOf(c.log) \cup {n}}
    PROVE  Serves(c, LogTo(d, n, what), n)
<1> DEFINE e == LogTo(d, n, what)
<1>1. Proper(e) /\ SameButLog(d, e) /\ TellsOf(e.log) = TellsOf(d.log) \cup {n}
  BY LogToTells DEF Keeps
<1>2. TellsOf(e.log) = TellsOf(c.log) \cup {n}
  BY <1>1
<1> QED
  BY <1>1, <1>2 DEF Serves, Keeps, SameButLog, Decided, HeldAsDecided

LEMMA ProposeAllKeeps ==
    ASSUME NEW c, NEW d, Proper(d), Keeps(c, d), NEW fs
    PROVE  Keeps(c, ProposeAll(d, fs)) /\ ProposeAll(d, fs).log = d.log
<1> DEFINE e == ProposeAll(d, fs)
<1>1. /\ DOMAIN e = Fields /\ e.rules = d.rules /\ e.colls = d.colls
      /\ e.plans = d.plans /\ e.versions = d.versions /\ e.log = d.log
      /\ e.cand = [f \in Folders |-> IF f \in fs THEN Propose(d, f).cand[f] ELSE d.cand[f]]
  BY DEF ProposeAll, Proper, Fields
<1>2. \A f \in Folders : e.cand[f] = IF f \in fs /\ d.cand[f] = "none" THEN "proposed" ELSE d.cand[f]
  BY <1>1 DEF Propose, Proper, Fields, IsCatalog
<1>3. e.cand \in [Folders -> Statuses]
  <2>1. \A f \in Folders : e.cand[f] \in Statuses
    BY <1>2 DEF Proper, IsCatalog, Statuses
  <2> QED
    BY <1>1, <2>1
<1>4. Proper(e)
  BY <1>1, <1>3 DEF Proper, IsCatalog, Good
<1>5. ASSUME NEW f \in Folders, Decided(c, f) PROVE e.cand[f] = c.cand[f]
  BY <1>2, <1>5 DEF Keeps, Decided
<1>6. ASSUME NEW f \in Folders, HeldAsDecided(c, f) PROVE HeldAsDecided(e, f)
  BY <1>1, <1>2, <1>6 DEF Keeps, HeldAsDecided
<1> QED
  BY <1>1, <1>4, <1>5, <1>6 DEF Keeps

(* A proposed folder that no collection holds, given to one. *)
LEMMA GivenFolderKeeps ==
    ASSUME NEW c, Proper(c), NEW f \in Folders, c.cand[f] = "proposed", ~Held(c, f),
           NEW d, Proper(d), DOMAIN c.colls \subseteq DOMAIN d.colls,
           d.cand = [c.cand EXCEPT ![f] = "accepted"],
           NEW k, d.rules = c.rules \cup {[coll |-> k, dir |-> f]}
    PROVE  Keeps(c, d)
<1>1. c.cand \in [Folders -> Statuses]
  BY DEF Proper, IsCatalog
<1>2. \A g \in Folders : d.cand[g] = IF g = f THEN "accepted" ELSE c.cand[g]
  BY <1>1
<1>3. {r \in d.rules : r.dir = f} = {[coll |-> k, dir |-> f]}
  BY DEF Held
<1>4. Cardinality({r \in d.rules : r.dir = f}) = 1
  BY <1>3, FS_Singleton
<1>5. ASSUME NEW g \in Folders, g # f
      PROVE  {r \in d.rules : r.dir = g} = {r \in c.rules : r.dir = g}
  BY <1>5
<1>6. ASSUME NEW g \in Folders, HeldAsDecided(c, g) PROVE HeldAsDecided(d, g)
  BY <1>2, <1>4, <1>5, <1>6 DEF HeldAsDecided
<1>7. ASSUME NEW g \in Folders, Decided(c, g) PROVE d.cand[g] = c.cand[g]
  BY <1>2, <1>7 DEF Decided
<1> QED
  BY <1>6, <1>7 DEF Keeps

LEMMA GivenFolderServes ==
    ASSUME NEW c, Proper(c), NEW f \in Folders, c.cand[f] = "proposed", ~Held(c, f),
           NEW c1, Proper(c1), c1.cand = c.cand, c1.rules = c.rules,
           DOMAIN c.colls \subseteq DOMAIN c1.colls,
           NEW n \in 1 .. MaxActs, TellsOf(c1.log) \in {TellsOf(c.log), TellsOf(c.log) \cup {n}},
           NEW k \in DOMAIN c1.colls
    PROVE  Serves(c, Decide(AddSubtreeRule(c1, n, k, f), n, f, "accepted"), n)
<1> DEFINE c2 == [c1 EXCEPT !.rules = @ \cup {[coll |-> k, dir |-> f]}]
           c3 == LogTo(c2, n, "collection.rule.add")
           c4 == [c3 EXCEPT !.cand[f] = "accepted"]
<1>1. c3 = AddSubtreeRule(c1, n, k, f) /\ LogTo(c4, n, "accepted") = Decide(c3, n, f, "accepted")
  BY DEF AddSubtreeRule, Decide
<1>2. /\ DOMAIN c2 = Fields /\ c2.colls = c1.colls /\ c2.cand = c1.cand
      /\ c2.rules = c1.rules \cup {[coll |-> k, dir |-> f]}
      /\ c2.plans = c1.plans /\ c2.versions = c1.versions /\ c2.log = c1.log
  BY DEF Proper, Fields
<1> HIDE DEF c2
<1>3. [coll |-> k, dir |-> f] \in [coll : DOMAIN c2.colls, dir : Folders]
  BY <1>2
<1>4. Proper(c2)
  BY <1>2, <1>3 DEF Proper, IsCatalog, Good, Fields
<1>5. Proper(c3) /\ SameButLog(c2, c3) /\ TellsOf(c3.log) = TellsOf(c1.log) \cup {n}
  BY <1>2, <1>4, LogToTells
<1>6. /\ DOMAIN c4 = Fields /\ c4.colls = c3.colls /\ c4.rules = c3.rules
      /\ c4.cand = [c3.cand EXCEPT ![f] = "accepted"]
      /\ c4.plans = c3.plans /\ c4.versions = c3.versions /\ c4.log = c3.log
  BY <1>5 DEF Proper, Fields
<1> HIDE DEF c3, c4
<1>7. c4.cand \in [Folders -> Statuses]
  BY <1>5, <1>6 DEF Proper, IsCatalog, Statuses
<1>8. Proper(c4)
  BY <1>5, <1>6, <1>7 DEF Proper, IsCatalog, Good, Fields
<1>9. /\ c4.cand = [c.cand EXCEPT ![f] = "accepted"] /\ DOMAIN c.colls \subseteq DOMAIN c4.colls
      /\ c4.rules = c.rules \cup {[coll |-> k, dir |-> f]}
  BY <1>2, <1>5, <1>6 DEF SameButLog
<1>10. Keeps(c, c4)
  BY <1>8, <1>9, GivenFolderKeeps
<1>11. TellsOf(c4.log) = TellsOf(c.log) \cup {n}
  BY <1>5, <1>6
<1> QED
  BY <1>1, <1>10, <1>11, EntryServes

(* What a request is made of, when its transaction begins. *)
FitsRequest(r, c) ==
    /\ r.act \in BodyActs
    /\ r.act \in {"accept", "into", "split"} => r.dir \in Folders
    /\ r.act = "into" => r.coll \in DOMAIN c.colls

LEMMA ResultServes ==
    ASSUME NEW c, Proper(c), NEW r, FitsRequest(r, c), Allowed(r, c),
           NEW n \in 1 .. MaxActs, NEW t \in Titles
    PROVE  Serves(c, Result(r, n, c, t), n)
<1>0. Keeps(c, c)
  BY DEF Keeps
<1>1. CASE r.act = "accept"
  <2> DEFINE c1 == [c EXCEPT !.colls = Append(@, t)]
             c2 == CreateCollection(c, n, t)
             k == Len(c.colls) + 1
  <2>1. Result(r, n, c, t) = Decide(AddSubtreeRule(c2, n, k, r.dir), n, r.dir, "accepted")
    BY <1>1 DEF Result, AcceptNew
  <2>2. c.colls \in Seq(Titles) /\ r.dir \in Folders /\ c.cand[r.dir] = "proposed" /\ ~Held(c, r.dir)
    BY <1>1 DEF Proper, IsCatalog, FitsRequest, Allowed
  <2>3. /\ Append(c.colls, t) \in Seq(Titles) /\ DOMAIN c.colls \subseteq DOMAIN Append(c.colls, t)
        /\ k \in DOMAIN Append(c.colls, t)
    BY <2>2
  <2>4. /\ DOMAIN c1 = Fields /\ c1.colls = Append(c.colls, t) /\ c1.cand = c.cand /\ c1.rules = c.rules
        /\ c1.plans = c.plans /\ c1.versions = c.versions /\ c1.log = c.log
        /\ c2 = LogTo(c1, n, "collection.create")
    BY DEF Proper, Fields, CreateCollection
  <2> HIDE DEF c1, c2, k
  <2>5. c1.rules \subseteq [coll : DOMAIN c1.colls, dir : Folders]
    BY <2>3, <2>4 DEF Proper, IsCatalog
  <2>6. Proper(c1)
    BY <2>3, <2>4, <2>5 DEF Proper, IsCatalog, Good, Fields
  <2>7. Proper(c2) /\ SameButLog(c1, c2) /\ TellsOf(c2.log) = TellsOf(c.log) \cup {n}
    BY <2>4, <2>6, LogToTells
  <2>8. /\ c2.cand = c.cand /\ c2.rules = c.rules /\ DOMAIN c.colls \subseteq DOMAIN c2.colls
        /\ k \in DOMAIN c2.colls
    BY <2>3, <2>4, <2>7 DEF SameButLog
  <2> QED
    BY <2>1, <2>2, <2>7, <2>8, GivenFolderServes
<1>2. CASE r.act = "into"
  <2>1. Result(r, n, c, t) = Decide(AddSubtreeRule(c, n, r.coll, r.dir), n, r.dir, "accepted")
    BY <1>2 DEF Result, AcceptInto
  <2>2. r.coll \in DOMAIN c.colls /\ r.dir \in Folders /\ c.cand[r.dir] = "proposed" /\ ~Held(c, r.dir)
    BY <1>2 DEF FitsRequest, Allowed
  <2> QED
    BY <2>1, <2>2, GivenFolderServes
<1>3. CASE r.act = "split"
  <2> DEFINE c1 == [c EXCEPT !.cand[r.dir] = "rejected"]
             c2 == LogTo(c1, n, "rejected")
             c3 == LogTo(c2, n, "split")
  <2>1. Result(r, n, c, t) = ProposeAll(c3, Subfolders[r.dir])
    BY <1>3 DEF Result, Split, Decide
  <2>2. r.dir \in Folders /\ c.cand[r.dir] = "proposed" /\ c.cand \in [Folders -> Statuses]
    BY <1>3 DEF FitsRequest, Allowed, Proper, IsCatalog
  <2>3. /\ DOMAIN c1 = Fields /\ c1.colls = c.colls /\ c1.rules = c.rules
        /\ c1.cand = [c.cand EXCEPT ![r.dir] = "rejected"]
        /\ c1.plans = c.plans /\ c1.versions = c.versions /\ c1.log = c.log
    BY DEF Proper, Fields
  <2>4. c1.cand \in [Folders -> Statuses]
    BY <2>2, <2>3 DEF Statuses
  <2>5. Proper(c1)
    BY <2>3, <2>4 DEF Proper, IsCatalog, Good, Fields
  <2>6. \A f \in Folders : c1.cand[f] = IF f = r.dir THEN "rejected" ELSE c.cand[f]
    BY <2>2, <2>3
  <2>7. Keeps(c, c1)
    BY <2>2, <2>3, <2>5, <2>6 DEF Keeps, Decided, HeldAsDecided
  <2>8. Serves(c, c2, n)
    BY <2>3, <2>7, EntryServes
  <2>9. Serves(c, c3, n)
    BY <2>8, EntryServes DEF Serves
  <2> QED
    BY <2>1, <2>9, ProposeAllKeeps DEF Serves, Keeps
<1>4. CASE r.act = "infer"
  <2>1. Keeps(c, ProposeAll(c, r.dirs)) /\ ProposeAll(c, r.dirs).log = c.log
    BY <1>0, ProposeAllKeeps
  <2>2. Result(r, n, c, t) = LogTo(ProposeAll(c, r.dirs), n, "collection.infer")
    BY <1>4 DEF Result, Infer
  <2> QED
    BY <2>1, <2>2, EntryServes
<1>5. CASE r.act = "plan"
  <2> DEFINE old == [i \in DOMAIN c.plans |-> IF c.plans[i] = "draft" THEN "superseded" ELSE c.plans[i]]
             d == [c EXCEPT !.plans = Append(old, "draft")]
  <2>1. Result(r, n, c, t) = LogTo(d, n, "plan.create")
    BY <1>5 DEF Result, CreatePlan
  <2>2. c.plans \in Seq({"draft", "superseded"})
    BY DEF Proper, IsCatalog
  <2>3. old \in Seq({"draft", "superseded"})
    BY <2>2
  <2>4. Append(old, "draft") \in Seq({"draft", "superseded"})
    BY <2>3
  <2> HIDE DEF old
  <2>5. /\ DOMAIN d = Fields /\ d.colls = c.colls /\ d.rules = c.rules /\ d.cand = c.cand
        /\ d.plans = Append(old, "draft") /\ d.versions = c.versions /\ d.log = c.log
    BY DEF Proper, Fields
  <2>6. Proper(d)
    BY <2>4, <2>5 DEF Proper, IsCatalog, Good, Fields
  <2>7. Keeps(c, d)
    BY <2>5, <2>6 DEF Keeps, HeldAsDecided
  <2> QED
    BY <2>1, <2>5, <2>7, EntryServes
<1>6. CASE r.act = "versions"
  <2> DEFINE d == [c EXCEPT !.versions = n]
  <2>1. Result(r, n, c, t) = LogTo(d, n, "versions.find")
    BY <1>6 DEF Result, ReplaceVersionSets
  <2>2. /\ DOMAIN d = Fields /\ d.colls = c.colls /\ d.rules = c.rules /\ d.cand = c.cand
        /\ d.plans = c.plans /\ d.versions = n /\ d.log = c.log
    BY DEF Proper, Fields
  <2>3. Proper(d)
    BY <2>2 DEF Proper, IsCatalog, Good, Fields
  <2>4. Keeps(c, d)
    BY <2>2, <2>3 DEF Keeps, HeldAsDecided
  <2> QED
    BY <2>1, <2>2, <2>4, EntryServes
<1> QED
  BY <1>1, <1>2, <1>3, <1>4, <1>5, <1>6 DEF FitsRequest, BodyActs


-----------------------------------------------------------------------------
(* What a program is doing, next to the log and to the catalog: its number *)
(* is its own, it is recorded as done exactly between its change and its   *)
(* entry, and what it is about to commit serves the catalog as it is.      *)
Busy(p) == prog[p].at # "idle"

PlainFits(r) ==
    /\ r.act \in Plain
    /\ r.act = "reject" => r.dir \in Folders
    /\ r.act = "edit" => r.title \in Titles

ActOf(p) ==
    /\ prog[p].at \in {"idle", "change", "entry", "begin", "body", "commit"}
    /\ ~Busy(p) => prog[p] = Idle
    /\ Busy(p) => DOMAIN prog[p] = {"at", "n", "req"} /\ prog[p].n \in 1 .. acts
    /\ Busy(p) /\ prog[p].at # "entry" => prog[p].n \notin done
    /\ prog[p].at = "entry" => prog[p].n \in done /\ prog[p].n \notin Told \cup lost
    /\ prog[p].at = "change" => PlainFits(prog[p].req)
    /\ prog[p].at \in {"begin", "body"} => FitsRequest(prog[p].req, db)
    /\ Opened(p) => Proper(tx[p].view)
    /\ lock = p <=> prog[p].at = "commit"
    /\ prog[p].at = "commit" => Serves(db, tx[p].view, prog[p].n)

Numbered == \A p, q \in Programs : p # q /\ Busy(p) /\ Busy(q) => prog[p].n # prog[q].n

DecInv ==
    /\ RecInv /\ Proper(db)
    /\ lock \in Programs \cup {NoProgram}
    /\ acts \in 0 .. MaxActs /\ crashes \in 0 .. MaxCrashes
    /\ \A p \in Programs : ActOf(p)
    /\ Numbered
    /\ done \subseteq 1 .. acts /\ lost \subseteq done /\ overtaken \subseteq Folders
    /\ Audited /\ AcceptedIsHeld

DecisionsKept == \A f \in Folders \ overtaken' : Decided(db, f) => db'.cand[f] = db.cand[f]

(* The changes whose entry is still to come. *)
Unwritten(n) == \E p \in Programs : prog[p].at = "entry" /\ prog[p].n = n

Accounted ==
    /\ \A n : n \in done <=> n \in Told \/ n \in lost \/ Unwritten(n)
    /\ Told \cap lost = {}

LEMMA AuditedMeans == (Audited <=> Accounted) /\ (Audited' <=> Accounted')
BY DEF Audited, Accounted, Unwritten

LEMMA ToldMeans == Told = TellsOf(db.log) /\ Told' = TellsOf(db'.log)
BY DEF Told, TellsOf

(* A step of one program that keeps off what the others hold. *)
LEMMA OthersAct ==
    ASSUME DecInv, NEW p \in Programs, NEW q \in Programs, q # p,
           prog'[q] = prog[q], tx'[q] = tx[q],
           db' = db \/ prog[q].at # "commit", lock' = q <=> lock = q,
           DOMAIN db.colls \subseteq DOMAIN db'.colls,
           acts' \in Nat, acts <= acts',
           NEW n, Busy(q) => prog[q].n # n,
           done \subseteq done', done' \subseteq done \cup {n},
           Told' \subseteq Told \cup {n}, lost' \subseteq lost \cup {n}
    PROVE  ActOf(q)'
<1>1. prog'[q] = prog[q] /\ tx'[q] = tx[q]
  OBVIOUS
<1>2. ActOf(q) /\ acts \in Nat
  BY DEF DecInv
<1>3. 1 .. acts \subseteq 1 .. acts'
  BY <1>2
<1>4. /\ Busy(q)' = Busy(q) /\ Opened(q)' = Opened(q)
  BY <1>1 DEF Busy, Opened
<1>5. Busy(q) => prog'[q].n \in 1 .. acts' /\ DOMAIN prog'[q] = {"at", "n", "req"}
  BY <1>1, <1>2, <1>3 DEF ActOf
<1>6. Busy(q) /\ prog[q].at # "entry" => prog'[q].n \notin done'
  BY <1>1, <1>2 DEF ActOf
<1>7. prog[q].at = "entry" => prog'[q].n \in done' /\ prog'[q].n \notin Told' \cup lost'
  BY <1>1, <1>2 DEF ActOf, Busy
<1>8. prog[q].at \in {"begin", "body"} => FitsRequest(prog'[q].req, db')
  BY <1>1, <1>2 DEF ActOf, FitsRequest
<1>9. prog[q].at = "commit" => Serves(db', tx'[q].view, prog'[q].n)
  BY <1>1, <1>2 DEF ActOf
<1> QED
  BY <1>1, <1>2, <1>4, <1>5, <1>6, <1>7, <1>8, <1>9 DEF ActOf

(* Of the numbers: a program that becomes idle, or goes on with its act. *)
LEMMA NumbersKeep ==
    ASSUME DecInv, NEW p \in Programs, NEW s, Become(p, s),
           s.at = "idle" \/ (Busy(p) /\ s.n = prog[p].n)
    PROVE  Numbered'
<1>1. /\ prog'[p] = s
      /\ \A q \in Programs : q # p => prog'[q] = prog[q]
  BY DEF DecInv, RecInv, Become
<1> QED
  BY <1>1 DEF DecInv, Numbered, Busy

LEMMA UnwrittenBy ==
    ASSUME DecInv, NEW p \in Programs, NEW s, Become(p, s)
    PROVE  \A n : Unwritten(n)' <=> \/ s.at = "entry" /\ s.n = n
                                    \/ \E q \in Programs : q # p /\ prog[q].at = "entry" /\ prog[q].n = n
<1>1. /\ prog'[p] = s
      /\ \A q \in Programs : q # p => prog'[q] = prog[q]
  BY DEF DecInv, RecInv, Become
<1> QED
  BY <1>1 DEF Unwritten

LEMMA AskDecides ==
    ASSUME DecInv, NEW p \in Programs, Ask(p) PROVE DecInv' /\ DecisionsKept
<1>1. /\ UNCHANGED <<db, tx, lock, crashes, done, lost, overtaken>> /\ prog[p] = Idle
      /\ acts' = acts + 1 /\ acts < MaxActs
  BY DEF Ask
<1>2. PICK r \in Requests :
        Become(p, [at |-> IF r.act \in Plain THEN "change"
                          ELSE IF r.act \in ReadsFirst THEN "begin" ELSE "body",
                   n |-> acts + 1, req |-> r])
  BY DEF Ask
<1>3. PICK at \in {"change", "begin", "body"} :
        /\ Become(p, [at |-> at, n |-> acts + 1, req |-> r])
        /\ at = "change" <=> r.act \in Plain
  BY <1>2
<1> DEFINE s == [at |-> at, n |-> acts + 1, req |-> r]
<1>4. acts \in Nat /\ acts' \in 0 .. MaxActs /\ acts <= acts' /\ acts + 1 \in 1 .. acts'
  BY <1>1, RecordsAssumption DEF DecInv
<1>5. r.act \in {"reject", "edit"} \cup BodyActs
  BY DEF Requests, BodyActs
<1>6. r.act \in {"reject", "accept", "split", "into"} => r.dir \in Folders
  BY DEF Requests
<1>7. r.act = "into" => r.coll \in DOMAIN db.colls
  BY DEF Requests
<1>8. r.act = "edit" => r.title \in Titles
  BY DEF Requests
<1>9. at = "change" => PlainFits(r)
  BY <1>3, <1>6, <1>8 DEF PlainFits
<1>10. at # "change" => FitsRequest(r, db)
  BY <1>3, <1>5, <1>6, <1>7 DEF FitsRequest, Plain
<1>11. RecInv'
  BY AskHolds DEF DecInv
<1>12. acts + 1 \notin done /\ Told' = Told
  BY <1>1, <1>4 DEF DecInv, Told
<1>13. prog'[p] = s /\ tx'[p] = tx[p] /\ \A q \in Programs : q # p => prog'[q] = prog[q]
  BY <1>1, <1>3 DEF DecInv, RecInv, Become
<1>14. ~Opened(p) /\ lock # p
  BY <1>1 DEF DecInv, RecInv, InTx, ActOf, Idle
<1>15. DOMAIN s = {"at", "n", "req"} /\ s.n = acts + 1 /\ s.at = at /\ s.req = r
  OBVIOUS
<1> HIDE DEF s
<1>16. ActOf(p)'
  BY <1>1, <1>4, <1>9, <1>10, <1>12, <1>13, <1>14, <1>15 DEF ActOf, Busy, Opened
<1>17. ASSUME NEW q \in Programs, q # p PROVE ActOf(q)'
  <2>1. Busy(q) => prog[q].n # acts + 1
    BY <1>4 DEF DecInv, ActOf
  <2>2. /\ done \subseteq done' /\ done' \subseteq done \cup {acts + 1}
        /\ Told' \subseteq Told \cup {acts + 1} /\ lost' \subseteq lost \cup {acts + 1}
        /\ DOMAIN db.colls \subseteq DOMAIN db'.colls
    BY <1>1, <1>12
  <2>3. acts' \in Nat /\ prog'[q] = prog[q] /\ tx'[q] = tx[q] /\ db' = db /\ lock' = lock
    BY <1>1, <1>4, <1>13, <1>17
  <2> QED
    BY <1>4, <1>17, <2>1, <2>2, <2>3, OthersAct
<1>18. Numbered'
  <2> SUFFICES ASSUME NEW a \in Programs, NEW b \in Programs, a # b, Busy(a)', Busy(b)'
               PROVE  prog'[a].n # prog'[b].n
    BY DEF Numbered
  <2>1. \A q \in Programs : q # p /\ Busy(q) => prog[q].n # acts + 1
    BY <1>4 DEF DecInv, ActOf
  <2> QED
    BY <1>13, <1>15, <2>1 DEF DecInv, Numbered, Busy
<1>19. Audited'
  <2>2. ASSUME NEW n PROVE Unwritten(n)' <=> Unwritten(n)
    BY <1>1, <1>13, <1>15 DEF Unwritten, Idle
  <2> QED
    BY <1>1, <1>12, <2>2, AuditedMeans DEF DecInv, Accounted
<1>20. AcceptedIsHeld' /\ DecisionsKept
  BY <1>1 DEF DecInv, AcceptedIsHeld, DecisionsKept
<1>21. done' \subseteq 1 .. acts'
  BY <1>1, <1>4 DEF DecInv
<1> QED
  BY <1>1, <1>4, <1>11, <1>16, <1>17, <1>18, <1>19, <1>20, <1>21 DEF DecInv

LEMMA ReplacedInSequence ==
    ASSUME NEW S, NEW s \in Seq(S), NEW k, NEW e \in S
    PROVE  [s EXCEPT ![k] = e] \in Seq(S) /\ DOMAIN [s EXCEPT ![k] = e] = DOMAIN s
<1>1. PICK n \in Nat : s \in [1 .. n -> S]
  BY SeqDef
<1>2. [s EXCEPT ![k] = e] \in [1 .. n -> S]
  BY <1>1
<1> QED
  BY <1>2, SeqDef

(* A rejection that finds its folder still pending changes no decision;    *)
(* any other is counted as overtaking.                                     *)
LEMMA PlainKeeps ==
    ASSUME DecInv, NEW p \in Programs, ChangePlainly(p)
    PROVE  /\ Proper(db') /\ DOMAIN db.colls \subseteq DOMAIN db'.colls /\ db'.log = db.log
           /\ overtaken' \subseteq Folders /\ AcceptedIsHeld' /\ DecisionsKept
<1> DEFINE r == prog[p].req
<1>1. prog[p].at = "change" /\ db' = Changed(r) /\ PlainFits(r) /\ Proper(db)
  BY DEF ChangePlainly, DecInv, ActOf
<1>2. overtaken' = IF r.act = "reject" /\ ~Pending(r.dir) THEN overtaken \cup {r.dir} ELSE overtaken
  BY DEF ChangePlainly
<1>3. \A f \in Folders \ overtaken : HeldAsDecided(db, f)
  BY DEF DecInv, AcceptedIsHeld, HeldAsDecided
<1> HIDE DEF r
<1>4. CASE r.act = "reject"
  <2>1. r.dir \in Folders /\ db' = [db EXCEPT !.cand[r.dir] = "rejected"]
    BY <1>1, <1>4 DEF PlainFits, Changed
  <2>2. /\ DOMAIN db' = Fields /\ db'.colls = db.colls /\ db'.rules = db.rules
        /\ db'.cand = [db.cand EXCEPT ![r.dir] = "rejected"]
        /\ db'.plans = db.plans /\ db'.versions = db.versions /\ db'.log = db.log
    BY <1>1, <2>1 DEF Proper, Fields
  <2>3. db.cand \in [Folders -> Statuses]
    BY <1>1 DEF Proper, IsCatalog
  <2>4. \A f \in Folders : db'.cand[f] = IF f = r.dir THEN "rejected" ELSE db.cand[f]
    BY <2>1, <2>2, <2>3
  <2>5. db'.cand \in [Folders -> Statuses]
    BY <2>2, <2>3 DEF Statuses
  <2>6. Proper(db')
    BY <1>1, <2>2, <2>5 DEF Proper, IsCatalog, Good, Fields
  <2>7. ASSUME NEW f \in Folders \ overtaken'
        PROVE  HeldAsDecided(db', f) /\ (Decided(db, f) => db'.cand[f] = db.cand[f])
    <3>1. f = r.dir => db.cand[f] = "proposed"
      BY <1>2, <1>4, <2>7 DEF Pending
    <3>2. HeldAsDecided(db, f)
      BY <1>2, <1>3, <2>7
    <3> QED
      BY <2>2, <2>4, <2>7, <3>1, <3>2 DEF HeldAsDecided, Decided
  <2>8. overtaken' \subseteq Folders
    BY <1>2, <2>1 DEF DecInv
  <2> QED
    BY <2>2, <2>6, <2>7, <2>8 DEF AcceptedIsHeld, HeldAsDecided, DecisionsKept
<1>5. CASE r.act = "edit"
  <2>1. r.title \in Titles /\ db' = [db EXCEPT !.colls[r.coll] = r.title] /\ overtaken' = overtaken
    BY <1>1, <1>2, <1>5 DEF PlainFits, Changed
  <2>2. /\ DOMAIN db' = Fields /\ db'.colls = [db.colls EXCEPT ![r.coll] = r.title]
        /\ db'.rules = db.rules /\ db'.cand = db.cand
        /\ db'.plans = db.plans /\ db'.versions = db.versions /\ db'.log = db.log
    BY <1>1, <2>1 DEF Proper, Fields
  <2>3. db.colls \in Seq(Titles)
    BY <1>1 DEF Proper, IsCatalog
  <2>4. db'.colls \in Seq(Titles) /\ DOMAIN db'.colls = DOMAIN db.colls
    <3>1. r.title \in Titles
      BY <2>1
    <3>2. \A k : LET new == [db.colls EXCEPT ![k] = r.title]
                IN  new \in Seq(Titles) /\ DOMAIN new = DOMAIN db.colls
      BY <2>3, <3>1, ReplacedInSequence
    <3> QED
      BY <2>2, <3>2
  <2>5. Proper(db')
    BY <1>1, <2>2, <2>4 DEF Proper, IsCatalog, Good, Fields
  <2>6. overtaken' \subseteq Folders /\ AcceptedIsHeld' /\ DecisionsKept
    BY <2>1, <2>2 DEF DecInv, AcceptedIsHeld, DecisionsKept
  <2> QED
    BY <2>2, <2>4, <2>5, <2>6
<1> QED
  BY <1>1, <1>4, <1>5 DEF PlainFits, Plain

LEMMA ChangePlainlyDecides ==
    ASSUME DecInv, NEW p \in Programs, ChangePlainly(p) PROVE DecInv' /\ DecisionsKept
<1> DEFINE s == [prog[p] EXCEPT !.at = "entry"]
           n == prog[p].n
<1>1. /\ prog[p].at = "change" /\ CanWrite(p) /\ UNCHANGED <<tx, lock, acts, crashes, lost>>
      /\ done' = done \cup {n} /\ Become(p, s)
  BY DEF ChangePlainly
<1>2. ActOf(p) /\ Busy(p) /\ acts \in Nat
  BY <1>1 DEF DecInv, Busy
<1>3. DOMAIN s = {"at", "n", "req"} /\ s.n = n /\ s.at = "entry"
  BY <1>2 DEF ActOf
<1>4. prog'[p] = s /\ tx'[p] = tx[p] /\ \A q \in Programs : q # p => prog'[q] = prog[q]
  BY <1>1 DEF DecInv, RecInv, Become
<1> HIDE DEF s
<1>5. RecInv'
  BY ChangePlainlyHolds DEF DecInv
<1>6. Told' = Told /\ Proper(db') /\ DOMAIN db.colls \subseteq DOMAIN db'.colls
      /\ overtaken' \subseteq Folders /\ AcceptedIsHeld' /\ DecisionsKept
  BY PlainKeeps DEF Told
<1>7. n \in 1 .. acts /\ n \notin done /\ ~Opened(p) /\ lock # p
  BY <1>1, <1>2 DEF ActOf, DecInv, RecInv, InTx
<1>8. done = Told \cup lost \cup {prog[q].n : q \in {r \in Programs : prog[r].at = "entry"}}
  BY DEF DecInv, Audited
<1>9. n \notin Told \cup lost
  BY <1>7, <1>8
<1>10. ActOf(p)'
  BY <1>1, <1>2, <1>3, <1>4, <1>6, <1>7, <1>9 DEF ActOf, Busy, Opened
<1>11. ASSUME NEW q \in Programs, q # p PROVE ActOf(q)'
  <2>1. Busy(q) => prog[q].n # n
    BY <1>2, <1>11 DEF DecInv, Numbered
  <2>2. prog[q].at # "commit"
    BY <1>1, <1>11, WriterIsAlone DEF DecInv
  <2>3. /\ done \subseteq done' /\ done' \subseteq done \cup {n}
        /\ Told' \subseteq Told \cup {n} /\ lost' \subseteq lost \cup {n}
    BY <1>1, <1>6
  <2>4. prog'[q] = prog[q] /\ tx'[q] = tx[q] /\ lock' = lock /\ acts' \in Nat /\ acts <= acts'
    BY <1>1, <1>2, <1>4, <1>11
  <2> QED
    BY <1>6, <1>11, <2>1, <2>2, <2>3, <2>4, OthersAct
<1>12. Numbered'
  BY <1>1, <1>2, <1>3, NumbersKeep
<1>13. Audited'
  <2>1. \A m : Unwritten(m)' <=> m = n \/ Unwritten(m)
    <3> TAKE m
    <3> QED
      BY <1>1, <1>3, <1>4 DEF Unwritten
  <2> QED
    BY <1>1, <1>6, <2>1, AuditedMeans DEF DecInv, Accounted
<1>14. done' \subseteq 1 .. acts' /\ lost' \subseteq done'
  BY <1>1, <1>7 DEF DecInv
<1>15. lock' \in Programs \cup {NoProgram} /\ acts' \in 0 .. MaxActs /\ crashes' \in 0 .. MaxCrashes
  BY <1>1 DEF DecInv
<1> QED
  BY <1>5, <1>6, <1>10, <1>11, <1>12, <1>13, <1>14, <1>15 DEF DecInv

LEMMA AppendEntryDecides ==
    ASSUME DecInv, NEW p \in Programs, AppendEntry(p) PROVE DecInv' /\ DecisionsKept
<1> DEFINE n == prog[p].n
<1>1. /\ prog[p].at = "entry" /\ CanWrite(p)
      /\ UNCHANGED <<tx, lock, acts, crashes, done, lost, overtaken>>
      /\ db' = LogTo(db, n, prog[p].req.act) /\ Become(p, Idle)
  BY DEF AppendEntry
<1>2. ActOf(p) /\ Busy(p) /\ acts \in 0 .. MaxActs /\ MaxActs \in Nat
  BY <1>1, RecordsAssumption DEF DecInv, Busy
<1>3. n \in 1 .. acts /\ n \in 1 .. MaxActs /\ n \in done /\ n \notin lost
  BY <1>1, <1>2 DEF ActOf
<1>4. prog'[p] = Idle /\ tx'[p] = tx[p] /\ \A q \in Programs : q # p => prog'[q] = prog[q]
  BY <1>1 DEF DecInv, RecInv, Become
<1>5. RecInv'
  BY AppendEntryHolds DEF DecInv
<1>6. Proper(db') /\ SameButLog(db, db') /\ Told' = Told \cup {n}
  <2>1. Proper(db') /\ SameButLog(db, db') /\ TellsOf(db'.log) = TellsOf(db.log) \cup {n}
    BY <1>1, <1>3, LogToTells DEF DecInv
  <2> QED
    BY <2>1, ToldMeans
<1>7. ~Opened(p) /\ lock # p
  BY <1>1, <1>2 DEF ActOf, DecInv, RecInv, InTx
<1>8. ActOf(p)'
  BY <1>1, <1>4, <1>7 DEF ActOf, Busy, Opened, Idle
<1>9. ASSUME NEW q \in Programs, q # p PROVE ActOf(q)'
  <2>1. Busy(q) => prog[q].n # n
    BY <1>2, <1>9 DEF DecInv, Numbered
  <2>2. prog[q].at # "commit"
    BY <1>1, <1>9, WriterIsAlone DEF DecInv
  <2>3. /\ done \subseteq done' /\ done' \subseteq done \cup {n}
        /\ Told' \subseteq Told \cup {n} /\ lost' \subseteq lost \cup {n}
        /\ DOMAIN db.colls \subseteq DOMAIN db'.colls
    BY <1>1, <1>6 DEF SameButLog
  <2>4. prog'[q] = prog[q] /\ tx'[q] = tx[q] /\ lock' = lock /\ acts' \in Nat /\ acts <= acts'
    BY <1>1, <1>2, <1>4, <1>9
  <2> QED
    BY <1>9, <2>1, <2>2, <2>3, <2>4, OthersAct
<1>10. Numbered'
  BY <1>1, NumbersKeep DEF Idle
<1>11. Audited'
  <2>1. \A m : Unwritten(m) <=> m = n \/ Unwritten(m)'
    <3> TAKE m
    <3> QED
      BY <1>1, <1>4 DEF Unwritten, Idle
  <2> QED
    BY <1>1, <1>3, <1>6, <2>1, AuditedMeans DEF DecInv, Accounted
<1>12. AcceptedIsHeld' /\ DecisionsKept
  BY <1>1, <1>6 DEF DecInv, AcceptedIsHeld, DecisionsKept, SameButLog
<1> QED
  BY <1>1, <1>5, <1>6, <1>8, <1>9, <1>10, <1>11, <1>12 DEF DecInv

(* A step that leaves the catalog, the acts done and the bounds alone, and *)
(* after which the program has no entry to write that it had not before.   *)
LEMMA QuietStep ==
    ASSUME DecInv, RecInv', NEW p \in Programs, NEW s, Become(p, s), ActOf(p)',
           UNCHANGED <<db, acts, done, overtaken>>, NEW x, tx' = [tx EXCEPT ![p] = x],
           crashes' \in 0 .. MaxCrashes, lock' \in Programs \cup {NoProgram},
           \A q \in Programs : q # p => (lock' = q <=> lock = q),
           s.at # "entry", s.at = "idle" \/ (Busy(p) /\ s.n = prog[p].n),
           lost' = IF prog[p].at = "entry" THEN lost \cup {prog[p].n} ELSE lost
    PROVE  DecInv' /\ DecisionsKept
<1>1. /\ prog'[p] = s /\ \A q \in Programs : q # p => prog'[q] = prog[q] /\ tx'[q] = tx[q]
  BY DEF DecInv, RecInv, Become
<1>2. ActOf(p) /\ acts \in Nat /\ Told' = Told
  BY DEF DecInv, Told
<1>3. ASSUME NEW q \in Programs, q # p PROVE ActOf(q)'
  <2>1. CASE Busy(p)
    <3>1. Busy(q) => prog[q].n # prog[p].n
      BY <1>3, <2>1 DEF DecInv, Numbered
    <3>2. /\ done \subseteq done' /\ done' \subseteq done \cup {prog[p].n}
          /\ Told' \subseteq Told \cup {prog[p].n} /\ lost' \subseteq lost \cup {prog[p].n}
          /\ DOMAIN db.colls \subseteq DOMAIN db'.colls
      BY <1>2
    <3> QED
      BY <1>1, <1>2, <1>3, <3>1, <3>2, OthersAct
  <2>2. CASE ~Busy(p)
    <3>1. PICK m : m = acts + 1
      OBVIOUS
    <3>2. Busy(q) => prog[q].n # m
      BY <1>2, <3>1 DEF DecInv, ActOf
    <3>3. /\ done \subseteq done' /\ done' \subseteq done \cup {m}
          /\ Told' \subseteq Told \cup {m} /\ lost' \subseteq lost \cup {m}
          /\ DOMAIN db.colls \subseteq DOMAIN db'.colls
      BY <1>2, <2>2 DEF Busy
    <3> QED
      BY <1>1, <1>2, <1>3, <3>2, <3>3, OthersAct
  <2> QED
    BY <2>1, <2>2
<1>4. Numbered'
  BY NumbersKeep
<1>5. lost' \subseteq done'
  BY <1>2 DEF DecInv, ActOf
<1>6. Audited'
  <2>1. \A m : Unwritten(m) <=> (prog[p].at = "entry" /\ m = prog[p].n) \/ Unwritten(m)'
    <3> TAKE m
    <3> QED
      BY <1>1 DEF Unwritten
  <2>2. prog[p].at = "entry" => prog[p].n \in done /\ prog[p].n \notin Told
    BY <1>2 DEF ActOf
  <2>3. Accounted
    BY AuditedMeans DEF DecInv
  <2>4. Accounted'
    <3>1. CASE prog[p].at = "entry"
      BY <1>2, <2>1, <2>2, <2>3, <3>1 DEF Accounted
    <3>2. CASE prog[p].at # "entry"
      BY <1>2, <2>1, <2>3, <3>2 DEF Accounted
    <3> QED
      BY <3>1, <3>2
  <2> QED
    BY <2>4, AuditedMeans
<1>7. AcceptedIsHeld' /\ DecisionsKept
  BY DEF DecInv, AcceptedIsHeld, DecisionsKept
<1> QED
  BY <1>3, <1>4, <1>5, <1>6, <1>7 DEF DecInv

LEMMA BeginDeferredDecides ==
    ASSUME DecInv, NEW p \in Programs, BeginDeferred(p) PROVE DecInv' /\ DecisionsKept
<1> DEFINE s == [prog[p] EXCEPT !.at = "body"]
           x == [is |-> "open", base |-> db, view |-> db]
<1>1. /\ prog[p].at = "begin" /\ tx' = [tx EXCEPT ![p] = x] /\ Become(p, s)
      /\ UNCHANGED <<db, lock, acts, crashes, done, lost, overtaken>>
  BY DEF BeginDeferred
<1>2. ActOf(p) /\ Busy(p) /\ Proper(db)
  BY <1>1 DEF DecInv, Busy
<1>3. DOMAIN s = {"at", "n", "req"} /\ s.n = prog[p].n /\ s.at = "body" /\ s.req = prog[p].req
  BY <1>2 DEF ActOf
<1>4. prog'[p] = s /\ tx'[p] = x /\ RecInv'
  BY <1>1, BeginDeferredHolds DEF DecInv, RecInv, Become
<1>5. tx'[p].view = db
  BY <1>4
<1> HIDE DEF s, x
<1>6. ActOf(p)'
  BY <1>1, <1>2, <1>3, <1>4, <1>5 DEF ActOf, Busy, Told
<1> QED
  BY <1>1, <1>2, <1>3, <1>4, <1>6, QuietStep DEF DecInv

LEMMA WriteBodyDecides ==
    ASSUME DecInv, NEW p \in Programs, WriteBody(p) PROVE DecInv' /\ DecisionsKept
<1> DEFINE s == [prog[p] EXCEPT !.at = "commit"]
<1>1. PICK t \in Titles :
        tx' = [tx EXCEPT ![p] = [is |-> "open", base |-> db,
                                 view |-> Result(prog[p].req, prog[p].n, View(p), t)]]
  BY DEF WriteBody
<1>2. /\ prog[p].at = "body" /\ CanWrite(p) /\ ~Stale(p) /\ Allowed(prog[p].req, View(p))
      /\ lock' = p /\ Become(p, s)
      /\ UNCHANGED <<db, acts, crashes, done, lost, overtaken>>
  BY DEF WriteBody
<1> DEFINE x == [is |-> "open", base |-> db, view |-> Result(prog[p].req, prog[p].n, View(p), t)]
<1>3. View(p) = db
  BY <1>2 DEF DecInv, RecInv, InTx, View, Stale
<1>4. ActOf(p) /\ Busy(p) /\ Proper(db) /\ acts \in 0 .. MaxActs /\ MaxActs \in Nat
  BY <1>2, RecordsAssumption DEF DecInv, Busy
<1>5. prog[p].n \in 1 .. MaxActs /\ FitsRequest(prog[p].req, db)
  BY <1>2, <1>4 DEF ActOf
<1>6. Serves(db, Result(prog[p].req, prog[p].n, db, t), prog[p].n)
  BY <1>2, <1>3, <1>4, <1>5, ResultServes
<1>7. DOMAIN s = {"at", "n", "req"} /\ s.n = prog[p].n /\ s.at = "commit"
  BY <1>4 DEF ActOf
<1>8. prog'[p] = s /\ tx'[p] = x /\ RecInv'
  BY <1>1, <1>2, WriteBodyHolds DEF DecInv, RecInv, Become
<1>9. x.view = Result(prog[p].req, prog[p].n, db, t)
  BY <1>3
<1>10. tx' = [tx EXCEPT ![p] = x]
  BY <1>1
<1> HIDE DEF s, x
<1>11. Serves(db, tx'[p].view, prog'[p].n)
  BY <1>6, <1>7, <1>8, <1>9
<1>12. Proper(tx'[p].view)
  BY <1>11 DEF Serves, Keeps
<1>13. ActOf(p)'
  BY <1>2, <1>4, <1>7, <1>8, <1>11, <1>12 DEF ActOf, Busy
<1>14. \A q \in Programs : q # p => lock # q
  BY <1>2, WriterIsAlone DEF DecInv
<1> QED
  BY <1>2, <1>4, <1>7, <1>8, <1>10, <1>13, <1>14, QuietStep DEF DecInv

(* Undoing: what stops between its change and its entry is lost. *)
LEMMA UndoDecides ==
    ASSUME DecInv, NEW p \in Programs, Rollback(p) \/ TimeOut(p) \/ Crash(p)
    PROVE  DecInv' /\ DecisionsKept
<1>1. /\ tx' = [tx EXCEPT ![p] = Closed] /\ Become(p, Idle)
      /\ UNCHANGED <<db, acts, done, overtaken>>
  BY DEF Rollback, TimeOut, Crash, Stop
<1>2. /\ lock' \in {lock, IF lock = p THEN NoProgram ELSE lock}
      /\ lost' = IF prog[p].at = "entry" THEN lost \cup {prog[p].n} ELSE lost
  BY DEF Rollback, TimeOut, Crash, Stop
<1>3. lock' # p
  <2>1. lock = p => prog[p].at = "commit"
    BY DEF DecInv, ActOf
  <2>2. lock = p => ~Rollback(p) /\ ~TimeOut(p)
    BY <2>1 DEF Rollback, TimeOut
  <2>3. CASE lock = p
    BY <2>2, <2>3, RecordsAssumption DEF Crash, Stop
  <2> QED
    BY <1>2, <2>3, RecordsAssumption
<1>4. RecInv'
  BY <1>1, <1>2, UndoHolds DEF DecInv
<1>5. prog'[p] = Idle /\ tx'[p] = Closed
  BY <1>1 DEF DecInv, RecInv, Become
<1>6. ActOf(p)'
  BY <1>3, <1>5 DEF ActOf, Busy, Opened, Idle, Closed
<1>7. crashes' \in 0 .. MaxCrashes
  BY RecordsAssumption DEF DecInv, Rollback, TimeOut, Crash, Stop
<1>8. /\ lock' \in Programs \cup {NoProgram}
      /\ \A q \in Programs : q # p => (lock' = q <=> lock = q)
  BY <1>2, RecordsAssumption DEF DecInv
<1>9. Idle.at = "idle"
  BY DEF Idle
<1> QED
  BY <1>1, <1>2, <1>4, <1>6, <1>7, <1>8, <1>9, QuietStep

LEMMA CommitDecides ==
    ASSUME DecInv, NEW p \in Programs, Commit(p) PROVE DecInv' /\ DecisionsKept
<1> DEFINE n == prog[p].n
<1>1. /\ prog[p].at = "commit" /\ db' = tx[p].view /\ done' = done \cup {n}
      /\ tx' = [tx EXCEPT ![p] = Closed] /\ lock' = NoProgram /\ Become(p, Idle)
      /\ UNCHANGED <<acts, crashes, lost, overtaken>>
  BY DEF Commit
<1>2. ActOf(p) /\ Busy(p) /\ acts \in Nat
  BY <1>1 DEF DecInv, Busy
<1>3. n \in 1 .. acts /\ n \notin done /\ lock = p /\ Serves(db, db', n)
  BY <1>1, <1>2 DEF ActOf
<1>4. Proper(db') /\ DOMAIN db.colls \subseteq DOMAIN db'.colls /\ Told' = Told \cup {n}
  BY <1>3, ToldMeans DEF Serves, Keeps
<1>5. /\ prog'[p] = Idle /\ tx'[p] = Closed
      /\ \A q \in Programs : q # p => prog'[q] = prog[q] /\ tx'[q] = tx[q]
  BY <1>1 DEF DecInv, RecInv, Become
<1>6. RecInv'
  BY CommitHolds DEF DecInv
<1>7. ActOf(p)'
  BY <1>1, <1>5, RecordsAssumption DEF ActOf, Busy, Opened, Idle, Closed
<1>8. ASSUME NEW q \in Programs, q # p PROVE ActOf(q)'
  <2>1. Busy(q) => prog[q].n # n
    BY <1>2, <1>8 DEF DecInv, Numbered
  <2>2. prog[q].at # "commit" /\ lock # q /\ lock' # q
    BY <1>1, <1>3, <1>8, WriterIsAlone, RecordsAssumption DEF DecInv, CanWrite
  <2>3. /\ done \subseteq done' /\ done' \subseteq done \cup {n}
        /\ Told' \subseteq Told \cup {n} /\ lost' \subseteq lost \cup {n}
    BY <1>1, <1>4
  <2>4. prog'[q] = prog[q] /\ tx'[q] = tx[q] /\ acts' \in Nat /\ acts <= acts'
    BY <1>1, <1>2, <1>5, <1>8
  <2> QED
    BY <1>4, <1>8, <2>1, <2>2, <2>3, <2>4, OthersAct
<1>9. Numbered'
  BY <1>1, NumbersKeep DEF Idle
<1>10. Audited'
  <2>1. \A m : Unwritten(m)' <=> Unwritten(m)
    <3> TAKE m
    <3> QED
      BY <1>1, <1>5 DEF Unwritten, Idle
  <2>2. n \notin Told \cup lost
    BY <1>3 DEF DecInv, Audited
  <2> QED
    BY <1>1, <1>4, <2>1, <2>2, AuditedMeans DEF DecInv, Accounted
<1>11. AcceptedIsHeld' /\ DecisionsKept
  BY <1>1, <1>3 DEF DecInv, AcceptedIsHeld, DecisionsKept, Serves, Keeps, HeldAsDecided
<1>12. done' \subseteq 1 .. acts' /\ lost' \subseteq done'
  BY <1>1, <1>3 DEF DecInv
<1>13. lock' \in Programs \cup {NoProgram}
  BY <1>1
<1> QED
  BY <1>1, <1>4, <1>6, <1>7, <1>8, <1>9, <1>10, <1>11, <1>12, <1>13 DEF DecInv

LEMMA StepDecides ==
    DecInv /\ [RecordsNext]_recordVars => DecInv' /\ DecisionsKept
<1> SUFFICES ASSUME DecInv, [RecordsNext]_recordVars PROVE DecInv' /\ DecisionsKept  OBVIOUS
<1>1. CASE UNCHANGED recordVars
  <2>1. RecInv'
    BY <1>1, StepHolds DEF DecInv
  <2>2. UNCHANGED <<db, tx, lock, prog, acts, crashes, done, lost, overtaken>>
    BY <1>1 DEF recordVars
  <2>3. \A p \in Programs : ActOf(p)'
    BY <2>2 DEF DecInv, ActOf, Busy, Opened, Told
  <2>4. Numbered' /\ Audited' /\ AcceptedIsHeld' /\ DecisionsKept
    BY <2>2 DEF DecInv, Numbered, Busy, Audited, Told, AcceptedIsHeld, DecisionsKept
  <2> QED
    BY <2>1, <2>2, <2>3, <2>4 DEF DecInv
<1>2. ASSUME NEW p \in Programs,
             \/ Ask(p) \/ ChangePlainly(p) \/ AppendEntry(p) \/ BeginDeferred(p)
             \/ WriteBody(p) \/ Rollback(p) \/ Commit(p) \/ TimeOut(p) \/ Crash(p)
      PROVE  DecInv' /\ DecisionsKept
  BY <1>2, AskDecides, ChangePlainlyDecides, AppendEntryDecides, BeginDeferredDecides,
     WriteBodyDecides, UndoDecides, CommitDecides
<1> QED
  BY <1>1, <1>2 DEF RecordsNext

LEMMA InitDecides == RecordsInit => DecInv
<1> SUFFICES ASSUME RecordsInit PROVE DecInv  OBVIOUS
<1>1. RecInv
  BY InitHolds
<1>2. /\ DOMAIN db = Fields /\ db.cand = [f \in Folders |-> "none"] /\ db.rules = {}
      /\ db.colls = <<>> /\ db.plans = <<>> /\ db.versions = 0 /\ db.log = <<>>
  BY DEF RecordsInit, Fields
<1>3. \A S : <<>> \in Seq(S)
  OBVIOUS
<1>4. db.cand \in [Folders -> Statuses] /\ DOMAIN db.log = {} /\ 0 \in 0 .. MaxActs
  BY <1>2, RecordsAssumption DEF Statuses
<1>5. IsCatalog(db)
  BY <1>2, <1>3, <1>4 DEF IsCatalog
<1>6. Proper(db)
  BY <1>1, <1>2, <1>5 DEF Proper, RecInv
<1>7. \A p \in Programs : prog[p] = Idle /\ ~Opened(p) /\ lock # p
  BY RecordsAssumption DEF RecordsInit, Opened, Closed
<1>8. \A p \in Programs : ActOf(p)
  BY <1>7 DEF ActOf, Busy, Idle
<1>9. Numbered
  BY <1>7 DEF Numbered, Busy, Idle
<1>10. Audited
  <2>1. Told = {}
    BY <1>4 DEF Told
  <2> QED
    BY <1>7, <2>1 DEF Audited, Idle, RecordsInit
<1>11. AcceptedIsHeld
  <2>1. \A f \in Folders : {r \in db.rules : r.dir = f} = {} /\ db.cand[f] = "none"
    BY <1>2
  <2> QED
    BY <2>1, FS_EmptySet DEF AcceptedIsHeld
<1> QED
  BY <1>1, <1>6, <1>8, <1>9, <1>10, <1>11, RecordsAssumption DEF DecInv, RecordsInit

LEMMA DecInvHolds == RecordsSpec => []DecInv
<1>1. DecInv /\ [RecordsNext]_recordVars => DecInv'
  BY StepDecides
<1> QED
  BY InitDecides, <1>1, PTL DEF RecordsSpec

(* The catalog the programs share, and the one each transaction is about   *)
(* to commit, are well formed, and who holds the lock is who commits       *)
(* (core/store/curation.py, plans.py, audit.py).                           *)
THEOREM RecordsTyped == RecordsSpec => []RecordsTypeOK
<1>1. DecInv => RecordsTypeOK
  <2> SUFFICES ASSUME DecInv PROVE RecordsTypeOK  OBVIOUS
  <2>1. ASSUME NEW p \in Programs
        PROVE  /\ prog[p].at \in {"idle", "change", "entry", "begin", "body", "commit"}
               /\ prog[p] # Idle => prog[p].n \in 1 .. acts
               /\ Opened(p) => IsCatalog(tx[p].view)
               /\ lock = p <=> prog[p].at = "commit"
    BY DEF DecInv, ActOf, Busy, Idle, Proper
  <2> QED
    BY <2>1 DEF DecInv, Proper, RecordsTypeOK
<1> QED
  BY <1>1, DecInvHolds, PTL

(* Every change that was committed is in the audit log, once its entry had *)
(* the time to be written, unless it was lost to a crash or to a lock held *)
(* for too long; and the log tells of no act whose change was not          *)
(* committed (core/store/audit.py, curation.py).                           *)
THEOREM EveryChangeAudited == RecordsSpec => []Audited
<1>1. DecInv => Audited
  BY DEF DecInv
<1> QED
  BY <1>1, DecInvHolds, PTL

(* A folder is in exactly one collection when it was accepted and in none  *)
(* otherwise, whoever else decides at the same time, unless a rejection    *)
(* came after another decision (core/store/curation.py, accept_candidate). *)
THEOREM AcceptanceGivesOneHolder == RecordsSpec => []AcceptedIsHeld
<1>1. DecInv => AcceptedIsHeld
  BY DEF DecInv
<1> QED
  BY <1>1, DecInvHolds, PTL

(* A decision is never taken back: no later inference, split, acceptance   *)
(* or rejection changes it, but for a rejection that overtakes it          *)
(* (core/curate, core/store/curation.py).                                  *)
THEOREM DecisionsStand == RecordsSpec => DecisionStands
<1>1. DecInv /\ [RecordsNext]_recordVars =>
        [\A f \in Folders \ overtaken' :
           db.cand[f] \in {"accepted", "rejected"} => db'.cand[f] = db.cand[f]]_recordVars
  BY StepDecides DEF DecisionsKept, Decided
<1> QED
  BY <1>1, DecInvHolds, PTL DEF RecordsSpec, DecisionStands

-----------------------------------------------------------------------------
(***************************************************************************)
(* Export packages.                                                        *)
(*                                                                         *)
(* The argument is that a folder has one program that works in it: it is   *)
(* the program that made it, and nobody enters a folder that exists.  That *)
(* program has written each body file, or has it still to write, until the *)
(* manifest is its only one left.                                          *)
(***************************************************************************)

Inside == {"paths", "rows", "write", "fill", "record"}
Writing == {"write", "fill"}

(* A program past the making of its folder. *)
Works(e) == job[e].at \in Inside

(* It knows which kind it makes, and under which number. *)
KnowsItsFolder(e) ==
    /\ "at" \in DOMAIN job[e]
    /\ job[e].at = "resting" <=> job[e] = Resting
    /\ job[e].at # "resting" => "i" \in DOMAIN job[e] /\ job[e].i \in 1 .. Len(Kinds)
    /\ job[e].at \in Inside \cup {"mkdir"} =>
         "number" \in DOMAIN job[e] /\ job[e].number \in 1 .. MaxFolders

InLeft(e, f) == \E i \in DOMAIN job[e].left : job[e].left[i] = f

There(e, f) == f \in DOMAIN folder[Name(e)] /\ folder[Name(e)][f] = Whole(e)

(* All in its folder is its own. *)
Owns(e) ==
    /\ Name(e) \in DOMAIN folder
    /\ \A f \in DOMAIN folder[Name(e)] : folder[Name(e)][f].by = e

(* Each file of the body is there or is left to be written, and the        *)
(* manifest comes when nothing else is.                                    *)
Writes(e) ==
    /\ "left" \in DOMAIN job[e]
    /\ job[e].left \in Seq(BodyNames \cup {Manifest})
    /\ \A f \in BodyFiles(Name(e)) : There(e, f) \/ InLeft(e, f)
    /\ InLeft(e, Manifest) => job[e].left = <<Manifest>>
    /\ Manifest \in DOMAIN folder[Name(e)] =>
         /\ job[e].at = "fill" /\ job[e].left = <<Manifest>>
         /\ ~folder[Name(e)][Manifest].whole
    /\ job[e].at = "fill" =>
         /\ job[e].left # <<>>
         /\ Head(job[e].left) \in DOMAIN folder[Name(e)]

Complete(n) ==
    \A f \in BodyFiles(n) : f \in DOMAIN folder[n] /\ folder[n][f] = Whole(folder[n][Manifest].by)

JobInv(e) ==
    /\ KnowsItsFolder(e)
    /\ Works(e) => Owns(e)
    /\ job[e].at \in {"paths", "rows"} => Manifest \notin DOMAIN folder[Name(e)]
    /\ job[e].at \in Writing => Writes(e)
    /\ job[e].at = "record" => Finished(Name(e))

(* No two programs work in one folder. *)
Alone == \A e, d \in Exporters : e # d /\ Works(e) /\ Works(d) => Name(e) # Name(d)

BundlesInv ==
    /\ DOMAIN job = Exporters
    /\ \A e \in Exporters : JobInv(e)
    /\ Alone
    /\ exportRow \subseteq {n \in DOMAIN folder : Finished(n)}
    /\ \A n \in DOMAIN folder : Finished(n) => Complete(n)

-----------------------------------------------------------------------------
LEMMA BodyIsNames ==
    ASSUME NEW n, n[1] \in KindSet
    PROVE  /\ FilesOf[n[1]] \in Seq(BodyNames)
           /\ BodyFiles(n) \subseteq BodyNames
           /\ Manifest \notin BodyFiles(n)
<1>1. FilesOf[n[1]] \in Seq(BodyNames)
  BY BundlesAssumption
<1>2. BodyFiles(n) \subseteq BodyNames
  BY DEF BodyFiles, BodyNames
<1> QED
  BY <1>1, <1>2, BundlesAssumption

LEMMA NameIsName ==
    ASSUME NEW e, KnowsItsFolder(e), job[e].at \in Inside \cup {"mkdir"}
    PROVE  Name(e)[1] \in KindSet /\ Name(e)[1] = Kind(e)
<1>1. job[e].i \in 1 .. Len(Kinds)
  BY DEF KnowsItsFolder, Inside
<1>2. Kinds[job[e].i] \in KindSet
  BY <1>1, BundlesAssumption
<1> QED
  BY <1>2 DEF Name, Kind

LEMMA ExportersStart == BundlesInit => BundlesInv
<1> SUFFICES ASSUME BundlesInit PROVE BundlesInv  OBVIOUS
<1>1. DOMAIN job = Exporters /\ \A e \in Exporters : job[e] = Resting
  BY DEF BundlesInit
<1>2. DOMAIN folder = {} /\ exportRow = {}
  BY DEF BundlesInit
<1>3. Resting.at = "resting" /\ "at" \in DOMAIN Resting
  BY DEF Resting
<1>4. \A e \in Exporters : JobInv(e) /\ ~Works(e)
  BY <1>1, <1>3 DEF JobInv, KnowsItsFolder, Works, Inside, Writing
<1> QED
  BY <1>1, <1>2, <1>4 DEF BundlesInv, Alone

(* What is done outside a program's folder, and not to the program, leaves *)
(* it as it was.                                                           *)
LEMMA OtherExportersKeep ==
    ASSUME NEW e \in Exporters, JobInv(e), job'[e] = job[e],
           Works(e) => Name(e) \in DOMAIN folder' /\ folder'[Name(e)] = folder[Name(e)]
    PROVE  JobInv(e)' /\ Name(e)' = Name(e) /\ Works(e)' = Works(e)
<1>1. Name(e)' = Name(e) /\ Works(e)' = Works(e) /\ KnowsItsFolder(e)'
  BY DEF JobInv, Name, Kind, Works, KnowsItsFolder
<1>2. (Works(e) => Owns(e))'
  BY <1>1 DEF JobInv, Owns
<1>3. (job[e].at \in Writing => Writes(e))'
  <2> SUFFICES ASSUME job[e].at \in Writing PROVE Writes(e)'
    OBVIOUS
  <2>1. Works(e) /\ Writes(e)
    BY DEF Works, Inside, Writing, JobInv
  <2>2. folder'[Name(e)] = folder[Name(e)] /\ UNCHANGED <<Name(e)>>
    BY <1>1, <2>1
  <2>3. \A f : There(e, f)' = There(e, f) /\ InLeft(e, f)' = InLeft(e, f)
    BY <2>2 DEF There, InLeft
  <2> QED
    BY <1>1, <2>1, <2>2, <2>3 DEF Writes, BodyFiles
<1>4. (job[e].at = "record" => Finished(Name(e)))'
  <2> SUFFICES ASSUME job[e].at = "record" PROVE Finished(Name(e))'
    OBVIOUS
  <2>1. Works(e) /\ Finished(Name(e))
    BY DEF Works, Inside, JobInv
  <2> QED
    BY <1>1, <2>1 DEF Finished
<1>5. (job[e].at \in {"paths", "rows"} => Manifest \notin DOMAIN folder[Name(e)])'
  BY <1>1 DEF JobInv, Works, Inside
<1> QED
  BY <1>1, <1>2, <1>3, <1>4, <1>5 DEF JobInv

(* A step of one program that leaves the folders as they are and does not  *)
(* begin to work in another. *)
LEMMA FoldersKept ==
    ASSUME BundlesInv, NEW e \in Exporters, NEW j, Turn(e, j),
           UNCHANGED <<folder, exportRow>>, JobInv(e)',
           Works(e)' => Works(e) /\ Name(e)' = Name(e)
    PROVE  BundlesInv'
<1>1. DOMAIN job' = Exporters /\ \A d \in Exporters : d # e => job'[d] = job[d]
  BY DEF BundlesInv, Turn
<1>2. ASSUME NEW d \in Exporters, d # e
      PROVE  JobInv(d)' /\ Name(d)' = Name(d) /\ Works(d)' = Works(d)
  <2>1. JobInv(d) /\ job'[d] = job[d] /\ (Works(d) => Name(d) \in DOMAIN folder)
    BY <1>1, <1>2 DEF BundlesInv, JobInv, Owns
  <2> QED
    BY <2>1, OtherExportersKeep
<1>3. Alone'
  BY <1>2 DEF BundlesInv, Alone
<1>4. (\A n \in DOMAIN folder : Finished(n) => Complete(n))'
  BY DEF BundlesInv, Finished, Complete, BodyFiles
<1>5. (exportRow \subseteq {n \in DOMAIN folder : Finished(n)})'
  BY DEF BundlesInv, Finished
<1> QED
  BY <1>1, <1>2, <1>3, <1>4, <1>5 DEF BundlesInv

LEMMA RestingHolds ==
    ASSUME BundlesInv, NEW e \in Exporters, Turn(e, Resting), UNCHANGED <<folder, exportRow>>
    PROVE  BundlesInv'
<1>1. job'[e] = Resting /\ Resting.at = "resting" /\ "at" \in DOMAIN Resting
  BY DEF BundlesInv, Turn, Resting
<1>2. JobInv(e)' /\ ~Works(e)'
  BY <1>1 DEF JobInv, KnowsItsFolder, Works, Inside, Writing
<1> QED
  BY <1>2, FoldersKept

LEMMA OpenBundleHolds ==
    ASSUME BundlesInv, NEW e \in Exporters, OpenBundle(e) PROVE BundlesInv'
<1>1. /\ job[e].at \in {"resting", "next"} /\ KnowsItsFolder(e)
      /\ UNCHANGED <<folder, exportRow>>
  BY DEF OpenBundle, BundlesInv, JobInv
<1>2. PICK i \in 1 .. Len(Kinds) : Turn(e, [at |-> "mkdir", i |-> i, number |-> 1])
  <2>1. 1 \in 1 .. Len(Kinds)
    BY BundlesAssumption
  <2>2. CASE job[e] = Resting
    BY <2>1, <2>2 DEF OpenBundle
  <2>3. CASE job[e] # Resting
    BY <1>1, <2>3 DEF OpenBundle, KnowsItsFolder
  <2> QED
    BY <2>2, <2>3
<1>3. job'[e] = [at |-> "mkdir", i |-> i, number |-> 1]
  BY <1>2 DEF BundlesInv, Turn
<1>4. 1 \in 1 .. MaxFolders
  BY BundlesAssumption
<1>5. job'[e] # Resting
  BY <1>3 DEF Resting
<1>6. KnowsItsFolder(e)' /\ job'[e].at = "mkdir"
  BY <1>3, <1>4, <1>5 DEF KnowsItsFolder
<1>7. JobInv(e)' /\ ~Works(e)'
  BY <1>6 DEF JobInv, Works, Inside, Writing
<1> QED
  BY <1>1, <1>2, <1>7, FoldersKept

LEMMA MakeFolderHolds ==
    ASSUME BundlesInv, NEW e \in Exporters, MakeFolder(e) PROVE BundlesInv'
<1>1. job[e].at = "mkdir" /\ KnowsItsFolder(e) /\ UNCHANGED exportRow
  BY DEF MakeFolder, BundlesInv, JobInv
<1>2. /\ {"at", "i", "number"} \subseteq DOMAIN job[e] /\ job[e] # Resting
      /\ job[e].i \in 1 .. Len(Kinds) /\ job[e].number \in 1 .. MaxFolders
  BY <1>1 DEF KnowsItsFolder
<1>3. CASE Taken(Name(e)) /\ job[e].number < MaxFolders
  <2>1. Turn(e, [job[e] EXCEPT !.number = @ + 1]) /\ UNCHANGED folder
    BY <1>3 DEF MakeFolder
  <2>2. job'[e] = [job[e] EXCEPT !.number = @ + 1]
    BY <2>1 DEF BundlesInv, Turn
  <2>3. job[e].number + 1 \in 1 .. MaxFolders
    BY <1>2, <1>3, BundlesAssumption
  <2>4. /\ job'[e].at = "mkdir" /\ job'[e].i = job[e].i /\ job'[e].number = job[e].number + 1
        /\ {"at", "i", "number"} \subseteq DOMAIN job'[e]
    BY <1>1, <1>2, <2>2
  <2>5. job'[e] # Resting
    BY <2>4 DEF Resting
  <2>6. KnowsItsFolder(e)'
    BY <1>2, <2>3, <2>4, <2>5 DEF KnowsItsFolder
  <2>7. JobInv(e)' /\ ~Works(e)'
    BY <2>4, <2>6 DEF JobInv, Works, Inside, Writing
  <2> QED
    BY <1>1, <2>1, <2>7, FoldersKept
<1>4. CASE Taken(Name(e)) /\ ~(job[e].number < MaxFolders)
  <2>1. Turn(e, Resting) /\ UNCHANGED folder
    BY <1>4 DEF MakeFolder
  <2> QED
    BY <1>1, <2>1, RestingHolds
<1>5. CASE ~Taken(Name(e))
  <2> DEFINE new == [at |-> "paths", i |-> job[e].i, number |-> job[e].number]
  <2>1. /\ folder' = [n \in DOMAIN folder \cup {Name(e)} |->
                        IF n = Name(e) THEN <<>> ELSE folder[n]]
        /\ Turn(e, new)
    BY <1>5 DEF MakeFolder
  <2>2. job'[e] = new /\ DOMAIN job' = Exporters /\ \A d \in Exporters : d # e => job'[d] = job[d]
    BY <2>1 DEF BundlesInv, Turn
  <2>3. /\ job'[e].at = "paths" /\ job'[e].i = job[e].i /\ job'[e].number = job[e].number
        /\ {"at", "i", "number"} \subseteq DOMAIN job'[e]
    BY <2>2
  <2>4. Name(e)' = Name(e)
    BY <2>3 DEF Name, Kind
  <2>5. Name(e) \notin DOMAIN folder /\ DOMAIN folder' = DOMAIN folder \cup {Name(e)}
    BY <1>5, <2>1 DEF Taken
  <2>6. /\ \A n \in DOMAIN folder : folder'[n] = folder[n]
        /\ DOMAIN folder'[Name(e)] = {}
    BY <2>1, <2>5
  <2>7. job'[e] # Resting
    BY <2>3 DEF Resting
  <2>8. JobInv(e)'
    BY <1>2, <2>3, <2>4, <2>5, <2>6, <2>7 DEF JobInv, KnowsItsFolder, Owns, Works, Inside, Writing
  <2>9. ASSUME NEW d \in Exporters, d # e
        PROVE  /\ JobInv(d)' /\ Name(d)' = Name(d) /\ Works(d)' = Works(d)
               /\ Works(d) => Name(d) # Name(e)
    <3>1. JobInv(d) /\ job'[d] = job[d] /\ (Works(d) => Name(d) \in DOMAIN folder)
      BY <2>2, <2>9 DEF BundlesInv, JobInv, Owns
    <3> QED
      BY <2>5, <2>6, <3>1, OtherExportersKeep
  <2>10. Alone'
    BY <2>4, <2>9 DEF BundlesInv, Alone
  <2>11. \A n \in DOMAIN folder' : Finished(n)' => n \in DOMAIN folder /\ Finished(n) /\ Complete(n)'
    BY <2>5, <2>6 DEF BundlesInv, Finished, Complete, BodyFiles
  <2>12. \A n \in DOMAIN folder : Finished(n) => Finished(n)' /\ n \in DOMAIN folder'
    BY <2>5, <2>6 DEF Finished
  <2> QED
    BY <1>1, <2>2, <2>8, <2>9, <2>10, <2>11, <2>12 DEF BundlesInv
<1> QED
  BY <1>3, <1>4, <1>5

LEMMA ReadPathsHolds ==
    ASSUME BundlesInv, NEW e \in Exporters, ReadPaths(e) PROVE BundlesInv'
<1> DEFINE new == [at |-> "rows", i |-> job[e].i, number |-> job[e].number, seen |-> generation]
<1>1. /\ job[e].at = "paths" /\ JobInv(e) /\ Turn(e, new) /\ UNCHANGED <<folder, exportRow>>
  BY DEF ReadPaths, BundlesInv
<1>2. job'[e] = new
  BY <1>1 DEF BundlesInv, Turn
<1>3. /\ job'[e].at = "rows" /\ job'[e].i = job[e].i /\ job'[e].number = job[e].number
      /\ {"at", "i", "number"} \subseteq DOMAIN job'[e]
  BY <1>2
<1>4. Name(e)' = Name(e) /\ job'[e] # Resting
  BY <1>3 DEF Name, Kind, Resting
<1>5. Works(e) /\ Owns(e) /\ KnowsItsFolder(e) /\ Manifest \notin DOMAIN folder[Name(e)]
  BY <1>1 DEF JobInv, Works, Inside
<1>6. KnowsItsFolder(e)' /\ Owns(e)'
  BY <1>1, <1>3, <1>4, <1>5 DEF KnowsItsFolder, Owns, Inside
<1>7. JobInv(e)'
  BY <1>1, <1>3, <1>4, <1>5, <1>6 DEF JobInv, Writing
<1> QED
  BY <1>1, <1>4, <1>5, <1>7, FoldersKept

LEMMA ReadRowsHolds ==
    ASSUME BundlesInv, NEW e \in Exporters, ReadRows(e) PROVE BundlesInv'
<1> DEFINE new == [at |-> "write", i |-> job[e].i, number |-> job[e].number,
                   left |-> FilesOf[Kind(e)]]
<1>1. job[e].at = "rows" /\ JobInv(e) /\ UNCHANGED <<folder, exportRow>>
  BY DEF ReadRows, BundlesInv
<1>2. CASE generation # job[e].seen
  BY <1>1, <1>2, RestingHolds DEF ReadRows
<1>3. CASE generation = job[e].seen
  <2>1. Turn(e, new)
    BY <1>3 DEF ReadRows
  <2>2. job'[e] = new
    BY <2>1 DEF BundlesInv, Turn
  <2>3. /\ job'[e].at = "write" /\ job'[e].i = job[e].i /\ job'[e].number = job[e].number
        /\ job'[e].left = FilesOf[Kind(e)] /\ {"at", "i", "number", "left"} \subseteq DOMAIN job'[e]
    BY <2>2
  <2>4. Name(e)' = Name(e) /\ job'[e] # Resting
    BY <2>3 DEF Name, Kind, Resting
  <2>5. Works(e) /\ Owns(e) /\ KnowsItsFolder(e) /\ Manifest \notin DOMAIN folder[Name(e)]
    BY <1>1 DEF JobInv, Works, Inside
  <2>6. KnowsItsFolder(e)' /\ Owns(e)'
    BY <1>1, <2>3, <2>4, <2>5 DEF KnowsItsFolder, Owns, Inside
  <2>7. Name(e)[1] \in KindSet /\ Name(e)[1] = Kind(e)
    BY <1>1, <2>5, NameIsName DEF Inside
  <2>8. Writes(e)'
    <3>1. FilesOf[Kind(e)] \in Seq(BodyNames) /\ Manifest \notin BodyNames
      BY <2>7, BundlesAssumption
    <3>2. job'[e].left \in Seq(BodyNames \cup {Manifest})
      BY <2>3, <3>1
    <3>3. \A f \in BodyFiles(Name(e)) : InLeft(e, f)'
      BY <2>3, <2>7 DEF BodyFiles, InLeft
    <3>4. ~InLeft(e, Manifest)'
      BY <2>3, <3>1 DEF InLeft
    <3>5. Manifest \notin DOMAIN folder'[Name(e)']
      BY <1>1, <2>4, <2>5
    <3> QED
      BY <2>3, <2>4, <3>2, <3>3, <3>4, <3>5 DEF Writes, BodyFiles
  <2>9. JobInv(e)'
    BY <2>3, <2>6, <2>8 DEF JobInv
  <2> QED
    BY <1>1, <2>1, <2>4, <2>5, <2>9, FoldersKept
<1> QED
  BY <1>2, <1>3

LEMMA CloseHolds ==
    ASSUME BundlesInv, NEW e \in Exporters, Close(e) PROVE BundlesInv'
<1>1. /\ job[e].at = "write" /\ job[e].left = <<>> /\ JobInv(e)
      /\ UNCHANGED <<folder, exportRow>> /\ Turn(e, [job[e] EXCEPT !.left = <<Manifest>>])
  BY DEF Close, Closable, BundlesInv
<1>2. Works(e) /\ Owns(e) /\ KnowsItsFolder(e) /\ Writes(e)
  BY <1>1 DEF JobInv, Works, Inside, Writing
<1>3. {"at", "i", "number", "left"} \subseteq DOMAIN job[e]
  BY <1>1, <1>2 DEF KnowsItsFolder, Writes, Inside
<1>4. job'[e] = [job[e] EXCEPT !.left = <<Manifest>>]
  BY <1>1 DEF BundlesInv, Turn
<1>5. /\ job'[e].at = "write" /\ job'[e].i = job[e].i /\ job'[e].number = job[e].number
      /\ job'[e].left = <<Manifest>> /\ {"at", "i", "number", "left"} \subseteq DOMAIN job'[e]
  BY <1>1, <1>3, <1>4
<1>6. Name(e)' = Name(e) /\ job'[e] # Resting
  BY <1>5 DEF Name, Kind, Resting
<1>7. KnowsItsFolder(e)' /\ Owns(e)'
  BY <1>1, <1>2, <1>5, <1>6 DEF KnowsItsFolder, Owns, Inside
<1>8. Writes(e)'
  <2>1. \A f \in BodyFiles(Name(e)) : There(e, f)
    BY <1>1, <1>2 DEF Writes, InLeft
  <2>2. \A f \in BodyFiles(Name(e))' : There(e, f)'
    BY <1>1, <1>6, <2>1 DEF There, BodyFiles
  <2>3. Manifest \notin DOMAIN folder'[Name(e)']
    BY <1>1, <1>2, <1>6 DEF Writes
  <2>4. job'[e].left \in Seq(BodyNames \cup {Manifest})
    BY <1>5
  <2> QED
    BY <1>5, <2>2, <2>3, <2>4 DEF Writes
<1>9. JobInv(e)'
  BY <1>5, <1>7, <1>8 DEF JobInv
<1> QED
  BY <1>1, <1>2, <1>6, <1>9, FoldersKept

LEMMA RecordHolds ==
    ASSUME BundlesInv, NEW e \in Exporters, Record(e) PROVE BundlesInv'
<1>1. /\ job[e].at = "record" /\ JobInv(e) /\ UNCHANGED folder
      /\ exportRow' = exportRow \cup {Name(e)}
  BY DEF Record, BundlesInv
<1>2. Finished(Name(e)) /\ Name(e) \in DOMAIN folder /\ job[e].i \in 1 .. Len(Kinds)
  BY <1>1 DEF JobInv, Works, Inside, Owns, KnowsItsFolder
<1>3. JobInv(e)' /\ ~Works(e)' /\ \E j : Turn(e, j)
  <2>1. CASE job[e].i < Len(Kinds)
    <3>1. Turn(e, [at |-> "next", i |-> job[e].i + 1])
      BY <2>1 DEF Record
    <3>2. job'[e] = [at |-> "next", i |-> job[e].i + 1]
      BY <3>1 DEF BundlesInv, Turn
    <3>3. /\ job'[e].at = "next" /\ job'[e].i = job[e].i + 1 /\ {"at", "i"} \subseteq DOMAIN job'[e]
          /\ job'[e] # Resting
      BY <3>2 DEF Resting
    <3>4. job[e].i + 1 \in 1 .. Len(Kinds)
      BY <1>2, <2>1, BundlesAssumption
    <3> QED
      BY <3>1, <3>3, <3>4 DEF JobInv, KnowsItsFolder, Works, Inside, Writing
  <2>2. CASE ~(job[e].i < Len(Kinds))
    <3>1. Turn(e, Resting)
      BY <2>2 DEF Record
    <3>2. job'[e] = Resting /\ Resting.at = "resting" /\ "at" \in DOMAIN Resting
      BY <3>1 DEF BundlesInv, Turn, Resting
    <3> QED
      BY <3>1, <3>2 DEF JobInv, KnowsItsFolder, Works, Inside, Writing
  <2> QED
    BY <2>1, <2>2
<1>4. DOMAIN job' = Exporters /\ \A d \in Exporters : d # e => job'[d] = job[d]
  BY <1>3 DEF BundlesInv, Turn
<1>5. ASSUME NEW d \in Exporters, d # e
      PROVE  JobInv(d)' /\ Name(d)' = Name(d) /\ Works(d)' = Works(d)
  <2>1. JobInv(d) /\ job'[d] = job[d] /\ (Works(d) => Name(d) \in DOMAIN folder)
    BY <1>4, <1>5 DEF BundlesInv, JobInv, Owns
  <2> QED
    BY <1>1, <2>1, OtherExportersKeep
<1>6. Alone'
  BY <1>3, <1>5 DEF BundlesInv, Alone
<1>7. (\A n \in DOMAIN folder : Finished(n) => Complete(n))'
  BY <1>1 DEF BundlesInv, Finished, Complete, BodyFiles
<1>8. (exportRow \subseteq {n \in DOMAIN folder : Finished(n)})'
  BY <1>1, <1>2 DEF BundlesInv, Finished
<1> QED
  BY <1>3, <1>4, <1>5, <1>6, <1>7, <1>8 DEF BundlesInv

(* A step of a program in its own folder, which is not finished yet. *)
LEMMA FolderWritten ==
    ASSUME BundlesInv, NEW e \in Exporters, NEW j, Turn(e, j), UNCHANGED exportRow,
           Works(e), Name(e)' = Name(e), JobInv(e)',
           DOMAIN folder' = DOMAIN folder,
           \A n \in DOMAIN folder : n # Name(e) => folder'[n] = folder[n],
           ~Finished(Name(e)), Finished(Name(e))' => Complete(Name(e))'
    PROVE  BundlesInv'
<1>1. DOMAIN job' = Exporters /\ \A d \in Exporters : d # e => job'[d] = job[d]
  BY DEF BundlesInv, Turn
<1>2. ASSUME NEW d \in Exporters, d # e
      PROVE  JobInv(d)' /\ Name(d)' = Name(d) /\ Works(d)' = Works(d)
  <2>1. /\ JobInv(d) /\ job'[d] = job[d] /\ (Works(d) => Name(d) \in DOMAIN folder)
        /\ Works(d) => Name(d) # Name(e)
    BY <1>1, <1>2 DEF BundlesInv, JobInv, Owns, Alone
  <2> QED
    BY <2>1, OtherExportersKeep
<1>3. Alone'
  BY <1>2 DEF BundlesInv, Alone
<1>4. ASSUME NEW n \in DOMAIN folder', Finished(n)' PROVE Complete(n)'
  <2>1. CASE n = Name(e)
    BY <1>4, <2>1
  <2>2. CASE n # Name(e)
    <3>1. n \in DOMAIN folder /\ folder'[n] = folder[n]
      BY <2>2
    <3>2. Finished(n)
      BY <1>4, <3>1 DEF Finished
    <3>3. Complete(n)
      BY <3>1, <3>2 DEF BundlesInv
    <3> QED
      BY ONLY <3>1, <3>3 DEF Complete, BodyFiles
  <2> QED
    BY <2>1, <2>2
<1>5. (exportRow \subseteq {n \in DOMAIN folder : Finished(n)})'
  BY DEF BundlesInv, Finished
<1> QED
  BY <1>1, <1>2, <1>3, <1>4, <1>5 DEF BundlesInv

LEMMA WrittenOnce ==
    ASSUME NEW e
    PROVE  /\ Partial(e).by = e /\ ~Partial(e).whole
           /\ Whole(e).by = e /\ Whole(e).whole
BY Zenon DEF Partial, Whole

LEMMA WriteHolds ==
    ASSUME BundlesInv, NEW e \in Exporters, Write(e) PROVE BundlesInv'
<1> DEFINE n == Name(e)
           file == Head(job[e].left)
<1>1. /\ job[e].at = "write" /\ job[e].left # <<>> /\ JobInv(e) /\ UNCHANGED exportRow
      /\ Turn(e, [job[e] EXCEPT !.at = "fill"])
      /\ file \notin DOMAIN folder[n]
      /\ folder' = [folder EXCEPT ![n] =
                      [f \in DOMAIN @ \cup {file} |-> IF f = file THEN Partial(e) ELSE @[f]]]
  BY DEF Write, Create, BundlesInv
<1>2. Works(e) /\ Owns(e) /\ KnowsItsFolder(e) /\ Writes(e)
  BY <1>1 DEF JobInv, Works, Inside, Writing
<1>3. {"at", "i", "number", "left"} \subseteq DOMAIN job[e]
  BY <1>1, <1>2 DEF KnowsItsFolder, Writes, Inside
<1>4. job'[e] = [job[e] EXCEPT !.at = "fill"]
  BY <1>1 DEF BundlesInv, Turn
<1>5. /\ job'[e].at = "fill" /\ job'[e].i = job[e].i /\ job'[e].number = job[e].number
      /\ job'[e].left = job[e].left /\ {"at", "i", "number", "left"} \subseteq DOMAIN job'[e]
  BY <1>3, <1>4
<1>6. Name(e)' = n /\ job'[e] # Resting
  BY <1>5 DEF Name, Kind, Resting
<1>7. /\ n \in DOMAIN folder /\ DOMAIN folder' = DOMAIN folder
      /\ DOMAIN folder'[n] = DOMAIN folder[n] \cup {file}
      /\ folder'[n][file] = Partial(e)
      /\ \A f \in DOMAIN folder[n] : folder'[n][f] = folder[n][f]
      /\ \A m \in DOMAIN folder : m # n => folder'[m] = folder[m]
  BY <1>1, <1>2 DEF Owns
<1>8. KnowsItsFolder(e)'
  BY <1>1, <1>2, <1>5, <1>6 DEF KnowsItsFolder, Inside
<1>9. Owns(e)'
  BY <1>2, <1>6, <1>7, WrittenOnce DEF Owns
<1>10. Manifest \notin DOMAIN folder[n]
  BY <1>1, <1>2 DEF Writes
<1>11. file \in {job[e].left[i] : i \in DOMAIN job[e].left}
  <2>1. job[e].left \in Seq(BodyNames \cup {Manifest})
    BY <1>2 DEF Writes
  <2> QED
    BY <1>1, <2>1
<1>12. Writes(e)'
  <2>1. \A f \in BodyFiles(n) : There(e, f) => There(e, f)'
    BY <1>6, <1>7 DEF There
  <2>2. \A f : InLeft(e, f)' = InLeft(e, f)
    BY <1>5 DEF InLeft
  <2>3. Manifest \in DOMAIN folder'[n] => job[e].left = <<Manifest>> /\ ~folder'[n][Manifest].whole
    <3>1. Manifest \in DOMAIN folder'[n] => file = Manifest
      BY <1>7, <1>10
    <3>2. file = Manifest => InLeft(e, Manifest)
      BY <1>11 DEF InLeft
    <3> QED
      BY <1>2, <1>7, <3>1, <3>2, WrittenOnce DEF Writes
  <2>4. job[e].left # <<>> /\ Head(job'[e].left) \in DOMAIN folder'[n]
    BY <1>1, <1>5, <1>7
  <2> QED
    BY <1>2, <1>5, <1>6, <2>1, <2>2, <2>3, <2>4 DEF Writes, BodyFiles
<1>13. JobInv(e)'
  BY <1>5, <1>8, <1>9, <1>12 DEF JobInv
<1>14. ~Finished(n)
  BY <1>10 DEF Finished
<1>15. ~Finished(n)'
  BY <1>5, <1>6, <1>12 DEF Writes, Finished
<1> QED
  BY <1>1, <1>2, <1>6, <1>7, <1>13, <1>14, <1>15, FolderWritten

LEMMA FillHolds ==
    ASSUME BundlesInv, NEW e \in Exporters, Fill(e) PROVE BundlesInv'
<1> DEFINE n == Name(e)
           file == Head(job[e].left)
<1>1. /\ job[e].at = "fill" /\ JobInv(e) /\ UNCHANGED exportRow
      /\ folder' = [folder EXCEPT ![n][file] = Whole(e)]
  BY DEF Fill, BundlesInv
<1>2. Works(e) /\ Owns(e) /\ KnowsItsFolder(e) /\ Writes(e)
  BY <1>1 DEF JobInv, Works, Inside, Writing
<1>3. {"at", "i", "number", "left"} \subseteq DOMAIN job[e]
  BY <1>1, <1>2 DEF KnowsItsFolder, Writes, Inside
<1>4. /\ n \in DOMAIN folder /\ file \in DOMAIN folder[n] /\ job[e].left # <<>>
  BY <1>1, <1>2 DEF Owns, Writes
<1>5. /\ DOMAIN folder' = DOMAIN folder /\ DOMAIN folder'[n] = DOMAIN folder[n]
      /\ folder'[n][file] = Whole(e)
      /\ \A f \in DOMAIN folder[n] : f # file => folder'[n][f] = folder[n][f]
      /\ \A m \in DOMAIN folder : m # n => folder'[m] = folder[m]
  BY <1>1, <1>4
<1>6. ~Finished(n)
  BY <1>2 DEF Writes, Finished
<1>7. \A f : There(e, f) => f \in DOMAIN folder'[n] /\ folder'[n][f] = Whole(e)
  BY <1>5 DEF There
<1>8. \A f \in DOMAIN folder'[n] : folder'[n][f].by = e
  BY <1>2, <1>5, WrittenOnce DEF Owns
<1>9. n[1] \in KindSet
  BY <1>1, <1>2, NameIsName DEF Inside
<1>10. CASE file = Manifest
  <2> DEFINE new == [at |-> "record", i |-> job[e].i, number |-> job[e].number]
  <2>1. Turn(e, new)
    BY <1>10 DEF Fill
  <2>2. job'[e] = new
    BY <2>1 DEF BundlesInv, Turn
  <2>3. /\ job'[e].at = "record" /\ job'[e].i = job[e].i /\ job'[e].number = job[e].number
        /\ {"at", "i", "number"} \subseteq DOMAIN job'[e]
    BY <2>2
  <2>4. Name(e)' = n /\ job'[e] # Resting
    BY <2>3 DEF Name, Kind, Resting
  <2>5. KnowsItsFolder(e)' /\ Owns(e)'
    BY <1>1, <1>2, <1>4, <1>5, <1>8, <2>3, <2>4 DEF KnowsItsFolder, Owns, Inside
  <2>6. Finished(n)'
    BY <1>4, <1>5, <1>10, <2>4, WrittenOnce DEF Finished
  <2>7. JobInv(e)'
    BY <2>3, <2>4, <2>5, <2>6 DEF JobInv, Writing
  <2>8. Complete(n)'
    <3>1. job[e].left = <<Manifest>>
      BY <1>2, <1>4, <1>10 DEF Writes
    <3>2. \A f \in BodyFiles(n) : ~InLeft(e, f)
      BY <1>9, <3>1, BodyIsNames DEF InLeft
    <3>3. \A f \in BodyFiles(n) : f \in DOMAIN folder'[n] /\ folder'[n][f] = Whole(e)
      BY <1>2, <1>7, <3>2 DEF Writes
    <3>4. folder'[n][Manifest].by = e
      BY <1>4, <1>5, <1>8, <1>10
    <3> QED
      BY <2>4, <3>3, <3>4 DEF Complete, BodyFiles
  <2> QED
    BY <1>1, <1>2, <1>5, <1>6, <2>1, <2>4, <2>7, <2>8, FolderWritten
<1>11. CASE file # Manifest
  <2> DEFINE new == [job[e] EXCEPT !.at = "write", !.left = Tail(@)]
  <2>1. Turn(e, new)
    BY <1>11 DEF Fill
  <2>2. job'[e] = new
    BY <2>1 DEF BundlesInv, Turn
  <2>3. /\ job'[e].at = "write" /\ job'[e].i = job[e].i /\ job'[e].number = job[e].number
        /\ job'[e].left = Tail(job[e].left) /\ {"at", "i", "number", "left"} \subseteq DOMAIN job'[e]
    BY <1>3, <2>2
  <2>4. Name(e)' = n /\ job'[e] # Resting
    BY <2>3 DEF Name, Kind, Resting
  <2>5. KnowsItsFolder(e)' /\ Owns(e)'
    BY <1>1, <1>2, <1>4, <1>5, <1>8, <2>3, <2>4 DEF KnowsItsFolder, Owns, Inside
  <2>6. /\ job'[e].left \in Seq(BodyNames \cup {Manifest})
        /\ \A f : InLeft(e, f)' => InLeft(e, f)
        /\ \A f : InLeft(e, f) => f = file \/ InLeft(e, f)'
    <3>1. job[e].left \in Seq(BodyNames \cup {Manifest}) /\ job[e].left # <<>>
      BY <1>2, <1>4 DEF Writes
    <3>2. /\ Tail(job[e].left) \in Seq(BodyNames \cup {Manifest})
          /\ \A i \in DOMAIN Tail(job[e].left) :
                i + 1 \in DOMAIN job[e].left /\ Tail(job[e].left)[i] = job[e].left[i + 1]
          /\ \A i \in DOMAIN job[e].left :
                i = 1 \/ (i - 1 \in DOMAIN Tail(job[e].left)
                           /\ Tail(job[e].left)[i - 1] = job[e].left[i])
          /\ job[e].left[1] = file
      BY <3>1
    <3>3. ASSUME NEW f, InLeft(e, f)' PROVE InLeft(e, f)
      <4>1. PICK i \in DOMAIN Tail(job[e].left) : Tail(job[e].left)[i] = f
        BY <2>3, <3>3 DEF InLeft
      <4> QED
        BY <3>2, <4>1 DEF InLeft
    <3>4. ASSUME NEW f, InLeft(e, f) PROVE f = file \/ InLeft(e, f)'
      <4>1. PICK i \in DOMAIN job[e].left : job[e].left[i] = f
        BY <3>4 DEF InLeft
      <4>2. CASE i = 1
        BY <3>2, <4>1, <4>2
      <4>3. CASE i # 1
        <5>1. PICK k \in DOMAIN Tail(job[e].left) : Tail(job[e].left)[k] = job[e].left[i]
          BY <3>2, <4>3
        <5>2. k \in DOMAIN job'[e].left /\ job'[e].left[k] = f
          BY <2>3, <4>1, <5>1
        <5> QED
          BY <5>2 DEF InLeft
      <4> QED
        BY <4>2, <4>3
    <3> QED
      BY <2>3, <3>2, <3>3, <3>4
  <2>7. ~InLeft(e, Manifest) /\ Manifest \notin DOMAIN folder[n]
    <3>1. job[e].left # <<Manifest>>
      BY <1>11
    <3> QED
      BY <1>2, <3>1 DEF Writes
  <2>8. Writes(e)'
    <3>1. \A f \in BodyFiles(n) : There(e, f)' \/ InLeft(e, f)'
      BY <1>2, <1>4, <1>5, <1>7, <2>4, <2>6 DEF Writes, There
    <3> QED
      BY <1>5, <2>3, <2>4, <2>6, <2>7, <3>1 DEF Writes, BodyFiles
  <2>9. JobInv(e)'
    BY <2>3, <2>5, <2>8 DEF JobInv
  <2>10. ~Finished(n)'
    BY <1>5, <2>4, <2>7 DEF Finished
  <2> QED
    BY <1>1, <1>2, <1>5, <1>6, <2>1, <2>4, <2>9, <2>10, FolderWritten
<1> QED
  BY <1>10, <1>11

LEMMA ExporterStepHolds == BundlesInv /\ [BundlesNext]_bundleVars => BundlesInv'
<1> SUFFICES ASSUME BundlesInv, [BundlesNext]_bundleVars PROVE BundlesInv'  OBVIOUS
<1>1. CASE UNCHANGED <<folder, exportRow, job>>
  <2>1. \A e \in Exporters : JobInv(e) => JobInv(e)'
    BY <1>1 DEF JobInv, KnowsItsFolder, Works, Owns, Writes, There, InLeft, Finished, Name, Kind, BodyFiles
  <2>2. Alone'
    BY <1>1 DEF BundlesInv, Alone, Works, Name, Kind
  <2> QED
    BY <1>1, <2>1, <2>2 DEF BundlesInv, Finished, Complete, BodyFiles
<1>2. ASSUME NEW e \in Exporters, Refused(e) \/ Fail(e) PROVE BundlesInv'
  BY <1>2, RestingHolds DEF Refused, Fail
<1>3. CASE UNCHANGED bundleVars \/ Rescope \/ Grow
  BY <1>1, <1>3 DEF bundleVars, Rescope, Grow
<1> QED
  BY <1>2, <1>3, OpenBundleHolds, MakeFolderHolds, ReadPathsHolds, ReadRowsHolds, WriteHolds,
     FillHolds, CloseHolds, RecordHolds DEF BundlesNext

(* An export that says it is finished is: every file its manifest lists is *)
(* there, whole and of the program that wrote the manifest, and the        *)
(* catalog records finished exports only (core/export/writer.py,           *)
(* core/store/exports.py).                                                 *)
THEOREM FinishedStaysWhole == BundlesSpec => []FinishedIsWhole
<1>1. BundlesInv => FinishedIsWhole
  BY DEF BundlesInv, FinishedIsWhole, Complete
<1>2. BundlesInit /\ [][BundlesNext]_bundleVars => []BundlesInv
  BY ExportersStart, ExporterStepHolds, PTL
<1> QED
  BY <1>1, <1>2, PTL DEF BundlesSpec

(* No two programs work in one export's folder. *)
THEOREM WorksAlone == BundlesSpec => []Alone
<1>1. BundlesInv => Alone
  BY DEF BundlesInv
<1>2. BundlesInit /\ [][BundlesNext]_bundleVars => []BundlesInv
  BY ExportersStart, ExporterStepHolds, PTL
<1> QED
  BY <1>1, <1>2, PTL DEF BundlesSpec
=============================================================================
