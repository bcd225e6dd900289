------------------------------- MODULE Records --------------------------------
(***************************************************************************)
(* What people decide and the program records in the catalog: the review   *)
(* queue of proposed collections, collections and their rules, plans and   *)
(* version sets (core/store/curation.py, core/curate, core/store/plans.py) *)
(* and the audit entry each of them leaves (core/store/audit.py).          *)
(*                                                                         *)
(* Programs are connections to one SQLite file in WAL mode.  Outside a     *)
(* transaction every statement commits by itself.  A transaction sees the  *)
(* catalog as it was at its first statement, and its first write takes the *)
(* lock, which fails when another has committed since.  A program that     *)
(* waits too long for the lock fails at the statement it is at.            *)
(***************************************************************************)
EXTENDS Audit, FiniteSets

CONSTANTS
    Folders,        \* the directories that may be collections
    Within,         \* [Folders -> SUBSET Folders]: the directories below each
    Subfolders,       \* [Folders -> SUBSET Folders]: its subfolders that hold files
    Programs,
    NoProgram,
    Titles,         \* titles of collections
    MaxActs,        \* bound on what people do
    MaxCrashes      \* bound on programs that crash

ASSUME RecordsAssumption ==
    /\ NoProgram \notin Programs
    /\ Within \in [Folders -> SUBSET Folders] /\ Subfolders \in [Folders -> SUBSET Folders]
    /\ MaxActs \in Nat /\ MaxCrashes \in Nat

VARIABLES
    db,             \* the committed catalog: see Catalogs
    tx,             \* [Programs -> the transaction each has open, or Closed]
    lock,           \* the program that holds the write lock
    prog,           \* [Programs -> what each is doing]
    acts, crashes,  \* the bounds' counters
    done,           \* history: the acts whose change has been committed
    lost,           \* history: acts that ended between their change and its entry
    overtaken       \* history: folders rejected when already decided

recordVars == <<db, tx, lock, prog, acts, crashes, done, lost, overtaken>>

Statuses == {"none", "proposed", "accepted", "rejected"}

Closed == [is |-> "closed"]
Idle == [at |-> "idle"]

Become(p, s) == prog' = [prog EXCEPT ![p] = s]
CanWrite(p) == lock \in {p, NoProgram}

-----------------------------------------------------------------------------
(* What each operation does to the catalog it sees, c.  An act has a       *)
(* number; its entries in the log are <<number, action>>.                  *)
(*                                                                         *)
(* As a mutant: the entry follows the last one that was committed. *)
LogToCommitted(c, n, what) ==
    [c EXCEPT !.log = Append(@, [Chained(db.log, <<n, what>>) EXCEPT !.id = LastId(c.log) + 1])]

(* As a mutant: an entry takes the place of the last one where that tells  *)
(* of the same action, as INSERT OR REPLACE would, past the triggers.      *)
LogToOverLast(c, n, what) ==
    [c EXCEPT !.log = Extended(IF @ # <<>> /\ @[Len(@)].what[2] = what THEN SubSeq(@, 1, Len(@) - 1) ELSE @,
                               <<n, what>>)]

LogTo(c, n, what) == [c EXCEPT !.log = Extended(@, <<n, what>>)]

(* Proposing never reopens a decided folder. *)
ProposeReopening(c, f) == [c EXCEPT !.cand[f] = "proposed"]

Propose(c, f) == IF c.cand[f] = "none" THEN [c EXCEPT !.cand[f] = "proposed"] ELSE c

(* A folder is in at most one collection's rule. *)
Held(c, f) == \E r \in c.rules : r.dir = f

AddSubtreeRule(c, n, k, f) ==
    LogTo([c EXCEPT !.rules = @ \cup {[coll |-> k, dir |-> f]}], n, "collection.rule.add")

CreateCollection(c, n, t) == LogTo([c EXCEPT !.colls = Append(@, t)], n, "collection.create")

Decide(c, n, f, status) == LogTo([c EXCEPT !.cand[f] = status], n, status)

(* Accepting runs its checks and its writes in one transaction. *)
AcceptNew(c, n, f, t) ==
    Decide(AddSubtreeRule(CreateCollection(c, n, t), n, Len(c.colls) + 1, f), n, f, "accepted")

AcceptInto(c, n, f, k) == Decide(AddSubtreeRule(c, n, k, f), n, f, "accepted")

(* A split sets the folder aside and proposes its subfolders. *)
ProposeAll(c, fs) ==
    [c EXCEPT !.cand = [f \in Folders |-> IF f \in fs THEN Propose(c, f).cand[f] ELSE c.cand[f]]]

Split(c, n, f) ==
    ProposeAll(LogTo(Decide(c, n, f, "rejected"), n, "split"), Subfolders[f])

(* As a mutant: a plan that is not recorded. *)
CreatePlanUnrecorded(c, n) ==
    [c EXCEPT !.plans = Append(
        [i \in DOMAIN @ |-> IF @[i] = "draft" THEN "superseded" ELSE @[i]], "draft")]

(* A plan replaces the draft there was. *)
CreatePlan(c, n) ==
    LogTo([c EXCEPT !.plans = Append(
        [i \in DOMAIN @ |-> IF @[i] = "draft" THEN "superseded" ELSE @[i]], "draft")],
        n, "plan.create")

(* The version sets of a run replace those of the last. *)
ReplaceVersionSets(c, n) == LogTo([c EXCEPT !.versions = n], n, "versions.find")

(* Inference leaves out what is in a collection or was accepted; scores    *)
(* are abstracted to the choice of any folders that do not nest.           *)
Covered(c) ==
    LET tops == {r.dir : r \in c.rules} \cup {f \in Folders : c.cand[f] = "accepted"}
    IN  tops \cup UNION {Within[f] : f \in tops}

Selections(c) ==
    {fs \in SUBSET (Folders \ Covered(c)) : \A f, g \in fs : g \notin Within[f]}

Infer(c, n, fs) == LogTo(ProposeAll(c, fs), n, "collection.infer")

-----------------------------------------------------------------------------
(* What a person asks for.  The review queue is read first, outside of any *)
(* transaction.                                                            *)
Pending(f) == db.cand[f] = "proposed"

Requests ==
    [act : {"reject", "accept", "split"}, dir : {f \in Folders : Pending(f)}]
      \cup [act : {"into"}, dir : {f \in Folders : Pending(f)}, coll : DOMAIN db.colls]
      \cup [act : {"infer"}, dirs : Selections(db)]
      \cup [act : {"edit"}, coll : DOMAIN db.colls, title : Titles]
      \cup [act : {"plan", "versions"}]

(* Those whose transaction reads before it writes, and those that hold no  *)
(* transaction at all.                                                     *)
ReadsFirst == {"into", "split", "infer"}
Plain == {"reject", "edit"}

Ask(p) ==
    /\ prog[p] = Idle /\ acts < MaxActs
    /\ \E r \in Requests :
        /\ r.act = "split" => Subfolders[r.dir] # {}
        /\ r.act = "edit" => db.colls[r.coll] # r.title
        /\ Become(p, [at |-> IF r.act \in Plain THEN "change"
                             ELSE IF r.act \in ReadsFirst THEN "begin" ELSE "body",
                      n |-> acts + 1, req |-> r])
    /\ acts' = acts + 1
    /\ UNCHANGED <<db, tx, lock, crashes, done, lost, overtaken>>

(* A plain change commits by itself, whatever became of what was read. *)
Changed(r) ==
    IF r.act = "reject" THEN [db EXCEPT !.cand[r.dir] = "rejected"]
                        ELSE [db EXCEPT !.colls[r.coll] = r.title]

ChangePlainly(p) ==
    /\ prog[p].at = "change" /\ CanWrite(p)
    /\ db' = Changed(prog[p].req)
    /\ done' = done \cup {prog[p].n}
    /\ overtaken' = IF prog[p].req.act = "reject" /\ ~Pending(prog[p].req.dir)
                      THEN overtaken \cup {prog[p].req.dir} ELSE overtaken
    /\ Become(p, [prog[p] EXCEPT !.at = "entry"])
    /\ UNCHANGED <<tx, lock, acts, crashes, lost>>

(* Its audit entry takes the lock for itself, reads the last entry and     *)
(* adds the next.                                                          *)
AppendEntry(p) ==
    /\ prog[p].at = "entry" /\ CanWrite(p)
    /\ db' = LogTo(db, prog[p].n, prog[p].req.act)
    /\ Become(p, Idle)
    /\ UNCHANGED <<tx, lock, acts, crashes, done, lost, overtaken>>

-----------------------------------------------------------------------------
(* A transaction that reads first sees the catalog of that moment. *)
BeginDeferred(p) ==
    /\ prog[p].at = "begin"
    /\ tx' = [tx EXCEPT ![p] = [is |-> "open", base |-> db, view |-> db]]
    /\ Become(p, [prog[p] EXCEPT !.at = "body"])
    /\ UNCHANGED <<db, lock, acts, crashes, done, lost, overtaken>>

Opened(p) == tx[p].is = "open"

View(p) == IF Opened(p) THEN tx[p].view ELSE db

(* Deciding checks again, in the transaction, that nobody has.  As a       *)
(* mutant: what was read before it is believed.                            *)
AllowedUnchecked(r, c) == TRUE

Allowed(r, c) ==
    /\ r.act \in {"accept", "into", "split"} => c.cand[r.dir] = "proposed"
    /\ r.act \in {"accept", "into"} => ~Held(c, r.dir)

Result(r, n, c, t) ==
    CASE r.act = "accept"   -> AcceptNew(c, n, r.dir, t)
      [] r.act = "into"     -> AcceptInto(c, n, r.dir, r.coll)
      [] r.act = "split"    -> Split(c, n, r.dir)
      [] r.act = "infer"    -> Infer(c, n, r.dirs)
      [] r.act = "plan"     -> CreatePlan(c, n)
      [] r.act = "versions" -> ReplaceVersionSets(c, n)

(* The snapshot is stale once another transaction has committed. *)
Stale(p) == Opened(p) /\ tx[p].base # db

WriteBody(p) ==
    /\ prog[p].at = "body" /\ CanWrite(p)
    /\ ~Stale(p) /\ Allowed(prog[p].req, View(p))
    /\ lock' = p
    /\ \E t \in Titles :
        tx' = [tx EXCEPT ![p] = [is |-> "open", base |-> db,
                                 view |-> Result(prog[p].req, prog[p].n, View(p), t)]]
    /\ Become(p, [prog[p] EXCEPT !.at = "commit"])
    /\ UNCHANGED <<db, acts, crashes, done, lost, overtaken>>

(* A refused decision, or a stale snapshot, rolls everything back. *)
Rollback(p) ==
    /\ prog[p].at = "body" /\ (Stale(p) \/ ~Allowed(prog[p].req, View(p)))
    /\ tx' = [tx EXCEPT ![p] = Closed]
    /\ Become(p, Idle)
    /\ UNCHANGED <<db, lock, acts, crashes, done, lost, overtaken>>

Commit(p) ==
    /\ prog[p].at = "commit"
    /\ db' = tx[p].view
    /\ done' = done \cup {prog[p].n}
    /\ tx' = [tx EXCEPT ![p] = Closed]
    /\ lock' = NoProgram
    /\ Become(p, Idle)
    /\ UNCHANGED <<acts, crashes, lost, overtaken>>

-----------------------------------------------------------------------------
(* The end of an act that stops where it is: what is open is undone, and a *)
(* change without its entry stays without it.                              *)
Stop(p) ==
    /\ tx' = [tx EXCEPT ![p] = Closed]
    /\ lock' = IF lock = p THEN NoProgram ELSE lock
    /\ lost' = IF prog[p].at = "entry" THEN lost \cup {prog[p].n} ELSE lost
    /\ Become(p, Idle)
    /\ UNCHANGED <<db, acts, done, overtaken>>

(* The lock is held by another for too long. *)
TimeOut(p) ==
    /\ prog[p].at \in {"change", "entry", "body"} /\ ~CanWrite(p)
    /\ Stop(p)
    /\ UNCHANGED crashes

Crash(p) ==
    /\ prog[p] # Idle /\ crashes < MaxCrashes
    /\ crashes' = crashes + 1
    /\ Stop(p)

RecordsInit ==
    /\ db = [cand |-> [f \in Folders |-> "none"], rules |-> {}, colls |-> <<>>,
             plans |-> <<>>, versions |-> 0, log |-> <<>>]
    /\ tx = [p \in Programs |-> Closed]
    /\ lock = NoProgram
    /\ prog = [p \in Programs |-> Idle]
    /\ acts = 0 /\ crashes = 0
    /\ done = {} /\ lost = {} /\ overtaken = {}

RecordsNext ==
    \E p \in Programs :
        \/ Ask(p)
        \/ ChangePlainly(p) \/ AppendEntry(p)
        \/ BeginDeferred(p) \/ WriteBody(p) \/ Rollback(p) \/ Commit(p)
        \/ TimeOut(p) \/ Crash(p)

RecordsSpec == RecordsInit /\ [][RecordsNext]_recordVars

-----------------------------------------------------------------------------
IsCatalog(c) ==
    /\ c.cand \in [Folders -> Statuses]
    /\ c.rules \subseteq [coll : DOMAIN c.colls, dir : Folders]
    /\ c.colls \in Seq(Titles)
    /\ c.plans \in Seq({"draft", "superseded"})
    /\ c.versions \in 0 .. MaxActs
    /\ \A i \in DOMAIN c.log : c.log[i].id \in Nat /\ c.log[i].what[1] \in 1 .. MaxActs

RecordsTypeOK ==
    /\ IsCatalog(db)
    /\ lock \in Programs \cup {NoProgram}
    /\ \A p \in Programs :
        /\ prog[p].at \in {"idle", "change", "entry", "begin", "body", "commit"}
        /\ prog[p] # Idle => prog[p].n \in 1 .. acts
        /\ Opened(p) => IsCatalog(tx[p].view)
        /\ lock = p <=> prog[p].at = "commit"
    /\ acts \in 0 .. MaxActs /\ crashes \in 0 .. MaxCrashes
    /\ done \subseteq 1 .. acts /\ lost \subseteq done /\ overtaken \subseteq Folders

(* The acts the log tells of. *)
Told == {db.log[i].what[1] : i \in DOMAIN db.log}

(* The log verifies at all times, however the entries of transactions and  *)
(* those that commit by themselves come in between each other.             *)
ChainIntact == Verifies(db.log)

(* The log as its readers see it: what its entries say. *)
Says(log) == [i \in DOMAIN log |-> log[i].what]
Trail == Says(db.log)

AuditTrail == INSTANCE AppendOnly WITH entries <- Trail

(* It only grows, at its end: the log implements the append-only sequence, *)
(* whoever writes and whatever fails (audit.py).                           *)
LogOnlyGrows == AuditTrail!Spec

(* Every committed change is in the log, and nothing else is, but for a    *)
(* change whose entry is still to come or was lost to a crash or to a lock *)
(* held for too long.                                                      *)
Audited ==
    /\ done = Told \cup lost \cup {prog[p].n : p \in {q \in Programs : prog[q].at = "entry"}}
    /\ Told \cap lost = {}

(* A folder is in one collection exactly when it was accepted, unless a    *)
(* rejection overtook the acceptance.                                      *)
AcceptedIsHeld ==
    \A f \in Folders \ overtaken :
        Cardinality({r \in db.rules : r.dir = f}) = IF db.cand[f] = "accepted" THEN 1 ELSE 0

(* A decision stands: the queue never asks about a folder again, and what  *)
(* was accepted is not rejected later, unless two people decided at once.  *)
DecisionStands ==
    [][\A f \in Folders \ overtaken' :
         db.cand[f] \in {"accepted", "rejected"} => db'.cand[f] = db.cand[f]]_recordVars

(* What core/store/curation.py:165-166 gives as the reason for the rule    *)
(* that a folder has one holder: a file is a member of one collection.     *)
MembershipUnambiguous ==
    \A r, s \in db.rules : r.dir \in {s.dir} \cup Within[s.dir] => r.coll = s.coll
=============================================================================
