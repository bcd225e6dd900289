-------------------------------- MODULE Identity -------------------------------
(***************************************************************************)
(* Content identity: the hash and verify passes of                         *)
(* core/identity/pipeline.py over the file rows of the catalog, while      *)
(* files are edited, decay, come and go, and scans merge what they see.    *)
(*                                                                         *)
(* A row of the content table is known by its key (size, quick hash, full  *)
(* hash or none), and hashing is collision-free: a digest is modelled by   *)
(* the bytes it covers.  A scan appears here as one listing and one merge; *)
(* module Scan has the rest of it.                                         *)
(***************************************************************************)
EXTENDS Naturals, FiniteSets

CONSTANTS
    File,            \* every catalogued place
    Body,            \* what the bytes of a file can be
    Size,            \* Size[b]: the length of b
    Sample,          \* Sample[b]: what the three sampled blocks of b hold
    SmallSize,       \* sizes at which the quick hash reads every byte
    InitialDisks,    \* what the drive may hold at the start
    NoBody,          \* no full hash yet; never read
    NoContent,       \* content_id IS NULL
    Proc,            \* connections that run hash and verify passes
    NoProc,          \* nobody holds the write lock
    ScopeChoices,    \* root_ids: the files under the roots a pass may read
    CheckpointRows,  \* CHECKPOINT_ROWS
    MaxChanges,      \* bound: changes of the drive
    MaxScans,        \* bound: listings made by scans
    MaxPasses        \* bound: hash and verify passes begun

Sizes   == {Size[b] : b \in Body}
Time    == 0 .. MaxChanges
QuickHash == Sizes \X (Body \cup {Sample[b] : b \in Body})
Content   == [size : Sizes, quick : QuickHash, full : Body \cup {NoBody}]

ASSUME BodyAssumption ==
    /\ Size \in [Body -> Nat]
    /\ NoBody \notin Body
    /\ NoContent \notin Content
    /\ Body \cap {"waiting", "error"} = {}
ASSUME FileAssumption == IsFiniteSet(File)
ASSUME DiskAssumption == InitialDisks \subseteq [File -> Body]
ASSUME ProcAssumption == NoProc \notin Proc
ASSUME ScopeAssumption == ScopeChoices \subseteq SUBSET File
ASSUME BoundAssumption ==
    /\ CheckpointRows \in Nat \ {0}
    /\ MaxChanges \in Nat /\ MaxScans \in Nat /\ MaxPasses \in Nat

VARIABLES
    disk,     \* the bytes and modification time of each file
    away,     \* files that are not there
    shut,     \* files that cannot be opened: permissions, placeholders
    rotted,   \* ghost: files whose bytes changed and their time did not
    listing,  \* what a scan has listed and not merged yet
    cat,      \* the committed catalog
    tx,       \* the catalog inside the open write transaction
    lock,     \* who holds the write lock
    reading,  \* connections whose transaction has read
    stale,    \* those of them whose snapshot another commit overtook
    proc,     \* the passes
    fixity,   \* the result of the last check of each file
    changes, scans, passes

drive == <<disk, away, shut, rotted>>
store == <<cat, tx, lock, reading, stale>>
vars  == <<drive, listing, store, proc, fixity, changes, scans, passes>>

--------------------------------------------------------------------------------
FileRow ==
    [st      : {"none", "live", "gone"},
     time    : Time,
     size    : Sizes \cup {0},
     content : Content \cup {NoContent},
     read    : Body \cup {NoBody},    \* ghost: the bytes the content came from
     late    : BOOLEAN]               \* ghost: a scan changed the row before it was assigned

Catalog == [row : [File -> FileRow], keys : SUBSET Content]

Listing == [there : BOOLEAN, time : Time, size : Sizes]

Local ==
    [pc      : {"idle", "quick", "collisions", "full", "verify"},
     scope   : SUBSET File,
     item    : [File -> FileRow],    \* the rows as the pass queried them
     todo    : SUBSET File,          \* results still to come
     got     : [File -> Body \cup {"waiting", "error"}],
     pending : SUBSET File,          \* assignments not written yet
     done    : Nat,
     stat    : SUBSET File,          \* verify: the file stat'ed and not yet read
     calm    : BOOLEAN,              \* ghost: the rows told the truth, and nothing moved
     last    : {"none", "hashed", "verified", "stopped"}]

NoRow == [st |-> "none", time |-> 0, size |-> 0, content |-> NoContent,
          read |-> NoBody, late |-> FALSE]

Idle ==
    [pc |-> "idle", scope |-> {}, item |-> [f \in File |-> NoRow], todo |-> {},
     got |-> [f \in File |-> "waiting"], pending |-> {}, done |-> 0, stat |-> {},
     calm |-> FALSE, last |-> "none"]

Init ==
    /\ \E d \in InitialDisks : disk = [f \in File |-> [body |-> d[f], time |-> 0]]
    /\ away \in SUBSET File
    /\ shut = {}
    /\ rotted = {}
    /\ listing = [f \in {} |-> {}]
    /\ cat = [row |-> [f \in File |-> NoRow], keys |-> {}]
    /\ tx = cat
    /\ lock = NoProc
    /\ reading = {}
    /\ stale = {}
    /\ proc = [p \in Proc |-> Idle]
    /\ fixity = [f \in File |-> "none"]
    /\ changes = 0 /\ scans = 0 /\ passes = 0

--------------------------------------------------------------------------------
(* Hashes, and which rows are worth reading *)

Quick(size, b) == <<size, IF size \in SmallSize THEN b ELSE Sample[b]>>

Exact(c) == c.full # NoBody \/ c.size \in SmallSize

Holders(t, c) == {f \in File : t.row[f].st = "live" /\ t.row[f].content = c}

\* hash_candidates: unhashed live files whose size another live file shares.
Candidates(t, scope) ==
    {f \in scope : /\ t.row[f].st = "live"
                   /\ t.row[f].content = NoContent
                   /\ t.row[f].size > 0
                   /\ \E g \in File \ {f} : t.row[g].st = "live" /\ t.row[g].size = t.row[f].size}

\* Mutated form: only a group of several files is ambiguous.
AmbiguousIfShared(t, c) ==
    /\ c.full = NoBody /\ c.size \notin SmallSize
    /\ Cardinality(Holders(t, c)) > 1

\* quick_hash_collisions, less the groups whose quick hash covered every byte.
Ambiguous(t, c) ==
    /\ c.full = NoBody /\ c.size \notin SmallSize
    /\ \/ Cardinality(Holders(t, c)) > 1
       \/ \E o \in t.keys : /\ o.size = c.size /\ o.quick = c.quick /\ o # c
                            /\ Holders(t, o) # {}

Collisions(t, scope) ==
    {f \in scope : /\ t.row[f].st = "live"
                   /\ t.row[f].content # NoContent
                   /\ Ambiguous(t, t.row[f].content)}

--------------------------------------------------------------------------------
(* Transactions *)

View(p) == IF lock = p THEN tx ELSE cat

MayWrite(p) == lock \in {NoProc, p} /\ p \notin stale

Write(p, new) ==
    /\ MayWrite(p)
    /\ tx' = new
    /\ lock' = p
    /\ reading' = reading \cup {p}
    /\ UNCHANGED <<cat, stale>>

Commit(p, new) ==
    /\ MayWrite(p)
    /\ cat' = new
    /\ tx' = new
    /\ lock' = NoProc
    /\ reading' = reading \ {p}
    /\ stale' = (stale \cup reading) \ {p}

ReadOnly(p) ==
    /\ reading' = reading \cup {p}
    /\ UNCHANGED <<cat, tx, lock, stale>>

\* ROLLBACK, or the COMMIT of a transaction that wrote nothing.
Leave(p) ==
    /\ IF lock = p THEN tx' = cat /\ lock' = NoProc ELSE UNCHANGED <<tx, lock>>
    /\ reading' = reading \ {p}
    /\ stale' = stale \ {p}
    /\ UNCHANGED cat

EndTransaction(p) == IF lock = p THEN Commit(p, tx) ELSE Leave(p)

Goto(p, l) == proc' = [proc EXCEPT ![p] = l]
Quiet == UNCHANGED <<drive, listing, fixity, changes, scans, passes>>

--------------------------------------------------------------------------------
(* The hash pass *)

\* What the catalog says of a file is what the drive holds.
TruthOf(f) ==
    LET r == cat.row[f] IN
    r.st = "live" =>
        /\ f \notin away \cup shut \cup rotted
        /\ r.time = disk[f].time
        /\ r.size = Size[disk[f].body]
        /\ r.content # NoContent =>
             /\ r.content.size = r.size
             /\ r.content.quick = Quick(r.size, disk[f].body)
             /\ r.content.full \in {NoBody, disk[f].body}

Alone(p) == \A q \in Proc \ {p} : proc[q].pc = "idle"

\* Whoever begins ends the calm of the others.
Begin(p, l) ==
    /\ proc[p].pc = "idle"
    /\ passes < MaxPasses
    /\ passes' = passes + 1
    /\ proc' = [q \in Proc |-> IF q = p THEN l ELSE [proc[q] EXCEPT !.calm = FALSE]]
    /\ UNCHANGED <<drive, listing, store, fixity, changes, scans>>

BeginHash(p, scope) ==
    Begin(p, [Idle EXCEPT !.pc = "quick", !.scope = scope, !.item = cat.row,
                          !.todo = Candidates(cat, scope),
                          !.calm = scope = File /\ Alone(p) /\ \A f \in File : TruthOf(f)])

\* A reader thread opens a file and reads it, at any time before its result is taken.
OpenRead(f) == IF f \in away \cup shut THEN "error" ELSE disk[f].body

Read(p, f) ==
    LET l == proc[p] IN
    /\ l.pc \in {"quick", "full"}
    /\ f \in l.todo
    /\ l.got[f] = "waiting"
    /\ Goto(p, [l EXCEPT !.got[f] = OpenRead(f)])
    /\ UNCHANGED store
    /\ Quiet

\* A file that could not be read is counted and left as it was.
Unreadable(p, f) ==
    LET l == proc[p] IN
    /\ l.pc \in {"quick", "full"}
    /\ f \in l.todo
    /\ l.got[f] = "error"
    /\ Goto(p, [l EXCEPT !.todo = @ \ {f}])
    /\ UNCHANGED store
    /\ Quiet

QuickContent(l, f) ==
    [size |-> l.item[f].size, quick |-> Quick(l.item[f].size, l.got[f]), full |-> NoBody]

\* assign_content: whatever the row has become meanwhile.
Assigned(r, l, f, key) ==
    [r EXCEPT !.content = key, !.read = l.got[f], !.late = r.time # l.item[f].time]

QuickAssigned(t, l, fs) ==
    [t EXCEPT !.row = [f \in File |->
        IF f \in fs THEN Assigned(t.row[f], l, f, QuickContent(l, f)) ELSE t.row[f]]]

\* upsert_content for a quick hash looks the row up and inserts it if it is
\* new.  An overtaken transaction can still read, and never commits.
QuickResult(p, f) ==
    LET l       == proc[p]
        key     == QuickContent(l, f)
        new     == [View(p) EXCEPT !.keys = @ \cup {key}]
        pending == l.pending \cup {f}
        full    == Cardinality(pending) >= CheckpointRows
    IN  /\ l.pc = "quick"
        /\ f \in l.todo
        /\ l.got[f] \in Body
        /\ \/ /\ full
              /\ Commit(p, QuickAssigned(new, l, pending))
           \/ /\ ~full /\ key \notin View(p).keys
              /\ Write(p, new)
           \/ /\ ~full /\ key \in View(p).keys
              /\ ReadOnly(p)
        /\ Goto(p, [l EXCEPT !.todo = @ \ {f}, !.pending = IF full THEN {} ELSE pending])
        /\ Quiet

EndQuick(p) ==
    LET l == proc[p] IN
    /\ l.pc = "quick" /\ l.todo = {}
    /\ IF l.pending # {} THEN Commit(p, QuickAssigned(View(p), l, l.pending)) ELSE EndTransaction(p)
    /\ Goto(p, [l EXCEPT !.pc = "collisions", !.pending = {}])
    /\ Quiet

\* Without anything ambiguous the pass is over.
FindCollisions(p) ==
    LET l     == proc[p]
        items == Collisions(cat, l.scope)
    IN  /\ l.pc = "collisions"
        /\ Goto(p, IF items = {}
                   THEN [Idle EXCEPT !.calm = l.calm, !.last = "hashed"]
                   ELSE [l EXCEPT !.pc = "full", !.item = cat.row, !.todo = items,
                                  !.got = [f \in File |-> "waiting"]])
        /\ UNCHANGED store
        /\ Quiet

\* Mutated form: the row is looked up by its quick hash alone.
FullContentQuick(l, f) ==
    [size |-> Size[l.got[f]], quick |-> l.item[f].content.quick, full |-> CHOOSE b \in Body : TRUE]

\* The size is the one just read, the quick hash the one of the group.
FullContent(l, f) ==
    [size |-> Size[l.got[f]], quick |-> l.item[f].content.quick, full |-> l.got[f]]

FullResult(p, f) ==
    LET l    == proc[p]
        key  == FullContent(l, f)
        new  == [View(p) EXCEPT !.keys = @ \cup {key},
                                !.row[f] = Assigned(@, l, f, key)]
        done == l.done + 1
        full == done % CheckpointRows = 0
    IN  /\ l.pc = "full"
        /\ f \in l.todo
        /\ l.got[f] \in Body
        /\ IF full THEN Commit(p, new) ELSE Write(p, new)
        /\ Goto(p, [l EXCEPT !.todo = @ \ {f}, !.done = done])
        /\ Quiet

EndFull(p) ==
    LET l == proc[p] IN
    /\ l.pc = "full" /\ l.todo = {}
    /\ EndTransaction(p)
    /\ Goto(p, [Idle EXCEPT !.calm = l.calm, !.last = "hashed"])
    /\ Quiet

\* Cancelled, crashed, refused the write lock, or overtaken: what was not
\* committed is rolled back and the pass ends.
Stop(p) ==
    /\ proc[p].pc # "idle"
    /\ Leave(p)
    /\ Goto(p, [Idle EXCEPT !.last = "stopped"])
    /\ Quiet

--------------------------------------------------------------------------------
(* The verify pass *)

\* Mutated form: only full hashes are verified.
VerifiableFull(t, f) ==
    /\ t.row[f].st = "live" /\ t.row[f].content # NoContent
    /\ t.row[f].content.full # NoBody

Verifiable(t, f) ==
    /\ t.row[f].st = "live" /\ t.row[f].content # NoContent
    /\ Exact(t.row[f].content)

BeginVerify(p, scope) ==
    Begin(p, [Idle EXCEPT !.pc = "verify", !.scope = scope, !.item = cat.row,
                          !.todo = {f \in scope : Verifiable(cat, f)},
                          !.calm = scope = File /\ Alone(p)])

\* record_fixity is a statement of its own.
Recorded(p, f, result) ==
    /\ Commit(p, cat)
    /\ fixity' = [fixity EXCEPT ![f] = result]
    /\ UNCHANGED <<drive, listing, changes, scans, passes>>

VerifyStat(p, f) ==
    LET l == proc[p] IN
    /\ l.pc = "verify" /\ l.stat = {}
    /\ f \in l.todo
    /\ \/ /\ f \in away
          /\ Recorded(p, f, "unreadable")
          /\ Goto(p, [l EXCEPT !.todo = @ \ {f}])
       \/ /\ f \notin away /\ disk[f].time # l.item[f].time
          /\ Recorded(p, f, "modified")
          /\ Goto(p, [l EXCEPT !.todo = @ \ {f}])
       \/ /\ f \notin away /\ disk[f].time = l.item[f].time
          /\ Goto(p, [l EXCEPT !.stat = {f}])
          /\ UNCHANGED store /\ Quiet

\* The digest of what is read now is the recorded one.
Agrees(c, b) == IF c.full # NoBody THEN c.full = b ELSE c.quick = Quick(c.size, b)

VerifyHash(p, f) ==
    LET l == proc[p] IN
    /\ l.pc = "verify" /\ l.stat = {f}
    /\ Recorded(p, f, CASE OpenRead(f) = "error"                    -> "unreadable"
                        [] OpenRead(f) # "error" /\ Agrees(l.item[f].content, disk[f].body) -> "ok"
                        [] OTHER                                    -> "mismatch")
    /\ Goto(p, [l EXCEPT !.stat = {}, !.todo = @ \ {f}])

EndVerify(p) ==
    LET l == proc[p] IN
    /\ l.pc = "verify" /\ l.todo = {}
    /\ Goto(p, [Idle EXCEPT !.calm = l.calm, !.last = "verified"])
    /\ UNCHANGED store
    /\ Quiet

--------------------------------------------------------------------------------
(* Scans and the drive *)

Disturbed == proc' = [p \in Proc |-> [proc[p] EXCEPT !.calm = FALSE]]

\* A scan lists the files and stages what it saw.
List ==
    /\ DOMAIN listing = {} /\ scans < MaxScans
    /\ lock = NoProc
    /\ scans' = scans + 1
    /\ listing' = [f \in File |-> [there |-> f \notin away, time |-> disk[f].time,
                                   size |-> Size[disk[f].body]]]
    /\ stale' = stale \cup reading
    /\ UNCHANGED <<drive, cat, tx, lock, reading, proc, fixity, changes, passes>>

\* Mutated form: a new time is recorded and the identity stays.
MergedRowKeeps(r, s) ==
    IF s.there
    THEN [r EXCEPT !.st = "live", !.time = s.time, !.size = s.size,
                   !.content = IF r.size = s.size THEN @ ELSE NoContent,
                   !.read = IF r.size = s.size THEN @ ELSE NoBody]
    ELSE [r EXCEPT !.st = IF @ = "live" THEN "gone" ELSE @]

\* merge_scan keeps a row's identity only if neither its size nor its time changed.
MergedRow(r, s) ==
    LET same == r.size = s.size /\ r.time = s.time IN
    IF s.there
    THEN [r EXCEPT !.st = "live", !.time = s.time, !.size = s.size,
                   !.content = IF same THEN @ ELSE NoContent,
                   !.read = IF same THEN @ ELSE NoBody,
                   !.late = @ /\ same]
    ELSE [r EXCEPT !.st = IF @ = "live" THEN "gone" ELSE @]

Merge ==
    /\ DOMAIN listing # {}
    /\ lock = NoProc
    /\ cat' = [cat EXCEPT !.row = [f \in File |-> MergedRow(@[f], listing[f])]]
    /\ tx' = cat'
    /\ listing' = [f \in {} |-> {}]
    /\ stale' = stale \cup reading
    /\ Disturbed
    /\ UNCHANGED <<drive, lock, reading, fixity, changes, scans, passes>>

Change ==
    /\ changes < MaxChanges
    /\ changes' = changes + 1
    /\ Disturbed
    /\ UNCHANGED <<listing, store, fixity, scans, passes>>

\* Software that writes a file gives it a modification time it never had.
Edit(f, b) ==
    /\ Change
    /\ f \notin away
    /\ disk' = [disk EXCEPT ![f] = [body |-> b, time |-> changes + 1]]
    /\ rotted' = rotted \ {f}
    /\ UNCHANGED <<away, shut>>

\* The medium decays under an unchanged time.
Rot(f, b) ==
    /\ Change
    /\ f \notin away /\ disk[f].body # b
    /\ disk' = [disk EXCEPT ![f].body = b]
    /\ rotted' = rotted \cup {f}
    /\ UNCHANGED <<away, shut>>

ToggleAway(f) ==
    /\ Change
    /\ away' = IF f \in away THEN away \ {f} ELSE away \cup {f}
    /\ UNCHANGED <<disk, shut, rotted>>

ToggleShut(f) ==
    /\ Change
    /\ shut' = IF f \in shut THEN shut \ {f} ELSE shut \cup {f}
    /\ UNCHANGED <<disk, away, rotted>>

PassStep(p) ==
    \/ \E f \in File : \/ Read(p, f) \/ Unreadable(p, f) \/ QuickResult(p, f) \/ FullResult(p, f)
                       \/ VerifyStat(p, f) \/ VerifyHash(p, f)
    \/ EndQuick(p) \/ FindCollisions(p) \/ EndFull(p) \/ EndVerify(p)
    \/ Stop(p)

World ==
    \E f \in File : \/ \E b \in Body : Edit(f, b) \/ Rot(f, b)
                    \/ ToggleAway(f) \/ ToggleShut(f)

Next ==
    \/ \E p \in Proc : \/ \E scope \in ScopeChoices : BeginHash(p, scope) \/ BeginVerify(p, scope)
                       \/ PassStep(p)
    \/ List \/ Merge
    \/ World

Spec == Init /\ [][Next]_vars

--------------------------------------------------------------------------------
(* Properties *)

PlainOK ==
    /\ disk \in [File -> [body : Body, time : Time]]
    /\ away \subseteq File /\ shut \subseteq File /\ rotted \subseteq File
    /\ lock \in Proc \cup {NoProc}
    /\ reading \subseteq Proc /\ stale \subseteq Proc
    /\ fixity \in [File -> {"none", "ok", "mismatch", "modified", "unreadable"}]
    /\ changes \in Time /\ scans \in 0 .. MaxScans /\ passes \in 0 .. MaxPasses

\* Every variable keeps its type.
TypeOK ==
    /\ PlainOK
    /\ listing \in [{} -> Listing] \cup [File -> Listing]
    /\ cat \in Catalog /\ tx \in Catalog
    /\ proc \in [Proc -> Local]

Live(f) == cat.row[f].st = "live"
Identified(f) == Live(f) /\ cat.row[f].content # NoContent

\* Two live files share an exact content only if the same bytes were read from
\* them, however passes overlap each other, scans and changes of the drive.
ExactMeansSame ==
    \A f, g \in File :
        /\ Identified(f) /\ Identified(g)
        /\ cat.row[f].content = cat.row[g].content
        /\ Exact(cat.row[f].content)
        => cat.row[f].read = cat.row[g].read

\* The key of a content is a digest of the bytes b.
KeyFits(c, b) ==
    /\ b \in Body
    /\ c.full \in {NoBody, b}
    /\ c.full = NoBody => c.quick = Quick(c.size, b)

\* A row r of a file that is now d, decayed or not.
RowSound(r, d, decayed) ==
    /\ r \in FileRow
    /\ r.time <= d.time
    /\ r.content # NoContent => KeyFits(r.content, r.read)
    /\ r.content # NoContent /\ ~r.late /\ r.time = d.time /\ ~decayed => r.read = d.body

CatalogSound(t, ds, rs) ==
    /\ t \in Catalog
    /\ \A f \in File : RowSound(t.row[f], ds[f], f \in rs)

\* What a pass has read of a file is what the file holds, unless it changed
\* after the pass queried its row.
LocalSound(l, ds, rs) ==
    /\ l \in Local
    /\ \A f \in File :
          /\ l.item[f].time <= ds[f].time
          /\ l.got[f] \in Body /\ l.item[f].time = ds[f].time /\ f \notin rs
               => l.got[f] = ds[f].body
          /\ l.pc = "quick" /\ f \in l.todo \cup l.pending => l.item[f].size \in Sizes
          /\ l.pc = "full" /\ f \in l.todo => l.item[f].content \in Content
          /\ f \in l.pending => l.pc = "quick" /\ l.got[f] \in Body

ListingSound(ls, ds) ==
    /\ ls \in [{} -> Listing] \cup [File -> Listing]
    /\ \A f \in DOMAIN ls : ls[f].time <= ds[f].time

\* The inductive invariant: what catalog, transaction, listing and passes know
\* of a file is never ahead of it, and true of it where the times agree.
IdentityInv ==
    /\ PlainOK
    /\ \A f \in File : disk[f].time <= changes
    /\ CatalogSound(cat, disk, rotted)
    /\ CatalogSound(tx, disk, rotted)
    /\ ListingSound(listing, disk)
    /\ proc \in [Proc -> Local]
    /\ \A p \in Proc : LocalSound(proc[p], disk, rotted)

\* A row that records the file's present modification time has the identity of
\* its present bytes, unless they decayed or the identity was assigned to a row
\* that a scan had changed since the pass queried it.
IdentityIsCurrent ==
    \A f \in File :
        /\ Identified(f) /\ ~cat.row[f].late
        /\ cat.row[f].time = disk[f].time /\ f \notin rotted
        => cat.row[f].read = disk[f].body

\* merge_scan: "Content identity is invalidated when the bytes may have
\* changed".  It is not when a pass that had read the old bytes is still to
\* assign them.
ChangedBytesDropIdentity ==
    \A f \in File :
        /\ Identified(f)
        /\ cat.row[f].time = disk[f].time /\ f \notin rotted
        => cat.row[f].read = disk[f].body

Done(p, result) == proc[p].pc = "idle" /\ proc[p].last = result /\ proc[p].calm

\* A hash pass over a truthful catalog and a drive at rest gives two files one
\* identity exactly when they hold the same bytes, whatever earlier passes left
\* half separated: a third copy meets the first two.
QuietHashExact ==
    \A p \in Proc : Done(p, "hashed") =>
        \A f, g \in File :
            /\ f # g /\ Live(f) /\ Live(g) /\ cat.row[f].size > 0
            => (disk[f].body = disk[g].body <=>
                  Identified(f) /\ cat.row[f].content = cat.row[g].content)

\* "Never claim identity that was not established": a pass that ran to its end
\* leaves no two files under one identity unless the same bytes were read.
SharedMeansSame ==
    (\A p \in Proc : proc[p].pc = "idle" /\ proc[p].last = "hashed") =>
        \A f, g \in File :
            /\ Identified(f) /\ Identified(g)
            /\ cat.row[f].content = cat.row[g].content
            => cat.row[f].read = cat.row[g].read

\* A verify pass on a drive at rest reports every file whose bytes are no
\* longer those its exact identity came from, small or large, and no other.
RotReported ==
    \A p \in Proc : Done(p, "verified") =>
        \A f \in File :
            /\ Identified(f) /\ Exact(cat.row[f].content)
            /\ f \notin away \cup shut
            /\ cat.row[f].time = disk[f].time
            => /\ fixity[f] = "mismatch" <=> disk[f].body # cat.row[f].read
               /\ fixity[f] = "ok" <=> disk[f].body = cat.row[f].read
=============================================================================
