----------------------------- MODULE IdentityProofs ----------------------------
(***************************************************************************)
(* Proofs about module Identity, for every set of files and bodies, every  *)
(* number of programs and every bound.                                     *)
(*                                                                         *)
(* The lemmas of the first part are about one row, and about one pass as   *)
(* the drive changes under it; the second part carries them over catalogs  *)
(* and passes, and the third takes them through the actions.  The parts    *)
(* after the first theorems are about passes that nothing disturbs: what   *)
(* every pass keeps of the write lock and of the content table, what a     *)
(* verify pass reports, and what a hash pass establishes phase by phase.   *)
(***************************************************************************)
EXTENDS Identity, FiniteSetTheorems, TLAPS

--------------------------------------------------------------------------------
(* One row *)

\* assign_content gives a row the digest of what was read, and that is the
\* file's present content if the row's time has stayed the file's.
LEMMA AssignedSound ==
    ASSUME NEW r, NEW d \in [body : Body, time : Time], NEW decayed,
           NEW l \in Local, NEW f \in File, NEW key \in Content,
           RowSound(r, d, decayed),
           KeyFits(key, l.got[f]),
           l.item[f].time = d.time /\ ~decayed => l.got[f] = d.body
    PROVE  RowSound(Assigned(r, l, f, key), d, decayed)
<1> DEFINE n == Assigned(r, l, f, key)
<1>1. r \in FileRow /\ l.item[f] \in FileRow
  BY DEF RowSound, Local
<1>2. l.got[f] \in Body
  BY DEF KeyFits
<1>3. n \in FileRow
  BY <1>1, <1>2 DEF Assigned, FileRow
<1>4. /\ n.time = r.time
      /\ n.content = key
      /\ n.read = l.got[f]
      /\ ~n.late => l.item[f].time = r.time
  BY <1>1 DEF Assigned, FileRow
<1>5. QED
  BY <1>3, <1>4 DEF RowSound

\* A merge keeps an identity only with the time it belongs to.
LEMMA MergedSound ==
    ASSUME NEW r, NEW d \in [body : Body, time : Time], NEW decayed,
           NEW s \in Listing,
           RowSound(r, d, decayed),
           s.time <= d.time
    PROVE  RowSound(MergedRow(r, s), d, decayed)
<1> DEFINE n == MergedRow(r, s)
<1>1. r \in FileRow
  BY DEF RowSound
<1>2. CASE s.there /\ r.size = s.size /\ r.time = s.time
  <2>1. n \in FileRow
    BY <1>1, <1>2 DEF MergedRow, FileRow, Listing
  <2>2. n.time = r.time /\ n.content = r.content /\ n.read = r.read /\ n.late = r.late
    BY <1>1, <1>2 DEF MergedRow, FileRow, Listing
  <2>3. QED
    BY <2>1, <2>2 DEF RowSound
<1>3. CASE s.there /\ ~(r.size = s.size /\ r.time = s.time)
  <2>1. n \in FileRow
    BY <1>1, <1>3 DEF MergedRow, FileRow, Listing
  <2>2. n.time = s.time /\ n.content = NoContent
    BY <1>1, <1>3 DEF MergedRow, FileRow, Listing
  <2>3. QED
    BY <2>1, <2>2 DEF RowSound
<1>4. CASE ~s.there
  <2>1. n \in FileRow
    BY <1>1, <1>4 DEF MergedRow, FileRow
  <2>2. n.time = r.time /\ n.content = r.content /\ n.read = r.read /\ n.late = r.late
    BY <1>1, <1>4 DEF MergedRow, FileRow
  <2>3. QED
    BY <2>1, <2>2 DEF RowSound
<1>5. QED
  BY <1>2, <1>3, <1>4 DEF Listing

\* An edit gives the file a time no row has.
LEMMA EditedRowSound ==
    ASSUME NEW r, NEW d \in [body : Body, time : Time], NEW decayed,
           NEW e \in [body : Body, time : Time],
           RowSound(r, d, decayed),
           d.time < e.time
    PROVE  RowSound(r, e, FALSE)
<1>1. r \in FileRow /\ r.time \in Nat /\ d.time \in Nat /\ e.time \in Nat
  BY BoundAssumption DEF RowSound, FileRow, Time
<1>2. r.time < e.time
  BY <1>1 DEF RowSound
<1>3. QED
  BY <1>1, <1>2 DEF RowSound

\* Nothing is claimed of decayed bytes.
LEMMA RottenRowSound ==
    ASSUME NEW r, NEW d, NEW e, NEW decayed,
           RowSound(r, d, decayed),
           d.time = e.time
    PROVE  RowSound(r, e, TRUE)
  BY DEF RowSound

--------------------------------------------------------------------------------
(* Catalogs, passes and listings while the drive changes *)

Disks == [File -> [body : Body, time : Time]]

\* How a change of the drive moves disk and rotted: file f is edited or decays.
Moves(f, ds, rs, es, ss) ==
    \E b \in Body :
        \/ /\ es = [ds EXCEPT ![f] = [body |-> b, time |-> es[f].time]]
           /\ ds[f].time < es[f].time
           /\ ss = rs \ {f}
        \/ /\ es = [ds EXCEPT ![f].body = b]
           /\ ss = rs \cup {f}

LEMMA MovedCatalogSound ==
    ASSUME NEW ds \in Disks, NEW rs \in SUBSET File,
           NEW es \in Disks, NEW ss \in SUBSET File,
           NEW f \in File, Moves(f, ds, rs, es, ss),
           NEW t, CatalogSound(t, ds, rs)
    PROVE  CatalogSound(t, es, ss)
<1> SUFFICES ASSUME NEW g \in File
             PROVE  RowSound(t.row[g], es[g], g \in ss)
  BY DEF CatalogSound
<1>1. RowSound(t.row[g], ds[g], g \in rs)
  BY DEF CatalogSound
<1>2. CASE g # f
  <2>1. es[g] = ds[g] /\ (g \in ss <=> g \in rs)
    BY <1>2 DEF Moves, Disks
  <2>2. QED
    BY <1>1, <2>1 DEF RowSound
<1>3. CASE g = f /\ ds[f].time < es[f].time /\ ss = rs \ {f}
  <2>1. RowSound(t.row[g], es[g], FALSE)
    BY <1>1, <1>3, EditedRowSound DEF Disks
  <2>2. QED
    BY <2>1, <1>3 DEF RowSound
<1>4. CASE g = f /\ ds[f].time = es[f].time /\ ss = rs \cup {f}
  <2>1. RowSound(t.row[g], es[g], TRUE)
    BY <1>1, <1>4, RottenRowSound
  <2>2. QED
    BY <2>1, <1>4 DEF RowSound
<1>5. QED
  BY <1>2, <1>3, <1>4 DEF Moves, Disks

LEMMA MovedLocalSound ==
    ASSUME NEW ds \in Disks, NEW rs \in SUBSET File,
           NEW es \in Disks, NEW ss \in SUBSET File,
           NEW f \in File, Moves(f, ds, rs, es, ss),
           NEW l, LocalSound(l, ds, rs)
    PROVE  LocalSound([l EXCEPT !.calm = FALSE], es, ss)
<1> DEFINE n == [l EXCEPT !.calm = FALSE]
<1>1. l \in Local
  BY DEF LocalSound
<1>2. n \in Local
  BY <1>1 DEF Local
<1>3. /\ n.pc = l.pc /\ n.item = l.item /\ n.todo = l.todo
      /\ n.got = l.got /\ n.pending = l.pending
  BY <1>1 DEF Local
<1>4. ASSUME NEW g \in File
      PROVE  /\ l.item[g].time <= es[g].time
             /\ l.got[g] \in Body /\ l.item[g].time = es[g].time /\ g \notin ss
                  => l.got[g] = es[g].body
  <2>1. l.item[g].time \in Nat /\ ds[g].time \in Nat /\ es[g].time \in Nat
    BY <1>1, BoundAssumption DEF Local, FileRow, Disks, Time
  <2>2. l.item[g].time <= ds[g].time
    BY DEF LocalSound
  <2>3. CASE g # f
    <3>1. es[g] = ds[g] /\ (g \in ss <=> g \in rs)
      BY <2>3 DEF Moves, Disks
    <3>2. QED
      BY <3>1 DEF LocalSound
  <2>4. CASE g = f /\ ds[f].time < es[f].time
    BY <2>1, <2>2, <2>4
  <2>5. CASE g = f /\ ds[f].time = es[f].time /\ ss = rs \cup {f}
    BY <2>2, <2>5
  <2>6. QED
    BY <2>3, <2>4, <2>5 DEF Moves, Disks
<1>5. QED
  BY <1>2, <1>3, <1>4 DEF LocalSound

LEMMA MovedListingSound ==
    ASSUME NEW ds \in Disks, NEW rs, NEW es \in Disks, NEW ss,
           NEW f \in File, Moves(f, ds, rs, es, ss),
           NEW ls, ListingSound(ls, ds)
    PROVE  ListingSound(ls, es)
<1>1. ls \in [{} -> Listing] \cup [File -> Listing]
  BY DEF ListingSound
<1> SUFFICES ASSUME NEW g \in DOMAIN ls
             PROVE  ls[g].time <= es[g].time
  BY <1>1 DEF ListingSound
<1>2. g \in File /\ ls[g] \in Listing
  BY <1>1
<1>3. ls[g].time \in Nat /\ ds[g].time \in Nat /\ es[g].time \in Nat
  BY <1>2, BoundAssumption DEF Listing, Disks, Time
<1>4. ls[g].time <= ds[g].time
  BY DEF ListingSound
<1>5. ds[g].time <= es[g].time
  BY <1>2, <1>3 DEF Moves, Disks
<1>6. QED
  BY <1>3, <1>4, <1>5

--------------------------------------------------------------------------------
(* What a pass writes, and what it remembers *)

LEMMA QuickKey ==
    ASSUME NEW ds, NEW rs, NEW l, LocalSound(l, ds, rs), NEW f \in File,
           l.item[f].size \in Sizes, l.got[f] \in Body
    PROVE  /\ QuickContent(l, f) \in Content
           /\ KeyFits(QuickContent(l, f), l.got[f])
  BY DEF QuickContent, Content, QuickHash, Quick, KeyFits

LEMMA FullKey ==
    ASSUME NEW ds, NEW rs, NEW l, LocalSound(l, ds, rs), NEW f \in File,
           l.item[f].content \in Content, l.got[f] \in Body
    PROVE  /\ FullContent(l, f) \in Content
           /\ KeyFits(FullContent(l, f), l.got[f])
  BY BodyAssumption DEF FullContent, Content, Sizes, KeyFits

LEMMA AssignedRowSound ==
    ASSUME NEW ds \in Disks, NEW rs \in SUBSET File,
           NEW l, LocalSound(l, ds, rs),
           NEW t, CatalogSound(t, ds, rs),
           NEW f \in File, NEW key \in Content, KeyFits(key, l.got[f])
    PROVE  RowSound(Assigned(t.row[f], l, f, key), ds[f], f \in rs)
<1>1. l \in Local /\ l.got[f] \in Body /\ ds[f] \in [body : Body, time : Time]
  BY DEF LocalSound, KeyFits, Disks
<1>2. RowSound(t.row[f], ds[f], f \in rs)
  BY DEF CatalogSound
<1>3. l.item[f].time = ds[f].time /\ f \notin rs => l.got[f] = ds[f].body
  BY <1>1 DEF LocalSound
<1>4. QED
  BY <1>1, <1>2, <1>3, AssignedSound

\* A catalog that gains a key stays sound.
LEMMA KeyedSound ==
    ASSUME NEW ds, NEW rs, NEW t, CatalogSound(t, ds, rs), NEW key \in Content
    PROVE  CatalogSound([t EXCEPT !.keys = @ \cup {key}], ds, rs)
<1>1. t \in Catalog
  BY DEF CatalogSound
<1>2. /\ [t EXCEPT !.keys = @ \cup {key}] \in Catalog
      /\ [t EXCEPT !.keys = @ \cup {key}].row = t.row
  BY <1>1 DEF Catalog
<1>3. QED
  BY <1>2 DEF CatalogSound

LEMMA QuickAssignedSound ==
    ASSUME NEW ds \in Disks, NEW rs \in SUBSET File,
           NEW l, LocalSound(l, ds, rs),
           NEW t, CatalogSound(t, ds, rs),
           NEW fs \in SUBSET File,
           \A f \in fs : l.item[f].size \in Sizes /\ l.got[f] \in Body
    PROVE  CatalogSound(QuickAssigned(t, l, fs), ds, rs)
<1> DEFINE n == QuickAssigned(t, l, fs)
<1>1. t \in Catalog
  BY DEF CatalogSound
<1>2. ASSUME NEW f \in File
      PROVE  RowSound(IF f \in fs THEN Assigned(t.row[f], l, f, QuickContent(l, f))
                                  ELSE t.row[f], ds[f], f \in rs)
  <2>1. CASE f \in fs
    BY <2>1, QuickKey, AssignedRowSound
  <2>2. CASE f \notin fs
    BY <2>2 DEF CatalogSound
  <2>3. QED
    BY <2>1, <2>2
<1>3. n.row = [f \in File |-> IF f \in fs THEN Assigned(t.row[f], l, f, QuickContent(l, f))
                                          ELSE t.row[f]]
  BY <1>1 DEF QuickAssigned, Catalog
<1>4. n.row \in [File -> FileRow]
  BY <1>2, <1>3 DEF RowSound
<1>5. n \in Catalog
  BY <1>1, <1>4 DEF QuickAssigned, Catalog
<1>6. QED
  BY <1>2, <1>3, <1>5 DEF CatalogSound

LEMMA FullAssignedSound ==
    ASSUME NEW ds \in Disks, NEW rs \in SUBSET File,
           NEW l, LocalSound(l, ds, rs),
           NEW t, CatalogSound(t, ds, rs),
           NEW f \in File, l.item[f].content \in Content, l.got[f] \in Body
    PROVE  CatalogSound([t EXCEPT !.keys = @ \cup {FullContent(l, f)},
                                  !.row[f] = Assigned(@, l, f, FullContent(l, f))], ds, rs)
<1> DEFINE key == FullContent(l, f)
<1> DEFINE n == [t EXCEPT !.keys = @ \cup {key}, !.row[f] = Assigned(@, l, f, key)]
<1>1. t \in Catalog
  BY DEF CatalogSound
<1>2. key \in Content /\ KeyFits(key, l.got[f])
  BY FullKey
<1>3. RowSound(Assigned(t.row[f], l, f, key), ds[f], f \in rs)
  BY <1>2, AssignedRowSound
<1>4. Assigned(t.row[f], l, f, key) \in FileRow
  BY <1>3 DEF RowSound
<1> HIDE DEF key
<1>5. n.row = [t.row EXCEPT ![f] = Assigned(t.row[f], l, f, key)]
  BY <1>1 DEF Catalog
<1>6. n \in Catalog
  BY <1>1, <1>2, <1>4 DEF Catalog
<1>7. ASSUME NEW g \in File
      PROVE  RowSound(n.row[g], ds[g], g \in rs)
  <2>1. t.row \in [File -> FileRow]
    BY <1>1 DEF Catalog
  <2>2. CASE g = f
    <3>1. n.row[g] = Assigned(t.row[f], l, f, key)
      BY <1>5, <2>1, <2>2
    <3>2. QED
      BY <3>1, <2>2, <1>3
  <2>3. CASE g # f
    <3>1. n.row[g] = t.row[g]
      BY <1>5, <2>1, <2>3
    <3>2. QED
      BY <3>1 DEF CatalogSound
  <2>4. QED
    BY <2>2, <2>3
<1>8. QED
  BY <1>6, <1>7 DEF CatalogSound, key

\* A pass that goes on with the rows and reads it has stays sound, as long as
\* what it adds to do it has the right to.
LEMMA NextLocalSound ==
    ASSUME NEW ds, NEW rs, NEW l, LocalSound(l, ds, rs),
           NEW n \in Local,
           n.pc = l.pc, n.item = l.item, n.got = l.got,
           n.todo \subseteq l.todo,
           n.pending \subseteq l.pending
             \/ \E f \in l.todo : /\ l.pc = "quick" /\ l.got[f] \in Body
                                 /\ n.pending \subseteq l.pending \cup {f}
    PROVE  LocalSound(n, ds, rs)
  BY DEF LocalSound, Local

\* A pass that has just queried its rows, and read nothing.
LEMMA FreshLocalSound ==
    ASSUME NEW ds, NEW rs, NEW t, CatalogSound(t, ds, rs),
           NEW n \in Local,
           n.item = t.row,
           n.got = [f \in File |-> "waiting"],
           n.pending = {},
           n.pc = "quick" => \A f \in n.todo : n.item[f].size \in Sizes,
           n.pc = "full" => \A f \in n.todo : n.item[f].content \in Content
    PROVE  LocalSound(n, ds, rs)
<1> SUFFICES ASSUME NEW f \in File
             PROVE  n.item[f].time <= ds[f].time /\ n.got[f] \notin Body
  BY DEF LocalSound
<1>1. RowSound(t.row[f], ds[f], f \in rs)
  BY DEF CatalogSound
<1>2. QED
  BY <1>1, BodyAssumption DEF RowSound

\* A program that runs no pass.
LEMMA RestSound ==
    ASSUME NEW ds \in Disks, NEW rs, NEW n \in Local,
           n.pc = "idle", n.pending = {},
           n.item = [f \in File |-> NoRow],
           n.got = [f \in File |-> "waiting"]
    PROVE  LocalSound(n, ds, rs)
<1> SUFFICES ASSUME NEW f \in File
             PROVE  n.item[f].time <= ds[f].time /\ n.got[f] \notin Body
  BY DEF LocalSound
<1>1. n.item[f].time = 0 /\ ds[f].time \in Nat
  BY BoundAssumption DEF NoRow, Disks, Time
<1>2. n.got[f] = "waiting"
  OBVIOUS
<1>3. QED
  BY <1>1, <1>2, BodyAssumption

LEMMA IdleLocal ==
    Idle \in Local
<1>1. NoRow \in FileRow
  BY BoundAssumption DEF NoRow, FileRow, Time
<1>2. QED
  BY <1>1 DEF Idle, Local

LEMMA IdleSound ==
    ASSUME NEW ds \in Disks, NEW rs
    PROVE  /\ LocalSound(Idle, ds, rs)
           /\ LocalSound([Idle EXCEPT !.last = "stopped"], ds, rs)
           /\ \A c \in BOOLEAN, r \in {"none", "hashed", "verified", "stopped"} :
                 LocalSound([Idle EXCEPT !.calm = c, !.last = r], ds, rs)
<1>1. LocalSound(Idle, ds, rs)
  BY IdleLocal, RestSound DEF Idle
<1>2. LocalSound([Idle EXCEPT !.last = "stopped"], ds, rs)
  <2>1. [Idle EXCEPT !.last = "stopped"] \in Local
    BY IdleLocal DEF Local
  <2>2. QED
    BY <2>1, RestSound DEF Idle
<1>3. ASSUME NEW c \in BOOLEAN, NEW r \in {"none", "hashed", "verified", "stopped"}
      PROVE  LocalSound([Idle EXCEPT !.calm = c, !.last = r], ds, rs)
  <2>1. [Idle EXCEPT !.calm = c, !.last = r] \in Local
    BY IdleLocal DEF Local
  <2>2. QED
    BY <2>1, RestSound DEF Idle
<1>4. QED
  BY <1>1, <1>2, <1>3

--------------------------------------------------------------------------------
(* Steps of a pass *)

StoreSound ==
    /\ CatalogSound(cat, disk, rotted)
    /\ CatalogSound(tx, disk, rotted)
    /\ lock \in Proc \cup {NoProc}
    /\ reading \subseteq Proc
    /\ stale \subseteq Proc

Fixities == [File -> {"none", "ok", "mismatch", "modified", "unreadable"}]

\* Whatever a pass writes or commits is sound if the new catalog is.
LEMMA WriteSound ==
    ASSUME NEW p \in Proc, NEW new,
           StoreSound, UNCHANGED <<disk, rotted>>,
           CatalogSound(new, disk, rotted),
           Write(p, new) \/ Commit(p, new)
    PROVE  StoreSound'
<1>1. cat' \in {cat, new} /\ tx' = new
  BY DEF Write, Commit
<1>2. CatalogSound(cat', disk, rotted) /\ CatalogSound(tx', disk, rotted)
  BY <1>1 DEF StoreSound
<1>3. CatalogSound(cat, disk, rotted)' /\ CatalogSound(tx, disk, rotted)'
  BY <1>2
<1>4. /\ lock' \in Proc \cup {NoProc}
      /\ reading' \subseteq Proc
      /\ stale' \subseteq Proc
  BY DEF StoreSound, Write, Commit
<1>5. QED
  BY <1>3, <1>4 DEF StoreSound

LEMMA ReadSound ==
    ASSUME NEW p \in Proc,
           StoreSound, UNCHANGED <<disk, rotted>>,
           ReadOnly(p) \/ Leave(p) \/ UNCHANGED store
    PROVE  StoreSound'
<1>1. cat' = cat /\ tx' \in {cat, tx}
  BY DEF ReadOnly, Leave, store
<1>2. CatalogSound(cat', disk, rotted) /\ CatalogSound(tx', disk, rotted)
  BY <1>1 DEF StoreSound
<1>3. CatalogSound(cat, disk, rotted)' /\ CatalogSound(tx, disk, rotted)'
  BY <1>2
<1>4. /\ lock' \in Proc \cup {NoProc}
      /\ reading' \subseteq Proc
      /\ stale' \subseteq Proc
  BY DEF StoreSound, ReadOnly, Leave, store
<1>5. QED
  BY <1>3, <1>4 DEF StoreSound

LEMMA EndSound ==
    ASSUME NEW p \in Proc,
           StoreSound, UNCHANGED <<disk, rotted>>,
           EndTransaction(p)
    PROVE  StoreSound'
<1>1. CASE lock = p
  <2>1. CatalogSound(tx, disk, rotted) /\ Commit(p, tx)
    BY <1>1 DEF EndTransaction, StoreSound
  <2>2. QED
    BY <2>1, WriteSound
<1>2. CASE lock # p
  BY <1>2, ReadSound DEF EndTransaction
<1>3. QED
  BY <1>1, <1>2

LEMMA ViewSound ==
    ASSUME NEW p, StoreSound
    PROVE  CatalogSound(View(p), disk, rotted)
  BY DEF View, StoreSound

\* What every step has to work with.
LEMMA Given ==
    ASSUME IdentityInv
    PROVE  /\ StoreSound
           /\ disk \in Disks /\ rotted \in SUBSET File
           /\ fixity \in Fixities
           /\ \A p \in Proc : LocalSound(proc[p], disk, rotted) /\ proc[p] \in Local
  BY DEF IdentityInv, PlainOK, StoreSound, Disks, Fixities

\* A step of one pass on a drive at rest.
LEMMA PassSound ==
    ASSUME IdentityInv, NEW p \in Proc,
           NEW l, LocalSound(l, disk, rotted),
           Goto(p, l),
           StoreSound',
           UNCHANGED <<drive, listing, changes, scans, passes>>,
           fixity' \in Fixities
    PROVE  IdentityInv'
<1>1. l \in Local /\ proc' = [proc EXCEPT ![p] = l] /\ proc \in [Proc -> Local]
  BY DEF LocalSound, Goto, IdentityInv
<1>2. proc' \in [Proc -> Local]
  BY <1>1
<1>3. \A q \in Proc : LocalSound(proc'[q], disk, rotted)
  BY <1>1 DEF IdentityInv
<1>4. (\A q \in Proc : LocalSound(proc[q], disk, rotted))'
  BY <1>3 DEF drive
<1>5. PlainOK'
  BY DEF PlainOK, IdentityInv, StoreSound, drive, Fixities, Time
<1>6. (\A f \in File : disk[f].time <= changes)' /\ ListingSound(listing, disk)'
  BY DEF IdentityInv, drive
<1>7. CatalogSound(cat, disk, rotted)' /\ CatalogSound(tx, disk, rotted)'
  BY DEF StoreSound
<1>8. QED
  BY <1>2, <1>4, <1>5, <1>6, <1>7 DEF IdentityInv

LEMMA ReadStep ==
    ASSUME IdentityInv, NEW p \in Proc, NEW f \in File, Read(p, f)
    PROVE  IdentityInv'
<1> DEFINE l == proc[p]
           n == [l EXCEPT !.got[f] = OpenRead(f)]
<1>1. /\ l \in Local /\ LocalSound(l, disk, rotted) /\ StoreSound
      /\ disk \in Disks /\ fixity \in Fixities
  BY Given
<1>2. OpenRead(f) \in Body \cup {"error"} /\ (OpenRead(f) \in Body => OpenRead(f) = disk[f].body)
  BY <1>1, BodyAssumption DEF OpenRead, Disks
<1>3. /\ n \in Local
      /\ n.pc = l.pc /\ n.item = l.item /\ n.todo = l.todo /\ n.pending = l.pending
      /\ n.got = [l.got EXCEPT ![f] = OpenRead(f)]
  BY <1>1, <1>2 DEF Local
<1>4. ASSUME NEW g \in File
      PROVE  /\ n.got[g] \in Body /\ l.item[g].time = disk[g].time /\ g \notin rotted
                  => n.got[g] = disk[g].body
             /\ g \in l.pending => n.got[g] \in Body
  <2>1. l.got \in [File -> Body \cup {"waiting", "error"}]
    BY <1>1 DEF Local
  <2>2. CASE g = f
    <3>1. n.got[g] = OpenRead(f)
      BY <1>3, <2>1, <2>2
    <3>2. g \notin l.pending
      BY <1>1, <2>2, BodyAssumption DEF LocalSound, Read
    <3>3. QED
      BY <3>1, <3>2, <1>2, <2>2
  <2>3. CASE g # f
    <3>1. n.got[g] = l.got[g]
      BY <1>3, <2>1, <2>3
    <3>2. QED
      BY <3>1, <1>1 DEF LocalSound
  <2>4. QED
    BY <2>2, <2>3
<1>5. LocalSound(n, disk, rotted)
  BY <1>1, <1>3, <1>4 DEF LocalSound
<1>6. StoreSound'
  BY <1>1, ReadSound DEF Read, Quiet, drive
<1>7. QED
  BY <1>1, <1>5, <1>6, PassSound DEF Read, Quiet

LEMMA UnreadableStep ==
    ASSUME IdentityInv, NEW p \in Proc, NEW f \in File, Unreadable(p, f)
    PROVE  IdentityInv'
<1> DEFINE l == proc[p]
           n == [l EXCEPT !.todo = @ \ {f}]
<1>1. l \in Local /\ LocalSound(l, disk, rotted) /\ StoreSound /\ fixity \in Fixities
  BY Given
<1>2. /\ n \in Local
      /\ n.pc = l.pc /\ n.item = l.item /\ n.got = l.got
      /\ n.todo \subseteq l.todo /\ n.pending = l.pending
  BY <1>1 DEF Local
<1>3. LocalSound(n, disk, rotted)
  BY <1>1, <1>2, NextLocalSound
<1>4. StoreSound'
  BY <1>1, ReadSound DEF Unreadable, Quiet, drive
<1>5. QED
  BY <1>1, <1>3, <1>4, PassSound DEF Unreadable, Quiet

LEMMA QuickResultStep ==
    ASSUME IdentityInv, NEW p \in Proc, NEW f \in File, QuickResult(p, f)
    PROVE  IdentityInv'
<1> DEFINE l       == proc[p]
           key     == QuickContent(l, f)
           new     == [View(p) EXCEPT !.keys = @ \cup {key}]
           pending == l.pending \cup {f}
           full    == Cardinality(pending) >= CheckpointRows
           n       == [l EXCEPT !.todo = @ \ {f}, !.pending = IF full THEN {} ELSE pending]
<1>1. /\ l \in Local /\ LocalSound(l, disk, rotted) /\ StoreSound
      /\ disk \in Disks /\ rotted \in SUBSET File /\ fixity \in Fixities
  BY Given
<1>2. l.pc = "quick" /\ f \in l.todo /\ l.got[f] \in Body
  BY DEF QuickResult
<1>3. pending \in SUBSET File /\ \A g \in pending : l.item[g].size \in Sizes /\ l.got[g] \in Body
  BY <1>1, <1>2 DEF LocalSound, Local
<1>4. key \in Content
  BY <1>1, <1>2, <1>3, QuickKey
<1>5. CatalogSound(new, disk, rotted)
  BY <1>1, <1>4, ViewSound, KeyedSound
<1>6. CatalogSound(QuickAssigned(new, l, pending), disk, rotted)
  <2> HIDE DEF l, new, pending
  <2> QED
    BY <1>1, <1>3, <1>5, QuickAssignedSound
<1>7. /\ n \in Local
      /\ n.pc = l.pc /\ n.item = l.item /\ n.got = l.got
      /\ n.todo \subseteq l.todo /\ n.pending \subseteq l.pending \cup {f}
  BY <1>1, <1>3 DEF Local
<1>8. LocalSound(n, disk, rotted)
  <2> HIDE DEF l, n
  <2> QED
    BY <1>1, <1>2, <1>7, NextLocalSound
<1>9. StoreSound'
  <2>1. UNCHANGED <<disk, rotted>>
    BY DEF QuickResult, Quiet, drive
  <2>2. \/ Commit(p, QuickAssigned(new, l, pending))
        \/ Write(p, new)
        \/ ReadOnly(p)
    BY DEF QuickResult
  <2> HIDE DEF l, new, pending
  <2>3. QED
    BY <1>1, <1>5, <1>6, <2>1, <2>2, WriteSound, ReadSound
<1>10. Goto(p, n) /\ Quiet
  BY DEF QuickResult
<1> HIDE DEF n
<1>11. QED
  BY <1>1, <1>8, <1>9, <1>10, PassSound DEF Quiet

LEMMA EndQuickStep ==
    ASSUME IdentityInv, NEW p \in Proc, EndQuick(p)
    PROVE  IdentityInv'
<1> DEFINE l == proc[p]
           n == [l EXCEPT !.pc = "collisions", !.pending = {}]
<1>1. /\ l \in Local /\ LocalSound(l, disk, rotted) /\ StoreSound
      /\ disk \in Disks /\ rotted \in SUBSET File /\ fixity \in Fixities
  BY Given
<1>2. UNCHANGED <<disk, rotted>> /\ l.pc = "quick"
  BY DEF EndQuick, Quiet, drive
<1>3. l.pending \in SUBSET File
      /\ \A g \in l.pending : l.item[g].size \in Sizes /\ l.got[g] \in Body
  BY <1>1, <1>2 DEF LocalSound, Local
<1>4. CatalogSound(QuickAssigned(View(p), l, l.pending), disk, rotted)
  <2> HIDE DEF l
  <2> QED
    BY <1>1, <1>3, ViewSound, QuickAssignedSound
<1>5. StoreSound'
  <2>1. Commit(p, QuickAssigned(View(p), l, l.pending)) \/ EndTransaction(p)
    BY DEF EndQuick
  <2> HIDE DEF l
  <2>2. QED
    BY <1>1, <1>2, <1>4, <2>1, WriteSound, EndSound
<1>6. /\ n \in Local /\ n.item = l.item /\ n.got = l.got
      /\ n.pc = "collisions" /\ n.pending = {}
  BY <1>1 DEF Local
<1>7. LocalSound(n, disk, rotted)
  BY <1>1, <1>6 DEF LocalSound
<1>8. QED
  BY <1>1, <1>5, <1>7, PassSound DEF EndQuick, Quiet

LEMMA FindCollisionsStep ==
    ASSUME IdentityInv, NEW p \in Proc, FindCollisions(p)
    PROVE  IdentityInv'
<1> DEFINE l     == proc[p]
           items == Collisions(cat, l.scope)
           n     == [l EXCEPT !.pc = "full", !.item = cat.row, !.todo = items,
                              !.got = [f \in File |-> "waiting"]]
           r     == [Idle EXCEPT !.calm = l.calm, !.last = "hashed"]
<1>1. /\ l \in Local /\ LocalSound(l, disk, rotted) /\ StoreSound
      /\ disk \in Disks /\ fixity \in Fixities
  BY Given
<1>2. StoreSound'
  BY <1>1, ReadSound DEF FindCollisions, Quiet, drive
<1>3. LocalSound(r, disk, rotted)
  BY <1>1, IdleSound DEF Local
<1>4. LocalSound(n, disk, rotted)
  <2>1. CatalogSound(cat, disk, rotted) /\ cat \in Catalog
    BY <1>1 DEF StoreSound, CatalogSound
  <2>2. items \subseteq File /\ \A f \in items : cat.row[f].content \in Content
    BY <1>1, <2>1 DEF Collisions, Catalog, FileRow, Local
  <2>3. l.pc = "collisions"
    BY DEF FindCollisions
  <2>4. l.pending = {}
    BY <1>1, <2>3 DEF LocalSound, Local
  <2>5. n \in Local
    BY <1>1, <2>1, <2>2 DEF Local, Catalog
  <2>6. /\ n.item = cat.row /\ n.got = [f \in File |-> "waiting"]
        /\ n.todo = items /\ n.pc = "full" /\ n.pending = {}
    BY <1>1, <2>4 DEF Local
  <2> HIDE DEF n, items
  <2>7. QED
    BY <2>1, <2>2, <2>5, <2>6, FreshLocalSound
<1>5. Goto(p, n) \/ Goto(p, r)
  BY DEF FindCollisions
<1>6. Quiet
  BY DEF FindCollisions
<1> HIDE DEF n, r
<1>7. QED
  BY <1>1, <1>2, <1>3, <1>4, <1>5, <1>6, PassSound DEF Quiet

LEMMA FullResultStep ==
    ASSUME IdentityInv, NEW p \in Proc, NEW f \in File, FullResult(p, f)
    PROVE  IdentityInv'
<1> DEFINE l   == proc[p]
           new == [View(p) EXCEPT !.keys = @ \cup {FullContent(l, f)},
                                  !.row[f] = Assigned(@, l, f, FullContent(l, f))]
           n   == [l EXCEPT !.todo = @ \ {f}, !.done = l.done + 1]
<1>1. /\ l \in Local /\ LocalSound(l, disk, rotted) /\ StoreSound
      /\ disk \in Disks /\ rotted \in SUBSET File /\ fixity \in Fixities
  BY Given
<1>2. l.pc = "full" /\ f \in l.todo /\ l.got[f] \in Body
  BY DEF FullResult
<1>3. l.item[f].content \in Content
  BY <1>1, <1>2 DEF LocalSound
<1>4. CatalogSound(new, disk, rotted)
  <2> HIDE DEF l
  <2> QED
    BY <1>1, <1>2, <1>3, ViewSound, FullAssignedSound
<1>5. StoreSound'
  <2>1. UNCHANGED <<disk, rotted>> /\ (Commit(p, new) \/ Write(p, new))
    BY DEF FullResult, Quiet, drive
  <2> HIDE DEF new
  <2>2. QED
    BY <1>1, <1>4, <2>1, WriteSound
<1>6. /\ n \in Local
      /\ n.pc = l.pc /\ n.item = l.item /\ n.got = l.got
      /\ n.todo \subseteq l.todo /\ n.pending = l.pending
  <2>1. l.done + 1 \in Nat /\ l.todo \ {f} \in SUBSET File
    BY <1>1 DEF Local
  <2>2. n \in Local
    BY <1>1, <2>1 DEF Local
  <2>3. /\ n.pc = l.pc /\ n.item = l.item /\ n.got = l.got
        /\ n.todo = l.todo \ {f} /\ n.pending = l.pending
    BY <1>1 DEF Local
  <2>4. QED
    BY <2>2, <2>3
<1>7. LocalSound(n, disk, rotted)
  BY <1>1, <1>6, NextLocalSound
<1>8. QED
  BY <1>1, <1>5, <1>7, PassSound DEF FullResult, Quiet

LEMMA EndFullStep ==
    ASSUME IdentityInv, NEW p \in Proc, EndFull(p)
    PROVE  IdentityInv'
<1>1. /\ proc[p] \in Local /\ StoreSound /\ disk \in Disks /\ fixity \in Fixities
  BY Given
<1>2. LocalSound([Idle EXCEPT !.calm = proc[p].calm, !.last = "hashed"], disk, rotted)
  BY <1>1, IdleSound DEF Local
<1>3. StoreSound'
  BY <1>1, EndSound DEF EndFull, Quiet, drive
<1>4. QED
  BY <1>1, <1>2, <1>3, PassSound DEF EndFull, Quiet

LEMMA StopStep ==
    ASSUME IdentityInv, NEW p \in Proc, Stop(p)
    PROVE  IdentityInv'
<1>1. /\ StoreSound /\ disk \in Disks /\ fixity \in Fixities
  BY Given
<1>4. LocalSound([Idle EXCEPT !.last = "stopped"], disk, rotted)
  BY <1>1, IdleSound
<1>5. StoreSound'
  BY <1>1, ReadSound DEF Stop, Quiet, drive
<1>6. QED
  BY <1>1, <1>4, <1>5, PassSound DEF Stop, Quiet

\* A pass begins on the rows it queries.
LEMMA BeginStep ==
    ASSUME IdentityInv, NEW p \in Proc, NEW l,
           LocalSound(l, disk, rotted), Begin(p, l)
    PROVE  IdentityInv'
<1>1. /\ l \in Local /\ proc \in [Proc -> Local]
      /\ \A q \in Proc : LocalSound(proc[q], disk, rotted)
      /\ PlainOK
  BY DEF IdentityInv, LocalSound
<1>2. proc' = [q \in Proc |-> IF q = p THEN l ELSE [proc[q] EXCEPT !.calm = FALSE]]
  BY DEF Begin
<1>3. ASSUME NEW q \in Proc
      PROVE  LocalSound([proc[q] EXCEPT !.calm = FALSE], disk, rotted)
  <2> DEFINE n == [proc[q] EXCEPT !.calm = FALSE]
  <2>1. n \in Local
    <3>1. proc[q] \in Local
      BY <1>1
    <3> QED
      BY ONLY <3>1 DEF Local
  <2>2. /\ n.pc = proc[q].pc /\ n.item = proc[q].item /\ n.got = proc[q].got
        /\ n.todo = proc[q].todo /\ n.pending = proc[q].pending
    BY <1>1 DEF Local
  <2> HIDE DEF n
  <2>3. LocalSound(n, disk, rotted)
    BY <1>1, <2>1, <2>2, NextLocalSound
  <2>4. QED
    BY <2>3 DEF n
<1>4. \A q \in Proc : LocalSound(proc'[q], disk, rotted)
  BY <1>2, <1>3
<1>5. proc' \in [Proc -> Local]
  BY <1>2, <1>4 DEF LocalSound
<1>6. UNCHANGED <<drive, listing, store, fixity, changes, scans>>
  BY DEF Begin
<1>7. (\A q \in Proc : LocalSound(proc[q], disk, rotted))'
  BY <1>4, <1>6 DEF drive
<1>8. passes' \in 0 .. MaxPasses
  BY <1>1, BoundAssumption DEF Begin, PlainOK
<1>9. PlainOK'
  BY <1>1, <1>6, <1>8 DEF PlainOK, drive, store, Time
<1>10. CatalogSound(cat, disk, rotted)' /\ CatalogSound(tx, disk, rotted)'
  BY <1>6 DEF IdentityInv, drive, store
<1>11. (\A f \in File : disk[f].time <= changes)' /\ ListingSound(listing, disk)'
  BY <1>6 DEF IdentityInv, drive
<1>12. QED
  BY <1>5, <1>7, <1>9, <1>10, <1>11 DEF IdentityInv

LEMMA BeginHashStep ==
    ASSUME IdentityInv, NEW p \in Proc, NEW scope \in ScopeChoices, BeginHash(p, scope)
    PROVE  IdentityInv'
<1> DEFINE c == scope = File /\ Alone(p) /\ \A f \in File : TruthOf(f)
           n == [Idle EXCEPT !.pc = "quick", !.scope = scope, !.item = cat.row,
                             !.todo = Candidates(cat, scope), !.calm = c]
<1>1. CatalogSound(cat, disk, rotted) /\ cat \in Catalog
  BY DEF IdentityInv, CatalogSound
<1>2. scope \subseteq File
  BY ScopeAssumption
<1>3. /\ Candidates(cat, scope) \subseteq File
      /\ \A f \in Candidates(cat, scope) : cat.row[f].size \in Sizes
  <2>1. \A f \in File : cat.row[f].size \in Sizes \cup {0}
    BY <1>1 DEF Catalog, FileRow
  <2>2. QED
    BY <1>2, <2>1 DEF Candidates
<1>4. c \in BOOLEAN
  OBVIOUS
<1> HIDE DEF c
<1>5. n \in Local
  BY <1>1, <1>2, <1>3, <1>4, BoundAssumption DEF Local, Idle, Catalog
<1>6. /\ n.item = cat.row /\ n.got = [f \in File |-> "waiting"]
      /\ n.todo = Candidates(cat, scope) /\ n.pc = "quick" /\ n.pending = {}
  BY DEF Idle
<1>7. Begin(p, n)
  BY DEF BeginHash, c
<1> HIDE DEF n
<1>8. LocalSound(n, disk, rotted)
  BY <1>1, <1>3, <1>5, <1>6, FreshLocalSound
<1>9. QED
  BY <1>7, <1>8, BeginStep

LEMMA BeginVerifyStep ==
    ASSUME IdentityInv, NEW p \in Proc, NEW scope \in ScopeChoices, BeginVerify(p, scope)
    PROVE  IdentityInv'
<1> DEFINE c == scope = File /\ Alone(p)
           n == [Idle EXCEPT !.pc = "verify", !.scope = scope, !.item = cat.row,
                             !.todo = {f \in scope : Verifiable(cat, f)}, !.calm = c]
<1>1. CatalogSound(cat, disk, rotted) /\ cat \in Catalog
  BY DEF IdentityInv, CatalogSound
<1>2. scope \subseteq File
  BY ScopeAssumption
<1>3. c \in BOOLEAN
  OBVIOUS
<1> HIDE DEF c
<1>4. n \in Local
  BY <1>1, <1>2, <1>3, BoundAssumption DEF Local, Idle, Catalog
<1>5. /\ n.item = cat.row /\ n.got = [f \in File |-> "waiting"]
      /\ n.pc = "verify" /\ n.pending = {}
  BY DEF Idle
<1>6. Begin(p, n)
  BY DEF BeginVerify, c
<1> HIDE DEF n
<1>7. LocalSound(n, disk, rotted)
  BY <1>1, <1>4, <1>5, FreshLocalSound
<1>8. QED
  BY <1>6, <1>7, BeginStep

\* A verify pass writes nothing the invariant speaks of.
LEMMA RecordedSound ==
    ASSUME IdentityInv, NEW p \in Proc, NEW f \in File,
           NEW r \in {"ok", "mismatch", "modified", "unreadable"},
           Recorded(p, f, r)
    PROVE  StoreSound' /\ fixity' \in Fixities
<1>1. StoreSound /\ fixity \in Fixities /\ CatalogSound(cat, disk, rotted)
  BY Given DEF StoreSound
<1>2. fixity' \in Fixities
  BY <1>1 DEF Recorded, Fixities
<1>3. UNCHANGED <<disk, rotted>> /\ Commit(p, cat)
  BY DEF Recorded, drive
<1>4. QED
  BY <1>1, <1>2, <1>3, WriteSound

LEMMA VerifyStatStep ==
    ASSUME IdentityInv, NEW p \in Proc, NEW f \in File, VerifyStat(p, f)
    PROVE  IdentityInv'
<1> DEFINE l == proc[p]
           n == [l EXCEPT !.todo = @ \ {f}]
           k == [l EXCEPT !.stat = {f}]
<1>1. l \in Local /\ LocalSound(l, disk, rotted) /\ StoreSound /\ fixity \in Fixities
  BY Given
<1>2. LocalSound(n, disk, rotted)
  <2>1. /\ n \in Local
        /\ n.pc = l.pc /\ n.item = l.item /\ n.got = l.got
        /\ n.todo \subseteq l.todo /\ n.pending = l.pending
    BY <1>1 DEF Local
  <2>2. QED
    BY <1>1, <2>1, NextLocalSound
<1>3. LocalSound(k, disk, rotted)
  <2>1. /\ k \in Local
        /\ k.pc = l.pc /\ k.item = l.item /\ k.got = l.got
        /\ k.todo = l.todo /\ k.pending = l.pending
    BY <1>1 DEF Local
  <2>2. QED
    BY <1>1, <2>1, NextLocalSound
<1>4. CASE \E r \in {"modified", "unreadable"} : Recorded(p, f, r) /\ Goto(p, n)
  BY <1>2, <1>4, RecordedSound, PassSound DEF Recorded
<1>5. CASE Goto(p, k) /\ UNCHANGED store /\ Quiet
  <2>1. StoreSound'
    BY <1>1, <1>5, ReadSound DEF Quiet, drive
  <2>2. QED
    BY <1>1, <1>3, <1>5, <2>1, PassSound DEF Quiet
<1>6. QED
  BY <1>4, <1>5 DEF VerifyStat

LEMMA VerifyHashStep ==
    ASSUME IdentityInv, NEW p \in Proc, NEW f \in File, VerifyHash(p, f)
    PROVE  IdentityInv'
<1> DEFINE l == proc[p]
           n == [l EXCEPT !.stat = {}, !.todo = @ \ {f}]
<1>1. l \in Local /\ LocalSound(l, disk, rotted)
  BY Given
<1>2. LocalSound(n, disk, rotted)
  <2>1. /\ n \in Local
        /\ n.pc = l.pc /\ n.item = l.item /\ n.got = l.got
        /\ n.todo \subseteq l.todo /\ n.pending = l.pending
    BY <1>1 DEF Local
  <2>2. QED
    BY <1>1, <2>1, NextLocalSound
<1>3. PICK r \in {"ok", "mismatch", "unreadable"} : Recorded(p, f, r)
  BY DEF VerifyHash
<1>4. StoreSound' /\ fixity' \in Fixities
  BY <1>3, RecordedSound
<1>5. QED
  BY <1>2, <1>3, <1>4, PassSound DEF VerifyHash, Recorded

LEMMA EndVerifyStep ==
    ASSUME IdentityInv, NEW p \in Proc, EndVerify(p)
    PROVE  IdentityInv'
<1>1. /\ proc[p] \in Local /\ StoreSound /\ disk \in Disks /\ fixity \in Fixities
  BY Given
<1>2. LocalSound([Idle EXCEPT !.calm = proc[p].calm, !.last = "verified"], disk, rotted)
  BY <1>1, IdleSound DEF Local
<1>3. StoreSound'
  BY <1>1, ReadSound DEF EndVerify, Quiet, drive
<1>4. QED
  BY <1>1, <1>2, <1>3, PassSound DEF EndVerify, Quiet

--------------------------------------------------------------------------------
(* Steps of scans and of the drive *)

LEMMA ListStep ==
    ASSUME IdentityInv, List
    PROVE  IdentityInv'
<1>1. PlainOK /\ disk \in Disks
  BY Given DEF IdentityInv
<1>2. ASSUME NEW f \in File
      PROVE  /\ [there |-> f \notin away, time |-> disk[f].time,
                 size |-> Size[disk[f].body]] \in Listing
             /\ disk[f].time \in Nat
  BY <1>1, BoundAssumption DEF Disks, Listing, Sizes, Time
<1>3. ListingSound(listing', disk)
  BY <1>2 DEF List, ListingSound
<1>4. PlainOK'
  BY <1>1, BoundAssumption DEF List, PlainOK, drive, Time
<1>5. ListingSound(listing, disk)'
  BY <1>3 DEF List, drive
<1>6. QED
  BY <1>4, <1>5 DEF List, IdentityInv, drive

\* A catalog merged with a listing.
LEMMA MergedCatalogSound ==
    ASSUME NEW ds \in Disks, NEW rs \in SUBSET File,
           NEW t, CatalogSound(t, ds, rs),
           NEW ls \in [File -> Listing], ListingSound(ls, ds)
    PROVE  CatalogSound([t EXCEPT !.row = [f \in File |-> MergedRow(@[f], ls[f])]], ds, rs)
<1> DEFINE n == [t EXCEPT !.row = [f \in File |-> MergedRow(@[f], ls[f])]]
<1>1. t \in Catalog
  BY DEF CatalogSound
<1>2. n.row = [f \in File |-> MergedRow(t.row[f], ls[f])]
  BY <1>1 DEF Catalog
<1>3. ASSUME NEW f \in File
      PROVE  RowSound(MergedRow(t.row[f], ls[f]), ds[f], f \in rs)
  <2>1. RowSound(t.row[f], ds[f], f \in rs)
    BY DEF CatalogSound
  <2>2. /\ ls[f] \in Listing /\ ls[f].time <= ds[f].time
        /\ ds[f] \in [body : Body, time : Time]
    BY DEF ListingSound, Disks
  <2>3. QED
    BY <2>1, <2>2, MergedSound
<1>4. n.row \in [File -> FileRow]
  BY <1>2, <1>3 DEF RowSound
<1>5. n \in Catalog
  BY <1>1, <1>4 DEF Catalog
<1> HIDE DEF n
<1>6. \A f \in File : RowSound(n.row[f], ds[f], f \in rs)
  BY <1>2, <1>3
<1>7. CatalogSound(n, ds, rs)
  BY <1>5, <1>6 DEF CatalogSound
<1>8. QED
  BY <1>7 DEF n

\* Programs that are told that something moved.
LEMMA DisturbedSound ==
    ASSUME NEW ds \in Disks, NEW rs,
           proc \in [Proc -> Local],
           \A p \in Proc : LocalSound([proc[p] EXCEPT !.calm = FALSE], ds, rs),
           Disturbed
    PROVE  proc' \in [Proc -> Local] /\ \A p \in Proc : LocalSound(proc'[p], ds, rs)
  BY DEF Disturbed, LocalSound

LEMMA UntoldSound ==
    ASSUME NEW ds, NEW rs, NEW l, LocalSound(l, ds, rs)
    PROVE  LocalSound([l EXCEPT !.calm = FALSE], ds, rs)
<1> DEFINE n == [l EXCEPT !.calm = FALSE]
<1>1. l \in Local
  BY DEF LocalSound
<1>2. /\ n \in Local
      /\ n.pc = l.pc /\ n.item = l.item /\ n.got = l.got
      /\ n.todo = l.todo /\ n.pending = l.pending
  BY <1>1 DEF Local
<1> HIDE DEF n
<1>3. LocalSound(n, ds, rs)
  BY <1>2, NextLocalSound
<1>4. QED
  BY <1>3 DEF n

LEMMA MergeStep ==
    ASSUME IdentityInv, Merge
    PROVE  IdentityInv'
<1>1. /\ PlainOK /\ disk \in Disks /\ rotted \in SUBSET File
      /\ CatalogSound(cat, disk, rotted) /\ ListingSound(listing, disk)
      /\ proc \in [Proc -> Local] /\ \A p \in Proc : LocalSound(proc[p], disk, rotted)
  BY Given DEF IdentityInv
<1>2. listing \in [File -> Listing]
  BY <1>1 DEF Merge, ListingSound
<1>3. CatalogSound(cat', disk, rotted) /\ tx' = cat'
  BY <1>1, <1>2, MergedCatalogSound DEF Merge
<1>4. UNCHANGED <<drive, lock, reading, fixity, changes, scans, passes>>
  BY DEF Merge
<1>5. CatalogSound(cat, disk, rotted)' /\ CatalogSound(tx, disk, rotted)'
  BY <1>3, <1>4 DEF drive
<1>6. proc' \in [Proc -> Local] /\ \A p \in Proc : LocalSound(proc'[p], disk, rotted)
  BY <1>1, UntoldSound, DisturbedSound DEF Merge
<1>7. (\A p \in Proc : LocalSound(proc[p], disk, rotted))'
  BY <1>4, <1>6 DEF drive
<1>8. PlainOK'
  BY <1>1, <1>4 DEF Merge, PlainOK, drive, Time
<1>9. listing' = [f \in {} |-> {}]
  BY DEF Merge
<1>10. ListingSound(listing, disk)'
  BY <1>9 DEF ListingSound
<1>11. (\A f \in File : disk[f].time <= changes)'
  BY <1>4 DEF IdentityInv, drive
<1>12. QED
  BY <1>5, <1>6, <1>7, <1>8, <1>10, <1>11 DEF IdentityInv

\* A file is edited or decays.
LEMMA MoveStep ==
    ASSUME IdentityInv, Change, NEW f \in File,
           disk' \in Disks, rotted' \in SUBSET File,
           Moves(f, disk, rotted, disk', rotted'),
           disk'[f].time <= changes + 1,
           UNCHANGED <<away, shut>>
    PROVE  IdentityInv'
<1>1. /\ PlainOK /\ disk \in Disks /\ rotted \in SUBSET File
      /\ CatalogSound(cat, disk, rotted) /\ CatalogSound(tx, disk, rotted)
      /\ ListingSound(listing, disk)
      /\ proc \in [Proc -> Local] /\ \A p \in Proc : LocalSound(proc[p], disk, rotted)
      /\ \A g \in File : disk[g].time <= changes
  BY Given DEF IdentityInv
<1>2. CatalogSound(cat, disk', rotted') /\ CatalogSound(tx, disk', rotted')
  BY <1>1, MovedCatalogSound
<1>3. CatalogSound(cat, disk, rotted)' /\ CatalogSound(tx, disk, rotted)'
  BY <1>2 DEF Change, store
<1>4. ListingSound(listing, disk)'
  BY <1>1, MovedListingSound DEF Change
<1>5. \A p \in Proc : LocalSound([proc[p] EXCEPT !.calm = FALSE], disk', rotted')
  BY <1>1, MovedLocalSound
<1>6. proc' \in [Proc -> Local] /\ \A p \in Proc : LocalSound(proc'[p], disk', rotted')
  BY <1>1, <1>5, DisturbedSound DEF Change
<1>7. changes' \in Time /\ changes' = changes + 1 /\ changes \in Nat
  BY <1>1, BoundAssumption DEF Change, PlainOK, Time
<1>8. PlainOK'
  BY <1>1, <1>7 DEF Change, PlainOK, store, Disks, Time
<1>9. ASSUME NEW g \in File
      PROVE  disk'[g].time <= changes'
  <2>1. CASE g = f
    BY <1>7, <2>1
  <2>2. CASE g # f
    <3>1. disk'[g] = disk[g] /\ disk[g].time \in Nat
      BY <1>1, <2>2, BoundAssumption DEF Moves, Disks, Time
    <3>2. QED
      BY <1>1, <1>7, <3>1
  <2>3. QED
    BY <2>1, <2>2
<1>10. QED
  BY <1>3, <1>4, <1>6, <1>8, <1>9 DEF IdentityInv

LEMMA EditStep ==
    ASSUME IdentityInv, NEW f \in File, NEW b \in Body, Edit(f, b)
    PROVE  IdentityInv'
<1>1. /\ disk \in Disks /\ rotted \in SUBSET File /\ changes \in Nat
      /\ disk[f].time \in Nat /\ disk[f].time <= changes
  BY Given, BoundAssumption DEF IdentityInv, PlainOK, Disks, Time
<1>2. changes + 1 \in Time
  BY <1>1, BoundAssumption DEF Edit, Change, Time
<1>3. /\ disk' = [disk EXCEPT ![f] = [body |-> b, time |-> changes + 1]]
      /\ rotted' = rotted \ {f}
      /\ UNCHANGED <<away, shut>> /\ Change
  BY DEF Edit
<1>4. disk' \in Disks /\ disk'[f].time = changes + 1
  BY <1>1, <1>2, <1>3 DEF Disks
<1>5. disk[f].time < disk'[f].time
  BY <1>1, <1>4
<1>6. Moves(f, disk, rotted, disk', rotted')
  BY <1>3, <1>4, <1>5 DEF Moves
<1>7. disk'[f].time <= changes + 1
  BY <1>1, <1>4
<1>8. QED
  BY <1>1, <1>3, <1>4, <1>6, <1>7, MoveStep

LEMMA RotStep ==
    ASSUME IdentityInv, NEW f \in File, NEW b \in Body, Rot(f, b)
    PROVE  IdentityInv'
<1>1. /\ disk \in Disks /\ rotted \in SUBSET File /\ changes \in Nat
      /\ disk[f].time \in Nat /\ disk[f].time <= changes
  BY Given, BoundAssumption DEF IdentityInv, PlainOK, Disks, Time
<1>2. /\ disk' = [disk EXCEPT ![f].body = b]
      /\ rotted' = rotted \cup {f}
      /\ UNCHANGED <<away, shut>> /\ Change
  BY DEF Rot
<1>3. disk' \in Disks /\ disk'[f].time = disk[f].time
  BY <1>1, <1>2 DEF Disks
<1>4. Moves(f, disk, rotted, disk', rotted')
  BY <1>2 DEF Moves
<1>5. disk'[f].time <= changes + 1
  BY <1>1, <1>3
<1>6. QED
  BY <1>1, <1>2, <1>3, <1>4, <1>5, MoveStep

LEMMA ToggleStep ==
    ASSUME IdentityInv, NEW f \in File, ToggleAway(f) \/ ToggleShut(f)
    PROVE  IdentityInv'
<1>1. /\ PlainOK /\ disk \in Disks
      /\ proc \in [Proc -> Local] /\ \A p \in Proc : LocalSound(proc[p], disk, rotted)
  BY Given DEF IdentityInv
<1>2. Change /\ UNCHANGED <<disk, rotted>>
  BY DEF ToggleAway, ToggleShut
<1>3. away' \subseteq File /\ shut' \subseteq File
  BY <1>1 DEF ToggleAway, ToggleShut, PlainOK
<1>4. changes' \in Time /\ changes' = changes + 1 /\ changes \in Nat
  BY <1>1, <1>2, BoundAssumption DEF Change, PlainOK, Time
<1>5. PlainOK'
  BY <1>1, <1>2, <1>3, <1>4 DEF Change, PlainOK, store, Time
<1>6. proc' \in [Proc -> Local] /\ \A p \in Proc : LocalSound(proc'[p], disk, rotted)
  BY <1>1, <1>2, UntoldSound, DisturbedSound DEF Change
<1>7. (\A p \in Proc : LocalSound(proc[p], disk, rotted))'
  BY <1>2, <1>6
<1>8. /\ CatalogSound(cat, disk, rotted)' /\ CatalogSound(tx, disk, rotted)'
      /\ ListingSound(listing, disk)'
  BY <1>2 DEF IdentityInv, Change, store
<1>9. ASSUME NEW g \in File
      PROVE  disk'[g].time <= changes'
  <2>1. disk'[g].time = disk[g].time /\ disk[g].time \in Nat /\ disk[g].time <= changes
    BY <1>1, <1>2, BoundAssumption DEF IdentityInv, Disks, Time
  <2>2. QED
    BY <1>4, <2>1
<1>10. QED
  BY <1>5, <1>6, <1>7, <1>8, <1>9 DEF IdentityInv

--------------------------------------------------------------------------------
(* The theorems *)

LEMMA InitSound ==
    Init => IdentityInv
<1> SUFFICES ASSUME Init
             PROVE  IdentityInv
  OBVIOUS
<1>1. disk \in Disks /\ \A f \in File : disk[f].time = 0
  BY DiskAssumption, BoundAssumption DEF Init, Disks, Time
<1>2. PlainOK
  BY <1>1, BoundAssumption DEF Init, PlainOK, Disks, Time
<1>3. CatalogSound(cat, disk, rotted)
  <2>1. NoRow \in FileRow /\ NoRow.time = 0 /\ NoRow.content = NoContent
    BY BoundAssumption DEF NoRow, FileRow, Time
  <2>2. cat = [row |-> [f \in File |-> NoRow], keys |-> {}]
    BY DEF Init
  <2>3. cat \in Catalog
    BY <2>1, <2>2 DEF Catalog
  <2>4. ASSUME NEW f \in File
        PROVE  RowSound(cat.row[f], disk[f], f \in rotted)
    BY <1>1, <2>1, <2>2 DEF RowSound
  <2>5. QED
    BY <2>3, <2>4 DEF CatalogSound
<1>4. tx = cat
  BY DEF Init
<1>5. ListingSound(listing, disk)
  BY DEF Init, ListingSound
<1>6. proc \in [Proc -> Local] /\ \A p \in Proc : LocalSound(proc[p], disk, rotted)
  BY <1>1, IdleLocal, IdleSound DEF Init
<1>7. \A f \in File : disk[f].time <= changes
  BY <1>1 DEF Init
<1>8. QED
  BY <1>2, <1>3, <1>4, <1>5, <1>6, <1>7 DEF IdentityInv

LEMMA StepSound ==
    IdentityInv /\ [Next]_vars => IdentityInv'
<1> SUFFICES ASSUME IdentityInv, [Next]_vars
             PROVE  IdentityInv'
  OBVIOUS
<1>1. CASE \E p \in Proc, scope \in ScopeChoices : BeginHash(p, scope) \/ BeginVerify(p, scope)
  BY <1>1, BeginHashStep, BeginVerifyStep
<1>2. ASSUME NEW p \in Proc, PassStep(p) PROVE IdentityInv'
  <2>1. CASE \E f \in File : Read(p, f) \/ Unreadable(p, f)
    BY <2>1, ReadStep, UnreadableStep
  <2>2. CASE \E f \in File : QuickResult(p, f) \/ FullResult(p, f)
    BY <2>2, QuickResultStep, FullResultStep
  <2>3. CASE \E f \in File : VerifyStat(p, f) \/ VerifyHash(p, f)
    BY <2>3, VerifyStatStep, VerifyHashStep
  <2>4. CASE EndQuick(p) \/ FindCollisions(p) \/ EndFull(p) \/ EndVerify(p) \/ Stop(p)
    BY <2>4, EndQuickStep, FindCollisionsStep, EndFullStep, EndVerifyStep, StopStep
  <2> QED
    BY <1>2, <2>1, <2>2, <2>3, <2>4 DEF PassStep
<1>3. CASE List \/ Merge
  BY <1>3, ListStep, MergeStep
<1>4. CASE World
  BY <1>4, EditStep, RotStep, ToggleStep DEF World
<1>5. CASE UNCHANGED vars
  BY <1>5 DEF IdentityInv, PlainOK, vars, drive, store, Time
<1>6. QED
  BY <1>1, <1>2, <1>3, <1>4, <1>5 DEF Next

\* The inductive invariant: what catalog, transaction, listing and passes know
\* of a file is never ahead of it, and true of it where the times agree.
THEOREM InductiveInvariant == Spec => []IdentityInv
<1>1. Init => IdentityInv
  BY InitSound
<1>2. IdentityInv /\ [Next]_vars => IdentityInv'
  BY StepSound
<1>3. QED
  BY <1>1, <1>2, PTL DEF Spec

LEMMA SoundIsExact ==
    IdentityInv => ExactMeansSame
<1> SUFFICES ASSUME IdentityInv, NEW f \in File, NEW g \in File,
                    Identified(f), Identified(g),
                    cat.row[f].content = cat.row[g].content,
                    Exact(cat.row[f].content)
             PROVE  cat.row[f].read = cat.row[g].read
  BY DEF ExactMeansSame
<1> DEFINE c == cat.row[f].content
<1>1. KeyFits(c, cat.row[f].read) /\ KeyFits(c, cat.row[g].read)
  BY DEF IdentityInv, CatalogSound, RowSound, Identified
<1>2. CASE c.full # NoBody
  BY <1>1, <1>2 DEF KeyFits
<1>3. CASE c.full = NoBody
  <2>1. c.size \in SmallSize
    BY <1>3 DEF Exact
  <2>2. c.quick = <<c.size, cat.row[f].read>> /\ c.quick = <<c.size, cat.row[g].read>>
    BY <1>1, <1>3, <2>1 DEF KeyFits, Quick
  <2>3. QED
    BY <2>2
<1>4. QED
  BY <1>2, <1>3

\* Two live files share an exact content only if the same bytes were read from
\* them, however passes overlap each other, scans and changes of the drive.
THEOREM ExactIdentity == Spec => []ExactMeansSame
<1>1. IdentityInv => ExactMeansSame
  BY SoundIsExact
<1>2. QED
  BY <1>1, InductiveInvariant, PTL

LEMMA SoundIsCurrent ==
    IdentityInv => IdentityIsCurrent
  BY DEF IdentityInv, CatalogSound, RowSound, IdentityIsCurrent, Identified

\* A row that records the file's present modification time has the identity of
\* its present bytes, unless they decayed or the identity was assigned to a row
\* that a scan had changed since the pass queried it.
THEOREM CurrentIdentity == Spec => []IdentityIsCurrent
<1>1. IdentityInv => IdentityIsCurrent
  BY SoundIsCurrent
<1>2. QED
  BY <1>1, InductiveInvariant, PTL

LEMMA SoundIsTyped ==
    IdentityInv => TypeOK
  BY DEF IdentityInv, TypeOK, CatalogSound, ListingSound

\* Every variable keeps its type.
THEOREM TypeCorrect == Spec => []TypeOK
<1>1. IdentityInv => TypeOK
  BY SoundIsTyped
<1>2. QED
  BY <1>1, InductiveInvariant, PTL

--------------------------------------------------------------------------------
(* What every pass keeps: the write lock, and the keys of the catalog *)

\* Every content a row has is one of the content table.
KeysKept(t) == \A f \in File : t.row[f].content # NoContent => t.row[f].content \in t.keys

\* A key without a full hash is of the size its quick hash was read for, and no
\* full hash is added to a quick hash that covered every byte.
Shaped(c) ==
    /\ c.full = NoBody => c.size = c.quick[1]
    /\ c.full # NoBody => c.quick[1] \notin SmallSize

\* The open transaction is the catalog and what its owner added.
StoreKept ==
    /\ lock = NoProc => tx = cat
    /\ KeysKept(cat) /\ KeysKept(tx)
    /\ cat.keys \subseteq tx.keys
    /\ \A c \in tx.keys : Shaped(c)

\* A pass has its pending keys in the content table, and adds full hashes to
\* nothing but ambiguous quick ones.
LocalKept(l, keys) ==
    /\ l.pc = "quick" => \A f \in l.pending : QuickContent(l, f) \in keys
    /\ l.pc = "full" => \A f \in l.todo : /\ l.item[f].content.full = NoBody
                                          /\ l.item[f].content.quick[1] \notin SmallSize

\* Only a pass that writes holds the lock.
KeptInv ==
    /\ StoreKept
    /\ \A p \in Proc : lock = p => proc[p].pc \in {"quick", "full"}
    /\ \A p \in Proc : LocalKept(proc[p], View(p).keys)

--------------------------------------------------------------------------------
(* What a pass on a drive at rest knows *)

CalmAlone == \A p \in Proc : proc[p].calm => Alone(p)

\* The last check of f says what became of the bytes its identity came from.
Told(f) ==
    /\ Identified(f) /\ Exact(cat.row[f].content)
    /\ f \notin away \cup shut
    /\ cat.row[f].time = disk[f].time
    => /\ fixity[f] = "mismatch" <=> disk[f].body # cat.row[f].read
       /\ fixity[f] = "ok" <=> disk[f].body = cat.row[f].read

VerifyCalm(l) ==
    /\ l.pc = "verify" =>
         /\ l.item = cat.row
         /\ \A f \in File \ l.todo : Told(f)
    /\ l.pc = "idle" /\ l.last = "verified" => \A f \in File : Told(f)

\* TruthOf, of any row.
RowTrue(r, f) ==
    r.st = "live" =>
        /\ f \notin away \cup shut \cup rotted
        /\ r.time = disk[f].time
        /\ r.size = Size[disk[f].body]
        /\ r.content # NoContent =>
             /\ r.content.size = r.size
             /\ r.content.quick = Quick(r.size, disk[f].body)
             /\ r.content.full \in {NoBody, disk[f].body}

TrueRows == \A f \in File : RowTrue(tx.row[f], f)

\* A file the pass has to identify, and two it has to tell apart by more than
\* the sampled blocks.
Needy(f) ==
    /\ tx.row[f].st = "live" /\ tx.row[f].size > 0
    /\ \E g \in File \ {f} : tx.row[g].st = "live" /\ tx.row[g].size = tx.row[f].size

Alike(f, g) ==
    /\ f # g
    /\ tx.row[f].st = "live" /\ tx.row[g].st = "live"
    /\ tx.row[f].size > 0 /\ tx.row[f].size \notin SmallSize
    /\ Quick(tx.row[f].size, disk[f].body) = Quick(tx.row[g].size, disk[g].body)

\* The row of f has an identity; it has one by every byte.
HasKey(f)  == tx.row[f].content # NoContent
HasFull(f) == HasKey(f) /\ tx.row[f].content.full # NoBody

SameFile(r, s) == r.st = s.st /\ r.time = s.time /\ r.size = s.size

\* The rows the pass works on are those of the catalog, and every read succeeds.
Queried(l) ==
    \A f \in File :
        /\ SameFile(l.item[f], tx.row[f])
        /\ f \in l.todo \cup l.pending => l.item[f].st = "live"
        /\ f \in l.todo => l.got[f] # "error"

\* Every needy file is identified, or its turn is still to come.
QuickCalm(l) ==
    /\ TrueRows /\ l.scope = File /\ Queried(l)
    /\ \A f \in File : Needy(f) => HasKey(f) \/ f \in l.todo \cup l.pending

Settled == TrueRows /\ \A f \in File : Needy(f) => HasKey(f)

\* Of two files alike every one is told apart, or its turn is still to come.
FullCalm(l) ==
    /\ Settled /\ Queried(l)
    /\ \A f \in l.todo : RowTrue(l.item[f], f)
    /\ \A f, g \in File : Alike(f, g) => HasFull(f) \/ f \in l.todo

HashCalm(l) ==
    /\ l.pc = "quick" => QuickCalm(l)
    /\ l.pc = "collisions" => Settled /\ l.scope = File
    /\ l.pc = "full" => FullCalm(l)
    /\ l.pc = "idle" /\ l.last = "hashed" =>
         Settled /\ \A f, g \in File : Alike(f, g) => HasFull(f)

\* What a step of p leaves to the others: their views keep their keys.
Spread(p) ==
    \A q \in Proc \ {p} :
        /\ View(q).keys \subseteq (View(q).keys)'
        /\ lock' = q => lock = q

LEMMA ViewKept ==
    ASSUME StoreKept, NEW p
    PROVE  /\ KeysKept(View(p))
           /\ cat.keys \subseteq View(p).keys
           /\ \A c \in View(p).keys : Shaped(c)
  BY DEF StoreKept, View

LEMMA WroteKept ==
    ASSUME StoreKept, NEW p \in Proc, NEW new,
           KeysKept(new), View(p).keys \subseteq new.keys,
           \A c \in new.keys : Shaped(c),
           Write(p, new) \/ Commit(p, new)
    PROVE  /\ StoreKept' /\ Spread(p)
           /\ (View(p))' = new
<1>1. /\ p # NoProc
      /\ cat.keys \subseteq new.keys
  BY ViewKept, ProcAssumption
<1>2. /\ tx' = new /\ cat' \in {cat, new}
      /\ lock' \in {p, NoProc} /\ (lock' = NoProc => cat' = new)
      /\ lock \in {p, NoProc}
  BY <1>1 DEF Write, Commit, MayWrite
<1>3. KeysKept(cat') /\ KeysKept(tx')
  BY <1>2 DEF StoreKept
<1>4. cat'.keys \subseteq tx'.keys
  BY <1>1, <1>2
<1>5. StoreKept'
  BY <1>2, <1>3, <1>4 DEF StoreKept, KeysKept
<1>6. (View(p))' = new
  BY <1>1, <1>2 DEF View
<1>7. ASSUME NEW q \in Proc \ {p}
      PROVE  View(q).keys \subseteq (View(q).keys)' /\ lock' # q
  <2>1. q # NoProc
    BY ProcAssumption
  <2>2. View(q) = cat /\ (View(q))' = cat' /\ lock' # q
    BY <1>2, <2>1 DEF View
  <2>3. QED
    BY <1>1, <1>2, <2>2
<1>8. QED
  BY <1>5, <1>6, <1>7 DEF Spread

LEMMA ReadKept ==
    ASSUME StoreKept, NEW p \in Proc,
           ReadOnly(p) \/ UNCHANGED <<cat, tx, lock>>
    PROVE  /\ StoreKept' /\ Spread(p)
           /\ (View(p))' = View(p) /\ lock' = lock
<1>1. UNCHANGED <<cat, tx, lock>>
  BY DEF ReadOnly
<1>2. QED
  BY <1>1 DEF StoreKept, KeysKept, Spread, View

LEMMA LeaveKept ==
    ASSUME StoreKept, NEW p \in Proc, Leave(p)
    PROVE  StoreKept' /\ Spread(p) /\ lock' # p
<1>1. p # NoProc
  BY ProcAssumption
<1>2. CASE lock # p
  <2>1. UNCHANGED <<cat, tx, lock>>
    BY <1>2 DEF Leave
  <2>2. QED
    BY <1>2, <2>1, ReadKept
<1>3. CASE lock = p
  <2>1. cat' = cat /\ tx' = cat /\ lock' = NoProc
    BY <1>3 DEF Leave
  <2>2. StoreKept'
    BY <2>1 DEF StoreKept, KeysKept
  <2>3. Spread(p)
    BY <1>3, <2>1, ProcAssumption DEF Spread, View
  <2>4. QED
    BY <1>1, <2>1, <2>2, <2>3
<1>4. QED
  BY <1>2, <1>3

LEMMA EndKept ==
    ASSUME StoreKept, NEW p \in Proc, EndTransaction(p)
    PROVE  StoreKept' /\ Spread(p) /\ lock' # p
<1>1. CASE lock = p
  <2>1. Commit(p, tx) /\ View(p) = tx
    BY <1>1 DEF EndTransaction, View
  <2>2. StoreKept' /\ Spread(p)
    BY <2>1, ViewKept, WroteKept
  <2>3. lock' # p
    BY <2>1, ProcAssumption DEF Commit
  <2>4. QED
    BY <2>2, <2>3
<1>2. CASE lock # p
  BY <1>2, LeaveKept DEF EndTransaction
<1>3. QED
  BY <1>1, <1>2

LEMMA LocalGrows ==
    ASSUME NEW l, NEW keys, NEW more, LocalKept(l, keys), keys \subseteq more
    PROVE  LocalKept(l, more)
  BY DEF LocalKept

\* A step of one pass.
LEMMA PassKept ==
    ASSUME IdentityInv, KeptInv, NEW p \in Proc, NEW l,
           Goto(p, l), StoreKept', Spread(p),
           lock' = p => l.pc \in {"quick", "full"},
           LocalKept(l, (View(p).keys)')
    PROVE  KeptInv'
<1>1. proc' = [proc EXCEPT ![p] = l] /\ proc \in [Proc -> Local]
  BY DEF Goto, IdentityInv
<1>2. proc'[p] = l /\ \A q \in Proc \ {p} : proc'[q] = proc[q]
  BY <1>1
<1>3. ASSUME NEW q \in Proc
      PROVE  /\ lock' = q => proc'[q].pc \in {"quick", "full"}
             /\ LocalKept(proc'[q], (View(q).keys)')
  <2>1. CASE q = p
    BY <1>2, <2>1
  <2>2. CASE q # p
    <3>1. LocalKept(proc[q], View(q).keys) /\ View(q).keys \subseteq (View(q).keys)'
      BY <2>2 DEF KeptInv, Spread
    <3>2. LocalKept(proc[q], (View(q).keys)')
      BY <3>1, LocalGrows
    <3>3. lock' = q => proc[q].pc \in {"quick", "full"}
      BY <2>2 DEF KeptInv, Spread
    <3>4. QED
      BY <1>2, <2>2, <3>2, <3>3
  <2>3. QED
    BY <2>1, <2>2
<1>4. (\A q \in Proc : lock = q => proc[q].pc \in {"quick", "full"})'
  BY <1>3
<1>5. (\A q \in Proc : LocalKept(proc[q], View(q).keys))'
  BY <1>3 DEF LocalKept, QuickContent
<1>6. QED
  BY <1>4, <1>5 DEF KeptInv

\* What every step has to work with.
LEMMA Keeping ==
    ASSUME IdentityInv, KeptInv, NEW p \in Proc
    PROVE  /\ StoreKept
           /\ proc[p] \in Local /\ LocalSound(proc[p], disk, rotted)
           /\ LocalKept(proc[p], View(p).keys)
           /\ lock = p => proc[p].pc \in {"quick", "full"}
           /\ cat \in Catalog /\ tx \in Catalog /\ View(p) \in Catalog
  BY DEF IdentityInv, KeptInv, CatalogSound, View

LEMMA ReadKeeps ==
    ASSUME IdentityInv, KeptInv, NEW p \in Proc, NEW f \in File, Read(p, f)
    PROVE  KeptInv'
<1> DEFINE l == proc[p]
           n == [l EXCEPT !.got[f] = OpenRead(f)]
<1>1. /\ l \in Local /\ LocalSound(l, disk, rotted) /\ StoreKept
      /\ LocalKept(l, View(p).keys)
      /\ lock = p => l.pc \in {"quick", "full"}
  BY Keeping
<1>2. Goto(p, n) /\ UNCHANGED store /\ l.got[f] = "waiting"
  BY DEF Read
<1>3. n.pc = l.pc /\ n.item = l.item /\ n.todo = l.todo /\ n.pending = l.pending
      /\ n.got = [l.got EXCEPT ![f] = OpenRead(f)]
  BY <1>1 DEF Local
<1>4. \A g \in l.pending : g \in File /\ g # f /\ n.got[g] = l.got[g]
  <2>1. \A g \in l.pending : g \in File /\ l.got[g] \in Body
    BY <1>1 DEF LocalSound, Local
  <2>2. \A g \in l.pending : g # f
    BY <1>2, <2>1, BodyAssumption
  <2>3. l.got \in [File -> Body \cup {"waiting", "error"}]
    BY <1>1 DEF Local
  <2>4. QED
    BY <1>3, <2>1, <2>2, <2>3
<1>5. StoreKept' /\ Spread(p) /\ (View(p))' = View(p) /\ lock' = lock
  BY <1>1, <1>2, ReadKept DEF store
<1> HIDE DEF n
<1>6. LocalKept(n, View(p).keys)
  BY <1>1, <1>3, <1>4 DEF LocalKept, QuickContent
<1>7. LocalKept(n, (View(p).keys)')
  BY <1>5, <1>6
<1>8. QED
  BY <1>1, <1>2, <1>3, <1>5, <1>7, PassKept

LEMMA UnreadableKeeps ==
    ASSUME IdentityInv, KeptInv, NEW p \in Proc, NEW f \in File, Unreadable(p, f)
    PROVE  KeptInv'
<1> DEFINE l == proc[p]
           n == [l EXCEPT !.todo = @ \ {f}]
<1>1. /\ l \in Local /\ StoreKept
      /\ LocalKept(l, View(p).keys)
      /\ lock = p => l.pc \in {"quick", "full"}
  BY Keeping
<1>2. Goto(p, n) /\ UNCHANGED store
  BY DEF Unreadable
<1>3. n.pc = l.pc /\ n.item = l.item /\ n.todo \subseteq l.todo /\ n.pending = l.pending
      /\ n.got = l.got
  BY <1>1 DEF Local
<1>4. StoreKept' /\ Spread(p) /\ (View(p))' = View(p) /\ lock' = lock
  BY <1>1, <1>2, ReadKept DEF store
<1> HIDE DEF n
<1>5. LocalKept(n, View(p).keys)
  BY <1>1, <1>3 DEF LocalKept, QuickContent
<1>6. LocalKept(n, (View(p).keys)')
  BY <1>4, <1>5
<1>7. QED
  BY <1>1, <1>2, <1>3, <1>4, <1>6, PassKept

\* Rows that are given keys the catalog has.
LEMMA QuickAssignedKept ==
    ASSUME NEW t \in Catalog, KeysKept(t), NEW l, NEW fs \in SUBSET File,
           \A f \in fs : QuickContent(l, f) \in t.keys,
           \A f \in fs : l.got[f] \in Body
    PROVE  /\ KeysKept(QuickAssigned(t, l, fs))
           /\ QuickAssigned(t, l, fs).keys = t.keys
<1> DEFINE n == QuickAssigned(t, l, fs)
<1>1. n.row = [f \in File |-> IF f \in fs THEN Assigned(t.row[f], l, f, QuickContent(l, f))
                                          ELSE t.row[f]]
      /\ n.keys = t.keys
  BY DEF QuickAssigned, Catalog
<1>2. ASSUME NEW f \in File, n.row[f].content # NoContent
      PROVE  n.row[f].content \in t.keys
  <2>1. t.row[f] \in FileRow
    BY DEF Catalog
  <2>2. CASE f \in fs
    <3>1. n.row[f] = Assigned(t.row[f], l, f, QuickContent(l, f))
      BY <1>1, <2>2
    <3>2. Assigned(t.row[f], l, f, QuickContent(l, f)).content = QuickContent(l, f)
      BY <2>1 DEF Assigned, FileRow
    <3>3. QED
      BY <2>2, <3>1, <3>2
  <2>3. CASE f \notin fs
    BY <1>1, <1>2, <2>3 DEF KeysKept
  <2>4. QED
    BY <2>2, <2>3
<1>3. QED
  BY <1>1, <1>2 DEF KeysKept

LEMMA KeyedKept ==
    ASSUME NEW t \in Catalog, KeysKept(t), NEW key \in Content
    PROVE  LET n == [t EXCEPT !.keys = @ \cup {key}] IN
           n \in Catalog /\ KeysKept(n) /\ n.keys = t.keys \cup {key} /\ n.row = t.row
  BY DEF KeysKept, Catalog

LEMMA QuickShaped ==
    ASSUME NEW l, NEW f
    PROVE  Shaped(QuickContent(l, f))
  BY DEF Shaped, QuickContent, Quick

LEMMA QuickResultKeeps ==
    ASSUME IdentityInv, KeptInv, NEW p \in Proc, NEW f \in File, QuickResult(p, f)
    PROVE  KeptInv'
<1> DEFINE l       == proc[p]
           key     == QuickContent(l, f)
           new     == [View(p) EXCEPT !.keys = @ \cup {key}]
           pending == l.pending \cup {f}
           full    == Cardinality(pending) >= CheckpointRows
           n       == [l EXCEPT !.todo = @ \ {f}, !.pending = IF full THEN {} ELSE pending]
<1>1. /\ l \in Local /\ LocalSound(l, disk, rotted) /\ StoreKept
      /\ LocalKept(l, View(p).keys) /\ View(p) \in Catalog
      /\ lock = p => l.pc \in {"quick", "full"}
  BY Keeping
<1>2. l.pc = "quick" /\ f \in l.todo /\ l.got[f] \in Body
  BY DEF QuickResult
<1>3. pending \in SUBSET File /\ \A g \in pending : l.got[g] \in Body
  BY <1>1, <1>2 DEF LocalSound, Local
<1>4. key \in Content /\ Shaped(key)
  <2>1. l.item[f].size \in Sizes
    BY <1>1, <1>2 DEF LocalSound
  <2>2. QED
    BY <1>1, <1>2, <2>1, QuickKey, QuickShaped
<1>5. KeysKept(View(p)) /\ \A c \in View(p).keys : Shaped(c)
  BY <1>1, ViewKept
<1>6. new \in Catalog /\ KeysKept(new) /\ new.keys = View(p).keys \cup {key}
  BY <1>1, <1>4, <1>5, KeyedKept
<1>7. \A g \in pending : QuickContent(l, g) \in new.keys
  BY <1>1, <1>2, <1>6 DEF LocalKept
<1>8. /\ KeysKept(QuickAssigned(new, l, pending))
      /\ QuickAssigned(new, l, pending).keys = new.keys
  <2> HIDE DEF l, new, pending
  <2> QED
    BY <1>3, <1>6, <1>7, QuickAssignedKept
<1>9. /\ n.pc = "quick" /\ n.item = l.item /\ n.got = l.got
      /\ n.pending = IF full THEN {} ELSE pending
  BY <1>1, <1>2 DEF Local
<1>10. ASSUME NEW keys, \A g \in pending : QuickContent(l, g) \in keys
       PROVE  LocalKept(n, keys)
  <2>1. n.pending \subseteq pending
    BY <1>9
  <2>2. \A g \in n.pending : QuickContent(n, g) = QuickContent(l, g)
    BY <1>9 DEF QuickContent
  <2>3. QED
    BY <1>9, <1>10, <2>1, <2>2 DEF LocalKept
<1>11. Goto(p, n)
  BY DEF QuickResult
<1>12. /\ \A c \in new.keys : Shaped(c)
       /\ View(p).keys \subseteq new.keys
  BY <1>4, <1>5, <1>6
<1>13. \/ Commit(p, QuickAssigned(new, l, pending))
       \/ Write(p, new)
       \/ key \in View(p).keys /\ ReadOnly(p)
  BY DEF QuickResult
<1> HIDE DEF l, new, pending, key, n, full
<1>14. CASE Commit(p, QuickAssigned(new, l, pending))
  <2>1. /\ StoreKept' /\ Spread(p)
        /\ (View(p))' = QuickAssigned(new, l, pending)
    BY <1>1, <1>8, <1>12, <1>14, WroteKept
  <2>2. LocalKept(n, (View(p).keys)')
    BY <1>7, <1>8, <1>10, <2>1
  <2>3. QED
    BY <1>9, <1>11, <2>1, <2>2, PassKept
<1>15. CASE Write(p, new)
  <2>1. StoreKept' /\ Spread(p) /\ (View(p))' = new
    BY <1>1, <1>6, <1>12, <1>15, WroteKept
  <2>2. LocalKept(n, (View(p).keys)')
    BY <1>7, <1>10, <2>1
  <2>3. QED
    BY <1>9, <1>11, <2>1, <2>2, PassKept
<1>16. CASE key \in View(p).keys /\ ReadOnly(p)
  <2>1. StoreKept' /\ Spread(p) /\ (View(p))' = View(p)
    BY <1>1, <1>16, ReadKept
  <2>2. new.keys = View(p).keys
    BY <1>6, <1>16
  <2>3. LocalKept(n, (View(p).keys)')
    BY <1>7, <1>10, <2>1, <2>2
  <2>4. QED
    BY <1>9, <1>11, <2>1, <2>3, PassKept
<1>17. QED
  BY <1>13, <1>14, <1>15, <1>16

LEMMA EndQuickKeeps ==
    ASSUME IdentityInv, KeptInv, NEW p \in Proc, EndQuick(p)
    PROVE  KeptInv'
<1> DEFINE l == proc[p]
           n == [l EXCEPT !.pc = "collisions", !.pending = {}]
           new == QuickAssigned(View(p), l, l.pending)
<1>1. /\ l \in Local /\ LocalSound(l, disk, rotted) /\ StoreKept
      /\ LocalKept(l, View(p).keys) /\ View(p) \in Catalog
  BY Keeping
<1>2. l.pc = "quick" /\ Goto(p, n)
  BY DEF EndQuick
<1>3. n.pc = "collisions"
  BY <1>1 DEF Local
<1>4. l.pending \in SUBSET File /\ \A g \in l.pending : l.got[g] \in Body
  BY <1>1 DEF LocalSound, Local
<1>5. KeysKept(View(p)) /\ \A c \in View(p).keys : Shaped(c)
  BY <1>1, ViewKept
<1>6. KeysKept(new) /\ new.keys = View(p).keys
  <2>1. \A g \in l.pending : QuickContent(l, g) \in View(p).keys
    BY <1>1, <1>2 DEF LocalKept
  <2> HIDE DEF l
  <2>2. QED
    BY <1>1, <1>4, <1>5, <2>1, QuickAssignedKept
<1>7. Commit(p, new) \/ EndTransaction(p)
  BY DEF EndQuick
<1> HIDE DEF new, n
<1>8. StoreKept' /\ Spread(p) /\ lock' # p
  <2>1. CASE Commit(p, new)
    <3>1. StoreKept' /\ Spread(p)
      BY <1>1, <1>5, <1>6, <2>1, WroteKept
    <3>2. lock' # p
      BY <2>1, ProcAssumption DEF Commit
    <3>3. QED
      BY <3>1, <3>2
  <2>2. CASE EndTransaction(p)
    BY <1>1, <2>2, EndKept
  <2>3. QED
    BY <1>7, <2>1, <2>2
<1>9. LocalKept(n, (View(p).keys)')
  BY <1>3 DEF LocalKept
<1>10. QED
  BY <1>2, <1>8, <1>9, PassKept

LEMMA FindCollisionsKeeps ==
    ASSUME IdentityInv, KeptInv, NEW p \in Proc, FindCollisions(p)
    PROVE  KeptInv'
<1> DEFINE l     == proc[p]
           items == Collisions(cat, l.scope)
           n     == [l EXCEPT !.pc = "full", !.item = cat.row, !.todo = items,
                              !.got = [f \in File |-> "waiting"]]
           r     == [Idle EXCEPT !.calm = l.calm, !.last = "hashed"]
<1>1. /\ l \in Local /\ StoreKept
      /\ lock = p => l.pc \in {"quick", "full"}
  BY Keeping
<1>2. l.pc = "collisions" /\ (Goto(p, n) \/ Goto(p, r)) /\ UNCHANGED store
  BY DEF FindCollisions
<1>3. StoreKept' /\ Spread(p) /\ lock' = lock /\ lock # p
  BY <1>1, <1>2, ReadKept DEF store
<1>4. r.pc = "idle"
  BY DEF Idle
<1>5. n.pc = "full" /\ n.item = cat.row /\ n.todo = items
  BY <1>1 DEF Local
<1>6. ASSUME NEW f \in items
      PROVE  /\ cat.row[f].content.full = NoBody
             /\ cat.row[f].content.quick[1] \notin SmallSize
  <2>1. l.scope \subseteq File
    BY <1>1 DEF Local
  <2>2. f \in File /\ cat.row[f].content # NoContent /\ Ambiguous(cat, cat.row[f].content)
    BY <1>6, <2>1 DEF Collisions
  <2>3. Shaped(cat.row[f].content)
    BY <1>1, <2>2 DEF StoreKept, KeysKept
  <2>4. QED
    BY <2>2, <2>3 DEF Ambiguous, Shaped
<1> HIDE DEF n, r, items
<1>7. LocalKept(n, (View(p).keys)')
  BY <1>5, <1>6 DEF LocalKept
<1>8. LocalKept(r, (View(p).keys)')
  BY <1>4 DEF LocalKept
<1>9. QED
  BY <1>2, <1>3, <1>7, <1>8, PassKept

\* The row of f and the keys, with one full hash more.
FullAssigned(t, l, f, key) ==
    [t EXCEPT !.keys = @ \cup {key}, !.row[f] = Assigned(@, l, f, key)]

LEMMA FullAssignedKept ==
    ASSUME NEW t \in Catalog, KeysKept(t), NEW l, NEW f \in File, NEW key \in Content
    PROVE  KeysKept(FullAssigned(t, l, f, key))
<1> DEFINE n == FullAssigned(t, l, f, key)
<1>1. n.keys = t.keys \cup {key} /\ n.row = [t.row EXCEPT ![f] = Assigned(t.row[f], l, f, key)]
  BY DEF Catalog, FullAssigned
<1>2. t.row \in [File -> FileRow]
  BY DEF Catalog
<1>3. Assigned(t.row[f], l, f, key).content = key
  BY <1>2 DEF Assigned, FileRow
<1>4. ASSUME NEW g \in File, n.row[g].content # NoContent
      PROVE  n.row[g].content \in n.keys
  <2>1. CASE g = f
    <3>1. n.row[g] = Assigned(t.row[f], l, f, key)
      BY <1>1, <1>2, <2>1
    <3>2. QED
      BY <1>1, <1>3, <3>1
  <2>2. CASE g # f
    <3>1. n.row[g] = t.row[g]
      BY <1>1, <1>2, <2>2
    <3>2. QED
      BY <1>1, <1>4, <3>1 DEF KeysKept
  <2>3. QED
    BY <2>1, <2>2
<1>5. QED
  BY <1>1, <1>4 DEF KeysKept

LEMMA FullResultKeeps ==
    ASSUME IdentityInv, KeptInv, NEW p \in Proc, NEW f \in File, FullResult(p, f)
    PROVE  KeptInv'
<1> DEFINE l   == proc[p]
           key == FullContent(l, f)
           new == [View(p) EXCEPT !.keys = @ \cup {key}, !.row[f] = Assigned(@, l, f, key)]
           n   == [l EXCEPT !.todo = @ \ {f}, !.done = l.done + 1]
<1>1. /\ l \in Local /\ LocalSound(l, disk, rotted) /\ StoreKept
      /\ LocalKept(l, View(p).keys) /\ View(p) \in Catalog
  BY Keeping
<1>2. l.pc = "full" /\ f \in l.todo /\ l.got[f] \in Body /\ Goto(p, n)
  BY DEF FullResult
<1>3. key \in Content
  BY <1>1, <1>2, FullKey DEF LocalSound
<1>4. Shaped(key)
  <2>1. l.item[f].content.quick[1] \notin SmallSize
    BY <1>1, <1>2 DEF LocalKept
  <2>2. QED
    BY <1>2, <2>1, BodyAssumption DEF FullContent, Shaped
<1>5. KeysKept(View(p)) /\ \A c \in View(p).keys : Shaped(c)
  BY <1>1, ViewKept
<1>6. Commit(p, new) \/ Write(p, new)
  BY DEF FullResult
<1>7. n.pc = "full" /\ n.item = l.item /\ n.todo \subseteq l.todo
  BY <1>1, <1>2 DEF Local
<1> HIDE DEF key, n
<1>8. KeysKept(new) /\ new.keys = View(p).keys \cup {key}
  <2>1. new = FullAssigned(View(p), l, f, key)
    BY DEF FullAssigned
  <2>2. View(p) \in Catalog /\ KeysKept(View(p))
    BY <1>1, <1>5
  <2>3. new.keys = View(p).keys \cup {key}
    BY <2>2 DEF Catalog
  <2> HIDE DEF new
  <2>4. KeysKept(FullAssigned(View(p), l, f, key))
    BY <1>3, <2>2, FullAssignedKept
  <2>5. QED
    BY <2>1, <2>3, <2>4
<1> HIDE DEF new
<1>9. StoreKept' /\ Spread(p)
  BY <1>1, <1>4, <1>5, <1>6, <1>8, WroteKept
<1>10. LocalKept(n, (View(p).keys)')
  BY <1>1, <1>2, <1>7 DEF LocalKept
<1>11. QED
  BY <1>2, <1>7, <1>9, <1>10, PassKept

LEMMA EndsKeep ==
    ASSUME IdentityInv, KeptInv, NEW p \in Proc, EndFull(p) \/ EndVerify(p) \/ Stop(p)
    PROVE  KeptInv'
<1>1. /\ StoreKept
      /\ lock = p => proc[p].pc \in {"quick", "full"}
  BY Keeping
<1>2. PICK n : n.pc = "idle" /\ Goto(p, n)
  <2>1. /\ [Idle EXCEPT !.calm = proc[p].calm, !.last = "hashed"].pc = "idle"
        /\ [Idle EXCEPT !.calm = proc[p].calm, !.last = "verified"].pc = "idle"
        /\ [Idle EXCEPT !.last = "stopped"].pc = "idle"
    BY DEF Idle
  <2>2. QED
    BY <2>1 DEF EndFull, EndVerify, Stop
<1>3. StoreKept' /\ Spread(p) /\ lock' # p
  <2>1. CASE EndFull(p)
    BY <1>1, <2>1, EndKept DEF EndFull
  <2>2. CASE EndVerify(p)
    <3>1. lock # p
      BY <1>1, <2>2 DEF EndVerify
    <3>2. QED
      BY <1>1, <2>2, <3>1, ReadKept DEF EndVerify, store
  <2>3. CASE Stop(p)
    BY <1>1, <2>3, LeaveKept DEF Stop
  <2>4. QED
    BY <2>1, <2>2, <2>3
<1>4. LocalKept(n, (View(p).keys)')
  BY <1>2 DEF LocalKept
<1>5. QED
  BY <1>2, <1>3, <1>4, PassKept

\* A verify pass commits the catalog as it is.
LEMMA VerifyKeeps ==
    ASSUME IdentityInv, KeptInv, NEW p \in Proc, NEW f \in File,
           VerifyStat(p, f) \/ VerifyHash(p, f)
    PROVE  KeptInv'
<1>1. /\ StoreKept /\ proc[p] \in Local
      /\ lock = p => proc[p].pc \in {"quick", "full"}
      /\ proc[p].pc = "verify"
  BY Keeping DEF VerifyStat, VerifyHash
<1>2. PICK n : n.pc = "verify" /\ Goto(p, n)
  <2>1. /\ [proc[p] EXCEPT !.todo = @ \ {f}].pc = "verify"
        /\ [proc[p] EXCEPT !.stat = {f}].pc = "verify"
        /\ [proc[p] EXCEPT !.stat = {}, !.todo = @ \ {f}].pc = "verify"
    BY <1>1 DEF Local
  <2>2. QED
    BY <2>1 DEF VerifyStat, VerifyHash
<1>3. Commit(p, cat) \/ UNCHANGED store
  BY DEF VerifyStat, VerifyHash, Recorded
<1>4. View(p) = cat /\ lock # p
  BY <1>1 DEF View
<1>5. StoreKept' /\ Spread(p) /\ lock' # p
  <2>1. CASE Commit(p, cat)
    <3>1. StoreKept' /\ Spread(p)
      BY <1>1, <1>4, <2>1, ViewKept, WroteKept
    <3>2. lock' # p
      BY <2>1, ProcAssumption DEF Commit
    <3>3. QED
      BY <3>1, <3>2
  <2>2. CASE UNCHANGED store
    BY <1>1, <1>4, <2>2, ReadKept DEF store
  <2>3. QED
    BY <1>3, <2>1, <2>2
<1>6. LocalKept(n, (View(p).keys)')
  BY <1>2 DEF LocalKept
<1>7. QED
  BY <1>2, <1>5, <1>6, PassKept

\* A pass that is told that something moved.
LEMMA ToldKept ==
    ASSUME IdentityInv, KeptInv, NEW q \in Proc
    PROVE  /\ lock = q => [proc[q] EXCEPT !.calm = FALSE].pc \in {"quick", "full"}
           /\ LocalKept([proc[q] EXCEPT !.calm = FALSE], View(q).keys)
<1> DEFINE n == [proc[q] EXCEPT !.calm = FALSE]
<1>1. /\ proc[q] \in Local /\ LocalKept(proc[q], View(q).keys)
      /\ lock = q => proc[q].pc \in {"quick", "full"}
  BY Keeping
<1>2. n.pc = proc[q].pc /\ n.item = proc[q].item /\ n.got = proc[q].got
      /\ n.todo = proc[q].todo /\ n.pending = proc[q].pending
  BY <1>1 DEF Local
<1> HIDE DEF n
<1>3. LocalKept(n, View(q).keys)
  BY <1>1, <1>2 DEF LocalKept, QuickContent
<1>4. QED
  BY <1>1, <1>2, <1>3 DEF n

\* Every pass has the right to what it has.
LEMMA AllKept ==
    ASSUME StoreKept', UNCHANGED lock,
           \A q \in Proc : (View(q).keys)' = View(q).keys,
           \A q \in Proc : /\ lock = q => proc'[q].pc \in {"quick", "full"}
                          /\ LocalKept(proc'[q], View(q).keys)
    PROVE  KeptInv'
<1>1. (\A q \in Proc : lock = q => proc[q].pc \in {"quick", "full"})'
  OBVIOUS
<1>2. (\A q \in Proc : LocalKept(proc[q], View(q).keys))'
  BY DEF LocalKept, QuickContent
<1>3. QED
  BY <1>1, <1>2 DEF KeptInv

LEMMA BeginKeeps ==
    ASSUME IdentityInv, KeptInv, NEW p \in Proc,
           \E scope \in ScopeChoices : BeginHash(p, scope) \/ BeginVerify(p, scope)
    PROVE  KeptInv'
<1>1. PICK l : Begin(p, l) /\ l.pc # "full" /\ l.pending = {}
  <2>1. ASSUME NEW scope, NEW c, NEW todo
        PROVE  LET h == [Idle EXCEPT !.pc = "quick", !.scope = scope, !.item = cat.row,
                                     !.todo = todo, !.calm = c]
                   v == [Idle EXCEPT !.pc = "verify", !.scope = scope, !.item = cat.row,
                                     !.todo = todo, !.calm = c]
               IN  h.pc # "full" /\ h.pending = {} /\ v.pc # "full" /\ v.pending = {}
    BY DEF Idle
  <2>2. QED
    BY <2>1 DEF BeginHash, BeginVerify
<1>2. UNCHANGED <<cat, tx, lock>> /\ proc[p].pc = "idle"
      /\ proc' = [q \in Proc |-> IF q = p THEN l ELSE [proc[q] EXCEPT !.calm = FALSE]]
  BY <1>1 DEF Begin, store
<1>3. StoreKept' /\ \A q \in Proc : (View(q).keys)' = View(q).keys
  <2>1. StoreKept
    BY DEF KeptInv
  <2>2. QED
    BY <1>2, <2>1 DEF StoreKept, KeysKept, View
<1>4. LocalKept(l, View(p).keys) /\ lock # p
  BY <1>1, <1>2, Keeping DEF LocalKept
<1>5. ASSUME NEW q \in Proc
      PROVE  /\ lock = q => proc'[q].pc \in {"quick", "full"}
             /\ LocalKept(proc'[q], View(q).keys)
  BY <1>2, <1>4, ToldKept
<1>6. QED
  BY <1>2, <1>3, <1>5, AllKept

\* A merge takes identities away and leaves the content table alone.
LEMMA MergeKeeps ==
    ASSUME IdentityInv, KeptInv, Merge
    PROVE  KeptInv'
<1>1. /\ StoreKept /\ cat \in Catalog
      /\ proc \in [Proc -> Local]
  BY DEF IdentityInv, KeptInv, CatalogSound
<1>2. /\ cat' = [cat EXCEPT !.row = [f \in File |-> MergedRow(@[f], listing[f])]]
      /\ tx' = cat' /\ lock = NoProc /\ UNCHANGED lock
      /\ Disturbed
  BY DEF Merge
<1>3. /\ cat'.keys = cat.keys
      /\ cat'.row = [f \in File |-> MergedRow(cat.row[f], listing[f])]
  BY <1>1, <1>2 DEF Catalog
<1>4. ASSUME NEW f \in File
      PROVE  MergedRow(cat.row[f], listing[f]).content \in {cat.row[f].content, NoContent}
  <2>1. cat.row[f] \in FileRow
    BY <1>1 DEF Catalog
  <2>2. QED
    BY <2>1 DEF MergedRow, FileRow
<1>5. KeysKept(cat')
  BY <1>1, <1>3, <1>4 DEF StoreKept, KeysKept
<1>6. StoreKept'
  BY <1>1, <1>2, <1>3, <1>5 DEF StoreKept, KeysKept
<1>7. \A q \in Proc : (View(q).keys)' = View(q).keys
  BY <1>1, <1>2, <1>3 DEF View, StoreKept
<1>8. \A q \in Proc : proc'[q] = [proc[q] EXCEPT !.calm = FALSE]
  BY <1>2 DEF Disturbed
<1>9. QED
  BY <1>2, <1>6, <1>7, <1>8, ToldKept, AllKept

LEMMA WorldKeeps ==
    ASSUME IdentityInv, KeptInv, World
    PROVE  KeptInv'
<1>1. Change
  BY DEF World, Edit, Rot, ToggleAway, ToggleShut
<1>2. UNCHANGED <<cat, tx, lock>> /\ \A q \in Proc : proc'[q] = [proc[q] EXCEPT !.calm = FALSE]
  BY <1>1 DEF Change, Disturbed, store
<1>3. StoreKept' /\ \A q \in Proc : (View(q).keys)' = View(q).keys
  <2>1. StoreKept
    BY DEF KeptInv
  <2>2. QED
    BY <1>2, <2>1 DEF StoreKept, KeysKept, View
<1>4. QED
  BY <1>2, <1>3, ToldKept, AllKept

LEMMA StillKeeps ==
    ASSUME KeptInv, UNCHANGED <<cat, tx, lock, proc>>
    PROVE  KeptInv'
<1>1. StoreKept' /\ \A q \in Proc : (View(q).keys)' = View(q).keys
  <2>1. StoreKept
    BY DEF KeptInv
  <2>2. QED
    BY <2>1 DEF StoreKept, KeysKept, View
<1>2. QED
  BY <1>1, AllKept DEF KeptInv

LEMMA InitKept == Init => KeptInv
<1> SUFFICES ASSUME Init
             PROVE  KeptInv
  OBVIOUS
<1>1. cat = [row |-> [f \in File |-> NoRow], keys |-> {}] /\ tx = cat /\ lock = NoProc
  BY DEF Init
<1>2. KeysKept(cat)
  BY <1>1 DEF KeysKept, NoRow
<1>3. StoreKept
  BY <1>1, <1>2 DEF StoreKept
<1>4. \A p \in Proc : proc[p].pc = "idle"
  BY DEF Init, Idle
<1>5. \A p \in Proc : lock # p
  BY <1>1, ProcAssumption
<1>6. QED
  BY <1>3, <1>4, <1>5 DEF KeptInv, LocalKept

LEMMA StepKept ==
    IdentityInv /\ KeptInv /\ [Next]_vars => KeptInv'
<1> SUFFICES ASSUME IdentityInv, KeptInv, [Next]_vars
             PROVE  KeptInv'
  OBVIOUS
<1>1. CASE \E p \in Proc, scope \in ScopeChoices : BeginHash(p, scope) \/ BeginVerify(p, scope)
  BY <1>1, BeginKeeps
<1>2. ASSUME NEW p \in Proc, PassStep(p) PROVE KeptInv'
  <2>1. CASE \E f \in File : Read(p, f) \/ Unreadable(p, f)
    BY <2>1, ReadKeeps, UnreadableKeeps
  <2>2. CASE \E f \in File : QuickResult(p, f) \/ FullResult(p, f)
    BY <2>2, QuickResultKeeps, FullResultKeeps
  <2>3. CASE \E f \in File : VerifyStat(p, f) \/ VerifyHash(p, f)
    BY <2>3, VerifyKeeps
  <2>4. CASE EndQuick(p) \/ FindCollisions(p) \/ EndFull(p) \/ EndVerify(p) \/ Stop(p)
    BY <2>4, EndQuickKeeps, FindCollisionsKeeps, EndsKeep
  <2> QED
    BY <1>2, <2>1, <2>2, <2>3, <2>4 DEF PassStep
<1>3. CASE List
  BY <1>3, StillKeeps DEF List
<1>4. CASE Merge
  BY <1>4, MergeKeeps
<1>5. CASE World
  BY <1>5, WorldKeeps
<1>6. CASE UNCHANGED vars
  BY <1>6, StillKeeps DEF vars, store
<1>7. QED
  BY <1>1, <1>2, <1>3, <1>4, <1>5, <1>6 DEF Next

--------------------------------------------------------------------------------
(* A pass stays calm only through its own steps *)

LEMMA PassMoves ==
    ASSUME IdentityInv, NEW p \in Proc, PassStep(p)
    PROVE  /\ proc[p].pc # "idle"
           /\ UNCHANGED drive
           /\ \A q \in Proc \ {p} : proc'[q] = proc[q]
           /\ proc'[p].calm => proc[p].calm /\ ~Stop(p)
<1>1. proc[p] \in Local /\ proc \in [Proc -> Local]
  BY DEF IdentityInv
<1>2. /\ [Idle EXCEPT !.last = "stopped"].calm = FALSE
      /\ \A c, r : [Idle EXCEPT !.calm = c, !.last = r].calm = c
  BY DEF Idle
<1>3. proc[p].pc # "idle" /\ UNCHANGED drive
  BY DEF PassStep, Read, Unreadable, QuickResult, FullResult, VerifyStat, VerifyHash,
         EndQuick, FindCollisions, EndFull, EndVerify, Stop, Quiet, Recorded
<1>4. ASSUME NEW n, Goto(p, n), n.calm \in {proc[p].calm, FALSE}, Stop(p) => n.calm = FALSE
      PROVE  /\ \A q \in Proc \ {p} : proc'[q] = proc[q]
             /\ proc'[p].calm => proc[p].calm /\ ~Stop(p)
  BY <1>1, <1>4 DEF Goto
<1>5. ASSUME NEW f \in File,
             Read(p, f) \/ Unreadable(p, f) \/ QuickResult(p, f) \/ FullResult(p, f)
               \/ VerifyStat(p, f) \/ VerifyHash(p, f)
      PROVE  \E n : Goto(p, n) /\ n.calm = proc[p].calm
  <2>1. ASSUME NEW x
        PROVE  /\ [proc[p] EXCEPT !.got[f] = x].calm = proc[p].calm
               /\ [proc[p] EXCEPT !.todo = @ \ {f}].calm = proc[p].calm
               /\ [proc[p] EXCEPT !.todo = @ \ {f}, !.pending = x].calm = proc[p].calm
               /\ [proc[p] EXCEPT !.todo = @ \ {f}, !.done = x].calm = proc[p].calm
               /\ [proc[p] EXCEPT !.stat = x].calm = proc[p].calm
               /\ [proc[p] EXCEPT !.stat = x, !.todo = @ \ {f}].calm = proc[p].calm
    BY <1>1 DEF Local
  <2>2. CASE Read(p, f) \/ Unreadable(p, f)
    BY <2>1, <2>2 DEF Read, Unreadable
  <2>3. CASE QuickResult(p, f)
    BY <2>1, <2>3 DEF QuickResult
  <2>4. CASE FullResult(p, f)
    BY <2>1, <2>4 DEF FullResult
  <2>5. CASE VerifyStat(p, f) \/ VerifyHash(p, f)
    BY <2>1, <2>5 DEF VerifyStat, VerifyHash
  <2>6. QED
    BY <1>5, <2>2, <2>3, <2>4, <2>5
<1>6. ASSUME EndQuick(p) \/ FindCollisions(p) \/ EndFull(p) \/ EndVerify(p)
      PROVE  \E n : Goto(p, n) /\ n.calm = proc[p].calm
  <2>1. [proc[p] EXCEPT !.pc = "collisions", !.pending = {}].calm = proc[p].calm
    BY <1>1 DEF Local
  <2>2. CASE EndQuick(p)
    BY <2>1, <2>2 DEF EndQuick
  <2>3. CASE FindCollisions(p)
    <3> DEFINE r == [Idle EXCEPT !.calm = proc[p].calm, !.last = "hashed"]
    <3>1. CASE Goto(p, r)
      <4>1. r.calm = proc[p].calm
        BY <1>2
      <4> HIDE DEF r
      <4>2. QED
        BY <3>1, <4>1
    <3> DEFINE k == [proc[p] EXCEPT !.pc = "full", !.item = cat.row,
                                    !.todo = Collisions(cat, proc[p].scope),
                                    !.got = [f \in File |-> "waiting"]]
    <3>2. CASE Goto(p, k)
      <4>1. k.calm = proc[p].calm
        BY <1>1 DEF Local
      <4> HIDE DEF k
      <4>2. QED
        BY <3>2, <4>1
    <3>3. QED
      BY <2>3, <3>1, <3>2 DEF FindCollisions
  <2>4. CASE EndFull(p) \/ EndVerify(p)
    <3> DEFINE r(x) == [Idle EXCEPT !.calm = proc[p].calm, !.last = x]
    <3>1. \A x : r(x).calm = proc[p].calm
      BY <1>2
    <3>2. Goto(p, r("hashed")) \/ Goto(p, r("verified"))
      BY <2>4 DEF EndFull, EndVerify
    <3> HIDE DEF r
    <3>3. QED
      BY <3>1, <3>2
  <2>5. QED
    BY <1>6, <2>2, <2>3, <2>4
<1>7. CASE Stop(p)
  BY <1>2, <1>3, <1>4, <1>7 DEF Stop
<1>8. CASE ~Stop(p)
  <2>1. PICK n : Goto(p, n) /\ n.calm = proc[p].calm
    BY <1>5, <1>6, <1>8 DEF PassStep
  <2>2. QED
    BY <1>3, <1>4, <1>8, <2>1
<1>9. QED
  BY <1>7, <1>8

\* Whoever begins tells the others.
LEMMA BeginMoves ==
    ASSUME IdentityInv, NEW p \in Proc, NEW scope, BeginHash(p, scope) \/ BeginVerify(p, scope)
    PROVE  /\ UNCHANGED <<drive, store, fixity>> /\ proc[p].pc = "idle"
           /\ \A q \in Proc \ {p} : ~proc'[q].calm /\ proc'[q].pc = proc[q].pc
           /\ proc'[p].calm => scope = File /\ Alone(p)
<1>1. proc \in [Proc -> Local]
  BY DEF IdentityInv
<1>2. PICK l : Begin(p, l) /\ (l.calm => scope = File /\ Alone(p))
  <2>1. ASSUME NEW c, NEW todo
        PROVE  /\ [Idle EXCEPT !.pc = "quick", !.scope = scope, !.item = cat.row,
                               !.todo = todo, !.calm = c].calm = c
               /\ [Idle EXCEPT !.pc = "verify", !.scope = scope, !.item = cat.row,
                               !.todo = todo, !.calm = c].calm = c
    BY DEF Idle
  <2>2. QED
    BY <2>1 DEF BeginHash, BeginVerify
<1>3. ASSUME NEW q \in Proc
      PROVE  /\ [proc[q] EXCEPT !.calm = FALSE].calm = FALSE
             /\ [proc[q] EXCEPT !.calm = FALSE].pc = proc[q].pc
  BY <1>1 DEF Local
<1>4. QED
  BY <1>2, <1>3 DEF Begin

LEMMA BeginCalm ==
    ASSUME IdentityInv, NEW p \in Proc, NEW scope \in ScopeChoices, proc'[p].calm,
           BeginHash(p, scope) \/ BeginVerify(p, scope)
    PROVE  /\ scope = File
           /\ UNCHANGED <<disk, away, shut, rotted, cat, tx, lock, fixity>>
<1>1. proc'[p].calm => scope = File
  BY BeginMoves
<1>2. UNCHANGED <<drive, store, fixity>>
  BY BeginMoves
<1>3. QED
  BY <1>1, <1>2 DEF drive, store

LEMMA DisturbedMoves ==
    ASSUME IdentityInv, Merge \/ World
    PROVE  \A p \in Proc : ~proc'[p].calm
<1>1. Disturbed
  BY DEF Merge, World, Edit, Rot, ToggleAway, ToggleShut, Change
<1>2. QED
  BY <1>1 DEF Disturbed, IdentityInv, Local

\* Where a calm pass can have come from.
LEMMA CalmStep ==
    ASSUME IdentityInv, CalmAlone, [Next]_vars, NEW p \in Proc, proc'[p].calm
    PROVE  \/ \E scope \in ScopeChoices : BeginHash(p, scope) \/ BeginVerify(p, scope)
           \/ proc[p].calm /\ PassStep(p) /\ ~Stop(p)
           \/ proc[p].calm /\ UNCHANGED <<proc, drive, cat, tx, lock, fixity>>
<1>1. CASE \E q \in Proc, scope \in ScopeChoices : BeginHash(q, scope) \/ BeginVerify(q, scope)
  BY <1>1, BeginMoves
<1>2. CASE \E q \in Proc : PassStep(q)
  <2>1. PICK q \in Proc : PassStep(q)
    BY <1>2
  <2>2. q = p
    <3>1. SUFFICES ASSUME q # p
                   PROVE  FALSE
      OBVIOUS
    <3>2. proc[q].pc # "idle" /\ proc[p].calm
      BY <2>1, <3>1, PassMoves
    <3>3. QED
      BY <3>1, <3>2 DEF CalmAlone, Alone
  <2>3. QED
    BY <2>1, <2>2, PassMoves
<1>3. CASE List
  BY <1>3 DEF List
<1>4. CASE Merge \/ World
  BY <1>4, DisturbedMoves
<1>5. CASE UNCHANGED vars
  BY <1>5 DEF vars, store
<1>6. QED
  BY <1>1, <1>2, <1>3, <1>4, <1>5 DEF Next

LEMMA StepAlone ==
    IdentityInv /\ CalmAlone /\ [Next]_vars => CalmAlone'
<1> SUFFICES ASSUME IdentityInv, CalmAlone, [Next]_vars,
                    NEW p \in Proc, proc'[p].calm,
                    NEW q \in Proc \ {p}
             PROVE  proc'[q].pc = "idle"
  BY DEF CalmAlone, Alone
<1>1. CASE \E scope \in ScopeChoices : BeginHash(p, scope) \/ BeginVerify(p, scope)
  <2>1. Alone(p) /\ proc'[q].pc = proc[q].pc
    BY <1>1, BeginMoves
  <2>2. QED
    BY <2>1 DEF Alone
<1>2. CASE proc[p].calm /\ PassStep(p)
  <2>1. Alone(p) /\ proc'[q] = proc[q]
    BY <1>2, PassMoves DEF CalmAlone
  <2>2. QED
    BY <2>1 DEF Alone
<1>3. CASE proc[p].calm /\ UNCHANGED proc
  BY <1>3 DEF CalmAlone, Alone
<1>4. QED
  BY <1>1, <1>2, <1>3, CalmStep

LEMMA InitCalm == Init => \A p \in Proc : ~proc[p].calm
  BY DEF Init, Idle

--------------------------------------------------------------------------------
(* What a verify pass reports *)

VerifyInv == CalmAlone /\ \A p \in Proc : proc[p].calm => VerifyCalm(proc[p])

\* A check compares the bytes with those the identity came from.
LEMMA AgreesExactly ==
    ASSUME NEW c, NEW b, NEW read, KeyFits(c, read), Exact(c)
    PROVE  Agrees(c, b) <=> b = read
<1>1. CASE c.full # NoBody
  BY <1>1 DEF KeyFits, Agrees
<1>2. CASE c.full = NoBody
  <2>1. c.quick = <<c.size, read>> /\ c.size \in SmallSize
    BY <1>2 DEF KeyFits, Exact, Quick
  <2>2. Agrees(c, b) <=> <<c.size, read>> = <<c.size, b>>
    BY <1>2, <2>1 DEF Agrees, Quick
  <2>3. QED
    BY <2>2
<1>3. QED
  BY <1>1, <1>2

LEMMA ToldStill ==
    ASSUME UNCHANGED <<drive, cat>>, NEW f, fixity'[f] = fixity[f], Told(f)
    PROVE  Told(f)'
  BY DEF Told, Identified, Live, drive

LEMMA BeginVerifyTells ==
    ASSUME IdentityInv, NEW p \in Proc, NEW scope \in ScopeChoices, BeginVerify(p, scope),
           proc'[p].calm
    PROVE  VerifyCalm(proc[p])'
<1> DEFINE n == [Idle EXCEPT !.pc = "verify", !.scope = scope, !.item = cat.row,
                             !.todo = {f \in scope : Verifiable(cat, f)},
                             !.calm = scope = File /\ Alone(p)]
<1>1. scope = File /\ UNCHANGED <<cat, drive>>
  BY BeginCalm DEF drive
<1>2. proc'[p] = n
  BY DEF BeginVerify, Begin
<1>3. n.pc = "verify" /\ n.item = cat.row /\ n.todo = {f \in File : Verifiable(cat, f)}
  BY <1>1 DEF Idle
<1> HIDE DEF n
<1>4. ASSUME NEW f \in File \ n.todo
      PROVE  Told(f)'
  <2>1. ~Verifiable(cat, f)
    BY <1>3, <1>4
  <2>2. QED
    BY <1>1, <2>1 DEF Verifiable, Told, Identified, Live
<1>5. QED
  BY <1>1, <1>2, <1>3, <1>4 DEF VerifyCalm

\* A file that is done with.
LEMMA ReportTells ==
    ASSUME IdentityInv, NEW p \in Proc, NEW f \in File, VerifyCalm(proc[p]),
           VerifyStat(p, f) \/ VerifyHash(p, f)
    PROVE  VerifyCalm(proc[p])'
<1> DEFINE l == proc[p]
<1>1. /\ l \in Local /\ LocalSound(l, disk, rotted) /\ fixity \in Fixities
      /\ l.pc = "verify" /\ proc \in [Proc -> Local]
  BY Given DEF VerifyStat, VerifyHash, IdentityInv
<1>2. l.item = cat.row /\ \A g \in File \ l.todo : Told(g)
  BY <1>1 DEF VerifyCalm
<1>3. UNCHANGED drive /\ cat' = cat
  BY DEF VerifyStat, VerifyHash, Recorded, Commit, Quiet, store
<1>4. RowSound(cat.row[f], disk[f], f \in rotted)
  BY DEF IdentityInv, CatalogSound
<1>5. ASSUME NEW n, proc'[p] = n,
             n.pc = "verify", n.item = l.item, l.todo \ {f} \subseteq n.todo,
             \A g \in File \ {f} : fixity'[g] = fixity[g],
             f \notin n.todo => Told(f)'
      PROVE  VerifyCalm(proc[p])'
  <2>1. ASSUME NEW g \in File \ n.todo
        PROVE  Told(g)'
    <3>1. CASE g = f
      BY <1>5, <2>1, <3>1
    <3>2. CASE g # f
      BY <1>2, <1>3, <1>5, <2>1, <3>2, ToldStill
    <3>3. QED
      BY <3>1, <3>2
  <2>2. QED
    BY <1>2, <1>3, <1>5, <2>1 DEF VerifyCalm
<1>6. ASSUME NEW r \in {"ok", "mismatch", "modified", "unreadable"}, Recorded(p, f, r)
      PROVE  fixity'[f] = r /\ \A g \in File \ {f} : fixity'[g] = fixity[g]
  BY <1>1, <1>6 DEF Recorded, Fixities
<1>7. CASE VerifyStat(p, f)
  <2> DEFINE n == [l EXCEPT !.todo = @ \ {f}]
             k == [l EXCEPT !.stat = {f}]
  <2>1. n.pc = "verify" /\ n.item = l.item /\ n.todo = l.todo \ {f}
    BY <1>1 DEF Local
  <2>2. k.pc = "verify" /\ k.item = l.item /\ k.todo = l.todo /\ f \in l.todo
    BY <1>1, <1>7 DEF Local, VerifyStat
  <2>3. \/ Recorded(p, f, "unreadable") /\ Goto(p, n) /\ f \in away
        \/ Recorded(p, f, "modified") /\ Goto(p, n) /\ disk[f].time # l.item[f].time
        \/ Goto(p, k) /\ Quiet
    BY <1>7 DEF VerifyStat
  <2> HIDE DEF n, k, l
  <2>4. CASE Recorded(p, f, "unreadable") /\ Goto(p, n) /\ f \in away
    <3>1. Told(f)'
      BY <1>3, <2>4 DEF Told, drive
    <3>2. proc'[p] = n
      BY <1>1, <2>4 DEF Goto
    <3>3. QED
      BY <1>5, <1>6, <2>1, <2>4, <3>1, <3>2
  <2>5. CASE Recorded(p, f, "modified") /\ Goto(p, n) /\ disk[f].time # l.item[f].time
    <3>1. Told(f)'
      BY <1>2, <1>3, <2>5 DEF Told, drive
    <3>2. proc'[p] = n
      BY <1>1, <2>5 DEF Goto
    <3>3. QED
      BY <1>5, <1>6, <2>1, <2>5, <3>1, <3>2
  <2>6. CASE Goto(p, k) /\ Quiet
    <3>1. proc'[p] = k /\ fixity' = fixity
      BY <1>1, <2>6 DEF Goto, Quiet
    <3>2. QED
      BY <1>5, <2>2, <3>1
  <2>7. QED
    BY <2>3, <2>4, <2>5, <2>6
<1>8. CASE VerifyHash(p, f)
  <2> DEFINE n == [l EXCEPT !.stat = {}, !.todo = @ \ {f}]
  <2>1. n.pc = "verify" /\ n.item = l.item /\ n.todo = l.todo \ {f}
    BY <1>1 DEF Local
  <2>2. Goto(p, n)
    BY <1>8 DEF VerifyHash
  <2>3. PICK r \in {"ok", "mismatch", "unreadable"} :
          /\ Recorded(p, f, r)
          /\ f \notin away \cup shut =>
               r = IF Agrees(l.item[f].content, disk[f].body) THEN "ok" ELSE "mismatch"
    <3>1. disk[f].body # "error"
      BY Given, BodyAssumption DEF Disks
    <3>2. CASE f \in away \cup shut
      BY <1>8, <3>2 DEF VerifyHash, OpenRead
    <3>3. CASE f \notin away \cup shut
      <4>1. OpenRead(f) # "error"
        BY <3>1, <3>3 DEF OpenRead
      <4>2. CASE Agrees(l.item[f].content, disk[f].body)
        BY <1>8, <4>1, <4>2 DEF VerifyHash
      <4>3. CASE ~Agrees(l.item[f].content, disk[f].body)
        BY <1>8, <4>1, <4>3 DEF VerifyHash
      <4>4. QED
        BY <4>2, <4>3
    <3>4. QED
      BY <3>2, <3>3
  <2>4. fixity'[f] = r /\ \A g \in File \ {f} : fixity'[g] = fixity[g]
    BY <1>6, <2>3
  <2>5. Told(f)'
    <3>1. SUFFICES ASSUME Identified(f), Exact(cat.row[f].content), f \notin away \cup shut
                   PROVE  /\ r = "mismatch" <=> disk[f].body # cat.row[f].read
                          /\ r = "ok" <=> disk[f].body = cat.row[f].read
      BY <1>3, <2>4 DEF Told, Identified, Live, drive
    <3>2. KeyFits(cat.row[f].content, cat.row[f].read)
      BY <1>4, <3>1 DEF RowSound, Identified
    <3>3. Agrees(cat.row[f].content, disk[f].body) <=> disk[f].body = cat.row[f].read
      BY <3>1, <3>2, AgreesExactly
    <3>4. QED
      BY <1>2, <2>3, <3>1, <3>3
  <2> HIDE DEF n, l
  <2>6. proc'[p] = n
    BY <1>1, <2>2 DEF Goto
  <2>7. QED
    BY <1>5, <2>1, <2>4, <2>5, <2>6
<1>9. QED
  BY <1>7, <1>8

LEMMA EndVerifyTells ==
    ASSUME IdentityInv, NEW p \in Proc, VerifyCalm(proc[p]), EndVerify(p)
    PROVE  VerifyCalm(proc[p])'
<1>1. /\ proc[p].pc = "verify" /\ proc[p].todo = {}
      /\ UNCHANGED <<drive, cat, fixity>>
  BY DEF EndVerify, Quiet, store
<1>2. \A f \in File : Told(f)'
  BY <1>1, ToldStill DEF VerifyCalm
<1>3. proc'[p].pc = "idle"
  BY DEF EndVerify, Goto, IdentityInv, Idle
<1>4. QED
  BY <1>2, <1>3 DEF VerifyCalm

\* A hash pass reports nothing of this.
LEMMA HashTells ==
    ASSUME NEW p, proc'[p].pc # "verify", proc'[p].pc = "idle" => proc'[p].last # "verified"
    PROVE  VerifyCalm(proc[p])'
  BY DEF VerifyCalm

LEMMA FileTells ==
    ASSUME IdentityInv, NEW p \in Proc, NEW f \in File,
           Read(p, f) \/ Unreadable(p, f) \/ QuickResult(p, f) \/ FullResult(p, f)
    PROVE  proc'[p].pc = proc[p].pc /\ proc[p].pc \in {"quick", "full"}
<1>1. proc[p] \in Local /\ proc \in [Proc -> Local]
  BY DEF IdentityInv
<1>2. ASSUME NEW x
      PROVE  /\ [proc[p] EXCEPT !.got[f] = x].pc = proc[p].pc
             /\ [proc[p] EXCEPT !.todo = @ \ {f}].pc = proc[p].pc
             /\ [proc[p] EXCEPT !.todo = @ \ {f}, !.pending = x].pc = proc[p].pc
             /\ [proc[p] EXCEPT !.todo = @ \ {f}, !.done = x].pc = proc[p].pc
  BY <1>1 DEF Local
<1>3. CASE Read(p, f)
  BY <1>1, <1>2, <1>3 DEF Read, Goto
<1>4. CASE Unreadable(p, f)
  BY <1>1, <1>2, <1>4 DEF Unreadable, Goto
<1>5. CASE QuickResult(p, f)
  BY <1>1, <1>2, <1>5 DEF QuickResult, Goto
<1>6. CASE FullResult(p, f)
  BY <1>1, <1>2, <1>6 DEF FullResult, Goto
<1>7. QED
  BY <1>3, <1>4, <1>5, <1>6

LEMMA PassTells ==
    ASSUME IdentityInv, NEW p \in Proc, EndQuick(p) \/ FindCollisions(p) \/ EndFull(p)
    PROVE  /\ proc'[p].pc # "verify"
           /\ proc'[p].pc = "idle" => proc'[p].last # "verified"
<1>1. proc[p] \in Local /\ proc \in [Proc -> Local]
  BY DEF IdentityInv
<1>2. CASE EndQuick(p)
  BY <1>1, <1>2 DEF EndQuick, Goto, Local
<1> DEFINE l == proc[p]
           n == [l EXCEPT !.pc = "full", !.item = cat.row,
                          !.todo = Collisions(cat, l.scope),
                          !.got = [f \in File |-> "waiting"]]
           r == [Idle EXCEPT !.calm = l.calm, !.last = "hashed"]
<1>3. n.pc = "full" /\ r.last = "hashed" /\ r.pc = "idle"
  BY <1>1 DEF Local, Idle
<1>4. CASE FindCollisions(p) \/ EndFull(p)
  <2>1. Goto(p, n) \/ Goto(p, r)
    BY <1>4 DEF FindCollisions, EndFull
  <2> HIDE DEF n, r
  <2>2. proc'[p] = n \/ proc'[p] = r
    BY <1>1, <2>1 DEF Goto
  <2>3. QED
    BY <1>3, <2>2
<1>5. QED
  BY <1>2, <1>4

LEMMA StepVerified ==
    IdentityInv /\ VerifyInv /\ [Next]_vars => VerifyInv'
<1> SUFFICES ASSUME IdentityInv, VerifyInv, [Next]_vars
             PROVE  VerifyInv'
  OBVIOUS
<1>1. CalmAlone'
  BY StepAlone DEF VerifyInv
<1>2. ASSUME NEW p \in Proc, proc'[p].calm
      PROVE  VerifyCalm(proc[p])'
  <2>1. CASE \E scope \in ScopeChoices : BeginHash(p, scope) \/ BeginVerify(p, scope)
    <3>1. CASE \E scope \in ScopeChoices : BeginVerify(p, scope)
      BY <1>2, <3>1, BeginVerifyTells
    <3>2. CASE \E scope \in ScopeChoices : BeginHash(p, scope)
      <4>1. PICK scope \in ScopeChoices : BeginHash(p, scope)
        BY <3>2
      <4> DEFINE n == [Idle EXCEPT !.pc = "quick", !.scope = scope, !.item = cat.row,
                                   !.todo = Candidates(cat, scope),
                                   !.calm = scope = File /\ Alone(p) /\ \A f \in File : TruthOf(f)]
      <4>2. n.pc = "quick"
        BY DEF Idle
      <4>3. proc'[p] = n
        BY <4>1 DEF BeginHash, Begin
      <4> HIDE DEF n
      <4>4. QED
        BY <4>2, <4>3, HashTells
    <3>3. QED
      BY <2>1, <3>1, <3>2
  <2>2. CASE proc[p].calm /\ PassStep(p) /\ ~Stop(p)
    <3>1. VerifyCalm(proc[p])
      BY <2>2 DEF VerifyInv
    <3>2. CASE \E f \in File : VerifyStat(p, f) \/ VerifyHash(p, f)
      BY <3>1, <3>2, ReportTells
    <3>3. CASE EndVerify(p)
      BY <3>1, <3>3, EndVerifyTells
    <3>4. CASE \E f \in File : Read(p, f) \/ Unreadable(p, f) \/ QuickResult(p, f)
                               \/ FullResult(p, f)
      BY <3>4, FileTells, HashTells
    <3>5. CASE EndQuick(p) \/ FindCollisions(p) \/ EndFull(p)
      BY <3>5, PassTells, HashTells
    <3>6. QED
      BY <2>2, <3>2, <3>3, <3>4, <3>5 DEF PassStep
  <2>3. CASE proc[p].calm /\ UNCHANGED <<proc, drive, cat, tx, lock, fixity>>
    <3>1. VerifyCalm(proc[p])
      BY <2>3 DEF VerifyInv
    <3>2. \A f : Told(f) => Told(f)'
      BY <2>3, ToldStill
    <3>3. QED
      BY <2>3, <3>1, <3>2 DEF VerifyCalm
  <2>4. QED
    BY <1>2, <2>1, <2>2, <2>3, CalmStep DEF VerifyInv
<1>3. (\A p \in Proc : proc[p].calm => VerifyCalm(proc[p]))'
  BY <1>2
<1>4. QED
  BY <1>1, <1>3 DEF VerifyInv

\* A verify pass on a drive at rest reports every file whose bytes are no
\* longer those its exact identity came from, small or large, and no other.
THEOREM RotComesToLight == Spec => []RotReported
<1>1. Init => IdentityInv /\ VerifyInv
  BY InitSound, InitCalm DEF VerifyInv, CalmAlone
<1>2. IdentityInv /\ VerifyInv /\ [Next]_vars => (IdentityInv /\ VerifyInv)'
  BY StepSound, StepVerified
<1>3. IdentityInv /\ VerifyInv => RotReported
  BY DEF VerifyInv, VerifyCalm, RotReported, Done, Told
<1>4. QED
  BY <1>1, <1>2, <1>3, PTL DEF Spec

--------------------------------------------------------------------------------
(* What a hash pass on a drive at rest establishes *)

HashInv == CalmAlone /\ \A p \in Proc : proc[p].calm => HashCalm(proc[p])

\* Nobody but the pass itself can hold the lock.
LEMMA CalmView ==
    ASSUME KeptInv, NEW p \in Proc, Alone(p), lock \in Proc \cup {NoProc}
    PROVE  View(p) = tx /\ (lock # p => lock = NoProc /\ tx = cat)
<1>1. lock \in {p, NoProc}
  BY DEF KeptInv, Alone
<1>2. QED
  BY <1>1 DEF KeptInv, StoreKept, View

\* Whether two files have to be told apart does not depend on identities.
LEMMA NeedsStay ==
    ASSUME UNCHANGED drive, \A f \in File : SameFile(tx'.row[f], tx.row[f]),
           NEW f \in File, NEW g \in File
    PROVE  /\ Needy(f)' => Needy(f)
           /\ Alike(f, g)' => Alike(f, g)
  BY DEF Needy, Alike, SameFile, drive

LEMMA RowStillTrue ==
    ASSUME UNCHANGED drive, NEW r, NEW f, RowTrue(r, f)
    PROVE  RowTrue(r, f)'
  BY DEF RowTrue, drive

\* What a calm pass reads is what the file holds.
LEMMA GotIs ==
    ASSUME NEW l, LocalSound(l, disk, rotted), NEW f \in File, NEW r,
           RowTrue(r, f), SameFile(l.item[f], r), r.st = "live", l.got[f] \in Body
    PROVE  l.got[f] = disk[f].body
  BY DEF LocalSound, RowTrue, SameFile

LEMMA AssignedTrue ==
    ASSUME NEW r \in FileRow, NEW f \in File, RowTrue(r, f), r.st = "live",
           NEW l, NEW key \in Content,
           key.size = r.size, key.quick = Quick(r.size, disk[f].body),
           key.full \in {NoBody, disk[f].body}
    PROVE  /\ SameFile(Assigned(r, l, f, key), r)
           /\ RowTrue(Assigned(r, l, f, key), f)
           /\ Assigned(r, l, f, key).content = key
<1> DEFINE n == Assigned(r, l, f, key)
<1>1. n.st = r.st /\ n.time = r.time /\ n.size = r.size /\ n.content = key
  BY DEF Assigned, FileRow
<1> HIDE DEF n
<1>2. QED
  BY <1>1 DEF SameFile, RowTrue, n

LEMMA QuickAssignedTrue ==
    ASSUME IdentityInv, NEW l, LocalSound(l, disk, rotted),
           NEW t \in Catalog, NEW fs \in SUBSET File,
           \A f \in File : SameFile(l.item[f], t.row[f]) /\ RowTrue(t.row[f], f),
           \A f \in fs : l.item[f].st = "live" /\ l.got[f] \in Body /\ l.item[f].size \in Sizes,
           NEW f \in File
    PROVE  /\ SameFile(QuickAssigned(t, l, fs).row[f], t.row[f])
           /\ RowTrue(QuickAssigned(t, l, fs).row[f], f)
           /\ (f \in fs \/ t.row[f].content # NoContent)
                => QuickAssigned(t, l, fs).row[f].content # NoContent
<1> DEFINE n == QuickAssigned(t, l, fs)
           key == QuickContent(l, f)
<1>1. n.row[f] = IF f \in fs THEN Assigned(t.row[f], l, f, key) ELSE t.row[f]
  BY DEF QuickAssigned, Catalog
<1>2. t.row[f] \in FileRow /\ SameFile(l.item[f], t.row[f]) /\ RowTrue(t.row[f], f)
  BY DEF Catalog
<1>3. CASE f \in fs
  <2>1. t.row[f].st = "live" /\ l.got[f] \in Body /\ l.item[f].size = t.row[f].size
        /\ l.item[f].size \in Sizes
    BY <1>2, <1>3 DEF SameFile
  <2>2. l.got[f] = disk[f].body
    BY <1>2, <2>1, GotIs
  <2>3. key \in Content
    BY <2>1, QuickKey
  <2>4. key.size = t.row[f].size /\ key.quick = Quick(t.row[f].size, disk[f].body)
        /\ key.full = NoBody
    BY <2>1, <2>2 DEF QuickContent
  <2>5. key # NoContent
    BY <2>3, BodyAssumption
  <2> HIDE DEF key
  <2>6. /\ SameFile(Assigned(t.row[f], l, f, key), t.row[f])
        /\ RowTrue(Assigned(t.row[f], l, f, key), f)
        /\ Assigned(t.row[f], l, f, key).content = key
    BY <1>2, <2>1, <2>3, <2>4, AssignedTrue
  <2>7. QED
    BY <1>1, <1>3, <2>5, <2>6
<1>4. CASE f \notin fs
  <2>1. n.row[f] = t.row[f]
    BY <1>1, <1>4
  <2>2. QED
    BY <1>2, <1>4, <2>1 DEF SameFile
<1>5. QED
  BY <1>3, <1>4

\* What every step of a calm hash pass has to work with.
LEMMA Calm ==
    ASSUME IdentityInv, KeptInv, HashInv, NEW p \in Proc, proc[p].calm
    PROVE  /\ proc[p] \in Local /\ LocalSound(proc[p], disk, rotted)
           /\ proc \in [Proc -> Local]
           /\ HashCalm(proc[p])
           /\ View(p) = tx /\ tx \in Catalog /\ cat \in Catalog
           /\ lock # p => lock = NoProc /\ tx = cat
<1>1. lock \in Proc \cup {NoProc} /\ Alone(p)
  BY DEF IdentityInv, PlainOK, HashInv, CalmAlone
<1>2. View(p) = tx /\ (lock # p => lock = NoProc /\ tx = cat)
  BY <1>1, CalmView
<1>3. QED
  BY <1>2 DEF IdentityInv, HashInv, CatalogSound

LEMMA QuickHolds ==
    ASSUME NEW p, NEW n, proc'[p] = n, n.pc = "quick", QuickCalm(n)'
    PROVE  HashCalm(proc[p])'
  BY DEF HashCalm, QuickCalm, Queried

LEMMA FullHolds ==
    ASSUME NEW p, NEW n, proc'[p] = n, n.pc = "full", FullCalm(n)'
    PROVE  HashCalm(proc[p])'
  BY DEF HashCalm, FullCalm, Queried

LEMMA BeginHashCalm ==
    ASSUME IdentityInv, KeptInv, HashInv, NEW p \in Proc, NEW scope \in ScopeChoices,
           BeginHash(p, scope), proc'[p].calm
    PROVE  HashCalm(proc[p])'
<1> DEFINE c == scope = File /\ Alone(p) /\ \A f \in File : TruthOf(f)
           m == [Idle EXCEPT !.pc = "quick", !.scope = scope, !.item = cat.row,
                             !.todo = Candidates(cat, scope), !.calm = c]
<1>1. UNCHANGED <<disk, away, shut, rotted, cat, tx, lock>>
  BY BeginCalm
<1>2. PICK n : n = m
  OBVIOUS
<1>3. /\ n.pc = "quick" /\ n.scope = scope /\ n.item = cat.row /\ n.todo = Candidates(cat, scope)
      /\ n.got = [f \in File |-> "waiting"] /\ n.calm = c /\ n.pending = {}
  BY <1>2 DEF Idle
<1>4. proc'[p] = n /\ proc[p].pc = "idle"
  BY <1>2 DEF BeginHash, Begin
<1> HIDE DEF m
<1>5. c
  BY <1>3, <1>4
<1>6. tx = cat
  <2>1. lock \in Proc \cup {NoProc} /\ lock # p
    BY <1>4 DEF IdentityInv, PlainOK, KeptInv
  <2>2. QED
    BY <1>5, <2>1, CalmView
<1>7. \A f \in File : RowTrue(tx.row[f], f)
  BY <1>5, <1>6 DEF TruthOf, RowTrue
<1>8. TrueRows'
  BY <1>1, <1>7 DEF TrueRows, RowTrue
<1>9. Queried(n)'
  BY <1>1, <1>3, <1>6 DEF Queried, SameFile, Candidates
<1>10. ASSUME NEW f \in File, Needy(f)
       PROVE  HasKey(f) \/ f \in n.todo
  BY <1>3, <1>5, <1>6, <1>10 DEF Needy, HasKey, Candidates
<1>11. \A f \in File : Needy(f)' => HasKey(f)' \/ f \in n.todo
  BY <1>1, <1>10 DEF Needy, HasKey
<1>12. QuickCalm(n)'
  BY <1>3, <1>5, <1>8, <1>9, <1>11 DEF QuickCalm
<1>13. QED
  BY <1>3, <1>4, <1>12, QuickHolds

\* The pass goes on over the catalog as it is.
LEMMA QuickGoesOn ==
    ASSUME UNCHANGED drive, UNCHANGED tx, NEW l, QuickCalm(l),
           NEW n, n.scope = l.scope, n.item = l.item,
           n.todo \subseteq l.todo, l.todo \cup l.pending = n.todo \cup n.pending,
           \A f \in n.todo : n.got[f] # "error"
    PROVE  QuickCalm(n)'
<1>1. UNCHANGED <<disk, away, shut, rotted>>
  BY DEF drive
<1>2. TrueRows'
  BY <1>1 DEF QuickCalm, TrueRows, RowTrue
<1>3. Queried(n)'
  BY DEF QuickCalm, Queried
<1>4. \A f \in File : Needy(f)' => HasKey(f)' \/ f \in n.todo \cup n.pending
  BY DEF QuickCalm, Needy, HasKey
<1>5. QED
  BY <1>2, <1>3, <1>4 DEF QuickCalm

LEMMA FullGoesOn ==
    ASSUME UNCHANGED drive, UNCHANGED tx, NEW l, FullCalm(l),
           NEW n, n.item = l.item, n.todo = l.todo, n.pending = l.pending,
           \A f \in n.todo : n.got[f] # "error"
    PROVE  FullCalm(n)'
<1>1. UNCHANGED <<disk, away, shut, rotted>>
  BY DEF drive
<1>2. TrueRows' /\ \A f \in n.todo : RowTrue(n.item[f], f)'
  BY <1>1 DEF FullCalm, Settled, TrueRows, RowTrue
<1>3. Queried(n)'
  BY DEF FullCalm, Queried
<1>4. \A f \in File : Needy(f)' => HasKey(f)'
  BY DEF FullCalm, Settled, Needy, HasKey
<1>5. \A f, g \in File : Alike(f, g)' => HasFull(f)' \/ f \in n.todo
  BY <1>1 DEF FullCalm, Alike, HasFull, HasKey
<1>6. QED
  BY <1>2, <1>3, <1>4, <1>5 DEF FullCalm, Settled

LEMMA ReadCalm ==
    ASSUME IdentityInv, KeptInv, HashInv, NEW p \in Proc, NEW f \in File,
           proc[p].calm, Read(p, f)
    PROVE  HashCalm(proc[p])'
<1> DEFINE l == proc[p]
           m == [l EXCEPT !.got[f] = OpenRead(f)]
<1>1. /\ l \in Local /\ LocalSound(l, disk, rotted) /\ proc \in [Proc -> Local]
      /\ HashCalm(l) /\ tx \in Catalog
  BY Calm
<1>2. PICK n : n = m
  OBVIOUS
<1>3. /\ n.pc = l.pc /\ n.scope = l.scope /\ n.item = l.item /\ n.todo = l.todo
      /\ n.pending = l.pending /\ n.got = [l.got EXCEPT ![f] = OpenRead(f)]
  BY <1>1, <1>2 DEF Local
<1>4. proc'[p] = n
  BY <1>1, <1>2 DEF Read, Goto
<1>5. /\ f \in l.todo /\ l.pc \in {"quick", "full"}
      /\ UNCHANGED drive /\ UNCHANGED tx
  BY DEF Read, Quiet, store
<1>6. TrueRows /\ Queried(l)
  BY <1>1, <1>5 DEF HashCalm, QuickCalm, FullCalm, Settled
<1>7. OpenRead(f) # "error"
  <2>1. tx.row[f].st = "live" /\ RowTrue(tx.row[f], f)
    BY <1>5, <1>6 DEF Queried, SameFile, TrueRows
  <2>2. f \notin away \cup shut
    BY <2>1 DEF RowTrue
  <2>3. disk[f].body # "error"
    BY Given, BodyAssumption DEF Disks
  <2>4. QED
    BY <2>2, <2>3 DEF OpenRead
<1>8. \A g \in n.todo : n.got[g] # "error"
  <2>1. l.got \in [File -> Body \cup {"waiting", "error"}] /\ l.todo \subseteq File
    BY <1>1 DEF Local
  <2>2. QED
    BY <1>3, <1>6, <1>7, <2>1 DEF Queried
<1> HIDE DEF m
<1>9. CASE l.pc = "quick"
  <2>1. QuickCalm(n)'
    BY <1>1, <1>3, <1>5, <1>8, <1>9, QuickGoesOn DEF HashCalm
  <2>2. QED
    BY <1>3, <1>4, <1>9, <2>1, QuickHolds
<1>10. CASE l.pc = "full"
  <2>1. FullCalm(n)'
    BY <1>1, <1>3, <1>5, <1>8, <1>10, FullGoesOn DEF HashCalm
  <2>2. QED
    BY <1>3, <1>4, <1>10, <2>1, FullHolds
<1>11. QED
  BY <1>5, <1>9, <1>10

\* On a drive at rest every file can be read.
LEMMA UnreadableCalm ==
    ASSUME IdentityInv, KeptInv, HashInv, NEW p \in Proc, NEW f \in File,
           proc[p].calm, Unreadable(p, f)
    PROVE  FALSE
  BY Calm DEF Unreadable, HashCalm, QuickCalm, FullCalm, Queried

LEMMA QuickResultCalm ==
    ASSUME IdentityInv, KeptInv, HashInv, NEW p \in Proc, NEW f \in File,
           proc[p].calm, QuickResult(p, f)
    PROVE  HashCalm(proc[p])'
<1> DEFINE l       == proc[p]
           key     == QuickContent(l, f)
           new     == [tx EXCEPT !.keys = @ \cup {key}]
           pending == l.pending \cup {f}
           full    == Cardinality(pending) >= CheckpointRows
           m       == [l EXCEPT !.todo = @ \ {f}, !.pending = IF full THEN {} ELSE pending]
<1>1. /\ l \in Local /\ LocalSound(l, disk, rotted) /\ proc \in [Proc -> Local]
      /\ HashCalm(l) /\ View(p) = tx /\ tx \in Catalog
  BY Calm
<1>2. l.pc = "quick" /\ f \in l.todo /\ l.got[f] \in Body /\ UNCHANGED drive
  BY DEF QuickResult, Quiet
<1>3. QuickCalm(l)
  BY <1>1, <1>2 DEF HashCalm
<1>4. PICK n : n = m
  OBVIOUS
<1>5. /\ n.pc = l.pc /\ n.scope = l.scope /\ n.item = l.item /\ n.todo = l.todo \ {f}
      /\ n.pending = (IF full THEN {} ELSE pending) /\ n.got = l.got
  BY <1>1, <1>4 DEF Local
<1>6. proc'[p] = n
  BY <1>1, <1>4 DEF QuickResult, Goto
<1>7. \A g \in n.todo : n.got[g] # "error"
  BY <1>1, <1>3, <1>5 DEF QuickCalm, Queried, Local
<1>8. key \in Content
  BY <1>1, <1>2, QuickKey DEF LocalSound
<1>9. new \in Catalog /\ new.row = tx.row
  BY <1>1, <1>8 DEF Catalog
<1>10. pending \in SUBSET File
       /\ \A g \in pending : /\ l.item[g].st = "live" /\ l.got[g] \in Body
                             /\ l.item[g].size \in Sizes
  <2>1. l.todo \subseteq File /\ l.pending \subseteq File
    BY <1>1 DEF Local
  <2>2. QED
    BY <1>1, <1>2, <1>3, <2>1 DEF LocalSound, QuickCalm, Queried
<1>11. \/ full /\ Commit(p, QuickAssigned(new, l, pending))
       \/ ~full /\ (Write(p, new) \/ ReadOnly(p))
  BY <1>1 DEF QuickResult
<1> HIDE DEF m, key, new, pending, full
<1>12. CASE ~full /\ (Write(p, new) \/ ReadOnly(p))
  <2>1. tx'.row = tx.row
    BY <1>9, <1>12 DEF Write, ReadOnly
  <2>2. TrueRows'
    BY <1>2, <1>3, <2>1 DEF QuickCalm, TrueRows, RowTrue, drive
  <2>3. Queried(n)'
    BY <1>2, <1>3, <1>5, <1>7, <1>12, <2>1 DEF QuickCalm, Queried, pending
  <2>4. \A g \in File : Needy(g)' => HasKey(g)' \/ g \in n.todo \cup n.pending
    BY <1>3, <1>5, <1>12, <2>1 DEF QuickCalm, Needy, HasKey, pending
  <2>5. QuickCalm(n)'
    BY <1>3, <1>5, <2>2, <2>3, <2>4 DEF QuickCalm
  <2>6. QED
    BY <1>2, <1>5, <1>6, <2>5, QuickHolds
<1>13. CASE full /\ Commit(p, QuickAssigned(new, l, pending))
  <2>1. ASSUME NEW g \in File
        PROVE  /\ SameFile(tx'.row[g], tx.row[g])
               /\ RowTrue(tx'.row[g], g)
               /\ (g \in pending \/ tx.row[g].content # NoContent)
                    => tx'.row[g].content # NoContent
    <3>1. tx' = QuickAssigned(new, l, pending)
      BY <1>13 DEF Commit
    <3>2. \A h \in File : SameFile(l.item[h], new.row[h]) /\ RowTrue(new.row[h], h)
      BY <1>3, <1>9 DEF QuickCalm, Queried, TrueRows
    <3> HIDE DEF l
    <3>3. QED
      BY <1>1, <1>9, <1>10, <3>1, <3>2, QuickAssignedTrue
  <2>2. TrueRows'
    BY <1>2, <2>1 DEF TrueRows, RowTrue, drive
  <2>3. Queried(n)'
    BY <1>2, <1>3, <1>5, <1>7, <1>13, <2>1 DEF QuickCalm, Queried, SameFile
  <2>4. ASSUME NEW g \in File, Needy(g)'
        PROVE  HasKey(g)' \/ g \in n.todo \cup n.pending
    <3>1. Needy(g)
      BY <1>2, <2>1, <2>4, NeedsStay
    <3>2. HasKey(g) \/ g \in l.todo \cup l.pending
      BY <1>3, <3>1 DEF QuickCalm
    <3>3. g \in n.todo \/ g \in pending \/ HasKey(g)
      BY <1>5, <3>2 DEF pending
    <3>4. QED
      BY <2>1, <3>3 DEF HasKey
  <2>5. QuickCalm(n)'
    BY <1>3, <1>5, <2>2, <2>3, <2>4 DEF QuickCalm
  <2>6. QED
    BY <1>2, <1>5, <1>6, <2>5, QuickHolds
<1>14. QED
  BY <1>11, <1>12, <1>13

LEMMA EndQuickCalm ==
    ASSUME IdentityInv, KeptInv, HashInv, NEW p \in Proc, proc[p].calm, EndQuick(p)
    PROVE  HashCalm(proc[p])'
<1> DEFINE l == proc[p]
           m == [l EXCEPT !.pc = "collisions", !.pending = {}]
<1>1. /\ l \in Local /\ LocalSound(l, disk, rotted) /\ proc \in [Proc -> Local]
      /\ HashCalm(l) /\ View(p) = tx /\ tx \in Catalog
      /\ lock # p => tx = cat
  BY Calm
<1>2. l.pc = "quick" /\ l.todo = {} /\ UNCHANGED drive
  BY DEF EndQuick, Quiet
<1>3. QuickCalm(l)
  BY <1>1, <1>2 DEF HashCalm
<1>4. PICK n : n = m
  OBVIOUS
<1>5. n.pc = "collisions" /\ n.scope = l.scope
  BY <1>1, <1>4 DEF Local
<1>6. proc'[p] = n
  BY <1>1, <1>4 DEF EndQuick, Goto
<1>7. \/ Commit(p, QuickAssigned(tx, l, l.pending))
      \/ l.pending = {} /\ EndTransaction(p)
  BY <1>1 DEF EndQuick
<1> HIDE DEF m
<1>8. ASSUME NEW g \in File
      PROVE  /\ SameFile(tx'.row[g], tx.row[g])
             /\ RowTrue(tx'.row[g], g)
             /\ (g \in l.pending \/ tx.row[g].content # NoContent)
                  => tx'.row[g].content # NoContent
  <2>1. \A h \in File : SameFile(l.item[h], tx.row[h]) /\ RowTrue(tx.row[h], h)
    BY <1>3 DEF QuickCalm, Queried, TrueRows
  <2>2. CASE Commit(p, QuickAssigned(tx, l, l.pending))
    <3>1. tx' = QuickAssigned(tx, l, l.pending)
      BY <2>2 DEF Commit
    <3>2. l.pending \in SUBSET File
          /\ \A h \in l.pending : /\ l.item[h].st = "live" /\ l.got[h] \in Body
                                  /\ l.item[h].size \in Sizes
      BY <1>1, <1>2, <1>3 DEF LocalSound, QuickCalm, Queried, Local
    <3> HIDE DEF l
    <3>3. QED
      BY <1>1, <2>1, <3>1, <3>2, QuickAssignedTrue
  <2>3. CASE l.pending = {} /\ EndTransaction(p)
    <3>1. tx' = tx
      BY <1>1, <2>3 DEF EndTransaction, Commit, Leave
    <3>2. QED
      BY <2>1, <2>3, <3>1 DEF SameFile
  <2>4. QED
    BY <1>7, <2>2, <2>3
<1>9. TrueRows'
  BY <1>2, <1>8 DEF TrueRows, RowTrue, drive
<1>10. ASSUME NEW g \in File, Needy(g)'
       PROVE  HasKey(g)'
  <2>1. Needy(g)
    BY <1>2, <1>8, <1>10, NeedsStay
  <2>2. HasKey(g) \/ g \in l.pending
    BY <1>2, <1>3, <2>1 DEF QuickCalm
  <2>3. QED
    BY <1>8, <2>2 DEF HasKey
<1>11. Settled'
  BY <1>9, <1>10 DEF Settled
<1>12. QED
  BY <1>3, <1>5, <1>6, <1>11 DEF HashCalm, QuickCalm

\* Two rows whose quick hashes agree are ambiguous until one has a full hash.
LEMMA AlikeCollide ==
    ASSUME KeysKept(tx), TrueRows, NEW f \in File, NEW g \in File,
           Alike(f, g), HasKey(f), HasKey(g), ~HasFull(f)
    PROVE  f \in Collisions(tx, File)
<1> DEFINE c == tx.row[f].content
           o == tx.row[g].content
<1>1. /\ f # g /\ tx.row[f].st = "live" /\ tx.row[g].st = "live"
      /\ tx.row[f].size \notin SmallSize
      /\ Quick(tx.row[f].size, disk[f].body) = Quick(tx.row[g].size, disk[g].body)
  BY DEF Alike
<1>2. /\ c.size = tx.row[f].size /\ c.quick = Quick(tx.row[f].size, disk[f].body)
      /\ o.size = tx.row[g].size /\ o.quick = Quick(tx.row[g].size, disk[g].body)
  BY <1>1 DEF TrueRows, RowTrue, HasKey
<1>3. tx.row[f].size = tx.row[g].size
  BY <1>1 DEF Quick
<1>4. c.full = NoBody /\ c.size \notin SmallSize /\ o.size = c.size /\ o.quick = c.quick
  BY <1>1, <1>2, <1>3 DEF HasFull, HasKey
<1>5. f \in Holders(tx, c) /\ g \in Holders(tx, o)
  BY <1>1 DEF Holders
<1>6. Ambiguous(tx, c)
  <2>1. CASE o # c
    <3>1. o \in tx.keys
      BY DEF KeysKept, HasKey
    <3>2. QED
      BY <1>4, <1>5, <2>1, <3>1 DEF Ambiguous
  <2>2. CASE o = c
    <3>1. IsFiniteSet(Holders(tx, c))
      BY FileAssumption, FS_Subset DEF Holders
    <3>2. {f, g} \subseteq Holders(tx, c)
      BY <1>5, <2>2
    <3>3. Cardinality({f, g}) = 2
      <4>1. IsFiniteSet({f}) /\ Cardinality({f}) = 1
        BY FS_Singleton
      <4>2. Cardinality({f} \cup {g}) = 2
        <5>1. g \notin {f}
          BY <1>1
        <5>2. Cardinality({f} \cup {g}) = IF g \in {f} THEN Cardinality({f})
                                                      ELSE Cardinality({f}) + 1
          BY <4>1, FS_AddElement
        <5>3. QED
          BY <4>1, <5>1, <5>2
      <4>3. {f} \cup {g} = {f, g}
        OBVIOUS
      <4>4. QED
        BY <4>2, <4>3
    <3>4. Cardinality({f, g}) <= Cardinality(Holders(tx, c))
      BY <3>1, <3>2, FS_Subset
    <3>5. Cardinality(Holders(tx, c)) \in Nat
      BY <3>1, FS_CardinalityType
    <3>6. QED
      BY <1>4, <3>3, <3>4, <3>5 DEF Ambiguous
  <2>3. QED
    BY <2>1, <2>2
<1>7. QED
  BY <1>1, <1>6 DEF Collisions, HasKey

LEMMA FindCollisionsCalm ==
    ASSUME IdentityInv, KeptInv, HashInv, NEW p \in Proc, proc[p].calm, FindCollisions(p)
    PROVE  HashCalm(proc[p])'
<1> DEFINE l     == proc[p]
           items == Collisions(cat, l.scope)
           m     == [l EXCEPT !.pc = "full", !.item = cat.row, !.todo = items,
                              !.got = [f \in File |-> "waiting"]]
           r     == [Idle EXCEPT !.calm = l.calm, !.last = "hashed"]
<1>1. /\ l \in Local /\ LocalSound(l, disk, rotted) /\ proc \in [Proc -> Local]
      /\ HashCalm(l) /\ tx \in Catalog
  BY Calm
<1>2. l.pc = "collisions" /\ UNCHANGED drive /\ UNCHANGED tx
  BY DEF FindCollisions, Quiet, store
<1>3. tx = cat /\ KeysKept(tx)
  BY <1>2, Calm DEF KeptInv, StoreKept
<1>4. Settled /\ l.scope = File /\ l.pending = {}
  BY <1>1, <1>2 DEF HashCalm, LocalSound, Local
<1>5. items = Collisions(tx, File)
  BY <1>3, <1>4
<1>6. ASSUME NEW f \in File, NEW g \in File, Alike(f, g)
      PROVE  HasFull(f) \/ f \in items
  <2>1. Needy(f) /\ Needy(g)
    BY <1>6 DEF Alike, Needy, Quick
  <2>2. HasKey(f) /\ HasKey(g) /\ TrueRows
    BY <1>4, <2>1 DEF Settled
  <2>3. QED
    BY <1>3, <1>5, <1>6, <2>2, AlikeCollide
<1>7. PICK n : n = m
  OBVIOUS
<1>8. /\ n.pc = "full" /\ n.item = cat.row /\ n.todo = items /\ n.pending = {}
      /\ n.got = [f \in File |-> "waiting"]
  BY <1>1, <1>4, <1>7 DEF Local
<1>9. r.pc = "idle" /\ r.last = "hashed"
  BY DEF Idle
<1>10. \/ items = {} /\ proc'[p] = r
       \/ proc'[p] = n
  BY <1>1, <1>7 DEF FindCollisions, Goto
<1> HIDE DEF m, r
<1>11. /\ TrueRows' /\ \A f \in File : Needy(f)' => HasKey(f)'
       /\ \A f, g \in File : Alike(f, g)' => HasFull(f)' \/ f \in items
  BY <1>2, <1>4, <1>6 DEF Settled, TrueRows, RowTrue, Needy, HasKey, HasFull, Alike, drive
<1> HIDE DEF items
<1>12. CASE items = {} /\ proc'[p] = r
  BY <1>9, <1>11, <1>12 DEF HashCalm, Settled
<1>13. CASE proc'[p] = n
  <2>1. n.todo \subseteq File /\ \A f \in n.todo : tx.row[f].st = "live"
    BY <1>5, <1>8 DEF Collisions
  <2>2. Queried(n)'
    BY <1>2, <1>3, <1>8, <2>1 DEF Queried, SameFile
  <2>3. \A f \in n.todo : RowTrue(n.item[f], f)'
    BY <1>2, <1>3, <1>4, <1>8, <2>1 DEF Settled, TrueRows, RowTrue, drive
  <2>4. FullCalm(n)'
    BY <1>8, <1>11, <2>2, <2>3 DEF FullCalm, Settled
  <2>5. QED
    BY <1>8, <1>13, <2>4, FullHolds
<1>14. QED
  BY <1>10, <1>12, <1>13

LEMMA FullResultCalm ==
    ASSUME IdentityInv, KeptInv, HashInv, NEW p \in Proc, NEW f \in File,
           proc[p].calm, FullResult(p, f)
    PROVE  HashCalm(proc[p])'
<1> DEFINE l   == proc[p]
           key == FullContent(l, f)
           m   == [l EXCEPT !.todo = @ \ {f}, !.done = l.done + 1]
<1>1. /\ l \in Local /\ LocalSound(l, disk, rotted) /\ proc \in [Proc -> Local]
      /\ HashCalm(l) /\ View(p) = tx /\ tx \in Catalog
  BY Calm
<1>2. l.pc = "full" /\ f \in l.todo /\ l.got[f] \in Body /\ UNCHANGED drive
  BY DEF FullResult, Quiet
<1>3. FullCalm(l)
  BY <1>1, <1>2 DEF HashCalm
<1>4. PICK n : n = m
  OBVIOUS
<1>5. /\ n.pc = "full" /\ n.item = l.item /\ n.todo = l.todo \ {f}
      /\ n.pending = l.pending /\ n.got = l.got
  BY <1>1, <1>2, <1>4 DEF Local
<1>6. proc'[p] = n
  BY <1>1, <1>4 DEF FullResult, Goto
<1>7. tx'.row = [tx.row EXCEPT ![f] = Assigned(tx.row[f], l, f, key)]
  <2>1. tx' = FullAssigned(tx, l, f, key)
    BY <1>1 DEF FullResult, Write, Commit, FullAssigned
  <2>2. QED
    BY <1>1, <2>1 DEF FullAssigned, Catalog
<1> HIDE DEF m
<1>8. /\ tx.row \in [File -> FileRow] /\ tx.row[f] \in FileRow
      /\ SameFile(l.item[f], tx.row[f]) /\ l.item[f].st = "live" /\ tx.row[f].st = "live"
      /\ RowTrue(tx.row[f], f) /\ RowTrue(l.item[f], f)
  BY <1>1, <1>2, <1>3 DEF Catalog, FullCalm, Settled, TrueRows, Queried, SameFile
<1>9. key \in Content /\ key.full \in Body
      /\ key.size = tx.row[f].size /\ key.quick = Quick(tx.row[f].size, disk[f].body)
      /\ key.full = disk[f].body
  <2>1. l.item[f].content \in Content
    BY <1>1, <1>2 DEF LocalSound
  <2>2. l.got[f] = disk[f].body
    BY <1>1, <1>2, <1>8, GotIs
  <2>3. l.item[f].content.quick = Quick(l.item[f].size, disk[f].body)
        /\ l.item[f].size = Size[disk[f].body]
    BY <1>8, <2>1, BodyAssumption DEF RowTrue
  <2>4. key \in Content
    BY <1>1, <1>2, <2>1, FullKey
  <2>5. QED
    BY <1>2, <1>8, <2>2, <2>3, <2>4 DEF FullContent, SameFile
<1>10. key # NoContent /\ key.full # NoBody
  BY <1>9, BodyAssumption
<1> HIDE DEF key, l
<1>11. /\ SameFile(Assigned(tx.row[f], l, f, key), tx.row[f])
       /\ RowTrue(Assigned(tx.row[f], l, f, key), f)
       /\ Assigned(tx.row[f], l, f, key).content = key
  BY <1>8, <1>9, AssignedTrue
<1>12. /\ SameFile(tx'.row[f], tx.row[f]) /\ RowTrue(tx'.row[f], f) /\ HasKey(f)' /\ HasFull(f)'
  <2>1. tx'.row[f] = Assigned(tx.row[f], l, f, key)
    BY <1>7, <1>8
  <2>2. QED
    BY <1>10, <1>11, <2>1 DEF HasKey, HasFull
<1>13. ASSUME NEW g \in File
       PROVE  /\ SameFile(tx'.row[g], tx.row[g])
              /\ RowTrue(tx'.row[g], g)
              /\ HasKey(g) => HasKey(g)'
              /\ HasFull(g) => HasFull(g)'
  <2>1. CASE g = f
    BY <1>12, <2>1
  <2>2. CASE g # f
    <3>1. tx'.row[g] = tx.row[g]
      BY <1>7, <1>8, <2>2
    <3>2. RowTrue(tx.row[g], g)
      BY <1>3 DEF FullCalm, Settled, TrueRows
    <3>3. QED
      BY <3>1, <3>2 DEF SameFile, HasKey, HasFull
  <2>3. QED
    BY <2>1, <2>2
<1>14. TrueRows'
  BY <1>2, <1>13 DEF TrueRows, RowTrue, drive
<1>15. \A g \in File : Needy(g)' => HasKey(g)'
  BY <1>2, <1>3, <1>13, NeedsStay DEF FullCalm, Settled
<1>16. ASSUME NEW g \in File, NEW h \in File, Alike(g, h)'
       PROVE  HasFull(g)' \/ g \in n.todo
  <2>1. Alike(g, h)
    BY <1>2, <1>13, <1>16, NeedsStay
  <2>2. HasFull(g) \/ g \in l.todo
    BY <1>3, <2>1 DEF FullCalm
  <2>3. QED
    BY <1>5, <1>12, <1>13, <2>2
<1>17. Queried(n)'
  BY <1>3, <1>5, <1>13 DEF FullCalm, Queried, SameFile
<1>18. \A g \in n.todo : RowTrue(n.item[g], g)'
  BY <1>2, <1>3, <1>5 DEF FullCalm, RowTrue, drive
<1>19. FullCalm(n)'
  BY <1>14, <1>15, <1>16, <1>17, <1>18 DEF FullCalm, Settled
<1>20. QED
  BY <1>5, <1>6, <1>19, FullHolds

LEMMA EndFullCalm ==
    ASSUME IdentityInv, KeptInv, HashInv, NEW p \in Proc, proc[p].calm, EndFull(p)
    PROVE  HashCalm(proc[p])'
<1> DEFINE r == [Idle EXCEPT !.calm = proc[p].calm, !.last = "hashed"]
<1>1. /\ proc \in [Proc -> Local] /\ HashCalm(proc[p])
      /\ lock # p => tx = cat
  BY Calm
<1>2. proc[p].pc = "full" /\ proc[p].todo = {} /\ UNCHANGED drive
  BY DEF EndFull, Quiet
<1>3. FullCalm(proc[p])
  BY <1>1, <1>2 DEF HashCalm
<1>4. UNCHANGED tx
  BY <1>1 DEF EndFull, EndTransaction, Commit, Leave
<1>5. Settled' /\ \A f, g \in File : Alike(f, g)' => HasFull(f)'
  BY <1>2, <1>3, <1>4
  DEF FullCalm, Settled, TrueRows, RowTrue, Needy, HasKey, HasFull, Alike, drive
<1>6. r.pc = "idle" /\ proc'[p] = r
  BY <1>1 DEF EndFull, Goto, Idle
<1> HIDE DEF r
<1>7. QED
  BY <1>5, <1>6 DEF HashCalm

\* A verify pass says nothing of this.
LEMMA VerifyCalmly ==
    ASSUME IdentityInv, NEW p \in Proc,
           \/ \E f \in File : VerifyStat(p, f) \/ VerifyHash(p, f)
           \/ EndVerify(p)
           \/ \E scope \in ScopeChoices : BeginVerify(p, scope)
    PROVE  HashCalm(proc[p])'
<1>1. proc[p] \in Local /\ proc \in [Proc -> Local]
  BY DEF IdentityInv
<1>2. ASSUME NEW n, proc'[p] = n, n.pc = "verify" \/ (n.pc = "idle" /\ n.last = "verified")
      PROVE  HashCalm(proc[p])'
  BY <1>2 DEF HashCalm
<1>3. CASE \E f \in File : VerifyStat(p, f) \/ VerifyHash(p, f)
  <2>1. PICK f \in File : VerifyStat(p, f) \/ VerifyHash(p, f)
    BY <1>3
  <2>2. proc[p].pc = "verify"
    BY <2>1 DEF VerifyStat, VerifyHash
  <2>3. /\ [proc[p] EXCEPT !.todo = @ \ {f}].pc = "verify"
        /\ [proc[p] EXCEPT !.stat = {f}].pc = "verify"
        /\ [proc[p] EXCEPT !.stat = {}, !.todo = @ \ {f}].pc = "verify"
    BY <1>1, <2>2 DEF Local
  <2>4. PICK n : n.pc = "verify" /\ Goto(p, n)
    BY <2>1, <2>3 DEF VerifyStat, VerifyHash
  <2>5. QED
    BY <1>1, <1>2, <2>4 DEF Goto
<1>4. CASE EndVerify(p)
  <2> DEFINE r == [Idle EXCEPT !.calm = proc[p].calm, !.last = "verified"]
  <2>1. r.pc = "idle" /\ r.last = "verified" /\ proc'[p] = r
    BY <1>1, <1>4 DEF EndVerify, Goto, Idle
  <2> HIDE DEF r
  <2>2. QED
    BY <1>2, <2>1
<1>5. CASE \E scope \in ScopeChoices : BeginVerify(p, scope)
  <2>1. PICK scope \in ScopeChoices : BeginVerify(p, scope)
    BY <1>5
  <2> DEFINE r == [Idle EXCEPT !.pc = "verify", !.scope = scope, !.item = cat.row,
                               !.todo = {f \in scope : Verifiable(cat, f)},
                               !.calm = scope = File /\ Alone(p)]
  <2>2. r.pc = "verify"
    BY DEF Idle
  <2>3. proc'[p] = r
    BY <2>1 DEF BeginVerify, Begin
  <2> HIDE DEF r
  <2>4. QED
    BY <1>2, <2>2, <2>3
<1>6. QED
  BY <1>3, <1>4, <1>5

LEMMA StepHashed ==
    IdentityInv /\ KeptInv /\ HashInv /\ [Next]_vars => HashInv'
<1> SUFFICES ASSUME IdentityInv, KeptInv, HashInv, [Next]_vars
             PROVE  HashInv'
  OBVIOUS
<1>1. CalmAlone'
  BY StepAlone DEF HashInv
<1>2. ASSUME NEW p \in Proc, proc'[p].calm
      PROVE  HashCalm(proc[p])'
  <2>1. CASE \E scope \in ScopeChoices : BeginHash(p, scope) \/ BeginVerify(p, scope)
    BY <1>2, <2>1, BeginHashCalm, VerifyCalmly
  <2>2. CASE proc[p].calm /\ PassStep(p) /\ ~Stop(p)
    <3>1. CASE \E f \in File : Read(p, f) \/ Unreadable(p, f) \/ QuickResult(p, f)
                               \/ FullResult(p, f)
      BY <2>2, <3>1, ReadCalm, UnreadableCalm, QuickResultCalm, FullResultCalm
    <3>2. CASE EndQuick(p) \/ FindCollisions(p) \/ EndFull(p)
      BY <2>2, <3>2, EndQuickCalm, FindCollisionsCalm, EndFullCalm
    <3>3. CASE (\E f \in File : VerifyStat(p, f) \/ VerifyHash(p, f)) \/ EndVerify(p)
      BY <3>3, VerifyCalmly
    <3>4. QED
      BY <2>2, <3>1, <3>2, <3>3 DEF PassStep
  <2>3. CASE proc[p].calm /\ UNCHANGED <<proc, drive, cat, tx, lock, fixity>>
    <3>1. HashCalm(proc[p])
      BY <2>3 DEF HashInv
    <3>2. UNCHANGED <<disk, away, shut, rotted, tx>> /\ proc'[p] = proc[p]
      BY <2>3 DEF drive
    <3>3. /\ Settled => Settled'
          /\ \A f, g \in File : Alike(f, g)' => Alike(f, g)
          /\ \A f \in File : HasFull(f) => HasFull(f)'
      BY <3>2 DEF Settled, TrueRows, RowTrue, Needy, HasKey, HasFull, Alike
    <3>4. PICK l : l = proc[p]
      OBVIOUS
    <3>5. l \in Local
      BY <3>4 DEF IdentityInv
    <3>6. l.pc = "quick" => QuickCalm(l)'
      <4>1. SUFFICES ASSUME l.pc = "quick"
                     PROVE  QuickCalm(l)'
        OBVIOUS
      <4>2. QuickCalm(l)
        BY <3>1, <3>4, <4>1 DEF HashCalm
      <4>3. \A f \in l.todo : l.got[f] # "error"
        BY <3>5, <4>2 DEF QuickCalm, Queried, Local
      <4>4. QED
        BY <2>3, <4>2, <4>3, QuickGoesOn
    <3>7. l.pc = "full" => FullCalm(l)'
      <4>1. SUFFICES ASSUME l.pc = "full"
                     PROVE  FullCalm(l)'
        OBVIOUS
      <4>2. FullCalm(l)
        BY <3>1, <3>4, <4>1 DEF HashCalm
      <4>3. \A f \in l.todo : l.got[f] # "error"
        BY <3>5, <4>2 DEF FullCalm, Queried, Local
      <4>4. QED
        BY <2>3, <4>2, <4>3, FullGoesOn
    <3>8. CASE l.pc \in {"quick", "full"}
      BY <3>2, <3>4, <3>6, <3>7, <3>8, QuickHolds, FullHolds
    <3>9. CASE l.pc \notin {"quick", "full"}
      BY <3>1, <3>2, <3>3, <3>4, <3>9 DEF HashCalm
    <3>10. QED
      BY <3>8, <3>9
  <2>4. QED
    BY <1>2, <2>1, <2>2, <2>3, CalmStep DEF HashInv
<1>3. (\A p \in Proc : proc[p].calm => HashCalm(proc[p]))'
  BY <1>2
<1>4. QED
  BY <1>1, <1>3 DEF HashInv

LEMMA HashedIsExact ==
    ASSUME IdentityInv, KeptInv, HashInv
    PROVE  QuietHashExact
<1> SUFFICES ASSUME NEW p \in Proc, Done(p, "hashed"),
                    NEW f \in File, NEW g \in File, f # g,
                    Live(f), Live(g), cat.row[f].size > 0
             PROVE  disk[f].body = disk[g].body <=>
                      Identified(f) /\ cat.row[f].content = cat.row[g].content
  BY DEF QuietHashExact
<1> DEFINE c == cat.row[f].content
           d == cat.row[g].content
           s == cat.row[f].size
<1>1. /\ tx = cat /\ cat \in Catalog /\ KeysKept(cat) /\ \A k \in tx.keys : Shaped(k)
      /\ Settled /\ \A h, i \in File : Alike(h, i) => HasFull(h)
  <2>1. proc[p].pc = "idle" /\ proc[p].last = "hashed" /\ proc[p].calm
    BY DEF Done
  <2>2. lock # p
    BY <2>1 DEF KeptInv
  <2>3. HashCalm(proc[p]) /\ tx = cat /\ cat \in Catalog
    BY <2>1, <2>2, Calm
  <2>4. QED
    BY <2>1, <2>3 DEF HashCalm, KeptInv, StoreKept
<1>2. /\ s = Size[disk[f].body] /\ cat.row[g].size = Size[disk[g].body]
      /\ c # NoContent => /\ c.size = s /\ c.quick = Quick(s, disk[f].body)
                          /\ c.full \in {NoBody, disk[f].body}
      /\ d # NoContent => /\ d.size = cat.row[g].size /\ d.quick = Quick(d.size, disk[g].body)
                          /\ d.full \in {NoBody, disk[g].body}
  BY <1>1 DEF Settled, TrueRows, RowTrue, Live
<1>3. /\ c # NoContent => c \in Content /\ Shaped(c)
      /\ d # NoContent => d \in Content /\ Shaped(d)
  BY <1>1 DEF Catalog, FileRow, KeysKept
<1>4. Identified(f) <=> c # NoContent
  BY DEF Identified
<1>5. ASSUME cat.row[g].size = s
      PROVE  c # NoContent /\ d # NoContent
  <2>1. Needy(f) /\ Needy(g)
    BY <1>1, <1>5 DEF Needy, Live
  <2>2. QED
    BY <1>1, <2>1 DEF Settled, HasKey
<1>6. ASSUME s \notin SmallSize, Quick(s, disk[f].body) = Quick(cat.row[g].size, disk[g].body)
      PROVE  c.full # NoBody /\ d.full # NoBody
  <2>1. cat.row[g].size = s
    BY <1>6 DEF Quick
  <2>2. Alike(f, g) /\ Alike(g, f)
    BY <1>1, <1>6, <2>1 DEF Alike, Live
  <2>3. QED
    BY <1>1, <2>2 DEF HasFull
<1> HIDE DEF c, d, s
<1>7. ASSUME disk[f].body = disk[g].body
      PROVE  c # NoContent /\ c = d
  <2>1. cat.row[g].size = s /\ c # NoContent /\ d # NoContent
    BY <1>2, <1>5, <1>7
  <2>2. c.size = d.size /\ c.quick = d.quick
    BY <1>2, <1>7, <2>1
  <2>3. c.full = d.full
    <3>1. CASE s \in SmallSize
      <4>1. c.quick[1] = s /\ d.quick[1] = s
        BY <1>2, <2>1 DEF Quick
      <4>2. c.full = NoBody /\ d.full = NoBody
        BY <1>3, <2>1, <3>1, <4>1 DEF Shaped
      <4>3. QED
        BY <4>2
    <3>2. CASE s \notin SmallSize
      BY <1>2, <1>6, <1>7, <2>1, <3>2
    <3>3. QED
      BY <3>1, <3>2
  <2>4. QED
    BY <1>3, <2>1, <2>2, <2>3 DEF Content
<1>8. ASSUME c # NoContent, c = d
      PROVE  disk[f].body = disk[g].body
  <2>1. cat.row[g].size = s /\ Quick(s, disk[f].body) = Quick(s, disk[g].body)
    BY <1>2, <1>8
  <2>2. CASE s \in SmallSize
    BY <2>1, <2>2 DEF Quick
  <2>3. CASE s \notin SmallSize
    BY <1>2, <1>6, <1>8, <2>1, <2>3
  <2>4. QED
    BY <2>2, <2>3
<1>9. QED
  BY <1>4, <1>7, <1>8 DEF c, d

\* A hash pass over a truthful catalog and a drive at rest gives two files one
\* identity exactly when they hold the same bytes, whatever earlier passes left
\* half separated.
THEOREM QuietHashing == Spec => []QuietHashExact
<1>1. Init => IdentityInv /\ KeptInv /\ HashInv
  BY InitSound, InitKept, InitCalm DEF HashInv, CalmAlone
<1>2. IdentityInv /\ KeptInv /\ HashInv /\ [Next]_vars => (IdentityInv /\ KeptInv /\ HashInv)'
  BY StepSound, StepKept, StepHashed
<1>3. IdentityInv /\ KeptInv /\ HashInv => QuietHashExact
  BY HashedIsExact
<1>4. QED
  BY <1>1, <1>2, <1>3, PTL DEF Spec
=============================================================================
