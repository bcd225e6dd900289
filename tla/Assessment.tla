------------------------------ MODULE Assessment ------------------------------
(***************************************************************************)
(* What the program says of the same catalog in different places: the      *)
(* failure rate of a drive (core/health/afr.py, smart.py), the loss to     *)
(* expect (durability.py), how much of it is curated                       *)
(* (core/curate/coverage.py), the scorecards (core/fair/scorecard.py), the *)
(* members in a package (core/export/packages.py) and the copies the       *)
(* browser shows (core/analysis/browse.py).  Each counts copies and drives *)
(* by queries of its own.                                                  *)
(*                                                                         *)
(* Files come and go, are hashed and verified, users name drives and       *)
(* record what they know of them, health is read and rates are imported,   *)
(* and years pass.  The files there may be are Slots; a file has a folder, *)
(* a size and its bytes.  Rates are in units of one by Scale, factors in   *)
(* tenths, and the one of a drive's SMART signs in hundredths.             *)
(***************************************************************************)
EXTENDS Units

CONSTANTS
    Slots,              \* the files there may be
    FolderOfSlot,       \* [Slots -> Tree]
    SizeOf, BytesOf,    \* of each slot; equal bytes have equal sizes
    VolumeOf,           \* [Tree -> volumes]
    RuleSets,           \* the rules that may be, of a collection each, as Units has them
    Recognised,         \* the drives known by their serial or layout
    Built,              \* Built[d]: the make of a drive, [line, model, media, bus]
    BatchOf,            \* [lines \X Purchases -> batches]: maker, model and month
    Zones, Purchases,   \* what users may record of a drive
    Answers,            \* what smartctl may answer
    ShippedTable, ImportedTable,    \* rate tables
    Entries,            \* what collections may be described by: sets of fields
    AgeFactors,         \* AgeFactors[media]: a sequence of [from, factor]
    DutyFactors,        \* of disks by hours in use, of SSDs by the life that remains
    BusFactor, SectorFactor, MaxRate,
    MaxYears, MaxFacts  \* bounds

(* The files are finitely many, each in a folder; bytes have a size and    *)
(* are told from the absence of an identity.                               *)
ASSUME AssessmentAssumption ==
    /\ IsFiniteSet(Slots) /\ FolderOfSlot \in [Slots -> Tree]
    /\ \A i \in Slots : BytesOf[i] # NoContent /\ SizeOf[i] \in Nat
    /\ \A i, j \in Slots : BytesOf[i] = BytesOf[j] => SizeOf[i] = SizeOf[j]
    /\ IsFiniteSet(DriveIds) /\ DriveIds \subseteq Nat \ {0}
    /\ \A rules \in RuleSets : DOMAIN rules = 1 .. Len(rules) /\ Len(rules) \in Nat

(* The ranges of a factor begin at nothing and go up. *)
AreRanges(ranges) ==
    /\ Len(ranges) \in Nat \ {0} /\ DOMAIN ranges = 1 .. Len(ranges)
    /\ \A i \in DOMAIN ranges : ranges[i].from \in Nat /\ ranges[i].factor \in Nat
    /\ ranges[1].from = 0
    /\ \A i, j \in DOMAIN ranges : i < j => ranges[i].from < ranges[j].from

(* The tables that are shipped know every class of drive, a sign of bad    *)
(* health lowers no rate, and a batch is a maker, a model and a month.     *)
ASSUME RateAssumption ==
    /\ MaxRate \in Nat /\ Purchases \subseteq Nat
    /\ \A table \in {ShippedTable, ImportedTable} :
          /\ \A m \in DOMAIN table.models : table.models[m] \in Nat
          /\ \A m \in DOMAIN table.classes : table.classes[m] \in Nat
    /\ \A d \in DriveIds :
          /\ Built[d].media \in DOMAIN ShippedTable.classes
          /\ AreRanges(AgeFactors[Built[d].media]) /\ BusFactor[Built[d].bus] \in Nat
    /\ DOMAIN DutyFactors = {"hdd", "ssd"} /\ \A m \in {"hdd", "ssd"} : AreRanges(DutyFactors[m])
    /\ DOMAIN SectorFactor = {"pending", "uncorrectable", "few", "many", "crc"}
    /\ \A s \in DOMAIN SectorFactor : SectorFactor[s] \in Nat /\ SectorFactor[s] >= 10
    /\ \A answer \in Answers :
          /\ answer.signs \subseteq DOMAIN SectorFactor
          /\ answer.hours \in Nat \cup {Unknown} /\ answer.life \in Nat \cup {Unknown}
    /\ \A d, e \in DriveIds, p, q \in Purchases :
          /\ BatchOf[<<Built[d].line, p>>] # Unrecorded
          /\ BatchOf[<<Built[d].line, p>>] = BatchOf[<<Built[e].line, q>>] => Built[d].line = Built[e].line /\ p = q

VARIABLES
    present, hashed,    \* the slots with a live row, and those with an identity
    homeOf,             \* [volumes -> DriveIds or NoDrive]
    sheet,              \* sheet[d]: [bought, zone], what the user recorded
    health,             \* health[d]: the latest drive_health row
    imported,           \* whether the imported table is in force
    fixity,             \* [contents -> [ever, ok]]: ever checked; the last year it agreed
    ruled, entry,       \* the collections' rules, and what describes each
    today, facts        \* the year, and how many facts were recorded

assessmentVars == <<present, hashed, homeOf, sheet, health, imported, fixity, ruled, entry, today, facts>>

Never == -5
AllVolumes == {VolumeOf[d] : d \in Tree}

-----------------------------------------------------------------------------
(* Health.  smartctl may answer with nothing, with attributes, with an     *)
(* NVMe log, or with no more than the drive's own verdict; an answer that  *)
(* holds no health is a reading without data.                              *)
NoReading == [confidence |-> "unknown", passed |-> "unsaid", signs |-> {}, hours |-> Unknown, life |-> Unknown]
NotRead   == [NoReading EXCEPT !.confidence = "none"]

Parse(answer) ==
    IF ~(answer.attributes \/ answer.nvme \/ answer.status)
       \/ (answer.unreadable /\ ~answer.attributes /\ ~answer.nvme)
    THEN NoReading
    ELSE [confidence |-> "measured", passed |-> answer.passed, hours |-> answer.hours,
          life  |-> IF answer.nvme \/ answer.attributes THEN answer.life ELSE Unknown,
          signs |-> IF answer.nvme THEN answer.signs \cap {"uncorrectable"}
                    ELSE IF answer.attributes THEN answer.signs ELSE {}]

(* Behind a bridge the plain query fails, and one through it is tried. *)
ReadDrive(plain, bridged) ==
    IF Parse(plain) = NoReading THEN Parse(bridged) ELSE Parse(plain)

Verdict(row) ==
    CASE row.confidence = "none" -> "not read"
      [] row.confidence = "unknown" -> "unknown"
      [] row.passed = "no" -> "FAILING"
      [] row.passed # "no" /\ row.signs \cap {"pending", "uncorrectable", "few", "many"} # {} -> "warning"
      [] OTHER -> "OK"

-----------------------------------------------------------------------------
(* The failure rate of a drive: its model's or else its class's in the     *)
(* best table that has one, by factors for what is known of it.            *)
RateTables == IF imported THEN <<ImportedTable, ShippedTable>> ELSE <<ShippedTable>>

FirstWith(P(_)) == LET with == {i \in DOMAIN RateTables : P(RateTables[i])}
                   IN  IF with = {} THEN 0 ELSE Min(with)

BaseRate(make) ==
    LET byModel == FirstWith(LAMBDA t : make.model \in DOMAIN t.models)
        byClass == FirstWith(LAMBDA t : make.media \in DOMAIN t.classes)
    IN  IF byModel # 0 THEN [rate |-> RateTables[byModel].models[make.model], by |-> "model"]
        ELSE [rate |-> RateTables[byClass].classes[make.media], by |-> "class"]

AgeYears(d) == IF sheet[d].bought = Unknown THEN Unknown ELSE Max({0, today - sheet[d].bought})

InRanges(value, ranges) ==
    IF value = Unknown THEN 10
    ELSE ranges[Max({i \in DOMAIN ranges : ranges[i].from <= value})].factor

DutyFactor(media, read) ==
    CASE media = "hdd" -> InRanges(read.hours, DutyFactors["hdd"])
      [] media = "ssd" -> InRanges(read.life, DutyFactors["ssd"])
      [] OTHER -> 10

(* The worst sector sign, by what errors of the cable add. *)
SmartFactor(signs) ==
    Max({10} \cup {SectorFactor[s] : s \in signs \ {"crc"}})
      * (IF "crc" \in signs THEN SectorFactor["crc"] ELSE 10)

DriveRate(d) ==
    LET make == Built[d]
        read == IF health[d].confidence = "measured" THEN health[d] ELSE NoReading
    IN  Min({MaxRate, (BaseRate(make).rate * InRanges(AgeYears(d), AgeFactors[make.media])
                         * DutyFactor(make.media, read) * SmartFactor(read.signs)
                         * BusFactor[make.bus]) \div 100000})

Confidence(d) == IF health[d].confidence = "measured" THEN "measured" ELSE "estimated"

(* Maker, model and purchase month; unknown until all three are known. *)
BatchKey(d) ==
    IF sheet[d].bought = Unknown THEN Unrecorded ELSE BatchOf[<<Built[d].line, sheet[d].bought>>]

Fleet == [d \in DriveIds |-> [rate |-> DriveRate(d), batch |-> BatchKey(d), zone |-> sheet[d].zone]]

-----------------------------------------------------------------------------
(* The rows of the catalog, and what the reports make of them. *)
Rows ==
    {[id |-> i, dir |-> FolderOfSlot[i], vol |-> VolumeOf[FolderOfSlot[i]], frn |-> NoFrn,
      size |-> SizeOf[i], content |-> IF i \in hashed THEN BytesOf[i] ELSE NoContent] : i \in present}

Items(rows) == ContentGroups(rows) \cup {{r} : r \in SingleCopyFiles(rows)}

DrivesOf(R) == {homeOf[r.vol] : r \in R} \ {NoDrive}

(* Every drive set that holds something: its items and bytes. *)
Exposure(items) ==
    [S \in {DrivesOf(g) : g \in items} |->
        LET here == {g \in items : DrivesOf(g) = S}
        IN  [items |-> Cardinality(here),
             bytes |-> SumFunction([g \in here |-> Representative(g).size])]]

LossAYear(exposure) ==
    SumFunction([S \in DOMAIN exposure |-> exposure[S].bytes * SetRisk(Fleet, S)])

(* Under-protected groups are ranked by the risk of their drive set; one   *)
(* whose set is not found is left out.                                     *)
Ranked(exposure, rows, minCopies) ==
    {g \in UnderProtected(rows, homeOf, minCopies) : DrivesOf(g) \in DOMAIN exposure}

(* The live files of a collection: in its rule's folder or beneath. *)
MembersOf(k, rows) == {r \in rows : r.dir \in Subtree(ruled[k].dir)}

(* An item is filed once any of its paths is in a collection. *)
Filers(g) == {k \in DOMAIN ruled : \E r \in g : r \in MembersOf(k, g)}

(* As a mutant: nothing is a copy that no named drive holds. *)
ThinlyHeldAll(g, minCopies) == Cardinality(DrivesOf(g)) < minCopies

ThinlyHeld(g, minCopies) == Max({1, Cardinality(DrivesOf(g))}) < minCopies

Bucket(items, minCopies) ==
    [items |-> Cardinality(items),
     bytes |-> SumFunction([g \in items |-> Representative(g).size]),
     loss  |-> SumFunction([g \in items |-> Representative(g).size * SetRisk(Fleet, DrivesOf(g))]),
     under |-> Cardinality({g \in items : ThinlyHeld(g, minCopies)})]

Coverage(items, minCopies) ==
    LET filed == {g \in items : Filers(g) # {}}
    IN  [total   |-> Bucket(items, minCopies),
         filed   |-> Bucket(filed, minCopies),
         unfiled |-> Bucket(items \ filed, minCopies),
         collections |-> [k \in DOMAIN ruled |-> Bucket({g \in filed : k \in Filers(g)}, minCopies)]]

(* What each volume holds, whether its drive is known or not. *)
Inventory(rows) ==
    [v \in AllVolumes |-> LET here == {r \in rows : r.vol = v}
                          IN  [drive |-> homeOf[v], files |-> Cardinality(here), bytes |-> SizeSum(here)]]

(* The copies the browser shows of a file: unknown without an identity. *)
Shown(rows, r) ==
    IF r.content = NoContent THEN Unknown
    ELSE DrivesProven({q \in rows : q.content = r.content}, homeOf)

(* The drives a package names for a member. *)
HeldOn(rows, r) ==
    IF r.content = NoContent THEN DrivesOf({r})
    ELSE DrivesOf({q \in rows : q.content = r.content})

-----------------------------------------------------------------------------
(* Scorecards.  An item of a collection is a content, with its copies in   *)
(* the collection or not, or a file without one.                           *)
EvidenceItems(k, rows) ==
    {IF r.content = NoContent THEN {r} ELSE {q \in rows : q.content = r.content} :
        r \in MembersOf(k, rows)}

Hashed(g)   == \E r \in g : r.content # NoContent
CopiesOf(g) == Max({1, Cardinality(DrivesOf(g))})
ZonesOf(g)  == {sheet[d].zone : d \in DrivesOf(g)} \ {Unrecorded}

(* A drive of an unknown batch is a batch of its own. *)
Batches(g) ==
    LET batched == {d \in DrivesOf(g) : BatchKey(d) # Unrecorded}
    IN  Cardinality({BatchKey(d) : d \in batched}) + Cardinality(DrivesOf(g) \ batched)

Verified(g) == Hashed(g) /\ fixity[(CHOOSE r \in g : TRUE).content].ok >= today - 1

EverVerified(k, rows) ==
    \E r \in MembersOf(k, rows) : r.content # NoContent /\ fixity[r.content].ever

AllOf(n, of) == IF of = 0 THEN "fail"
                ELSE IF n = of THEN "pass" ELSE IF n >= 1 THEN "partial" ELSE "fail"

PassIf(holds) == IF holds THEN "pass" ELSE "fail"

Described(k, all) ==
    IF entry[k] = all THEN "pass" ELSE IF Cardinality(entry[k]) >= 4 THEN "partial" ELSE "fail"

(* What describes a collection is in these fields. *)
AllFields == {"title", "description", "creators", "contact", "license", "data-type", "project"}

ASSUME EntryAssumption == Entries \subseteq SUBSET AllFields

(* The criteria of NDSA's levels that can be assessed, and of FAIR. *)
Ndsa(k, rows) ==
    LET items  == EvidenceItems(k, rows)
        n      == Cardinality(items)
        Count(P(_)) == AllOf(Cardinality({g \in items : P(g)}), n)
        drives == UNION {DrivesOf(g) : g \in items}
        full   == entry[k] = AllFields
    IN  {<<"storage", 1, "1a", Count(LAMBDA g : CopiesOf(g) >= 2)>>,
         <<"storage", 1, "1b", Count(LAMBDA g : DrivesOf(g) # {})>>,
         <<"storage", 2, "2a", Count(LAMBDA g : CopiesOf(g) >= 3 /\ Cardinality(ZonesOf(g)) >= 2)>>,
         <<"storage", 3, "3a", Count(LAMBDA g : Cardinality(ZonesOf(g)) >= 2)>>,
         <<"storage", 3, "3b", AllOf(Cardinality({d \in drives : sheet[d].bought # Unknown}),
                                     Cardinality(drives))>>,
         <<"storage", 4, "4a", Count(LAMBDA g : Cardinality(ZonesOf(g)) >= 3)>>,
         <<"storage", 4, "4b", Count(LAMBDA g : Batches(g) >= 2)>>,
         <<"integrity", 1, "1b", Count(Hashed)>>,
         <<"integrity", 2, "2b", "pass">>,
         <<"integrity", 3, "3a", Count(Verified)>>,
         <<"integrity", 3, "3b", PassIf(EverVerified(k, rows))>>,
         <<"integrity", 3, "3c", PassIf(\E g \in items : Hashed(g))>>,
         <<"metadata", 1, "1a", "pass">>,
         <<"metadata", 2, "2a", Described(k, AllFields)>>,
         <<"metadata", 3, "3b", PassIf(full)>>,
         <<"metadata", 4, "4a", "pass">>}

Fair(k, rows) ==
    LET items  == EvidenceItems(k, rows)
        n      == Cardinality(items)
        hashedItems == Cardinality({g \in items : Hashed(g)})
    IN  {<<"fair", 0, "F2", Described(k, AllFields)>>,
         <<"fair", 0, "A1", AllOf(Cardinality({g \in items : DrivesOf(g) # {}}), n)>>,
         <<"fair", 0, "R1.1", PassIf("license" \in entry[k])>>,
         <<"fair", 0, "R1.2", IF n > 0 /\ \A g \in items : Verified(g) THEN "pass"
                   ELSE IF EverVerified(k, rows) \/ hashedItems > 0 THEN "partial" ELSE "fail">>}

(* The level reached: every criterion that was assessed, up to it, passes; *)
(* none where nothing is assessed.                                         *)
LevelOf(card, group) ==
    LET mine == {x \in card : x[1] = group}
        short == {x[2] : x \in {y \in mine : y[4] # "pass"}}
    IN  IF mine = {} THEN Unknown ELSE IF short = {} THEN 4 ELSE Min(short) - 1

-----------------------------------------------------------------------------
Recording == facts < MaxFacts /\ facts' = facts + 1

(* A scan merges a file that came, or one that went. *)
FileComes(i) ==
    /\ Recording /\ i \notin present
    /\ present' = present \cup {i}
    /\ UNCHANGED <<hashed, homeOf, sheet, health, imported, fixity, ruled, entry, today>>

FileGoes(i) ==
    /\ Recording /\ i \in present
    /\ present' = present \ {i} /\ hashed' = hashed \ {i}
    /\ UNCHANGED <<homeOf, sheet, health, imported, fixity, ruled, entry, today>>

SharingSize(files) == {i \in files : \E j \in files \ {i} : SizeOf[j] = SizeOf[i]}

(* A hash pass reads what shares its size; it may be limited to a volume. *)
HashVolumes(V) ==
    /\ Recording
    /\ hashed' = hashed \cup {i \in SharingSize(present) : VolumeOf[FolderOfSlot[i]] \in V}
    /\ hashed' # hashed
    /\ UNCHANGED <<present, homeOf, sheet, health, imported, fixity, ruled, entry, today>>

(* What the scorecard reads of the outcomes for a content: was it ever     *)
(* checked, and when did a copy last agree.  As a mutant: the last outcome *)
(* is what counts.                                                         *)
CheckedLast(old, agrees) == [ever |-> TRUE, ok |-> IF agrees THEN today ELSE Never]

Checked(old, agrees) == [ever |-> TRUE, ok |-> IF agrees THEN today ELSE old.ok]

(* A verify pass records an outcome for every file that has an identity;   *)
(* bad: the contents no copy of which agrees.                              *)
VerifyAll(bad) ==
    /\ Recording /\ hashed # {}
    /\ fixity' = [c \in DOMAIN fixity |->
          IF \E i \in hashed : BytesOf[i] = c THEN Checked(fixity[c], c \notin bad) ELSE fixity[c]]
    /\ UNCHANGED <<present, hashed, homeOf, sheet, health, imported, ruled, entry, today>>

(* The user's word for a volume that no drive's serial or layout has.      *)
NameDrive(v, d) ==
    /\ Recording /\ homeOf[v] \notin Recognised \cup {d}
    /\ homeOf' = [homeOf EXCEPT ![v] = d]
    /\ UNCHANGED <<present, hashed, sheet, health, imported, fixity, ruled, entry, today>>

(* An edit that changes nothing is not recorded. *)
EditDrive(d, changed) ==
    /\ Recording /\ changed # sheet[d]
    /\ sheet' = [sheet EXCEPT ![d] = changed]
    /\ UNCHANGED <<present, hashed, homeOf, health, imported, fixity, ruled, entry, today>>

(* A drive that is not connected is read as well when it is asked for by   *)
(* its number, and the row then says that nothing is known.                *)
ReadHealth(d, plain, bridged) ==
    /\ Recording
    /\ health' = [health EXCEPT ![d] = ReadDrive(plain, bridged)]
    /\ UNCHANGED <<present, hashed, homeOf, sheet, imported, fixity, ruled, entry, today>>

ImportTable ==
    /\ Recording /\ ~imported /\ imported' = TRUE
    /\ UNCHANGED <<present, hashed, homeOf, sheet, health, fixity, ruled, entry, today>>

ForgetTable ==
    /\ Recording /\ imported /\ imported' = FALSE
    /\ UNCHANGED <<present, hashed, homeOf, sheet, health, fixity, ruled, entry, today>>

EditEntry(k, fields) ==
    /\ Recording /\ fields # entry[k]
    /\ entry' = [entry EXCEPT ![k] = fields]
    /\ UNCHANGED <<present, hashed, homeOf, sheet, health, imported, fixity, ruled, today>>

YearPasses ==
    /\ today < MaxYears /\ today' = today + 1
    /\ UNCHANGED <<present, hashed, homeOf, sheet, health, imported, fixity, ruled, entry, facts>>

NotRecorded == [bought |-> Unknown, zone |-> Unrecorded]

AssessmentInit ==
    /\ present \in {{}, Slots} /\ hashed \in {{}, SharingSize(present)}
    /\ homeOf \in [AllVolumes -> DriveIds \cup {NoDrive}]
    /\ sheet = [d \in DriveIds |-> NotRecorded]
    /\ health = [d \in DriveIds |-> NotRead] /\ imported = FALSE
    /\ fixity = [c \in {BytesOf[i] : i \in Slots} |-> [ever |-> FALSE, ok |-> Never]]
    /\ ruled \in RuleSets
    /\ entry = [k \in DOMAIN ruled |-> {"title"}]
    /\ today = 0 /\ facts = 0

AssessmentNext ==
    \/ YearPasses \/ ImportTable \/ ForgetTable
    \/ \E i \in Slots : FileComes(i) \/ FileGoes(i)
    \/ \E V \in SUBSET AllVolumes : HashVolumes(V)
    \/ \E bad \in SUBSET {BytesOf[i] : i \in hashed} : VerifyAll(bad)
    \/ \E v \in AllVolumes, d \in DriveIds : NameDrive(v, d)
    \/ \E d \in DriveIds :
          \/ \E b \in Purchases \cup {Unknown} : EditDrive(d, [sheet[d] EXCEPT !.bought = b])
          \/ \E z \in Zones \cup {Unrecorded} : EditDrive(d, [sheet[d] EXCEPT !.zone = z])
          \/ \E plain, bridged \in Answers : ReadHealth(d, plain, bridged)
    \/ \E k \in DOMAIN ruled, fields \in Entries : EditEntry(k, fields)

AssessmentSpec == AssessmentInit /\ [][AssessmentNext]_assessmentVars

-----------------------------------------------------------------------------
AssessmentTypeOK ==
    /\ hashed \subseteq present /\ present \subseteq Slots
    /\ homeOf \in [AllVolumes -> DriveIds \cup {NoDrive}]
    /\ \A d \in DriveIds : sheet[d].zone \in Zones \cup {Unrecorded} /\ DriveRate(d) \in 0 .. MaxRate
    /\ DOMAIN entry = DOMAIN ruled /\ today \in 0 .. MaxYears

(* The catalog as the planner reads it. *)
AsPlanned == [files |-> Rows, driveOf |-> [d \in Tree |-> homeOf[VolumeOf[d]]], rules |-> ruled]

Outcome(card, group, name) == (CHOOSE x \in card : x[1] = group /\ x[3] = name)[4]

(* The summary, the expected loss and the coverage count the same items,   *)
(* bytes and under-protected ones, for every target; coverage splits them; *)
(* and nothing under-protected is missing from the ranking.                *)
ReportsAgree(rows, items, exposure, n) ==
    LET summary  == RedundancySummary(rows, homeOf, n)
        coverage == Coverage(items, n)
        Sum(field) == SumFunction([S \in DOMAIN exposure |-> exposure[S][field]])
    IN  /\ {Sum("items"), coverage.total.items} = {summary.distinct}
        /\ {Sum("bytes"), coverage.total.bytes} = {summary.uniqueBytes}
        /\ coverage.total.under = summary.exposed
        /\ coverage.total.loss = LossAYear(exposure)
        /\ \A part \in DOMAIN coverage.total :
              coverage.total[part] = coverage.filed[part] + coverage.unfiled[part]
        /\ Ranked(exposure, rows, n) = UnderProtected(rows, homeOf, n)

(* A collection has two copies of everything, by its scorecard, exactly    *)
(* when every member is identified and none is under-protected; and, by    *)
(* the planner's count, where no other collection shares its files.        *)
CollectionsAgree(rows, k) ==
    LET members == MembersOf(k, rows)
        passes  == Outcome(Ndsa(k, rows), "storage", "1a") = "pass"
        unit    == <<"collection", k>>
        planned == UnitRecord(AsPlanned, unit, {1})
    IN  /\ passes <=> /\ members # {} /\ \A r \in members : r.content # NoContent
                     /\ \A g \in UnderProtected(rows, homeOf, 2) : g \cap members = {}
        /\ members # {} /\ Len(ruled) = 1 =>
              /\ passes <=> planned.copies[{}] >= 2
              /\ planned.bytes = SizeSum(members)

(* The reports are one.  The summary, the expected loss, the        *)
(* coverage of collections, the ranking, the scorecards, packages, the     *)
(* browser, the inventory and the planner count items, bytes and copies by *)
(* queries of their own, and agree wherever they speak of the same thing;  *)
(* what the summary leaves out of the inventory's bytes waits for a hash.  *)
ReportsAreOne ==
    LET rows == Rows
        items == Items(rows)
        exposure == Exposure(items) IN
    /\ \A n \in 1 .. 3 : ReportsAgree(rows, items, exposure, n)
    /\ \A k \in DOMAIN ruled : CollectionsAgree(rows, k)
    /\ SumFunction([v \in AllVolumes |-> Inventory(rows)[v].bytes])
         = RedundancySummary(rows, homeOf, 2).pathBytes + SizeSum(Unhashed(rows))
    /\ \A d \in DriveIds : Verdict(health[d]) \in {"OK", "FAILING"} =>
          health[d].confidence = "measured" /\ (health[d].passed # "no" => SmartFactor(health[d].signs) <= 10 * SectorFactor["crc"])
    /\ \A r \in rows : r.content # NoContent =>
          Shown(rows, r) = Max({1, Cardinality(HeldOn(rows, r))})

(* A step that learns of files that stay as they are: identities, outcomes *)
(* of a verify pass, the drive of a volume that had none.                  *)
Learned == /\ UNCHANGED <<present, today, sheet, entry>>
           /\ \A v \in AllVolumes : homeOf'[v] = homeOf[v] \/ homeOf[v] = NoDrive
           /\ <<hashed, homeOf, fixity>>' # <<hashed, homeOf, fixity>>

Standing == [fail |-> 0, partial |-> 1, pass |-> 2]

Raised(before, after) ==
    \A x \in before, y \in after :
        x[1] = y[1] /\ x[3] = y[3] => Standing[y[4]] >= Standing[x[4]]

Cards(k) == LET rows == Rows IN <<Ndsa(k, rows), Fair(k, rows)>>

NeverLower(before, after) ==
    /\ Raised({x \in before[1] : x[3] # "3b" \/ x[1] # "storage"}, after[1])
    /\ Raised(before[2], after[2])
    /\ LevelOf(after[1], "integrity") >= LevelOf(before[1], "integrity")

(* What is learned never lowers what a scorecard says of copies, integrity *)
(* or description (scorecard.py).  The share of drives with a purchase     *)
(* date, storage 3b, falls when another drive is named.                    *)
EvidenceOnlyRaises ==
    [][Learned => \A k \in DOMAIN ruled : NeverLower(Cards(k), Cards(k)')]_assessmentVars

(* What smart.py:127-128 says of a drive that does not answer: no data     *)
(* must not look like no problems.                                         *)
NoDataIsNoComfort ==
    [][\A d \in DriveIds : health'[d] = NoReading /\ health' # health => DriveRate(d)' >= DriveRate(d)]_assessmentVars
=============================================================================
