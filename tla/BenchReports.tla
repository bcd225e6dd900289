----------------------------- MODULE BenchReports ------------------------------
(***************************************************************************)
(* The validation bench's own arithmetic of health, loss, coverage and     *)
(* scorecards (vv/oracle.py, vv/evaluate.py), worked out from what was     *)
(* planted: the bytes of every file, the make of every drive and what was  *)
(* recorded of it.  Only the rate and factor tables are the program's.     *)
(*                                                                         *)
(* The bench knows the shipped tables alone, registers its drives on USB,  *)
(* and plants drives whose SMART data is hidden, healthy or failing; it    *)
(* judges once every file that shares its size has been hashed.            *)
(***************************************************************************)
EXTENDS Assessment

(* What the failing drive of vv/smart_mock.py shows: pending, uncorrectable *)
(* and a few reallocated sectors, and no errors of the cable.              *)
FailingSigns == {"pending", "uncorrectable", "few"}

-----------------------------------------------------------------------------
(* What was planted.  A planted drive that answers tells its hours in use, *)
(* and never the life that remains.                                        *)
Planted(d) ==
    CASE health[d].confidence = "none" -> "nothing"
      [] health[d].confidence = "unknown" -> "hidden"
      [] health[d].confidence = "measured" /\ health[d].hours # Unknown /\ health[d].life = Unknown
           /\ health[d].signs = FailingSigns -> "failing"
      [] health[d].confidence = "measured" /\ health[d].hours # Unknown /\ health[d].life = Unknown
           /\ health[d].signs = {} -> "healthy"
      [] OTHER -> "else"

BenchKnows(d) == Built[d].bus = "usb" /\ Planted(d) # "else" /\ ~imported

InBand(value, ranges) ==
    LET in == {i \in DOMAIN ranges : /\ value >= ranges[i].from
                                     /\ i < Len(ranges) => value < ranges[i + 1].from}
    IN  IF in = {} THEN 10 ELSE ranges[Min(in)].factor

ExpectedBase(make) ==
    IF make.model \in DOMAIN ShippedTable.models THEN ShippedTable.models[make.model]
    ELSE ShippedTable.classes[make.media]

ExpectedRate(d) ==
    LET age  == IF sheet[d].bought = Unknown THEN 10
                ELSE InBand(Max({0, today - sheet[d].bought}), AgeFactors[Built[d].media])
        duty == IF Planted(d) \in {"failing", "healthy"} /\ Built[d].media = "hdd"
                THEN InBand(health[d].hours, DutyFactors["hdd"]) ELSE 10
        read == IF Planted(d) # "failing" THEN 100
                ELSE 10 * Max({SectorFactor["pending"], SectorFactor["uncorrectable"], SectorFactor["few"]})
        rate == (ExpectedBase(Built[d]) * age * duty * read * BusFactor["usb"]) \div 100000
    IN  [rate |-> IF rate < MaxRate THEN rate ELSE MaxRate,
         confidence |-> IF Planted(d) \in {"failing", "healthy"} THEN "measured" ELSE "estimated"]

(* The chance that all of some drives are lost: more for each further      *)
(* drive of a maker, model and month, and of a zone.                       *)
PowerOf(base, sizes) == ProductOf([k \in DOMAIN sizes |-> Power(base, sizes[k] - 1)])

CountBy(S, key) == [k \in {key[d] : d \in S} |-> Cardinality({d \in S : key[d] = k})]

Purchase == [d \in DriveIds |-> <<Built[d].line, sheet[d].bought>>]

ExpectedCorrelation(S, batch) ==
    PowerOf(SameBatch, CountBy({d \in S : sheet[d].bought # Unknown}, batch))
      * PowerOf(SameZone, CountBy(S, [d \in S |-> sheet[d].zone]))

ExpectedLossOf(S, batch) ==
    LET n == Cardinality(DriveIds)
        rates == [d \in S |-> ExpectedRate(d).rate]
    IN  IF S = {} THEN UnverifiedRate * Power(Scale, n - 1)
        ELSE Min({ProductOf(rates) * ExpectedCorrelation(S, batch) * Power(Scale, n - Cardinality(S))}
                   \cup {rates[d] * Power(Scale, n - 1) : d \in S})

-----------------------------------------------------------------------------
(* The items of the planted files: each distinct content that is           *)
(* identified, and each file that is not empty and shares no other's size. *)
Groups  == {{i \in hashed : BytesOf[i] = c} : c \in {BytesOf[i] : i \in hashed}}
Singles == {i \in present \ (hashed \cup SharingSize(present)) : SizeOf[i] > 0}
BenchItems == Groups \cup {{i} : i \in Singles}

BytesOfItems(G) == SumFunction([g \in G |-> SizeOf[CHOOSE i \in g : TRUE]])
DevicesOf(g) == {homeOf[VolumeOf[FolderOfSlot[i]]] : i \in g} \ {NoDrive}

ExpectedDurability(items) ==
    [S \in {DevicesOf(g) : g \in items} |->
        BytesOfItems({g \in items : DevicesOf(g) = S})]

Beneath(i, k) == FolderOfSlot[i] \in Subtree(ruled[k].dir)
ItemsUnder(k, items) == {g \in items : \E i \in g : Beneath(i, k)}

ShareOf(items, good) ==
    LET n == Cardinality(good)
    IN  IF items # {} /\ n = Cardinality(items) THEN "pass"
        ELSE IF n > 0 THEN "partial" ELSE "fail"

ZonesUnder(g) == Cardinality({sheet[d].zone : d \in DevicesOf(g)} \ {Unrecorded})

-----------------------------------------------------------------------------
(* VV-HL-01 and VV-HL-03: rates, and that hidden data is no number. *)
RatesExpected ==
    \A d \in {e \in DriveIds : BenchKnows(e)} :
        /\ <<DriveRate(d), Confidence(d)>> = <<ExpectedRate(d).rate, ExpectedRate(d).confidence>>
        /\ Planted(d) = "hidden" => health[d] = NoReading

(* VV-HL-02 and VV-HL-03: the loss of each set of drives, and that one     *)
(* batch is worse than two, unless no copy counts for more than a drive.   *)
OneBatch(S) ==
    /\ Cardinality(S) = 2 /\ Cardinality({Purchase[d] : d \in S}) = 1
    /\ \A d \in S : sheet[d].bought # Unknown

LossExpected(items) ==
    LET exposure == Exposure(Items(Rows))
        expected == ExpectedDurability(items)
        alone == [d \in DriveIds |-> d]
    IN  /\ DOMAIN exposure = DOMAIN expected
        /\ \A S \in DOMAIN expected :
            /\ exposure[S].bytes = expected[S]
            /\ (\A d \in S : BenchKnows(d)) =>
                 LET risk == SetRisk(Fleet, S)
                     most == Min({ExpectedRate(d).rate : d \in S}) * Power(Scale, Cardinality(DriveIds) - 1)
                 IN  /\ risk = ExpectedLossOf(S, Purchase)
                     /\ OneBatch(S) => \/ risk > ExpectedLossOf(S, alone)
                                       \/ risk >= most /\ risk >= ExpectedLossOf(S, alone)

(* VV-COL-05 and VV-COL-06: members and coverage. *)
CoverageExpected(items) ==
    LET coverage == Coverage(Items(Rows), 2)
        filed == {g \in items : \E k \in DOMAIN ruled : \E i \in g : Beneath(i, k)}
    IN  /\ coverage.total.bytes = BytesOfItems(items)
        /\ coverage.filed.bytes = BytesOfItems(filed)
        /\ coverage.unfiled.bytes = BytesOfItems(items \ filed)
        /\ \A k \in DOMAIN ruled :
            {r.id : r \in MembersOf(k, Rows)} = {i \in present : Beneath(i, k)}

(* VV-FAIR-01 to 03: one result for each criterion, and those of copies,   *)
(* zones and fields by the bench's count.  The program counts an empty     *)
(* file without an identity as an item, and the bench does not.            *)
CardsExpected(items) ==
    \A k \in DOMAIN ruled :
        LET ndsa  == Ndsa(k, Rows)
            fair  == Fair(k, Rows)
            under == ItemsUnder(k, items)
            size  == Cardinality(entry[k])
        IN  /\ \A x, y \in ndsa : x[1] = y[1] /\ x[2] = y[2] /\ x[3] = y[3] => x = y
            /\ Outcome(fair, "fair", "F2") =
                 (IF size = 7 THEN "pass" ELSE IF size >= 4 THEN "partial" ELSE "fail")
            /\ (\A i \in present \ hashed : Beneath(i, k) => SizeOf[i] > 0) =>
                 /\ Outcome(fair, "fair", "A1") = ShareOf(under, {g \in under : DevicesOf(g) # {}})
                 /\ Outcome(ndsa, "storage", "1a") = ShareOf(under, {g \in under : Cardinality(DevicesOf(g)) >= 2})
                 /\ Outcome(ndsa, "storage", "3a") = ShareOf(under, {g \in under : ZonesUnder(g) >= 2})
                 /\ Outcome(ndsa, "storage", "2a") =
                      ShareOf(under, {g \in under : Cardinality(DevicesOf(g)) >= 3 /\ ZonesUnder(g) >= 2})

(* What the bench works out by itself of rates, losses, coverage and       *)
(* scorecards is what the program says.                                    *)
BenchAgrees ==
    /\ RatesExpected
    /\ SharingSize(present) \subseteq hashed =>
         LET items == BenchItems
         IN  LossExpected(items) /\ CoverageExpected(items) /\ CardsExpected(items)

(* One catalog has one answer: the program's queries agree with each       *)
(* other, and with the bench's arithmetic.                                 *)
OneAnswer == ReportsAreOne /\ BenchAgrees
=============================================================================
