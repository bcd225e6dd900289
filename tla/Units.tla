-------------------------------- MODULE Units ---------------------------------
(***************************************************************************)
(* What the planner is given, as operators on what the catalog says:       *)
(* placement units (core/planner/units.py), destinations                   *)
(* (core/planner/capacity.py) and the chance that every copy on a set of   *)
(* drives is lost in a year (core/health/durability.py).                   *)
(*                                                                         *)
(* A catalog here is a record of its live files, [id, dir, size, content], *)
(* the drive that each folder's volume is on, and the rules of the         *)
(* confirmed collections, in their order.  Failure rates are in units of   *)
(* one by Scale, and P(loss) in units of one by Scale^N for N drives.      *)
(***************************************************************************)
EXTENDS Redundancy, Sequences

CONSTANTS
    Tree,           \* the live directories
    Over,           \* [Tree -> SUBSET Tree]: the directories above each
    DriveIds,       \* the identified drives: a set of numbers
    TargetUnits,    \* TARGET_UNITS
    MinUnitBytes,   \* MIN_UNIT_BYTES
    ReserveFloor,   \* RESERVE_FLOOR
    DefaultCluster, \* DEFAULT_CLUSTER
    SameBatch, SameZone,        \* the correlation factors
    Scale,
    UnverifiedRate  \* the rate of a drive nothing is known of

(* A folder is above another or it is not, and the ones above it are a     *)
(* chain.                                                                  *)
ASSUME TreeAssumption ==
    /\ IsFiniteSet(Tree) /\ Over \in [Tree -> SUBSET Tree]
    /\ \A d \in Tree : d \notin Over[d] /\ \A a \in Over[d] : Over[a] \subseteq Over[d]
    /\ \A d \in Tree : \A a, b \in Over[d] : a = b \/ a \in Over[b] \/ b \in Over[a]

(* Rates and factors are counted in units, and a second drive of a batch   *)
(* counts for more.                                                        *)
ASSUME RiskAssumption ==
    /\ Scale \in Nat \ {0} /\ UnverifiedRate \in Nat
    /\ SameBatch \in Nat \ {0, 1} /\ SameZone \in Nat \ {0}

Unknown == -1       \* SQL NULL, for a size
Unrecorded == "unrecorded"      \* SQL NULL, for a batch or a zone

-----------------------------------------------------------------------------
(* Destinations.  A drive is reached through its volume with the most free *)
(* space, and keeps a tenth of its capacity free.                          *)
RoomiestVolume(row) ==
    CHOOSE v \in row.volumes : \A w \in row.volumes :
        v.free > w.free \/ (v.free = w.free /\ v.id <= w.id)

Excluded(row) ==
    \/ row.retired \/ row.working
    \/ row.volumes = {}
    \/ RoomiestVolume(row).free = Unknown
    \/ RoomiestVolume(row).capacity = Unknown

Reserve(capacity) == Max({capacity \div 10, ReserveFloor})

Room(row) ==
    IF Excluded(row) THEN 0
    ELSE LET v == RoomiestVolume(row) IN Max({0, v.free - Reserve(v.capacity)})

Destination(row) ==
    [excluded |-> Excluded(row), room |-> Room(row),
     cluster  |-> IF row.volumes = {} THEN DefaultCluster ELSE RoomiestVolume(row).cluster,
     batch    |-> row.batch, zone |-> row.zone]

-----------------------------------------------------------------------------
ProductOf(f) == FoldFunction(LAMBDA x, y : x * y, 1, f)
Power(base, n) == ProductOf([i \in 1 .. n |-> base])

(* P(loss) of content whose copies are on the drives S: the product of     *)
(* their rates, more for each further drive of a batch and of a zone, and  *)
(* no more than the safest drive's own.  Drives without a zone share one.  *)
Correlation(fleet, S) ==
    LET batched == {d \in S : fleet[d].batch # Unrecorded}
    IN  Power(SameBatch, Cardinality(batched) - Cardinality({fleet[d].batch : d \in batched}))
          * Power(SameZone, Cardinality(S) - Cardinality({fleet[d].zone : d \in S}))

RateProduct(fleet, S) == ProductOf([d \in S |-> fleet[d].rate])

SetRisk(fleet, S) ==
    LET n == Cardinality(DriveIds) IN
    IF S = {} THEN UnverifiedRate * Power(Scale, n - 1)
    ELSE Min({RateProduct(fleet, S) * Correlation(fleet, S) * Power(Scale, n - Cardinality(S)),
              Min({fleet[d].rate : d \in S}) * Power(Scale, n - 1)})

-----------------------------------------------------------------------------
(* Units.  A folder in a collection's rule, with what is beneath it, is    *)
(* one; of rules that nest, the last one gets what they share.             *)
Subtree(d) == {e \in Tree : d \in {e} \cup Over[e]}

Filing(c, d) == {i \in DOMAIN c.rules : c.rules[i].dir \in {d} \cup Over[d]}
Filed(c, d) == Filing(c, d) # {}

(* The rest is cut from the top: a folder is a unit once its unfiled bytes *)
(* are few enough, or when it has no subfolder.                            *)
Unfiled(c, d) ==
    IF Filed(c, d) THEN 0
    ELSE SizeSum({f \in c.files : f.dir \in Subtree(d) /\ ~Filed(c, f.dir)})

Tops == {d \in Tree : Over[d] = {}}

Threshold(c) ==
    Max({SumFunction([d \in Tops |-> Unfiled(c, d)]) \div TargetUnits, MinUnitBytes})

SmallEnough(c, d) == Unfiled(c, d) <= Threshold(c) \/ Subtree(d) = {d}

IsUnit(c, d) == Unfiled(c, d) > 0 /\ SmallEnough(c, d)
IsCut(c, d)  == Unfiled(c, d) > 0 /\ ~SmallEnough(c, d)

(* A folder too big for a unit leaves one for the files directly in it. *)
UnitOf(c, d) ==
    IF Filed(c, d) THEN <<"collection", Max(Filing(c, d))>>
    ELSE LET whole == {a \in {d} \cup Over[d] : IsUnit(c, a) /\ \A b \in Over[a] : IsCut(c, b)}
         IN  IF whole # {} THEN <<"folder", CHOOSE a \in whole : TRUE>> ELSE <<"loose", d>>

FolderOf(c, k) == IF k[1] = "collection" THEN c.rules[k[2]].dir ELSE k[2]

(* A collection asks for min_copies, or three from the second NDSA level.  *)
CopyTarget(rule) ==
    IF rule.minCopies > 0 THEN rule.minCopies ELSE IF rule.ndsa >= 2 THEN 3 ELSE 2

(* The identified drives that have a copy of a file's content. *)
Held(c, f) ==
    {c.driveOf[g.dir] : g \in {f} \cup {h \in c.files : h.content # NoContent
                                                     /\ h.content = f.content}} \ {NoDrive}

Footprint(files, cluster) ==
    SumFunction([f \in files |-> ((f.size + cluster - 1) \div cluster) * cluster])

(* Complete copies once the drives A hold the unit too: the fewest that    *)
(* any of its items has.  An item on unknown drives only counts as one.    *)
CopiesWith(sets, A) ==
    Min({Cardinality(s \cup A) + (IF s = {} THEN 1 ELSE 0) : s \in sets})

UnitFiles(c, k) == {f \in c.files : UnitOf(c, f.dir) = k}

UnitRecord(c, k, clusters) ==
    LET files == UnitFiles(c, k)
        sets  == {Held(c, f) : f \in files}
        dir   == FolderOf(c, k)
    IN  [bytes   |-> SizeSum(files),
         cost    |-> [b \in clusters |-> Footprint(files, b)],
         holders |-> {d \in UNION sets : \A s \in sets : d \in s},
         anyhow  |-> UNION sets,
         copies  |-> [A \in SUBSET DriveIds |-> CopiesWith(sets, A)],
         target  |-> IF k[1] = "collection" THEN CopyTarget(c.rules[k[2]]) ELSE 2,
         home    |-> c.driveOf[dir]]

(* The units that have bytes. *)
UnitsOf(c, clusters) ==
    LET keys == {UnitOf(c, f.dir) : f \in {g \in c.files : g.size > 0}}
    IN  [k \in keys |-> UnitRecord(c, k, clusters)]

(* What the planner is given: the units, the destinations, and the loss of *)
(* every set of drives, none of which changes while it runs.               *)
PlannerInput(c, drives) ==
    LET dest == [d \in DriveIds |-> Destination(drives[d])]
    IN  [catalog |-> c,
         unit    |-> UnitsOf(c, {dest[d].cluster : d \in DriveIds} \cup {DefaultCluster}),
         dest    |-> dest,
         loss    |-> [S \in SUBSET DriveIds |-> SetRisk(drives, S)]]
=============================================================================
