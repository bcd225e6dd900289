-------------------------------- MODULE Campaign -------------------------------
(***************************************************************************)
(* A campaign of the validation bench: run after run, each on a dataset of *)
(* its own that is removed afterwards (vv/campaign.py), collected in one   *)
(* folder with a summary (vv/dashboard.py), from the command line or from  *)
(* a window with a thread (vv/gui.py).                                     *)
(***************************************************************************)
EXTENDS Integers, FiniteSets, Sequences

CONSTANTS
    Iterations,
    Requirements,   \* of the chosen suites
    Kept            \* BOOLEANs the campaign may be told for keep

(* What a run says of a requirement; an error is only ever of a phase. *)
Verdicts == {"PASS", "FAIL", "N/A", "DEFERRED"}

VARIABLES
    keep,
    at,             \* what the campaign is doing
    index,          \* the run it is at
    entry,          \* its entry so far, and what of its results.json was copied
    entries,        \* meta["runs"]
    saved,          \* campaign.json
    summary,        \* summary.json: the entries it was made of
    left,           \* runs of which files are still on the drives
    logged,         \* runs whose log says that something went wrong
    unfinished,     \* runs whose dataset was never finished
    stop,           \* the window's worker is asked to stop
    crashed         \* interrupted from the keyboard, or killed

campaignVars == <<keep, at, index, entry, entries, saved, summary, left, logged, unfinished, stop, crashed>>

Unjudged(copied) == [verdict |-> "none", results |-> [r \in Requirements |-> "none"], copied |-> copied]
NoEntry == Unjudged("no")

(* The entries of runs that were judged.  Of a requirement whose tests are *)
(* of a phase that did not run, nothing is said; such a phase is an error  *)
(* of the run's own, which fails it.                                       *)
Judged == {e \in [verdict : {"PASS", "FAIL"}, results : [Requirements -> Verdicts \cup {"none"}], copied : {"whole"}] :
             e.verdict = "PASS" => \A r \in Requirements : e.results[r] \notin {"FAIL", "none"}}

-----------------------------------------------------------------------------
(* The verdict of many: an error or a failure first, then a pass. *)
Worst(verdicts) ==
    IF "ERROR" \in verdicts THEN "ERROR"
    ELSE IF "FAIL" \in verdicts THEN "FAIL"
    ELSE IF "PASS" \in verdicts THEN "PASS"
    ELSE IF "DEFERRED" \in verdicts THEN "DEFERRED" ELSE "N/A"

Cell(e, r) == IF e.results[r] # "none" THEN e.results[r] ELSE IF e.verdict = "ERROR" THEN "ERROR" ELSE "-"
Cells(runs, r) == {Cell(runs[i], r) : i \in DOMAIN runs} \ {"-"}

Summarised(runs) ==
    LET all == {runs[i].verdict : i \in DOMAIN runs}
    IN  [verdict |-> IF "ERROR" \in all THEN "ERROR" ELSE IF "FAIL" \in all THEN "FAIL"
                     ELSE IF "PASS" \in all THEN "PASS" ELSE "N/A",
         overall |-> [r \in Requirements |-> Worst(Cells(runs, r))],
         runs    |-> Len(runs)]

(* An entry that an interrupt left without a verdict cannot be summarised, *)
(* nor a results.json of which only a part was copied.                     *)
CanSummarise(runs) == \A i \in DOMAIN runs : runs[i].verdict # "none" /\ runs[i].copied # "part"

-----------------------------------------------------------------------------
(* The folder is made and a first campaign.json written; a campaign whose  *)
(* folder is not empty, or whose real drives are one device, ends here.    *)
Open ==
    /\ at = "start"
    /\ \/ at' = "between" /\ saved' = <<>> /\ summary' = Summarised(<<>>)
       \/ at' = "ended" /\ UNCHANGED <<saved, summary>>
    /\ UNCHANGED <<keep, index, entry, entries, left, logged, unfinished, stop, crashed>>

NextRun ==
    /\ at = "between"
    /\ IF stop \/ index = Iterations
         THEN at' = "ended" /\ UNCHANGED <<index, entry>>
         ELSE at' = "generate" /\ index' = index + 1 /\ entry' = NoEntry
    /\ UNCHANGED <<keep, entries, saved, summary, left, logged, unfinished, stop, crashed>>

Raised == entry' = [entry EXCEPT !.verdict = "ERROR"] /\ logged' = logged \cup {index}

(* The dataset is made.  Where that fails, what was made of it stays, for  *)
(* its folder is not known yet to what cleans up.                          *)
Generate ==
    /\ at = "generate" /\ at' = "run" /\ left' = left \cup {index}
    /\ UNCHANGED <<keep, index, entry, entries, saved, summary, logged, unfinished, stop, crashed>>

GenerateFails ==
    /\ at = "generate" /\ at' = "finish" /\ Raised
    /\ unfinished' = unfinished \cup {index}
    /\ \E partly \in BOOLEAN : left' = left \cup (IF partly THEN {index} ELSE {})
    /\ UNCHANGED <<keep, index, entries, saved, summary, stop, crashed>>

(* The tool is run and judged, and the run's results are copied.  What     *)
(* raises makes the run an error, whether its results.json is there yet,   *)
(* in part, or not.                                                        *)
RunAndJudge ==
    /\ at = "run" /\ at' = "clean"
    /\ entry' \in Judged
    /\ UNCHANGED <<keep, index, entries, saved, summary, left, logged, unfinished, stop, crashed>>

RunFails ==
    /\ at = "run" /\ at' = "clean"
    /\ \E begun \in Judged \cup {NoEntry, Unjudged("part")} :
         entry' = [begun EXCEPT !.verdict = "ERROR"]
    /\ logged' = logged \cup {index}
    /\ UNCHANGED <<keep, index, entries, saved, summary, left, unfinished, stop, crashed>>

(* finally: the dataset is removed, which may be refused; the entry joins  *)
(* the others, and campaign.json and then the summary are written.  As a   *)
(* mutant the entry of a failed run does not.                              *)
Clean ==
    /\ at = "clean" /\ at' = "finish"
    /\ \/ keep /\ UNCHANGED <<left, logged>>
       \/ ~keep /\ left' = left \ {index} /\ UNCHANGED logged
       \/ ~keep /\ logged' = logged \cup {index} /\ UNCHANGED left
    /\ UNCHANGED <<keep, index, entry, entries, saved, summary, unfinished, stop, crashed>>

WithGoodEntry == IF entry.verdict = "ERROR" THEN entries ELSE Append(entries, entry)

WithEntry == Append(entries, entry)

Finish ==
    /\ at = "finish" /\ at' = "summarise"
    /\ entries' = WithEntry /\ saved' = WithEntry
    /\ UNCHANGED <<keep, index, entry, summary, left, logged, unfinished, stop, crashed>>

(* A summary that cannot be made raises, out of the campaign. *)
Summarise ==
    /\ at = "summarise"
    /\ IF CanSummarise(saved) THEN summary' = Summarised(saved) ELSE UNCHANGED summary
    /\ at' = IF crashed THEN "ended" ELSE IF CanSummarise(saved) THEN "between" ELSE "lost"
    /\ UNCHANGED <<keep, index, entry, entries, saved, left, logged, unfinished, stop, crashed>>

-----------------------------------------------------------------------------
(* The keyboard interrupts a run: no handler of the campaign's is for it,  *)
(* but what finally does is done.                                          *)
Interrupt ==
    /\ at \in {"generate", "run"} /\ ~crashed /\ crashed' = TRUE
    /\ at' = IF at = "generate" THEN "finish" ELSE "clean"
    /\ unfinished' = unfinished \cup (IF at = "generate" THEN {index} ELSE {})
    /\ \E partly \in BOOLEAN : left' = left \cup (IF partly /\ at = "generate" THEN {index} ELSE {})
    /\ UNCHANGED <<keep, index, entry, entries, saved, summary, logged, stop>>

KillCampaign ==
    /\ at \notin {"start", "ended", "lost"} /\ ~crashed /\ crashed' = TRUE /\ at' = "ended"
    /\ UNCHANGED <<keep, index, entry, entries, saved, summary, left, logged, unfinished, stop>>

(* The window asks its worker to stop, by a button or by being closed. *)
RequestStop ==
    /\ ~stop /\ at \notin {"ended", "lost"} /\ stop' = TRUE
    /\ UNCHANGED <<keep, at, index, entry, entries, saved, summary, left, logged, unfinished, crashed>>

CampaignInit ==
    /\ keep \in Kept
    /\ at = "start" /\ index = 0 /\ entry = NoEntry /\ entries = <<>> /\ saved = <<>>
    /\ summary = Summarised(<<>>)
    /\ left = {} /\ logged = {} /\ unfinished = {} /\ stop = FALSE /\ crashed = FALSE

CampaignNext ==
    \/ Open \/ NextRun \/ Generate \/ GenerateFails \/ RunAndJudge \/ RunFails
    \/ Clean \/ Finish \/ Summarise \/ Interrupt \/ KillCampaign \/ RequestStop

CampaignSpec == CampaignInit /\ [][CampaignNext]_campaignVars

-----------------------------------------------------------------------------
(* Between runs and at a campaign's end every run begun has its entry; its *)
(* dataset is gone from the drives, or was to be kept, or the run's log    *)
(* says what went wrong; and the summary is of these runs: it says that    *)
(* a requirement passed only where a run passed it, none failed it, and    *)
(* every run that raised had left results that do not fail it; and that    *)
(* the campaign passed only where every run did (campaign.py, run;         *)
(* dashboard.py).                                                          *)
RunsAccounted ==
    at = "between" \/ (at = "ended" /\ ~crashed) =>
        /\ Len(saved) = index
        /\ \A i \in left : keep \/ i \in logged
        /\ summary.runs = index
        /\ \A r \in Requirements : summary.overall[r] = "PASS" =>
              /\ \E i \in 1 .. index : saved[i].results[r] = "PASS"
              /\ \A i \in 1 .. index : /\ saved[i].results[r] # "FAIL"
                                       /\ saved[i].verdict = "ERROR" => saved[i].results[r] # "none"
        /\ summary.verdict = "PASS" <=> index > 0 /\ \A i \in 1 .. index : saved[i].verdict = "PASS"

(* What campaign.py:174 says of a run that raises: one bad run must not    *)
(* lose the campaign.  So it goes on, until its last run or until it is    *)
(* asked to stop.                                                          *)
CampaignGoesOn == at # "lost"

(* A campaign.json can always be summarised again: not so after an         *)
(* interrupt ("one bad run must not lose the campaign", campaign.py).      *)
CampaignReadable == CanSummarise(saved)

(* What the window calls passed in every run passed in every run: not so,  *)
(* because a run that did not judge it does not count, and one that raised *)
(* when its results.json had been copied counts by that (gui.py).          *)
PassedInEveryRun ==
    \A r \in Requirements : summary.overall[r] = "PASS" =>
        \A i \in 1 .. summary.runs : saved[i].results[r] = "PASS"

(* Datasets that are not kept are removed after the run: not so where one  *)
(* could not be generated to its end ("removed after the run unless keep   *)
(* is set", campaign.py).                                                  *)
RemovedAfterRun == at = "between" => \A i \in left : keep \/ i \notin unfinished
=============================================================================
