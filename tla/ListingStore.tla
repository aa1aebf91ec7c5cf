---------------------------- MODULE ListingStore ----------------------------
(***************************************************************************)
(* The inventory rows of one dealer in one search, written by three kinds  *)
(* of run that share one writer (persistScanResults): inventory_site_scan, *)
(* inventory_link_scan and inventory_aggregator_scan.  A run reads the     *)
(* dealer's pages, keeps what it read in process memory, and writes it     *)
(* minutes later in one transaction; runs overlap and the process dies.    *)
(*                                                                         *)
(* A car has one VIN and one page; a run reads its VIN, its URL or both.   *)
(* A row is keyed by the one or the other.  A capture may find any cars:   *)
(* they come, are sold, are missed.  Prices and other columns are left out,*)
(* and the clock: each run knows the rows observed since its watermark.    *)
(* Definitions named ...Bug are seeded faults.                             *)
(***************************************************************************)
EXTENDS Naturals, FiniteSets

CONSTANTS
  Cars,         \* the cars of the dealer
  Slots,        \* runs in progress at the same time
  SrpSources,   \* the SRP addresses the filter ladder may end on
  LinkSource,   \* a page a dealer's mail pointed to
  AggSource,    \* the shopping site's page
  NoSource,
  Floor,        \* COVERAGE_COLLAPSE_FLOOR
  Percent,      \* COVERAGE_COLLAPSE_FRACTION, in hundredths
  MaxScans,     \* bound: runs started
  MaxCrashes    \* bound: process deaths

ASSUME ListingAssumption ==
  /\ LinkSource \notin SrpSources /\ AggSource \notin SrpSources
  /\ LinkSource # AggSource
  /\ NoSource \notin SrpSources \cup {LinkSource, AggSource}
  /\ {Floor, MaxScans, MaxCrashes} \subseteq Nat /\ Percent \in Nat \ {0}
  /\ IsFiniteSet(Cars)

Sources == SrpSources \cup {LinkSource, AggSource}
Kind == {"site", "link", "agg"}
Met == {"scanned", "blocked"}               \* blocked: or failed, or skipped
Reading == {"none", "url", "vin", "both"}   \* what a run has of a car
RowState == {"absent", "live", "not_observed", "vin_promoted"}

VARIABLES
  vinRow, urlRow,  \* inventory_listings: by VIN, and with vin IS NULL by URL
  status,   \* dealer_inventory_sources.last_status
  scan,     \* the run of each slot; fresh: the rows observed since its watermark
  carry,    \* in memory: the slots whose capture the process still holds
  scans, crashes

rows == <<vinRow, urlRow>>
vars == <<rows, status, scan, carry, scans, crashes>>

NoRow == [state |-> "absent", src |-> NoSource, url |-> FALSE]
Unread == [c \in Cars |-> "none"]
Idle == [kind |-> "site", step |-> "idle", src |-> NoSource, met |-> "blocked",
         obs |-> Unread, fresh |-> {}]

Init ==
  /\ vinRow = [c \in Cars |-> NoRow] /\ urlRow = [c \in Cars |-> NoRow]
  /\ status = [x \in Sources |-> "absent"]
  /\ scan = [s \in Slots |-> Idle]
  /\ carry = {} /\ scans = 0 /\ crashes = 0

----------------------------------------------------------------------------
(* One run, up to its write *)

\* seedInventorySource: a link is pending once; a re-seed changes nothing.
SeedLink ==
  /\ status[LinkSource] = "absent"
  /\ status' = [status EXCEPT ![LinkSource] = "pending"]
  /\ UNCHANGED <<rows, scan, carry, scans, crashes>>

\* A link run needs a pending link; it parks at its review card.  The other two
\* have no card.
Start(s, kind) ==
  /\ scan[s].step = "idle" /\ scans < MaxScans /\ scans' = scans + 1
  /\ kind = "link" => status[LinkSource] = "pending"
  /\ scan' = [scan EXCEPT ![s] =
       [@ EXCEPT !.kind = kind, !.step = IF kind = "link" THEN "review" ELSE "begin"]]
  /\ UNCHANGED <<rows, status, carry, crashes>>

\* A decline ends the run with nothing read and nothing written.
Review(s, approve) ==
  /\ scan[s].step = "review"
  /\ scan' = [scan EXCEPT ![s] = IF approve THEN [@ EXCEPT !.step = "begin"] ELSE Idle]
  /\ UNCHANGED <<rows, status, carry, scans, crashes>>

\* The watermark is taken before anything is read: no row is younger than it.
BeginCapture(s) ==
  /\ scan[s].step = "begin"
  /\ scan' = [scan EXCEPT ![s] = [@ EXCEPT !.step = "capture", !.fresh = {}]]
  /\ UNCHANGED <<rows, status, carry, scans, crashes>>

\* The page read: a site scan's depends on the rung of the filter ladder it ended on.
PageOf(kind) ==
  CASE kind = "site" -> SrpSources
    [] kind = "link" -> {LinkSource}
    [] OTHER -> {AggSource}

\* The pages answer, block the run or fail; what was read and where from stay in
\* process memory.  A capture may miss cars; the extraction keeps of each car its
\* URL, its VIN or both, or drops it (invented VIN, other model, record cap).
Capture(s) ==
  /\ scan[s].step = "capture"
  /\ \E src \in PageOf(scan[s].kind), met \in Met, obs \in [Cars -> Reading] :
       /\ met # "scanned" => obs = Unread
       /\ scan' = [scan EXCEPT ![s] = [@ EXCEPT !.step = "persist", !.src = src,
                                               !.met = met, !.obs = obs]]
  /\ carry' = carry \cup {s}
  /\ UNCHANGED <<rows, status, scans, crashes>>

\* CaptureLost: after a crash there is nothing left to write.
\* Seeded fault: the step goes on with what it has.
HoldsBug(s) == TRUE
Holds(s) == s \in carry \/ scan[s].met # "scanned"

\* The run stops, is canceled by the boot as too old, fails in its model calls or on
\* a lost capture.  Nothing is written.
Fail(s) ==
  /\ scan[s].step \in {"begin", "capture", "persist"}
  /\ scan' = [scan EXCEPT ![s] = Idle] /\ carry' = carry \ {s}
  /\ UNCHANGED <<rows, status, scans, crashes>>

----------------------------------------------------------------------------
(* persistScanResults: one transaction *)

\* A conflicting row is refreshed; a scan brings a not_observed row back, a
\* shopping site neither revives a row nor takes it from its source.
Refresh(row, s, hasUrl) ==
  LET enrich == scan[s].kind = "agg"
  IN  [state |-> IF row.state = "not_observed" /\ ~ enrich THEN "live" ELSE row.state,
       src |-> IF enrich THEN row.src ELSE scan[s].src,
       url |-> row.url \/ hasUrl]
Upsert(row, s, hasUrl) ==
  IF row.state = "absent"
    THEN [state |-> "live", src |-> scan[s].src, url |-> hasUrl]
    ELSE Refresh(row, s, hasUrl)

\* The VIN row of a car already owns its page.
OwnsUrl(c) == vinRow[c].state = "live" /\ vinRow[c].url

\* The VIN arm: the live URL-keyed twin is retired, the VIN row written.
\* Seeded fault: the twin is left alone.
PromotedBug(c) == urlRow[c]
Promoted(c) ==
  IF urlRow[c].state = "live" THEN [urlRow[c] EXCEPT !.state = "vin_promoted"] ELSE urlRow[c]

\* The row of a car that reading o writes.
\* Seeded fault: a reading without a VIN does not look for the owner of its page.
ToVinBug(c, o) == o \in {"vin", "both"}
ToVin(c, o) == o \in {"vin", "both"} \/ (o = "url" /\ OwnsUrl(c))
ToUrl(c, o) == o = "url" /\ ~ ToVin(c, o)

\* Seeded fault: the VIN row does not take the page over.
VinWrittenBug(c, o, s) ==
  IF ToVin(c, o) THEN Upsert(vinRow[c], s, FALSE) ELSE vinRow[c]
VinWritten(c, o, s) ==
  IF ToVin(c, o) THEN Upsert(vinRow[c], s, o # "vin") ELSE vinRow[c]
UrlWritten(c, o, s) ==
  CASE o = "both" -> Promoted(c)
    [] ToUrl(c, o) -> Upsert(urlRow[c], s, TRUE)
    [] OTHER -> urlRow[c]

\* What the writer is handed: an absent carry reads as no rows.
Handed(s) == IF s \in carry /\ scan[s].met = "scanned" THEN scan[s].obs ELSE Unread
Written(s) ==
  {<<"vin", c>> : c \in {d \in Cars : ToVin(d, Handed(s)[d])}} \cup
  {<<"url", c>> : c \in {d \in Cars : ToUrl(d, Handed(s)[d])}}

LiveOf(row, src) == {c \in Cars : row[c].state = "live" /\ row[c].src = src}
FreshOf(row, key, src, fresh) == {c \in LiveOf(row, src) : <<key, c>> \in fresh}

\* A scan that re-observed too little of a lot is not trusted in its absences.
\* Seeded fault: no floor, no quarantine.
CollapsedBug(vin, url, src, fresh) == FALSE
Collapsed(vin, url, src, fresh) ==
  LET live == Cardinality(LiveOf(vin, src)) + Cardinality(LiveOf(url, src))
      seen == Cardinality(FreshOf(vin, "vin", src, fresh))
                + Cardinality(FreshOf(url, "url", src, fresh))
  IN  live >= Floor /\ 100 * seen < Percent * live

\* supersedeStale: the live rows of the source not observed since the watermark.
Swept(row, key, src, fresh) ==
  [c \in Cars |-> IF c \in LiveOf(row, src) \ FreshOf(row, key, src, fresh)
                  THEN [row[c] EXCEPT !.state = "not_observed"] ELSE row[c]]

\* The rows observed since the watermark, this write included.
\* Seeded fault: only this write counts.
FreshNowBug(s) == Written(s)
FreshNow(s) == scan[s].fresh \cup Written(s)

\* A write makes its rows fresh to every run that has its watermark.
Freshened(s) ==
  [t \in Slots |-> IF t = s THEN Idle
                   ELSE IF scan[t].step \in {"capture", "persist"}
                     THEN [scan[t] EXCEPT !.fresh = @ \cup Written(s)] ELSE scan[t]]

\* A shopping site proves no absence, and a page that was not read proves none.
\* Seeded fault: a blocked page proves one.
SweepsBug(s) == scan[s].kind # "agg"
Sweeps(s) == scan[s].met = "scanned" /\ scan[s].kind # "agg"

\* The source is marked whatever happened, except that a shopping site without rows
\* does not reach the writer.
Persist(s) ==
  LET src == scan[s].src
      vin == [c \in Cars |-> VinWritten(c, Handed(s)[c], s)]
      url == [c \in Cars |-> UrlWritten(c, Handed(s)[c], s)]
      sweep == Sweeps(s) /\ ~ Collapsed(vin, url, src, FreshNow(s))
  IN  /\ scan[s].step = "persist" /\ Holds(s)
      /\ vinRow' = IF sweep THEN Swept(vin, "vin", src, FreshNow(s)) ELSE vin
      /\ urlRow' = IF sweep THEN Swept(url, "url", src, FreshNow(s)) ELSE url
      /\ status' = IF scan[s].kind = "agg" /\ Handed(s) = Unread THEN status
                   ELSE [status EXCEPT ![src] = scan[s].met]
      /\ scan' = Freshened(s) /\ carry' = carry \ {s}
      /\ UNCHANGED <<scans, crashes>>

----------------------------------------------------------------------------
(* Process death, and the specification *)

\* The boot restarts an executing run at its step: a capture starts over, with a new
\* watermark; a write finds its capture lost.  A parked run stays parked.
\* Seeded fault: it is taken up after its interrupted step.
RestartedBug(r) == IF r.step = "capture" THEN [r EXCEPT !.step = "extract"] ELSE r
Restarted(r) == IF r.step = "capture" THEN [r EXCEPT !.step = "begin"] ELSE r

CrashAndBoot ==
  /\ crashes < MaxCrashes /\ crashes' = crashes + 1
  /\ carry' = {}
  /\ scan' = [s \in Slots |-> Restarted(scan[s])]
  /\ UNCHANGED <<rows, status, scans>>

Next ==
  \/ SeedLink \/ CrashAndBoot
  \/ \E s \in Slots :
       \/ BeginCapture(s) \/ Capture(s) \/ Fail(s) \/ Persist(s)
       \/ \E kind \in Kind : Start(s, kind)
       \/ \E approve \in BOOLEAN : Review(s, approve)

Spec == Init /\ [][Next]_vars

----------------------------------------------------------------------------
(* Properties *)

\* The shape of the state.
Row == [state : RowState, src : Sources \cup {NoSource}, url : BOOLEAN]
Run == [kind : Kind, src : Sources \cup {NoSource}, met : Met,
        step : {"idle", "review", "begin", "capture", "persist"},
        obs : [Cars -> Reading], fresh : SUBSET ({"vin", "url"} \X Cars)]
TypeOK ==
  /\ vinRow \in [Cars -> Row] /\ urlRow \in [Cars -> Row]
  /\ status \in [Sources -> Met \cup {"absent", "pending"}]
  /\ scan \in [Slots -> Run] /\ carry \in SUBSET Slots
  /\ scans \in Nat /\ crashes \in Nat

\* The car is offered to the user: some row of it is not superseded.
Live(c) == vinRow[c].state = "live" \/ urlRow[c].state = "live"
Twins(c) == OwnsUrl(c) /\ urlRow[c].state = "live"

\* The cars the run read itself, and those whose row on sale a run that overlapped it
\* observed since its watermark.
SeenSince(s) ==
  {c \in Cars : \/ Handed(s)[c] # "none"
                \/ vinRow[c].state = "live" /\ <<"vin", c>> \in scan[s].fresh
                \/ urlRow[c].state = "live" /\ <<"url", c>> \in scan[s].fresh}

\* The run leaves its last step: it wrote, or it failed, which changes no row.
Ends(s) == scan[s].step = "persist" /\ scan'[s].step = "idle"

\* A URL-keyed row retired for a VIN has that VIN's row behind it, and the row owns
\* the page: the reason the row may never be revived ("structural").
PromotedHasVin ==
  \A c \in Cars :
    urlRow[c].state = "vin_promoted" => vinRow[c].state # "absent" /\ vinRow[c].url

\* The writer keeps one live row per car "whichever order the two captures arrive
\* in": as long as a reading with a VIN also has the page, no write makes a second.
NoTwinsMade ==
  [][\A s \in Slots : Ends(s) =>
       \A c \in Cars : ~ Twins(c) /\ Handed(s)[c] # "vin" => ~ Twins(c)']_vars

\* A dealer's scan never takes off sale a car that it read, in whatever form, or that a
\* run that overlapped it observed on a row on sale: neither by its sweep nor by the
\* twin it retires.  (A shopping site may observe a car on its retired row only.)
SeenStaysLive ==
  [][\A s \in Slots : Ends(s) /\ scan[s].kind # "agg" =>
       \A c \in SeenSince(s) : Live(c) => Live(c)']_vars

\* A car goes off sale as not observed only by a run whose own capture - the process
\* may have died since - reached the page and did not have the car.
RetiredWasAbsent ==
  [][\A s \in Slots, c \in Cars :
       Ends(s) /\ Live(c) /\ ~ Live(c)' /\ scan[s].kind # "agg" =>
         scan[s].met = "scanned" /\ scan[s].obs[c] = "none"]_vars

\* A capture that came back empty never empties a lot of Floor cars or more.
EmptyScanKeepsLot ==
  [][\A s \in Slots :
       LET stale == LiveOf(vinRow, scan[s].src) \cup LiveOf(urlRow, scan[s].src)
       IN  Ends(s) /\ Handed(s) = Unread /\ SeenSince(s) = {}
             /\ Cardinality(stale) >= Floor => \A c \in stale : Live(c)']_vars

\* persist.ts:205-208: a row re-observed "REACTIVATES [...] it must never linger as
\* a zombie (superseded_at set yet observed today)": a car a dealer-site scan writes
\* as observed is live, and no run that observes a live car ends its sale.
\* Violated: the URL row of a car whose VIN row was retired stays vin_promoted for
\* good, and a reading without the VIN ends there; a shopping site's VIN retires the
\* live URL row and leaves the VIN row retired.
ObservedIsLive ==
  [][\A s \in Slots : Persist(s) =>
       \A c \in Cars : Handed(s)[c] # "none" /\ (scan[s].kind = "site" \/ Live(c)) =>
         Live(c)']_vars
=============================================================================
