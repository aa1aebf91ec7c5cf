------------------------ MODULE ListingStoreProofs ------------------------
(***************************************************************************)
(* For any cars, runs and sources: the state is well typed; a URL row      *)
(* retired for a VIN has the VIN row that owns its page, which is inductive*)
(* because no writer ever takes a page away from a VIN row; and from these *)
(* what one write may do to the rows of a car, whatever overlapped it.     *)
(***************************************************************************)
EXTENDS ListingStore, FiniteSetTheorems, TLAPS

\* What the operators of one write return.
LEMMA RefreshType ==
  ASSUME TypeOK, NEW s \in Slots, NEW row \in Row, NEW u \in BOOLEAN
  PROVE  /\ Refresh(row, s, u) \in Row
         /\ Upsert(row, s, u) \in Row
BY DEF TypeOK, Refresh, Upsert, Row, Run, RowState, Kind

LEMMA HandedType ==
  ASSUME TypeOK, NEW s \in Slots
  PROVE  Handed(s) \in [Cars -> Reading]
BY DEF TypeOK, Handed, Run, Unread, Reading

LEMMA WrittenType ==
  ASSUME TypeOK, NEW s \in Slots, NEW c \in Cars, NEW o \in Reading
  PROVE  VinWritten(c, o, s) \in Row /\ UrlWritten(c, o, s) \in Row
<1>1. vinRow[c] \in Row /\ urlRow[c] \in Row
  BY DEF TypeOK
<1>2. Promoted(c) \in Row
  BY <1>1 DEF Promoted, Row, RowState
<1>3. (o # "vin") \in BOOLEAN
  OBVIOUS
<1>4. VinWritten(c, o, s) \in Row
  BY <1>1, <1>3, RefreshType DEF VinWritten
<1>5. UrlWritten(c, o, s) \in Row
  BY <1>1, <1>2, RefreshType DEF UrlWritten
<1> QED
  BY <1>4, <1>5

LEMMA SweptType ==
  ASSUME NEW row \in [Cars -> Row], NEW key, NEW src, NEW fresh
  PROVE  Swept(row, key, src, fresh) \in [Cars -> Row]
BY DEF Swept, Row, RowState

LEMMA FreshenedType ==
  ASSUME TypeOK, NEW s \in Slots
  PROVE  Freshened(s) \in [Slots -> Run]
<1>1. Written(s) \subseteq {"vin", "url"} \X Cars
  BY DEF Written
<1>2. Idle \in Run
  BY DEF Idle, Run, Kind, Met, Unread, Reading
<1>3. ASSUME NEW t \in Slots
      PROVE  [scan[t] EXCEPT !.fresh = @ \cup Written(s)] \in Run
  <2>1. scan[t] \in Run
    BY DEF TypeOK
  <2>2. scan[t].fresh \cup Written(s) \subseteq {"vin", "url"} \X Cars
    BY <1>1, <2>1 DEF Run
  <2> QED
    BY <2>1, <2>2 DEF Run
<1> QED
  BY <1>2, <1>3 DEF Freshened, TypeOK

\* Of a run that has read a page, the page is a source.
LEMMA PageType ==
  ASSUME NEW kind \in Kind
  PROVE  PageOf(kind) \subseteq Sources
BY DEF PageOf, Kind, Sources

\* A run past its capture knows its page; until then it has none.
HasPage == \A s \in Slots : scan[s].step = "persist" => scan[s].src \in Sources

LEMMA TypeInit == Init => TypeOK /\ HasPage /\ PromotedHasVin
BY DEF Init, TypeOK, HasPage, PromotedHasVin, NoRow, Idle, Unread, Row, Run, RowState,
       Kind, Met, Reading

LEMMA TypeStep ==
  ASSUME TypeOK, HasPage, [Next]_vars
  PROVE  TypeOK' /\ HasPage'
<1>1. CASE SeedLink
  BY <1>1 DEF SeedLink, TypeOK, HasPage, rows, Met
<1>2. CASE CrashAndBoot
  <2>0. ASSUME NEW r \in Run
        PROVE  /\ Restarted(r) \in Run
               /\ Restarted(r).step = "persist" => Restarted(r) = r
    <3>1. [r EXCEPT !.step = "begin"] \in Run /\ [r EXCEPT !.step = "begin"].step = "begin"
      BY DEF Run
    <3> QED
      BY <3>1 DEF Restarted
  <2>1. \A s \in Slots : Restarted(scan[s]) \in Run
    BY <2>0 DEF TypeOK
  <2>2. \A s \in Slots : Restarted(scan[s]).step = "persist" =>
          Restarted(scan[s]).src = scan[s].src /\ scan[s].step = "persist"
    BY <2>0 DEF TypeOK
  <2> QED
    BY <1>2, <2>1, <2>2 DEF CrashAndBoot, TypeOK, HasPage, rows
<1>3. ASSUME NEW s \in Slots, BeginCapture(s) PROVE TypeOK' /\ HasPage'
  <2>1. [scan[s] EXCEPT !.step = "capture", !.fresh = {}] \in Run
    <3>1. scan[s] \in Run
      BY DEF TypeOK
    <3> QED
      BY <3>1 DEF Run
  <2>2. scan' = [scan EXCEPT ![s] = [scan[s] EXCEPT !.step = "capture", !.fresh = {}]]
    BY <1>3 DEF BeginCapture
  <2>3. [scan[s] EXCEPT !.step = "capture", !.fresh = {}].step # "persist"
    BY DEF TypeOK, Run
  <2>4. scan' \in [Slots -> Run] /\ HasPage'
    <3> DEFINE r == [scan[s] EXCEPT !.step = "capture", !.fresh = {}]
    <3>1. scan \in [Slots -> Run] /\ scan' = [scan EXCEPT ![s] = r] /\ r \in Run /\ r.step # "persist"
      BY <2>1, <2>2, <2>3 DEF TypeOK
    <3> HIDE DEF r
    <3>2. scan' \in [Slots -> Run]
      BY <3>1
    <3>3. \A t \in Slots : scan'[t].step = "persist" => scan'[t] = scan[t]
      BY <3>1
    <3> QED
      BY <3>2, <3>3, <1>3 DEF HasPage, BeginCapture
  <2> QED
    BY <1>3, <2>4 DEF BeginCapture, TypeOK, rows
<1>4. ASSUME NEW s \in Slots, Capture(s) PROVE TypeOK' /\ HasPage'
  <2>1. PICK src \in PageOf(scan[s].kind), met \in Met, obs \in [Cars -> Reading] :
          scan' = [scan EXCEPT ![s] = [@ EXCEPT !.step = "persist", !.src = src,
                                               !.met = met, !.obs = obs]]
    BY <1>4 DEF Capture
  <2> DEFINE r == [scan[s] EXCEPT !.step = "persist", !.src = src, !.met = met, !.obs = obs]
  <2>2. src \in Sources
    BY <2>1, PageType DEF TypeOK, Run
  <2>5. r \in Run /\ r.src = src
    BY <2>1, <2>2 DEF TypeOK, Run
  <2>6. scan' = [scan EXCEPT ![s] = r]
    BY <2>1
  <2> HIDE DEF r
  <2>3. scan' \in [Slots -> Run]
    BY <2>5, <2>6 DEF TypeOK
  <2>4. HasPage'
    BY <2>2, <2>5, <2>6 DEF TypeOK, HasPage
  <2> QED
    BY <1>4, <2>3, <2>4 DEF Capture, TypeOK, rows
<1>5. ASSUME NEW s \in Slots, Fail(s) PROVE TypeOK' /\ HasPage'
  <2>1. Idle \in Run /\ Idle.step # "persist"
    BY DEF Idle, Run, Kind, Met, Unread, Reading
  <2> QED
    BY <1>5, <2>1 DEF Fail, TypeOK, HasPage, rows
<1>6. ASSUME NEW s \in Slots, Persist(s) PROVE TypeOK' /\ HasPage'
  <2> DEFINE src == scan[s].src
             vin == [c \in Cars |-> VinWritten(c, Handed(s)[c], s)]
             url == [c \in Cars |-> UrlWritten(c, Handed(s)[c], s)]
  <2>1. vin \in [Cars -> Row] /\ url \in [Cars -> Row]
    BY HandedType, WrittenType
  <2>2. vinRow' \in {vin, Swept(vin, "vin", src, FreshNow(s))}
        /\ urlRow' \in {url, Swept(url, "url", src, FreshNow(s))}
    BY <1>6 DEF Persist
  <2>3. vinRow' \in [Cars -> Row] /\ urlRow' \in [Cars -> Row]
    <3> HIDE DEF vin, url, src
    <3> QED BY <2>1, <2>2, SweptType
  <2>4. status' \in [Sources -> Met \cup {"absent", "pending"}]
    <3>1. scan[s].met \in Met
      BY DEF TypeOK, Run
    <3> QED
      BY <1>6, <3>1 DEF Persist, TypeOK
  <2>5. scan' \in [Slots -> Run]
    BY <1>6, FreshenedType DEF Persist
  <2>6. HasPage'
    BY <1>6 DEF Persist, Freshened, HasPage, TypeOK, Run, Idle
  <2>7. carry' \in SUBSET Slots /\ scans' \in Nat /\ crashes' \in Nat
    BY <1>6 DEF Persist, TypeOK
  <2> QED
    BY <2>3, <2>4, <2>5, <2>6, <2>7 DEF TypeOK
<1>7. ASSUME NEW s \in Slots, NEW kind \in Kind, Start(s, kind) PROVE TypeOK' /\ HasPage'
  <2> DEFINE r == [scan[s] EXCEPT !.kind = kind,
                                  !.step = IF kind = "link" THEN "review" ELSE "begin"]
  <2>1. r \in Run /\ r.step # "persist"
    BY DEF TypeOK, Run
  <2>2. scan' = [scan EXCEPT ![s] = r]
    BY <1>7 DEF Start
  <2> HIDE DEF r
  <2>3. scan' \in [Slots -> Run] /\ HasPage'
    BY <2>1, <2>2 DEF TypeOK, HasPage
  <2> QED
    BY <1>7, <2>3 DEF Start, TypeOK, rows
<1>8. ASSUME NEW s \in Slots, NEW approve \in BOOLEAN, Review(s, approve)
      PROVE  TypeOK' /\ HasPage'
  <2>1. Idle \in Run /\ Idle.step # "persist"
    BY DEF Idle, Run, Kind, Met, Unread, Reading
  <2> DEFINE r == IF approve THEN [scan[s] EXCEPT !.step = "begin"] ELSE Idle
  <2>2. r \in Run /\ r.step # "persist"
    <3>1. scan[s] \in Run
      BY DEF TypeOK
    <3>2. [scan[s] EXCEPT !.step = "begin"] \in Run /\ [scan[s] EXCEPT !.step = "begin"].step = "begin"
      BY <3>1 DEF Run
    <3> QED
      BY <2>1, <3>2
  <2>3. scan' = [scan EXCEPT ![s] = r]
    BY <1>8 DEF Review
  <2> HIDE DEF r
  <2>4. scan' \in [Slots -> Run] /\ HasPage'
    BY <2>2, <2>3 DEF TypeOK, HasPage
  <2> QED
    BY <1>8, <2>4 DEF Review, TypeOK, rows
<1>9. CASE UNCHANGED vars
  BY <1>9 DEF vars, rows, TypeOK, HasPage
<1> QED
  BY <1>1, <1>2, <1>3, <1>4, <1>5, <1>6, <1>7, <1>8, <1>9 DEF Next

\* The state is well typed, for any cars, slots, sources and bounds.
THEOREM ListingTypeOK == Spec => []TypeOK
<1>1. Init => TypeOK /\ HasPage
  BY TypeInit
<1>2. TypeOK /\ HasPage /\ [Next]_vars => (TypeOK /\ HasPage)'
  BY TypeStep
<1> QED
  BY <1>1, <1>2, PTL DEF Spec

----------------------------------------------------------------------------
\* A page once owned by a VIN row stays with it, through a write and through a sweep.
LEMMA KeepsUrl ==
  ASSUME TypeOK, NEW s \in Slots, NEW c \in Cars, NEW o \in Reading
  PROVE  /\ vinRow[c].state # "absent" => VinWritten(c, o, s).state # "absent"
         /\ vinRow[c].state # "absent" /\ vinRow[c].url => VinWritten(c, o, s).url
         /\ o = "both" => VinWritten(c, o, s).state # "absent" /\ VinWritten(c, o, s).url
<1>1. vinRow[c] \in Row
  BY DEF TypeOK
<1>2. CASE ~ ToVin(c, o)
  BY <1>1, <1>2 DEF VinWritten, ToVin
<1>3. CASE ToVin(c, o) /\ vinRow[c].state = "absent"
  <2>1. VinWritten(c, o, s) = [state |-> "live", src |-> scan[s].src, url |-> o # "vin"]
    BY <1>3 DEF VinWritten, Upsert
  <2>2. VinWritten(c, o, s).url = (o # "vin")
    BY <2>1
  <2>3. VinWritten(c, o, s).state # "absent"
    BY <2>1
  <2> QED
    BY <1>3, <2>2, <2>3, Zenon
<1>4. CASE ToVin(c, o) /\ vinRow[c].state # "absent"
  <2>1. VinWritten(c, o, s) = Refresh(vinRow[c], s, o # "vin")
    BY <1>4 DEF VinWritten, Upsert
  <2>2. VinWritten(c, o, s).url = (vinRow[c].url \/ o # "vin")
    BY <2>1 DEF Refresh
  <2>3. VinWritten(c, o, s).state # "absent"
    BY <1>1, <1>4, <2>1 DEF Refresh, Row, RowState
  <2> QED
    BY <2>2, <2>3, Zenon
<1> QED
  BY <1>2, <1>3, <1>4

LEMMA PromotedOnlyByBoth ==
  ASSUME TypeOK, NEW s \in Slots, NEW c \in Cars, NEW o \in Reading,
         UrlWritten(c, o, s).state = "vin_promoted"
  PROVE  urlRow[c].state = "vin_promoted" \/ o = "both"
<1>1. urlRow[c] \in Row
  BY DEF TypeOK
<1> QED
  BY <1>1 DEF UrlWritten, Upsert, Refresh, Row, RowState

LEMMA SweepKeeps ==
  ASSUME NEW row \in [Cars -> Row], NEW key, NEW src, NEW fresh, NEW c \in Cars
  PROVE  /\ row[c].state # "absent" => Swept(row, key, src, fresh)[c].state # "absent"
         /\ Swept(row, key, src, fresh)[c].url = row[c].url
         /\ Swept(row, key, src, fresh)[c].state = "vin_promoted"
              => row[c].state = "vin_promoted"
BY DEF Swept, Row, RowState

LEMMA PromotedStep ==
  ASSUME TypeOK, PromotedHasVin, [Next]_vars
  PROVE  PromotedHasVin'
<1>1. ASSUME NEW s \in Slots, Persist(s) PROVE PromotedHasVin'
  <2> DEFINE src == scan[s].src
             o == Handed(s)
             vin == [d \in Cars |-> VinWritten(d, o[d], s)]
             url == [d \in Cars |-> UrlWritten(d, o[d], s)]
  <2>1. vin \in [Cars -> Row] /\ url \in [Cars -> Row] /\ o \in [Cars -> Reading]
    BY HandedType, WrittenType
  <2>2. /\ vinRow' = vin \/ vinRow' = Swept(vin, "vin", src, FreshNow(s))
        /\ urlRow' = url \/ urlRow' = Swept(url, "url", src, FreshNow(s))
    BY <1>1 DEF Persist
  <2> SUFFICES ASSUME NEW c \in Cars, urlRow'[c].state = "vin_promoted"
               PROVE  vinRow'[c].state # "absent" /\ vinRow'[c].url
    BY DEF PromotedHasVin
  <2>3. url[c].state = "vin_promoted"
    <3> HIDE DEF vin, url, src, o
    <3> QED BY <2>1, <2>2, SweepKeeps
  <2>4. urlRow[c].state = "vin_promoted" \/ o[c] = "both"
    BY <2>1, <2>3, PromotedOnlyByBoth
  <2>5. vin[c].state # "absent" /\ vin[c].url
    BY <2>1, <2>4, KeepsUrl DEF PromotedHasVin
  <2> HIDE DEF vin, url, src, o
  <2> QED BY <2>1, <2>2, <2>5, SweepKeeps
<1>2. ASSUME UNCHANGED rows PROVE PromotedHasVin'
  BY <1>2 DEF rows, PromotedHasVin
<1>3. (\E s \in Slots : Persist(s)) \/ UNCHANGED rows
  BY DEF Next, SeedLink, CrashAndBoot, BeginCapture, Capture, Fail, Start, Review, vars
<1> QED
  BY <1>1, <1>2, <1>3

\* persist.ts: a vin_promoted row may stay retired because its car has a VIN row.
THEOREM PromotedIsBacked == Spec => []PromotedHasVin
<1>1. Init => PromotedHasVin
  BY TypeInit
<1>2. TypeOK /\ PromotedHasVin /\ [Next]_vars => PromotedHasVin'
  BY PromotedStep
<1> QED
  BY <1>1, <1>2, ListingTypeOK, PTL DEF Spec

----------------------------------------------------------------------------
(* What a run's last step does to the rows of one car *)

\* Only the write touches a row, so a run that ends either wrote or changed nothing.
LEMMA EndsWrites ==
  ASSUME TypeOK, [Next]_vars, NEW s \in Slots, Ends(s)
  PROVE  Persist(s) \/ UNCHANGED rows
<1>1. (\E t \in Slots : Persist(t)) \/ UNCHANGED rows
  BY DEF Next, SeedLink, CrashAndBoot, BeginCapture, Capture, Fail, Start, Review, vars
<1>2. ASSUME NEW t \in Slots, Persist(t), t # s PROVE FALSE
  <2>1. scan'[s] = Freshened(t)[s]
    BY <1>2 DEF Persist
  <2>2. scan[s] \in Run
    BY DEF TypeOK
  <2>3. scan'[s].step = scan[s].step
    BY <2>1, <2>2, <1>2 DEF Freshened, Run
  <2> QED BY <2>3 DEF Ends
<1> QED BY <1>1, <1>2

\* The sweep leaves a written row as it is, or takes it off sale because nobody
\* observed it.
LEMMA SweptOrKept ==
  ASSUME TypeOK, NEW s \in Slots, NEW c \in Cars, Persist(s),
         NEW o, o = Handed(s)[c]
  PROVE  /\ o \in Reading
         /\ vinRow'[c].url = VinWritten(c, o, s).url
         /\ vinRow'[c].state = "live" => VinWritten(c, o, s).state = "live"
         /\ urlRow'[c].state = "live" => UrlWritten(c, o, s).state = "live"
         /\ VinWritten(c, o, s).state = "live" /\ vinRow'[c].state # "live" =>
              Sweeps(s) /\ <<"vin", c>> \notin FreshNow(s)
         /\ UrlWritten(c, o, s).state = "live" /\ urlRow'[c].state # "live" =>
              Sweeps(s) /\ <<"url", c>> \notin FreshNow(s)
         /\ vinRow'[c].state = "vin_promoted" => VinWritten(c, o, s).state = "vin_promoted"
<1> DEFINE src == scan[s].src
           vin == [d \in Cars |-> VinWritten(d, Handed(s)[d], s)]
           url == [d \in Cars |-> UrlWritten(d, Handed(s)[d], s)]
<1>1. vin \in [Cars -> Row] /\ url \in [Cars -> Row] /\ o \in Reading
  BY HandedType, WrittenType
<1>2. /\ vinRow' = vin \/ (Sweeps(s) /\ vinRow' = Swept(vin, "vin", src, FreshNow(s)))
      /\ urlRow' = url \/ (Sweeps(s) /\ urlRow' = Swept(url, "url", src, FreshNow(s)))
  BY DEF Persist
<1>3. vin[c] = VinWritten(c, o, s) /\ url[c] = UrlWritten(c, o, s)
  OBVIOUS
<1> HIDE DEF vin, url, src
<1>4. ASSUME NEW row \in [Cars -> Row], NEW key, NEW fresh
      PROVE  /\ Swept(row, key, src, fresh)[c].url = row[c].url
             /\ Swept(row, key, src, fresh)[c].state = "live" => row[c].state = "live"
             /\ row[c].state = "live" /\ Swept(row, key, src, fresh)[c].state # "live" =>
                  <<key, c>> \notin fresh
             /\ Swept(row, key, src, fresh)[c].state = "vin_promoted" =>
                  row[c].state = "vin_promoted"
  BY <1>4 DEF Swept, LiveOf, FreshOf, Row, RowState
<1>5. /\ vinRow'[c].url = vin[c].url
      /\ vinRow'[c].state = "live" => vin[c].state = "live"
      /\ vin[c].state = "live" /\ vinRow'[c].state # "live" =>
           Sweeps(s) /\ <<"vin", c>> \notin FreshNow(s)
      /\ vinRow'[c].state = "vin_promoted" => vin[c].state = "vin_promoted"
  BY <1>1, <1>2, <1>4
<1>6. /\ urlRow'[c].state = "live" => url[c].state = "live"
      /\ url[c].state = "live" /\ urlRow'[c].state # "live" =>
           Sweeps(s) /\ <<"url", c>> \notin FreshNow(s)
  BY <1>1, <1>2, <1>4
<1> QED BY <1>1, <1>3, <1>5, <1>6

\* No VIN row is ever retired for a VIN.
VinRowStays == \A c \in Cars : vinRow[c].state # "vin_promoted"

LEMMA VinRowStaysStep ==
  ASSUME TypeOK, VinRowStays, [Next]_vars
  PROVE  VinRowStays'
<1>1. ASSUME NEW s \in Slots, Persist(s), NEW c \in Cars PROVE vinRow'[c].state # "vin_promoted"
  <2>1. vinRow'[c].state = "vin_promoted" =>
          VinWritten(c, Handed(s)[c], s).state = "vin_promoted"
    BY <1>1, SweptOrKept
  <2>2. vinRow[c] \in Row /\ vinRow[c].state # "vin_promoted"
    BY DEF TypeOK, VinRowStays
  <2>3. VinWritten(c, Handed(s)[c], s).state # "vin_promoted"
    BY <2>2 DEF VinWritten, Upsert, Refresh
  <2> QED BY <2>1, <2>3
<1>2. (\E s \in Slots : Persist(s)) \/ UNCHANGED rows
  BY DEF Next, SeedLink, CrashAndBoot, BeginCapture, Capture, Fail, Start, Review, vars
<1> QED BY <1>1, <1>2 DEF VinRowStays, rows

\* What a persist relies on: persist.ts retires only URL rows for a VIN.
ListingInv == TypeOK /\ HasPage /\ PromotedHasVin /\ VinRowStays

\* It holds between any two steps of the scans.
THEOREM ListingInductive == Spec => []ListingInv
<1>1. Init => ListingInv
  <2>1. Init => VinRowStays
    BY DEF Init, VinRowStays, NoRow
  <2> QED BY <2>1, TypeInit DEF ListingInv
<1>2. ListingInv /\ [Next]_vars => ListingInv'
  BY TypeStep, PromotedStep, VinRowStaysStep DEF ListingInv
<1> QED BY <1>1, <1>2, PTL DEF Spec

----------------------------------------------------------------------------
(* One live row per car *)

\* A reading with the page never leaves two live rows behind: with a VIN it retires
\* the other, without one it looks for the VIN row that owns the page.
LEMMA WriteMakesNoTwin ==
  ASSUME TypeOK, NEW s \in Slots, NEW c \in Cars, NEW o \in Reading, o # "vin",
         ~ Twins(c)
  PROVE  ~ /\ VinWritten(c, o, s).state = "live" /\ VinWritten(c, o, s).url
           /\ UrlWritten(c, o, s).state = "live"
<1>1. vinRow[c] \in Row /\ urlRow[c] \in Row
  BY DEF TypeOK
<1>2. CASE o = "both"
  <2>1. UrlWritten(c, o, s) = Promoted(c)
    BY <1>2 DEF UrlWritten, ToUrl
  <2>2. urlRow[c].state = "live" => [urlRow[c] EXCEPT !.state = "vin_promoted"].state = "vin_promoted"
    BY <1>1 DEF Row
  <2>3. Promoted(c).state # "live"
    BY <2>2 DEF Promoted
  <2> QED BY <2>1, <2>3
<1>3. CASE o = "url" /\ OwnsUrl(c)
  <2>1. UrlWritten(c, o, s) = urlRow[c]
    BY <1>3 DEF UrlWritten, ToUrl, ToVin
  <2> QED BY <2>1, <1>3 DEF Twins
<1>4. CASE o = "none" \/ (o = "url" /\ ~ OwnsUrl(c))
  <2>1. VinWritten(c, o, s) = vinRow[c]
    BY <1>4 DEF VinWritten, ToVin
  <2>2. CASE o = "url"
    BY <2>1, <2>2, <1>4 DEF OwnsUrl
  <2>3. CASE o = "none"
    <3>1. UrlWritten(c, o, s) = urlRow[c]
      BY <2>3 DEF UrlWritten, ToUrl
    <3> QED BY <2>1, <3>1 DEF Twins, OwnsUrl
  <2> QED BY <2>2, <2>3, <1>4
<1> QED BY <1>2, <1>3, <1>4 DEF Reading

LEMMA NoTwinsStep ==
  ASSUME TypeOK, [Next]_vars, NEW s \in Slots, Ends(s), NEW c \in Cars,
         ~ Twins(c), Handed(s)[c] # "vin"
  PROVE  ~ Twins(c)'
<1>1. CASE Persist(s)
  <2> DEFINE o == Handed(s)[c]
  <2> HIDE DEF o
  <2>1. /\ o \in Reading /\ vinRow'[c].url = VinWritten(c, o, s).url
        /\ vinRow'[c].state = "live" => VinWritten(c, o, s).state = "live"
        /\ urlRow'[c].state = "live" => UrlWritten(c, o, s).state = "live"
    BY <1>1, SweptOrKept DEF o
  <2>2. o # "vin"
    BY DEF o
  <2>3. ~ /\ VinWritten(c, o, s).state = "live" /\ VinWritten(c, o, s).url
          /\ UrlWritten(c, o, s).state = "live"
    BY <2>1, <2>2, WriteMakesNoTwin
  <2> QED BY <2>1, <2>3 DEF Twins, OwnsUrl
<1>2. CASE UNCHANGED rows
  BY <1>2 DEF rows, Twins, OwnsUrl
<1> QED BY <1>1, <1>2, EndsWrites

\* As long as a reading with a VIN also has the page, no write gives a car a second
\* live row, in whichever order the captures arrive.
THEOREM OneLiveRow == Spec => NoTwinsMade
<1>1. TypeOK /\ [Next]_vars =>
        [\A s \in Slots : Ends(s) =>
           \A c \in Cars : ~ Twins(c) /\ Handed(s)[c] # "vin" => ~ Twins(c)']_vars
  BY NoTwinsStep
<1> QED BY <1>1, ListingTypeOK, PTL DEF Spec, NoTwinsMade

----------------------------------------------------------------------------
(* Who takes a car off sale *)

\* A dealer's scan puts or keeps on sale whatever it read of a car, unless neither
\* row was on sale before; and the row that is on sale is one it wrote.
LEMMA ReadIsLive ==
  ASSUME ListingInv, NEW s \in Slots, scan[s].kind # "agg", NEW c \in Cars,
         NEW o \in Reading, o # "none", o = Handed(s)[c], Live(c)
  PROVE  \/ VinWritten(c, o, s).state = "live" /\ <<"vin", c>> \in FreshNow(s)
         \/ UrlWritten(c, o, s).state = "live" /\ <<"url", c>> \in FreshNow(s)
<1>1. /\ vinRow[c] \in Row /\ urlRow[c] \in Row /\ vinRow[c].state # "vin_promoted"
      /\ urlRow[c].state = "vin_promoted" => vinRow[c].state # "absent" /\ vinRow[c].url
  BY DEF ListingInv, TypeOK, VinRowStays, PromotedHasVin
<1>2. CASE ToVin(c, o)
  <2>1. <<"vin", c>> \in FreshNow(s)
    BY <1>2 DEF FreshNow, Written
  <2>2. VinWritten(c, o, s).state = "live"
    BY <1>1, <1>2 DEF VinWritten, Upsert, Refresh, Row, RowState
  <2> QED BY <2>1, <2>2
<1>3. CASE ~ ToVin(c, o)
  <2>1. o = "url" /\ ToUrl(c, o) /\ ~ OwnsUrl(c)
    BY <1>3 DEF ToVin, ToUrl, Reading
  <2>2. <<"url", c>> \in FreshNow(s)
    BY <2>1 DEF FreshNow, Written
  <2>3. urlRow[c].state # "vin_promoted"
    BY <1>1, <2>1 DEF Live, OwnsUrl
  <2>4. UrlWritten(c, o, s) = Upsert(urlRow[c], s, TRUE)
    BY <2>1 DEF UrlWritten
  <2>5. UrlWritten(c, o, s).state = "live"
    BY <1>1, <2>3, <2>4 DEF Upsert, Refresh, Row, RowState
  <2> QED BY <2>2, <2>5
<1> QED BY <1>2, <1>3

LEMMA SeenStep ==
  ASSUME ListingInv, [Next]_vars, NEW s \in Slots, Ends(s), scan[s].kind # "agg",
         NEW c \in SeenSince(s), Live(c)
  PROVE  Live(c)'
<1>0. TypeOK /\ c \in Cars
  BY DEF ListingInv, SeenSince
<1>1. CASE Persist(s)
  <2> DEFINE o == Handed(s)[c]
  <2>1. o \in Reading
    BY <1>0, HandedType
  <2> HIDE DEF o
  <2>2. \/ VinWritten(c, o, s).state = "live" /\ <<"vin", c>> \in FreshNow(s)
        \/ UrlWritten(c, o, s).state = "live" /\ <<"url", c>> \in FreshNow(s)
    <3>1. CASE o # "none"
      BY <3>1, <2>1, <1>0, ReadIsLive DEF o
    <3>2. CASE o = "none"
      <4>1. VinWritten(c, o, s) = vinRow[c] /\ UrlWritten(c, o, s) = urlRow[c]
        BY <3>2 DEF VinWritten, UrlWritten, ToVin, ToUrl
      <4>2. \/ vinRow[c].state = "live" /\ <<"vin", c>> \in scan[s].fresh
            \/ urlRow[c].state = "live" /\ <<"url", c>> \in scan[s].fresh
        BY <3>2 DEF SeenSince, o
      <4> QED BY <4>1, <4>2 DEF FreshNow
    <3> QED BY <3>1, <3>2
  <2>3. /\ VinWritten(c, o, s).state = "live" /\ vinRow'[c].state # "live" =>
             <<"vin", c>> \notin FreshNow(s)
        /\ UrlWritten(c, o, s).state = "live" /\ urlRow'[c].state # "live" =>
             <<"url", c>> \notin FreshNow(s)
    BY <1>0, <1>1, SweptOrKept DEF o
  <2> QED BY <2>2, <2>3 DEF Live
<1>2. CASE UNCHANGED rows
  BY <1>2 DEF rows, Live
<1> QED BY <1>0, <1>1, <1>2, EndsWrites

\* A dealer's scan takes no car off sale that it read or that a run overlapping it
\* observed on a row on sale.
THEOREM SeenIsKept == Spec => SeenStaysLive
<1>1. ListingInv /\ [Next]_vars =>
        [\A s \in Slots : Ends(s) /\ scan[s].kind # "agg" =>
           \A c \in SeenSince(s) : Live(c) => Live(c)']_vars
  BY SeenStep
<1> QED BY <1>1, ListingInductive, PTL DEF Spec, SeenStaysLive

LEMMA RetiredStep ==
  ASSUME ListingInv, [Next]_vars, NEW s \in Slots, NEW c \in Cars, Ends(s),
         Live(c), ~ Live(c)', scan[s].kind # "agg"
  PROVE  scan[s].met = "scanned" /\ scan[s].obs[c] = "none"
<1>0. TypeOK /\ ~ UNCHANGED rows
  BY DEF ListingInv, rows, Live
<1>1. Persist(s)
  BY <1>0, EndsWrites
<1>2. Handed(s)[c] = "none"
  <2>1. c \notin SeenSince(s)
    BY SeenStep
  <2> QED BY <2>1 DEF SeenSince
<1>3. Sweeps(s)
  <2>1. /\ VinWritten(c, "none", s).state = "live" /\ vinRow'[c].state # "live" => Sweeps(s)
        /\ UrlWritten(c, "none", s).state = "live" /\ urlRow'[c].state # "live" => Sweeps(s)
    BY <1>0, <1>1, <1>2, SweptOrKept
  <2>2. VinWritten(c, "none", s) = vinRow[c] /\ UrlWritten(c, "none", s) = urlRow[c]
    BY DEF VinWritten, UrlWritten, ToVin, ToUrl
  <2> QED BY <2>1, <2>2 DEF Live
<1>4. Handed(s) = scan[s].obs
  BY <1>1, <1>3 DEF Persist, Holds, Sweeps, Handed
<1> QED BY <1>2, <1>3, <1>4 DEF Sweeps

\* A car goes off sale as not observed only by a run whose own capture reached the
\* page and did not have the car: no block, failure or lost capture proves an absence.
THEOREM AbsenceIsRead == Spec => RetiredWasAbsent
<1>1. ListingInv /\ [Next]_vars =>
        [\A s \in Slots, c \in Cars :
           Ends(s) /\ Live(c) /\ ~ Live(c)' /\ scan[s].kind # "agg" =>
             scan[s].met = "scanned" /\ scan[s].obs[c] = "none"]_vars
  BY RetiredStep
<1> QED BY <1>1, ListingInductive, PTL DEF Spec, RetiredWasAbsent

----------------------------------------------------------------------------
(* The collapse quarantine *)

\* A capture that read nothing writes nothing.
LEMMA EmptyWritesNothing ==
  ASSUME TypeOK, NEW s \in Slots, Handed(s) = Unread
  PROVE  /\ [c \in Cars |-> VinWritten(c, Handed(s)[c], s)] = vinRow
         /\ [c \in Cars |-> UrlWritten(c, Handed(s)[c], s)] = urlRow
         /\ FreshNow(s) = scan[s].fresh
<1>1. \A c \in Cars : Handed(s)[c] = "none"
  BY DEF Unread
<1>2. \A c \in Cars : VinWritten(c, Handed(s)[c], s) = vinRow[c]
                     /\ UrlWritten(c, Handed(s)[c], s) = urlRow[c]
  BY <1>1 DEF VinWritten, UrlWritten, ToVin, ToUrl
<1>3. Written(s) = {}
  BY <1>1 DEF Written, ToVin, ToUrl
<1> QED BY <1>2, <1>3 DEF TypeOK, FreshNow

\* Nothing of the stale lot was observed: it counts as collapsed if it has Floor cars.
LEMMA UnseenIsCollapsed ==
  ASSUME NEW src, NEW fresh,
         FreshOf(vinRow, "vin", src, fresh) = {}, FreshOf(urlRow, "url", src, fresh) = {},
         NEW c \in LiveOf(vinRow, src) \cup LiveOf(urlRow, src),
         Cardinality(LiveOf(vinRow, src) \cup LiveOf(urlRow, src)) >= Floor
  PROVE  Collapsed(vinRow, urlRow, src, fresh)
<1> DEFINE V == LiveOf(vinRow, src)
           U == LiveOf(urlRow, src)
           n == Cardinality(V) + Cardinality(U)
<1>1. IsFiniteSet(V) /\ IsFiniteSet(U)
  BY ListingAssumption, FS_Subset DEF LiveOf
<1>2. /\ Cardinality(FreshOf(vinRow, "vin", src, fresh)) = 0
      /\ Cardinality(FreshOf(urlRow, "url", src, fresh)) = 0
  BY FS_EmptySet
<1>3. (n >= Floor /\ n > 0) => Collapsed(vinRow, urlRow, src, fresh)
  <2> SUFFICES ASSUME n >= Floor, n > 0 PROVE Collapsed(vinRow, urlRow, src, fresh)
    OBVIOUS
  <2>1. n \in Nat
    BY <1>1, FS_CardinalityType
  <2> HIDE DEF n
  <2>2. Percent * n > 0
    BY <2>1, ListingAssumption
  <2> QED BY <1>2, <2>2 DEF Collapsed, n
<1> HIDE DEF V, U
<1>4. /\ IsFiniteSet(V \cup U) /\ IsFiniteSet(V \cap U)
      /\ Cardinality(V \cup U) = Cardinality(V) + Cardinality(U) - Cardinality(V \cap U)
  BY <1>1, FS_Union, FS_Intersection
<1>5. /\ Cardinality(V) \in Nat /\ Cardinality(U) \in Nat
      /\ Cardinality(V \cup U) \in Nat /\ Cardinality(V \cap U) \in Nat
  BY <1>1, <1>4, FS_CardinalityType
<1>6. Cardinality(V \cup U) # 0
  BY <1>4, FS_EmptySet DEF V, U
<1>7. Cardinality(V \cup U) >= Floor
  BY DEF V, U
<1>8. n >= Floor /\ n > 0
  BY <1>4, <1>5, <1>6, <1>7, ListingAssumption
<1> QED BY <1>3, <1>8

LEMMA EmptyStep ==
  ASSUME TypeOK, [Next]_vars, NEW s \in Slots, Ends(s), Handed(s) = Unread, SeenSince(s) = {},
         NEW c \in LiveOf(vinRow, scan[s].src) \cup LiveOf(urlRow, scan[s].src),
         Cardinality(LiveOf(vinRow, scan[s].src) \cup LiveOf(urlRow, scan[s].src)) >= Floor
  PROVE  Live(c)'
<1>1. /\ FreshOf(vinRow, "vin", scan[s].src, scan[s].fresh) = {}
      /\ FreshOf(urlRow, "url", scan[s].src, scan[s].fresh) = {}
  BY DEF FreshOf, LiveOf, SeenSince
<1>2. Collapsed(vinRow, urlRow, scan[s].src, scan[s].fresh)
  BY <1>1, UnseenIsCollapsed
<1>3. CASE Persist(s)
  <2> DEFINE vin == [d \in Cars |-> VinWritten(d, Handed(s)[d], s)]
             url == [d \in Cars |-> UrlWritten(d, Handed(s)[d], s)]
  <2>1. vin = vinRow /\ url = urlRow /\ FreshNow(s) = scan[s].fresh
    BY EmptyWritesNothing
  <2>2. Collapsed(vin, url, scan[s].src, FreshNow(s)) => vinRow' = vin /\ urlRow' = url
    BY <1>3 DEF Persist
  <2> HIDE DEF vin, url
  <2>3. vinRow' = vinRow /\ urlRow' = urlRow
    BY <1>2, <2>1, <2>2
  <2> QED BY <2>3 DEF Live, LiveOf
<1>4. CASE UNCHANGED rows
  BY <1>4 DEF rows, Live, LiveOf
<1> QED BY <1>3, <1>4, EndsWrites

\* A capture that came back empty never empties a lot of Floor cars or more, if the
\* fraction is not zero.
THEOREM EmptyScanSpares == Spec => EmptyScanKeepsLot
<1>1. TypeOK /\ [Next]_vars =>
        [\A s \in Slots :
           LET stale == LiveOf(vinRow, scan[s].src) \cup LiveOf(urlRow, scan[s].src)
           IN  Ends(s) /\ Handed(s) = Unread /\ SeenSince(s) = {}
                 /\ Cardinality(stale) >= Floor => \A c \in stale : Live(c)']_vars
  BY EmptyStep
<1> QED BY <1>1, ListingTypeOK, PTL DEF Spec, EmptyScanKeepsLot
=============================================================================
