---------------------------- MODULE ClientProofs ----------------------------
(***************************************************************************)
(* What the screen claims is true for every tick, every interval of the    *)
(* watchdog and every number of ticks that may be missed.                  *)
(***************************************************************************)
EXTENDS Client, TLAPS

\* The age of a snapshot and the time to the next look of the watchdog add up to
\* no more than Patience and one interval, as long as the watchdog is content:
\* both only change together, or the age starts again.
ClientInv ==
  /\ checkIn \in 0..WatchInterval
  /\ trusted \in BOOLEAN /\ transportFailed \in BOOLEAN
  /\ snapshot \in Snapshots \cup {Nothing}
  /\ silence \in (0..Longest) \cup {Nothing}
  /\ snapshot = Nothing <=> silence = Nothing
  /\ stream = "open" => configured = TRUE
  /\ silence # Nothing => configured = TRUE
  /\ trusted /\ silence # Nothing => silence + checkIn <= Patience + WatchInterval

\* The numbers the comparisons are made with.
LEMMA Intervals ==
  /\ WatchInterval \in Nat /\ 0 < WatchInterval
  /\ Patience \in Nat
  /\ Longest \in Nat /\ Patience + WatchInterval < Longest
<1>1. MissedTicks \in Nat /\ TickInterval \in Nat /\ WatchInterval \in Nat /\ WatchInterval # 0
  BY ClientAssumption
<1>2. MissedTicks * TickInterval \in Nat
  BY <1>1
<1>3. QED
  BY <1>1, <1>2 DEF Patience, Longest

LEMMA ClientInit == Init => ClientInv
<1> SUFFICES ASSUME Init PROVE ClientInv
  OBVIOUS
<1>1. snapshot = Nothing /\ silence = Nothing /\ checkIn = WatchInterval /\ stream = "opening"
  BY DEF Init, Loaded
<1>2. trusted \in BOOLEAN /\ transportFailed \in BOOLEAN
  BY Zenon DEF Init, Loaded
<1>3. checkIn \in 0..WatchInterval
  BY <1>1, Intervals
<1>4. QED
  BY <1>1, <1>2, <1>3 DEF ClientInv

LEMMA ClientStep == ClientInv /\ [Next]_vars => ClientInv'
<1> SUFFICES ASSUME ClientInv, [Next]_vars PROVE ClientInv'
  OBVIOUS
<1> USE Intervals, ClientAssumption
<1>1. CASE OnConfig
  BY <1>1 DEF OnConfig, ClientInv, watchVars
<1>2. CASE OnSnapshot
  <2>1. /\ snapshot' \in Snapshots /\ silence' = 0
        /\ UNCHANGED <<stream, configured, trusted, checkIn>>
        /\ stream = "open"
    BY <1>2 DEF OnSnapshot, watchVars
  <2>2. transportFailed' \in BOOLEAN
    BY <1>2, Zenon DEF OnSnapshot
  <2>3. 0 \in 0..Longest /\ 0 # Nothing /\ snapshot' # Nothing
    BY <2>1
  <2>4. trusted' => silence' + checkIn' <= Patience + WatchInterval
    BY <2>1 DEF ClientInv
  <2>5. QED
    BY <2>1, <2>2, <2>3, <2>4 DEF ClientInv
<1>3. CASE OnTransportError
  BY <1>3 DEF OnTransportError, ClientInv, watchVars
<1>4. CASE Check
  <2>1. Within \in BOOLEAN
    BY DEF Within
  <2>2. Within /\ silence # Nothing => silence <= Patience
    BY DEF Within, PatienceConfigured, Patience, ClientInv
  <2>3. QED
    BY <1>4, <2>1, <2>2 DEF Check, ClientInv, storeVars
<1>5. CASE Pass
  BY <1>5 DEF Pass, ClientInv
<1>6. CASE ToggleFigure \/ ClearFilter
  BY <1>6 DEF ToggleFigure, ClearFilter, ClientInv, storeVars, watchVars
<1>7. CASE Reload
  <2>1. trusted' \in BOOLEAN /\ transportFailed' \in BOOLEAN
    BY <1>7, Zenon DEF Reload
  <2>2. snapshot' = Nothing /\ silence' = Nothing /\ checkIn' = WatchInterval /\ stream' = "opening"
    BY <1>7 DEF Reload
  <2>3. QED
    BY <2>1, <2>2 DEF ClientInv
<1>8. CASE UNCHANGED vars
  BY <1>8 DEF vars, ClientInv, storeVars, watchVars
<1>9. QED
  BY <1>1, <1>2, <1>3, <1>4, <1>5, <1>6, <1>7, <1>8 DEF Next

LEMMA ClientInvariant == Spec => []ClientInv
BY ClientInit, ClientStep, PTL DEF Spec

\* A view that says it is current is never older than the ticks that may be missed
\* and one look of the watchdog.
LEMMA ContentMeansFresh ==
  ASSUME ClientInv, Current, snapshot # Nothing
  PROVE  silence <= Patience + WatchInterval
BY Intervals, ClientAssumption DEF ClientInv, Current

THEOREM FreshWhenCurrent == Spec => []FrozenMapIsCalledOut
<1>1. ClientInv => FrozenMapIsCalledOut
  BY ContentMeansFresh DEF FrozenMapIsCalledOut
<1>2. QED
  BY <1>1, ClientInvariant, PTL

\* Where no notice is shown, the map is all that has reported, and recent.
THEOREM NoNoticeIsTrue == Spec => []NoNoticeMeansWholeFleet
<1>1. ClientInv => NoNoticeMeansWholeFleet
  <2> SUFFICES ASSUME ClientInv, Notice = "none"
               PROVE  /\ snapshot # Nothing /\ snapshot.lifecycle = "READY"
                      /\ Shown = snapshot.vehicles
                      /\ silence <= Patience + WatchInterval
    BY DEF NoNoticeMeansWholeFleet
  <2>1. Current /\ Lifecycle # "STARTING" /\ Vehicles # {} /\ ~Narrowed
    BY DEF Notice
  <2>2. snapshot # Nothing /\ snapshot.lifecycle = "READY" /\ Vehicles = snapshot.vehicles
    BY <2>1, ClientAssumption DEF Vehicles, Lifecycle, ClientInv
  <2>3. \A x \in Vehicles : Matches(x)
    BY <2>1 DEF Narrowed, WholeFleet, Matches
  <2>4. QED
    BY <2>1, <2>2, <2>3, ContentMeansFresh DEF Shown
<1>2. QED
  BY <1>1, ClientInvariant, PTL

\* The view stops being current only when the transport failed or more than the
\* ticks that may be missed have gone by.
THEOREM TrustLostForAReason == Spec => TrustIsLostForAReason
<1>1. ClientInv /\ [Next]_vars =>
        [Current /\ ~Current' => transportFailed' \/ (silence # Nothing /\ silence > Patience)]_vars
  <2> SUFFICES ASSUME ClientInv, Next, Current, ~Current', ~transportFailed'
               PROVE  silence # Nothing /\ silence > Patience
    BY DEF vars
  <2>1. trusted /\ ~trusted'
    BY DEF Current
  <2>2. Check
    BY <2>1 DEF Next, OnConfig, OnSnapshot, OnTransportError, Pass, ToggleFigure, ClearFilter,
                Reload, watchVars
  <2>3. ~Within
    BY <2>1, <2>2 DEF Check
  <2>4. silence # Nothing /\ ~(silence <= Patience)
    BY <2>3, Intervals DEF Within, PatienceConfigured, Patience, ClientInv
  <2>5. QED
    BY <2>4, Intervals DEF ClientInv
<1>2. QED
  BY <1>1, ClientInvariant, PTL DEF Spec, TrustIsLostForAReason

=============================================================================
