-------------------------- MODULE SimulatorProofs --------------------------
(***************************************************************************)
(* What the event source promises for a fleet of any size, any target and  *)
(* any cadence: never more journeys than the target, and no fewer while a  *)
(* vehicle is fit to go; a vehicle whose parts agree; and a status that a  *)
(* dropout delays but does not swallow.                                    *)
(* And what becomes of what it says: whatever is duplicated, late or       *)
(* overtaken, the consumer ends up with the last word on every signal, and *)
(* a vehicle that speaks does not look stale for one late report.          *)
(*                                                                         *)
(* Every step that changes a vehicle is seen as the replacement of one     *)
(* vehicle that says what has changed (Replaced, Sent); the consumer is    *)
(* followed signal by signal (Follows): the last word is held or on its    *)
(* way, and who has the larger number was observed no sooner.              *)
(***************************************************************************)
EXTENDS Simulator, FiniteSetTheorems, WellFoundedInduction, TLAPS

-----------------------------------------------------------------------------
(* Least and greatest elements, and the ticks at which a vehicle has its   *)
(* turn.                                                                   *)

\* A nonempty set of naturals has a least element.
LEMMA LeastOf ==
  ASSUME NEW S \in SUBSET Nat, S # {}
  PROVE  \E n \in S : \A m \in S : n <= m
<1> DEFINE R == OpToRel(<, Nat)
<1>1. IsWellFoundedOn(R, Nat)
  BY NatLessThanWellFounded, ZenonT(30)
<1>2. \A m, n \in Nat : m < n => <<m, n>> \in R
  BY DEF OpToRel
<1> HIDE DEF R
<1>3. PICK n \in S : \A m \in S : ~(<<m, n>> \in R)
  BY <1>1, WFMin
<1>4. ASSUME NEW m \in S
      PROVE  n <= m
  <2>1. m \in Nat /\ n \in Nat
    OBVIOUS
  <2>2. ~(m < n)
    BY <1>2, <1>3, <2>1
  <2>3. QED
    BY <2>1, <2>2
<1>5. QED
  BY <1>4

\* A set that holds zero and the successor of each of its naturals holds them all.
LEMMA Naturally ==
  ASSUME NEW S, 0 \in S, \A n \in Nat : n \in S => n + 1 \in S
  PROVE  Nat \subseteq S
<1> SUFFICES ASSUME Nat \ S # {} PROVE FALSE
  OBVIOUS
<1>1. PICK n \in Nat \ S : \A m \in Nat \ S : n <= m
  BY LeastOf
<1>2. n - 1 \in Nat /\ n - 1 \in S
  BY <1>1
<1>3. QED
  BY <1>1, <1>2

\* A finite nonempty set of naturals has a greatest element.
LEMMA GreatestOf ==
  ASSUME NEW S \in SUBSET Nat, IsFiniteSet(S), S # {}
  PROVE  \E n \in S : \A m \in S : n >= m
<1> DEFINE HasGreatest(T) == \E n \in T : \A m \in T : n >= m
           Good == {k \in Nat : \A T \in SUBSET Nat :
                      IsFiniteSet(T) /\ T # {} /\ Cardinality(T) = k => HasGreatest(T)}
<1>1. 0 \in Good
  BY FS_EmptySet
<1>2. ASSUME NEW k \in Nat, k \in Good
      PROVE  k + 1 \in Good
  <2> SUFFICES ASSUME NEW T \in SUBSET Nat, IsFiniteSet(T), T # {}, Cardinality(T) = k + 1
               PROVE  HasGreatest(T)
    OBVIOUS
  <2>1. PICK x \in T : TRUE
    OBVIOUS
  <2>2. IsFiniteSet(T \ {x}) /\ Cardinality(T \ {x}) = k
    <3>1. IsFiniteSet(T \ {x}) /\ Cardinality(T \ {x}) = Cardinality(T) - 1
      BY <2>1, FS_RemoveElement
    <3>2. QED
      BY <3>1
  <2>3. CASE T \ {x} = {}
    BY <2>1, <2>3
  <2>4. CASE T \ {x} # {}
    <3>1. PICK n \in T \ {x} : \A m \in T \ {x} : n >= m
      BY <1>2, <2>2, <2>4
    <3>2. n \in Nat /\ x \in Nat /\ \A m \in T : m \in Nat
      BY <2>1, <3>1
    <3>3. CASE n >= x
      BY <3>1, <3>2, <3>3
    <3>4. CASE x > n
      <4>1. \A m \in T : x >= m
        BY <3>1, <3>2, <3>4
      <4>2. QED
        BY <2>1, <4>1
    <3>5. QED
      BY <3>2, <3>3, <3>4
  <2>5. QED
    BY <2>3, <2>4
<1>3. Nat \subseteq Good
  <2> HIDE DEF Good
  <2>1. QED
    BY <1>1, <1>2, Naturally
<1>4. Cardinality(S) \in Nat
  BY FS_CardinalityType
<1>5. QED
  BY <1>3, <1>4

\* Going round a cycle of n does not change where one is in it.
LEMMA RoundTheCycle ==
  ASSUME NEW n \in Nat \ {0}, NEW a \in Nat
  PROVE  (a + n) % n = a % n
<1> DEFINE q == a \div n
           r == a % n
           p == (a + n) \div n
           s == (a + n) % n
<1>1. q \in Int /\ r \in 0..(n - 1) /\ a = n * q + r
  OBVIOUS
<1>2. p \in Int /\ s \in 0..(n - 1) /\ a + n = n * p + s
  OBVIOUS
<1> HIDE DEF q, r, p, s
<1>3. n * (q + 1) + r = n * p + s
  BY <1>1, <1>2
<1>4. PICK d \in Int : d = p - (q + 1)
  BY <1>1, <1>2
<1>5. n * d = r - s
  <2>1. n * p = n * (q + 1) + n * d
    BY <1>1, <1>2, <1>4
  <2>2. n * p \in Int /\ n * (q + 1) \in Int /\ n * d \in Int
    BY <1>1, <1>2, <1>4
  <2>3. QED
    BY <1>1, <1>2, <1>3, <2>1, <2>2
<1>6. d = 0
  <2>1. CASE d >= 1
    <3>1. n * d >= n
      BY <1>4, <2>1
    <3>2. QED
      BY <1>1, <1>2, <1>5, <3>1
  <2>2. CASE d <= -1
    <3>1. n * d <= -n
      BY <1>4, <2>2
    <3>2. QED
      BY <1>1, <1>2, <1>5, <3>1
  <2>3. QED
    BY <1>4, <2>1, <2>2
<1>7. n * d = 0
  BY <1>6
<1>8. r = s
  BY <1>1, <1>2, <1>5, <1>7
<1>9. QED
  BY <1>8 DEF r, s

LEMMA BelowTheCycle ==
  ASSUME NEW n \in Nat \ {0}, NEW a \in 0..(n - 1)
  PROVE  a % n = a
OBVIOUS

\* Among any n numbers in a row there is one of every remainder.
LEMMA OneInARow ==
  ASSUME NEW n \in Nat \ {0}, NEW k \in 0..(n - 1), NEW a \in Nat
  PROVE  \E t \in a..(a + n - 1) : t % n = k
<1> DEFINE Good == {b \in Nat : \E t \in b..(b + n - 1) : t % n = k}
<1>1. 0 \in Good
  <2>1. k % n = k
    BY BelowTheCycle
  <2>2. k \in 0..(0 + n - 1)
    OBVIOUS
  <2>3. QED
    BY <2>1, <2>2
<1>2. ASSUME NEW b \in Nat, b \in Good
      PROVE  b + 1 \in Good
  <2>1. PICK t \in b..(b + n - 1) : t % n = k
    BY <1>2
  <2>2. CASE t = b
    <3>1. (b + n) % n = k
      BY <2>1, <2>2, RoundTheCycle
    <3>2. b + n \in (b + 1)..(b + 1 + n - 1)
      OBVIOUS
    <3>3. QED
      BY <3>1, <3>2
  <2>3. CASE t # b
    <3>1. t \in (b + 1)..(b + 1 + n - 1)
      BY <2>1, <2>3
    <3>2. QED
      BY <2>1, <3>1
  <2>4. QED
    BY <2>2, <2>3
<1>3. Nat \subseteq Good
  <2> HIDE DEF Good
  <2>1. QED
    BY <1>1, <1>2, Naturally
<1>4. QED
  BY <1>3

-----------------------------------------------------------------------------
Phases == {"release", "advance", "count", "dispatch", "report", "speak", "end"}

\* What a vehicle may have told of its status: nothing yet, to begin with.
Tellable == Statuses \cup {""}

\* The highest level of a battery.
Top == Max(StartingBattery \cup {ChargeTarget})

IsVehicle(x) ==
  /\ x = [leg |-> x.leg, path |-> x.path, routeId |-> x.routeId, battery |-> x.battery,
          charging |-> x.charging, reports |-> x.reports, silentUntil |-> x.silentUntil,
          reported |-> x.reported, sequences |-> x.sequences]
  /\ x.leg \in Legs /\ x.path \in Nat /\ x.routeId \in Nat /\ x.silentUntil \in Nat
  /\ x.battery \in 0..Top /\ x.reported \in Tellable
  /\ x.sequences \in [Tracked -> Nat]

Types ==
  /\ now \in Nat /\ assigned \in Nat
  /\ step \in [phase : Phases, turn : Fleet, start : Fleet, enRoute : Nat]
  /\ vehicles = [v \in Fleet |-> vehicles[v]]
  /\ \A v \in Fleet : IsVehicle(vehicles[v])

\* The count a dispatch goes by is that of the journeys under way.
Counted ==
  /\ Cardinality(EnRoute) <= EnRouteTarget
  /\ step.phase = "dispatch" => Cardinality(EnRoute) = step.enRoute

\* The vehicle looked at in turn t of a dispatch.
Seen(t) == ((step.start + t - 2) % FleetSize) + 1

\* Whoever has been looked at has been sent out, or cannot go.
Sought ==
  /\ step.phase = "dispatch" =>
       \A t \in 1..FleetSize : t < step.turn => ~Eligible(vehicles[Seen(t)])
  /\ TargetHeld

\* The vehicles whose turn is over.
Heard ==
  IF step.phase \in {"report", "speak"} THEN {v \in Fleet : v < step.turn}
  ELSE IF step.phase = "end" THEN Fleet ELSE {}

\* The records of signal s of vehicle v that are on their way.
About(v, s) == {r \in Transit : r.vehicle = v /\ SignalOf(r.type) = s}

\* What vehicle v said of its position at time t is on its way, or was received, or
\* overtaken by what was said later.
Observed(v, t) ==
  \/ held[v]["position"].observedAt >= t
  \/ \E r \in About(v, "position") : r.observedAt = t

Retained == \A v \in Fleet, t \in Nat : Observed(v, t) => Observed(v, t)'

Told(v) ==
  HasTurn(v) /\ ~Quiet(v) =>
    vehicles[v].reported = StatusOf(vehicles[v].leg) /\ Observed(v, now)

Made == \A v \in Heard : Told(v)

\* The same of the turns of earlier ticks.
Past ==
  \A v \in Fleet, t \in Nat :
    ~Mute(v) /\ t < now /\ t % TicksPerReport = Slot(v) /\ vehicles[v].silentUntil <= t
      => Observed(v, t)

\* The parts of one journey.
Journey(x) ==
  /\ x.path = 0 <=> x.leg = "parked"
  /\ x.routeId # 0 <=> StatusOf(x.leg) = "EN_ROUTE"

---------------------------------------------------------------------------
LEMMA StatusOfLegs ==
  /\ StatusOf("parked") = "FREE"
  /\ StatusOf("toCustomer") = "EN_ROUTE"
  /\ StatusOf("withCustomer") = "WITH_CUSTOMER"
  /\ StatusOf("toParking") = "EN_ROUTE"
<1>1. StatusOf("parked") = "FREE"
  BY DEF StatusOf
<1>2. StatusOf("toCustomer") = "EN_ROUTE"
  BY DEF StatusOf
<1>3. StatusOf("withCustomer") = "WITH_CUSTOMER"
  BY DEF StatusOf
<1>4. StatusOf("toParking") = "EN_ROUTE"
  BY DEF StatusOf
<1>5. QED
  BY <1>1, <1>2, <1>3, <1>4

LEMMA FleetFinite ==
  /\ IsFiniteSet(Fleet) /\ 1 \in Fleet
  /\ \A S \in SUBSET Fleet : IsFiniteSet(S) /\ Cardinality(S) \in Nat
<1>1. FleetSize \in Nat \ {0}
  BY SimulatorAssumption
<1>2. IsFiniteSet(Fleet) /\ 1 \in Fleet
  BY <1>1, FS_Interval DEF Fleet
<1>3. QED
  BY <1>2, FS_Subset, FS_CardinalityType

---------------------------------------------------------------------------
(* What a vehicle tells of itself. *)

Sayings == EventTypes \ {"VehicleRegistered"}
Values == Nat \cup Tellable

\* What the consumer reads in an event, or in its record.
Word(e) == IF e.type = "RouteCleared" THEN 0 ELSE e.value

\* A word on signal s agrees with a vehicle on route routeId that last told of reported.
Agrees(word, s, routeId, reported) ==
  /\ s = "route" => word = routeId
  /\ s = "status" => word = reported

Tells(events, s) == \E i \in DOMAIN events : NumberedBy(events[i].type) = s

\* Events of different signals.
WellFormed(events) ==
  /\ \E n \in Nat : events \in [1..n -> [type : Sayings, value : Values]]
  /\ \A i, j \in DOMAIN events :
       NumberedBy(events[i].type) = NumberedBy(events[j].type) => i = j

\* The events say of a vehicle what has become of x, and all that has changed; a clear
\* names the route that x was on.
Faithful(events, x, routeId, reported) ==
  /\ \A i \in DOMAIN events :
       Agrees(Word(events[i]), NumberedBy(events[i].type), routeId, reported)
  /\ Tells(events, "route") \/ routeId = x.routeId
  /\ Tells(events, "status") \/ reported = x.reported
  /\ \A i \in DOMAIN events : events[i].type = "RouteCleared" => events[i].value = x.routeId

LEMMA SignalOfSayings ==
  /\ \A type \in Sayings : NumberedBy(type) \in Tracked
  /\ NumberedBy("VehiclePosition") = "position" /\ NumberedBy("VehicleBattery") = "battery"
  /\ NumberedBy("VehicleStatus") = "status"
  /\ NumberedBy("RouteAssigned") = "route" /\ NumberedBy("RouteCleared") = "route"
<1>1. NumberedBy("VehiclePosition") = "position" /\ NumberedBy("VehicleBattery") = "battery"
  BY DEF NumberedBy, SignalOf
<1>2. NumberedBy("VehicleStatus") = "status"
  BY DEF NumberedBy, SignalOf
<1>3. NumberedBy("RouteAssigned") = "route" /\ NumberedBy("RouteCleared") = "route"
  BY DEF NumberedBy, SignalOf
<1>4. QED
  BY <1>1, <1>2, <1>3 DEF Sayings, EventTypes, Tracked, Signals

\* An event is counted once, under its signal.
LEMMA CountedOnce ==
  ASSUME NEW events, WellFormed(events), NEW s
  PROVE  Cardinality({i \in DOMAIN events : NumberedBy(events[i].type) = s})
           = IF Tells(events, s) THEN 1 ELSE 0
<1> DEFINE S == {i \in DOMAIN events : NumberedBy(events[i].type) = s}
<1>1. CASE Tells(events, s)
  <2>1. PICK i \in DOMAIN events : NumberedBy(events[i].type) = s
    BY <1>1 DEF Tells
  <2>2. S = {i}
    BY <2>1 DEF WellFormed
  <2>3. QED
    BY <1>1, <2>2, FS_Singleton
<1>2. CASE ~Tells(events, s)
  <2>1. S = {}
    BY <1>2 DEF Tells
  <2>2. QED
    BY <1>2, <2>1, FS_EmptySet
<1>3. QED
  BY <1>1, <1>2

LEMMA NothingToTell ==
  /\ WellFormed(<<>>) /\ \A s : ~Tells(<<>>, s)
  /\ \A x : Faithful(<<>>, x, x.routeId, x.reported)
BY DEF WellFormed, Tells, Faithful

\* An event alone, of a route.
LEMMA RouteToTell ==
  ASSUME NEW type \in {"RouteAssigned", "RouteCleared"}, NEW value \in Nat, NEW x,
         NEW events, events = <<Event(type, value)>>, type = "RouteCleared" => value = x.routeId
  PROVE  /\ WellFormed(events)
         /\ Faithful(events, x, Word(Event(type, value)), x.reported)
<1>1. /\ events = [i \in 1..1 |-> Event(type, value)] /\ DOMAIN events = 1..1
      /\ events[1] = Event(type, value) /\ 1 \in DOMAIN events
      /\ \A i \in DOMAIN events : i = 1
  OBVIOUS
<1>2. /\ Event(type, value) \in [type : Sayings, value : Values]
      /\ Event(type, value).type = type /\ Event(type, value).value = value
  BY DEF Event, Sayings, EventTypes, Values
<1>3. NumberedBy(type) = "route"
  BY SignalOfSayings
<1>4. WellFormed(events)
  BY <1>1, <1>2 DEF WellFormed
<1>5. QED
  BY <1>1, <1>2, <1>3, <1>4 DEF Faithful, Tells, Agrees

\* The elements of two sequences joined.
LEMMA Joined ==
  ASSUME NEW S, NEW a \in Seq(S), NEW b \in Seq(S)
  PROVE  /\ a \o b \in Seq(S) /\ Len(a \o b) = Len(a) + Len(b)
         /\ \A i \in 1..Len(a) : (a \o b)[i] = a[i]
         /\ \A i \in 1..Len(b) : (a \o b)[Len(a) + i] = b[i]
OBVIOUS

LEMMA SeqIsFunction ==
  ASSUME NEW S, NEW a \in Seq(S)
  PROVE  a \in [1..Len(a) -> S]
OBVIOUS

\* A report, which tells of the status when it has changed.
LEMMA ReportToTell ==
  ASSUME NEW x, x.battery \in Nat, StatusOf(x.leg) \in Tellable
  PROVE  /\ WellFormed(Reported(x)) /\ Tells(Reported(x), "position")
         /\ Faithful(Reported(x), x, x.routeId, StatusOf(x.leg))
<1> DEFINE p == Event("VehiclePosition", 0)
           b == Event("VehicleBattery", x.battery)
           s == Event("VehicleStatus", StatusOf(x.leg))
           Said == [type : Sayings, value : Values]
<1>1. /\ {p, b, s} \subseteq Said
      /\ p.type = "VehiclePosition" /\ b.type = "VehicleBattery"
      /\ s.type = "VehicleStatus" /\ s.value = StatusOf(x.leg)
  BY DEF Event, Sayings, EventTypes, Values
<1> HIDE DEF p, b, s
<1>2. PICK B \in {<<>>, <<b>>}, S \in {<<>>, <<s>>} :
        Reported(x) = <<p>> \o B \o S /\ (S = <<>> => ~StatusChanged(x))
  BY DEF Reported, p, b, s
<1>3. ~StatusChanged(x) => x.reported = StatusOf(x.leg)
  BY DEF StatusChanged
<1> DEFINE r == Reported(x)
<1>4. /\ <<p>> \in Seq(Said) /\ <<b>> \in Seq(Said) /\ <<s>> \in Seq(Said) /\ <<>> \in Seq(Said)
      /\ Len(<<p>>) = 1 /\ Len(<<b>>) = 1 /\ Len(<<s>>) = 1 /\ Len(<<>>) = 0
      /\ <<p>>[1] = p /\ <<b>>[1] = b /\ <<s>>[1] = s
  BY <1>1
<1> HIDE DEF Said
<1>5. CASE B = <<>> /\ S = <<>>
  <2>1. r \in [1..1 -> Said] /\ r[1] = p
    BY <1>2, <1>4, <1>5
  <2> HIDE DEF r
  <2>2. WellFormed(r) /\ Tells(r, "position")
    BY <1>1, <2>1, SignalOfSayings DEF WellFormed, Tells, Said
  <2>3. Faithful(r, x, x.routeId, StatusOf(x.leg))
    BY <1>1, <1>2, <1>3, <1>5, <2>1, SignalOfSayings DEF Tells, Faithful, Agrees
  <2>4. QED
    BY <2>2, <2>3 DEF r
<1>6. CASE B = <<b>> /\ S = <<>>
  <2>1. r \in [1..2 -> Said] /\ r[1] = p /\ r[2] = b
    <3>1. /\ <<p>> \o <<b>> \in Seq(Said) /\ Len(<<p>> \o <<b>>) = 2
          /\ (<<p>> \o <<b>>)[1] = p /\ (<<p>> \o <<b>>)[2] = b
      BY <1>4, Joined
    <3>2. r \in Seq(Said) /\ Len(r) = 2 /\ r[1] = p /\ r[2] = b
      BY <1>2, <1>4, <1>6, <3>1, Joined
    <3>3. QED
      BY <3>2, SeqIsFunction
  <2> HIDE DEF r
  <2>2. WellFormed(r) /\ Tells(r, "position")
    BY <1>1, <2>1, SignalOfSayings DEF WellFormed, Tells, Said
  <2>3. Faithful(r, x, x.routeId, StatusOf(x.leg))
    BY <1>1, <1>2, <1>3, <1>6, <2>1, SignalOfSayings DEF Tells, Faithful, Agrees
  <2>4. QED
    BY <2>2, <2>3 DEF r
<1>7. CASE B = <<>> /\ S = <<s>>
  <2>1. r \in [1..2 -> Said] /\ r[1] = p /\ r[2] = s
    <3>1. /\ <<p>> \o <<>> \in Seq(Said) /\ Len(<<p>> \o <<>>) = 1
          /\ (<<p>> \o <<>>)[1] = p
      BY <1>4, Joined
    <3>2. r \in Seq(Said) /\ Len(r) = 2 /\ r[1] = p /\ r[2] = s
      BY <1>2, <1>4, <1>7, <3>1, Joined
    <3>3. QED
      BY <3>2, SeqIsFunction
  <2> HIDE DEF r
  <2>2. WellFormed(r) /\ Tells(r, "position")
    BY <1>1, <2>1, SignalOfSayings DEF WellFormed, Tells, Said
  <2>3. Faithful(r, x, x.routeId, StatusOf(x.leg))
    BY <1>1, <2>1, SignalOfSayings DEF Tells, Faithful, Agrees, Word
  <2>4. QED
    BY <2>2, <2>3 DEF r
<1>8. CASE B = <<b>> /\ S = <<s>>
  <2>1. r \in [1..3 -> Said] /\ r[1] = p /\ r[2] = b /\ r[3] = s
    <3>1. /\ <<p>> \o <<b>> \in Seq(Said) /\ Len(<<p>> \o <<b>>) = 2
          /\ (<<p>> \o <<b>>)[1] = p /\ (<<p>> \o <<b>>)[2] = b
      BY <1>4, Joined
    <3> DEFINE q == <<p>> \o <<b>>
    <3> HIDE DEF q
    <3>2. q \in Seq(Said) /\ Len(q) = 2 /\ q[1] = p /\ q[2] = b /\ r = q \o <<s>>
      BY <1>2, <1>8, <3>1 DEF q
    <3> HIDE DEF r
    <3>3. r \in Seq(Said) /\ Len(r) = 3 /\ r[1] = q[1] /\ r[2] = q[2]
      BY <1>4, <3>2, Joined
    <3>4. r[Len(q) + 1] = <<s>>[1]
      BY <1>4, <3>2, Joined
    <3>5. r[1] = p /\ r[2] = b /\ r[3] = s
      BY <1>4, <3>2, <3>3, <3>4
    <3>6. QED
      BY <3>3, <3>5, SeqIsFunction
  <2> HIDE DEF r
  <2>2. WellFormed(r) /\ Tells(r, "position")
    BY <1>1, <2>1, SignalOfSayings DEF WellFormed, Tells, Said
  <2>3. Faithful(r, x, x.routeId, StatusOf(x.leg))
    BY <1>1, <2>1, SignalOfSayings DEF Tells, Faithful, Agrees, Word
  <2>4. QED
    BY <2>2, <2>3 DEF r
<1>9. QED
  BY <1>2, <1>5, <1>6, <1>7, <1>8

---------------------------------------------------------------------------
(* What each step does to the vehicle whose turn it is. *)

\* A vehicle, by the parts that matter here.
IsLike(y, leg, path, routeId, silentUntil, reported, sequences) ==
  /\ IsVehicle(y) /\ y.leg = leg /\ y.path = path /\ y.routeId = routeId
  /\ y.silentUntil = silentUntil /\ y.reported = reported /\ y.sequences = sequences

\* The ways in which a step edits a vehicle.
Moved(x, path, battery)         == [x EXCEPT !.path = path, !.battery = battery]
Onto(x, leg, path)              == [x EXCEPT !.leg = leg, !.path = path]
OnLeg(x, leg)                   == [x EXCEPT !.leg = leg]
WithRoute(x, id)                == [x EXCEPT !.routeId = id]
WithPath(x, path)               == [x EXCEPT !.path = path]
Powered(x, level, charging)     == [x EXCEPT !.battery = level, !.charging = charging]
Silenced(x, time)               == [x EXCEPT !.silentUntil = time]
Spoken(x, n, status)            == [x EXCEPT !.reports = n, !.reported = status]

\* An edit of a vehicle leaves a vehicle, and its other parts alone.
LEMMA MovedIsLike ==
  ASSUME NEW x, NEW l, NEW p, NEW r, NEW s, NEW t, NEW q,
         IsLike(x, l, p, r, s, t, q),
         NEW path \in Nat, NEW battery \in 0..Top
  PROVE  IsLike(Moved(x, path, battery), l, path, r, s, t, q)
<1> DEFINE z == [x EXCEPT !.path = path]
<1>1. z = [leg |-> x.leg, path |-> path, routeId |-> x.routeId, battery |-> x.battery, charging |-> x.charging,
         reports |-> x.reports, silentUntil |-> x.silentUntil, reported |-> x.reported, sequences |-> x.sequences]
  BY DEF IsLike, IsVehicle
<1>2. Moved(x, path, battery) = [z EXCEPT !.battery = battery]
  BY DEF Moved
<1> HIDE DEF z
<1>3. Moved(x, path, battery) = [leg |-> x.leg, path |-> path, routeId |-> x.routeId, battery |-> battery, charging |-> x.charging,
         reports |-> x.reports, silentUntil |-> x.silentUntil, reported |-> x.reported, sequences |-> x.sequences]
  BY <1>1, <1>2
<1>4. QED
  BY <1>3 DEF IsLike, IsVehicle

LEMMA OntoIsLike ==
  ASSUME NEW x, NEW l, NEW p, NEW r, NEW s, NEW t, NEW q,
         IsLike(x, l, p, r, s, t, q),
         NEW leg \in Legs, NEW path \in Nat
  PROVE  IsLike(Onto(x, leg, path), leg, path, r, s, t, q)
<1> DEFINE z == [x EXCEPT !.leg = leg]
<1>1. z = [leg |-> leg, path |-> x.path, routeId |-> x.routeId, battery |-> x.battery, charging |-> x.charging,
         reports |-> x.reports, silentUntil |-> x.silentUntil, reported |-> x.reported, sequences |-> x.sequences]
  BY DEF IsLike, IsVehicle
<1>2. Onto(x, leg, path) = [z EXCEPT !.path = path]
  BY DEF Onto
<1> HIDE DEF z
<1>3. Onto(x, leg, path) = [leg |-> leg, path |-> path, routeId |-> x.routeId, battery |-> x.battery, charging |-> x.charging,
         reports |-> x.reports, silentUntil |-> x.silentUntil, reported |-> x.reported, sequences |-> x.sequences]
  BY <1>1, <1>2
<1>4. QED
  BY <1>3 DEF IsLike, IsVehicle

LEMMA OnLegIsLike ==
  ASSUME NEW x, NEW l, NEW p, NEW r, NEW s, NEW t, NEW q,
         IsLike(x, l, p, r, s, t, q),
         NEW leg \in Legs
  PROVE  IsLike(OnLeg(x, leg), leg, p, r, s, t, q)
<1>1. OnLeg(x, leg) = [leg |-> leg, path |-> x.path, routeId |-> x.routeId, battery |-> x.battery, charging |-> x.charging,
         reports |-> x.reports, silentUntil |-> x.silentUntil, reported |-> x.reported, sequences |-> x.sequences]
  BY DEF OnLeg, IsLike, IsVehicle
<1>2. QED
  BY <1>1 DEF IsLike, IsVehicle

LEMMA WithRouteIsLike ==
  ASSUME NEW x, NEW l, NEW p, NEW r, NEW s, NEW t, NEW q,
         IsLike(x, l, p, r, s, t, q),
         NEW id \in Nat
  PROVE  IsLike(WithRoute(x, id), l, p, id, s, t, q)
<1>1. WithRoute(x, id) = [leg |-> x.leg, path |-> x.path, routeId |-> id, battery |-> x.battery, charging |-> x.charging,
         reports |-> x.reports, silentUntil |-> x.silentUntil, reported |-> x.reported, sequences |-> x.sequences]
  BY DEF WithRoute, IsLike, IsVehicle
<1>2. QED
  BY <1>1 DEF IsLike, IsVehicle

LEMMA WithPathIsLike ==
  ASSUME NEW x, NEW l, NEW p, NEW r, NEW s, NEW t, NEW q,
         IsLike(x, l, p, r, s, t, q),
         NEW path \in Nat
  PROVE  IsLike(WithPath(x, path), l, path, r, s, t, q)
<1>1. WithPath(x, path) = [leg |-> x.leg, path |-> path, routeId |-> x.routeId, battery |-> x.battery, charging |-> x.charging,
         reports |-> x.reports, silentUntil |-> x.silentUntil, reported |-> x.reported, sequences |-> x.sequences]
  BY DEF WithPath, IsLike, IsVehicle
<1>2. QED
  BY <1>1 DEF IsLike, IsVehicle

LEMMA PoweredIsLike ==
  ASSUME NEW x, NEW l, NEW p, NEW r, NEW s, NEW t, NEW q,
         IsLike(x, l, p, r, s, t, q),
         NEW level \in 0..Top, NEW charging
  PROVE  IsLike(Powered(x, level, charging), l, p, r, s, t, q)
<1> DEFINE z == [x EXCEPT !.battery = level]
<1>1. z = [leg |-> x.leg, path |-> x.path, routeId |-> x.routeId, battery |-> level, charging |-> x.charging,
         reports |-> x.reports, silentUntil |-> x.silentUntil, reported |-> x.reported, sequences |-> x.sequences]
  BY DEF IsLike, IsVehicle
<1>2. Powered(x, level, charging) = [z EXCEPT !.charging = charging]
  BY DEF Powered
<1> HIDE DEF z
<1>3. Powered(x, level, charging) = [leg |-> x.leg, path |-> x.path, routeId |-> x.routeId, battery |-> level, charging |-> charging,
         reports |-> x.reports, silentUntil |-> x.silentUntil, reported |-> x.reported, sequences |-> x.sequences]
  BY <1>1, <1>2
<1>4. QED
  BY <1>3 DEF IsLike, IsVehicle

LEMMA SilencedIsLike ==
  ASSUME NEW x, NEW l, NEW p, NEW r, NEW s, NEW t, NEW q,
         IsLike(x, l, p, r, s, t, q),
         NEW time \in Nat
  PROVE  IsLike(Silenced(x, time), l, p, r, time, t, q)
<1>1. Silenced(x, time) = [leg |-> x.leg, path |-> x.path, routeId |-> x.routeId, battery |-> x.battery, charging |-> x.charging,
         reports |-> x.reports, silentUntil |-> time, reported |-> x.reported, sequences |-> x.sequences]
  BY DEF Silenced, IsLike, IsVehicle
<1>2. QED
  BY <1>1 DEF IsLike, IsVehicle

LEMMA SpokenIsLike ==
  ASSUME NEW x, NEW l, NEW p, NEW r, NEW s, NEW t, NEW q,
         IsLike(x, l, p, r, s, t, q),
         NEW n, NEW status \in Tellable
  PROVE  IsLike(Spoken(x, n, status), l, p, r, s, status, q)
<1> DEFINE z == [x EXCEPT !.reports = n]
<1>1. z = [leg |-> x.leg, path |-> x.path, routeId |-> x.routeId, battery |-> x.battery, charging |-> x.charging,
         reports |-> n, silentUntil |-> x.silentUntil, reported |-> x.reported, sequences |-> x.sequences]
  BY DEF IsLike, IsVehicle
<1>2. Spoken(x, n, status) = [z EXCEPT !.reported = status]
  BY DEF Spoken
<1> HIDE DEF z
<1>3. Spoken(x, n, status) = [leg |-> x.leg, path |-> x.path, routeId |-> x.routeId, battery |-> x.battery, charging |-> x.charging,
         reports |-> n, silentUntil |-> x.silentUntil, reported |-> status, sequences |-> x.sequences]
  BY <1>1, <1>2
<1>4. QED
  BY <1>3 DEF IsLike, IsVehicle

\* Vehicle v is replaced by a vehicle, and the others stay.
Replaced(v) ==
  /\ vehicles' = [w \in Fleet |-> vehicles'[w]]
  /\ \A w \in Fleet \ {v} : vehicles'[w] = vehicles[w]

\* The records of the events, as vehicle v numbers them.
Numbered(v, events) ==
  [i \in DOMAIN events |->
     [vehicle |-> v, type |-> events[i].type, value |-> events[i].value, observedAt |-> now,
      sequence |-> vehicles[v].sequences[NumberedBy(events[i].type)] + 1]]

\* Vehicle v has put events on their way, which say all that has become of it.
Sent(v, events) ==
  /\ outbox = <<>> /\ outbox' = Numbered(v, events)
  /\ WellFormed(events)
  /\ \A s \in Tracked : vehicles'[v].sequences[s]
                          = vehicles[v].sequences[s] + (IF Tells(events, s) THEN 1 ELSE 0)
  /\ Faithful(events, vehicles[v], vehicles'[v].routeId, vehicles'[v].reported)

\* What is emitted changes no more of the vehicle than its counters.
LEMMA Emits ==
  ASSUME Types, outbox = <<>>, NEW v \in Fleet, NEW x, NEW events, Emit(v, x, events),
         NEW leg, NEW path, NEW routeId, NEW silentUntil, NEW reported,
         IsLike(x, leg, path, routeId, silentUntil, reported, vehicles[v].sequences),
         WellFormed(events), Faithful(events, vehicles[v], routeId, reported)
  PROVE  /\ Replaced(v) /\ Sent(v, events)
         /\ IsLike(vehicles'[v], leg, path, routeId, silentUntil, reported, vehicles'[v].sequences)
<1> DEFINE count(s) == Cardinality({i \in DOMAIN events : NumberedBy(events[i].type) = s})
           counters == [s \in Tracked |-> x.sequences[s] + count(s)]
           y == [x EXCEPT !.sequences = counters]
<1>0. IsVehicle(x) /\ x.sequences = vehicles[v].sequences
  BY DEF IsLike
<1>1. vehicles' = [vehicles EXCEPT ![v] = y] /\ outbox' = [i \in DOMAIN events |-> Record(v, x, events[i])]
  BY DEF Emit
<1>2. /\ y = [leg |-> x.leg, path |-> x.path, routeId |-> x.routeId, battery |-> x.battery,
          charging |-> x.charging, reports |-> x.reports, silentUntil |-> x.silentUntil,
          reported |-> x.reported, sequences |-> counters]
  <2> HIDE DEF counters
  <2>1. QED
    BY <1>0 DEF IsVehicle
<1>3. /\ counters \in [Tracked -> Nat]
      /\ \A s \in Tracked : counters[s] = x.sequences[s] + (IF Tells(events, s) THEN 1 ELSE 0)
  <2>1. \A s \in Tracked : x.sequences[s] \in Nat
    BY <1>0 DEF IsVehicle
  <2>2. \A s : count(s) = IF Tells(events, s) THEN 1 ELSE 0
    BY CountedOnce
  <2> HIDE DEF count
  <2>3. QED
    BY <2>1, <2>2
<1> HIDE DEF counters, y
<1>4. /\ IsVehicle(y) /\ y.leg = x.leg /\ y.path = x.path /\ y.routeId = x.routeId
      /\ y.silentUntil = x.silentUntil /\ y.reported = x.reported /\ y.sequences = counters
  BY <1>0, <1>2, <1>3 DEF IsVehicle
<1>5. vehicles'[v] = y /\ Replaced(v)
  BY <1>1 DEF Types, Replaced
<1>6. IsLike(vehicles'[v], leg, path, routeId, silentUntil, reported, vehicles'[v].sequences)
  BY <1>4, <1>5 DEF IsLike
<1>7. outbox' = Numbered(v, events)
  BY <1>0, <1>1 DEF Numbered, Record
<1>8. Sent(v, events)
  BY <1>0, <1>3, <1>4, <1>5, <1>6, <1>7 DEF Sent, IsLike
<1>9. QED
  BY <1>5, <1>6, <1>8

LEMMA TopIsHighest ==
  Top \in Nat /\ ChargeTarget \in 0..Top /\ StartingBattery \subseteq 0..Top
<1> DEFINE S == StartingBattery \cup {ChargeTarget}
<1>1. S \in SUBSET Nat /\ IsFiniteSet(S) /\ S # {}
  <2>1. IsFiniteSet(StartingBattery) /\ StartingBattery \subseteq Nat
    BY SimulatorAssumption
  <2>2. ChargeTarget \in Nat
    BY SimulatorAssumption
  <2>3. QED
    BY <2>1, <2>2, FS_AddElement
<1>2. PICK n \in S : \A m \in S : n >= m
  BY <1>1, GreatestOf
<1>3. Top \in S /\ \A m \in S : Top >= m
  BY <1>2, Zenon DEF Top, Max
<1>4. QED
  BY <1>1, <1>3

LEMMA TellableStatus ==
  \A leg \in Legs : StatusOf(leg) \in Tellable
<1>1. \A leg \in Legs : StatusOf(leg) \in Statuses
  BY StatusOfLegs DEF Legs, Statuses
<1>2. QED
  BY <1>1, Zenon DEF Tellable

LEMMA NewRouteToTell ==
  ASSUME assigned + 1 \in Nat, NEW x
  PROVE  WellFormed(Assignment) /\ Faithful(Assignment, x, assigned + 1, x.reported)
<1>1. Word(Event("RouteAssigned", assigned + 1)) = assigned + 1
  BY DEF Word, Event
<1>2. Assignment = <<Event("RouteAssigned", assigned + 1)>>
  BY DEF Assignment
<1>3. QED
  BY <1>1, <1>2, RouteToTell

\* One vehicle moves on: it stays on its leg, or it has arrived.
LEMMA Advanced ==
  ASSUME Types, Advance
  PROVE  LET v == step.turn
             o == vehicles[v]
             n == vehicles'[v]
         IN  /\ v \in Fleet /\ Replaced(v) /\ IsVehicle(n)
             /\ n.silentUntil = o.silentUntil /\ n.reported = o.reported
             /\ \E events : Sent(v, events)
             /\ \/ n.leg = o.leg /\ n.routeId = o.routeId /\ (n.path = 0 <=> o.path = 0)
                \/ /\ o.leg = "toCustomer" /\ n.leg = "withCustomer"
                   /\ n.path \in Journeys /\ n.routeId = 0
                \/ /\ o.leg = "withCustomer" /\ o.path # 0
                   /\ n.leg = "parked" /\ n.path = 0 /\ n.routeId = o.routeId
                \/ /\ o.leg = "toParking"
                   /\ n.leg = "parked" /\ n.path = 0 /\ n.routeId = 0
<1> DEFINE v == step.turn
           o == vehicles[v]
           n == vehicles'[v]
<1>1. /\ v \in Fleet /\ IsVehicle(o) /\ Journeys \subseteq Nat /\ o.path \in Nat
      /\ o.battery \in 0..Top /\ Drains \subseteq Nat
  BY SimulatorAssumption DEF Types, IsVehicle
<1>0. outbox = <<>>
  BY Zenon DEF Advance
<1>a. \A amount \in Drains : Larger(o.battery - amount, 0) \in 0..Top
  BY <1>1, TopIsHighest DEF Larger
<1>b. ASSUME NEW amount \in Drains
      PROVE  Smaller(o.battery + amount, ChargeTarget) \in 0..Top
  <2>1. amount \in Nat /\ o.battery + amount \in Nat /\ Top \in Nat /\ ChargeTarget \in Nat
    BY <1>1, TopIsHighest
  <2>2. ChargeTarget <= Top
    BY TopIsHighest
  <2>3. QED
    BY <2>1, <2>2 DEF Smaller
<1>2. /\ {"parked", "withCustomer"} \subseteq Legs /\ 0 \in Nat
      /\ IsLike(o, o.leg, o.path, o.routeId, o.silentUntil, o.reported, o.sequences)
  BY <1>1 DEF Legs, IsLike
<1>3. CASE Park(v)
  <2>1. PICK amount \in Drains : Emit(v, Parked(o, amount), <<>>)
    BY <1>3 DEF Park
  <2>2. \E level \in 0..Top : \E charging : Parked(o, amount) = Powered(o, level, charging)
    <3>1. PICK level \in {Smaller(o.battery + amount, ChargeTarget), Larger(o.battery - amount, 0)} :
            \E charging : Parked(o, amount) = [o EXCEPT !.battery = level, !.charging = charging]
      BY DEF Parked
    <3>2. QED
      BY <1>a, <1>b, <2>1, <3>1 DEF Powered
  <2>3. IsLike(Parked(o, amount), o.leg, o.path, o.routeId, o.silentUntil, o.reported, o.sequences)
    BY <1>2, <2>2, PoweredIsLike
  <2>4. (\E events : Sent(v, events)) /\ Replaced(v) /\ IsLike(n, o.leg, o.path, o.routeId, o.silentUntil, o.reported, n.sequences)
    BY <1>0, <1>1, <2>1, <2>3, NothingToTell, Emits
  <2>5. QED
    BY <1>1, <2>4 DEF IsLike
<1>4. CASE Drive(v)
  <2>1. PICK left \in 1..o.path, amount \in Drains :
           Emit(v, Moved(o, left, Larger(o.battery - amount, 0)), <<>>)
    BY <1>4, Zenon DEF Drive, Moved
  <2>2. left \in Nat /\ left # 0 /\ o.path # 0
    BY <1>1, <2>1
  <2>3. IsLike(Moved(o, left, Larger(o.battery - amount, 0)),
               o.leg, left, o.routeId, o.silentUntil, o.reported, o.sequences)
    BY <1>2, <1>a, <2>1, <2>2, MovedIsLike
  <2>4. (\E events : Sent(v, events)) /\ Replaced(v) /\ IsLike(n, o.leg, left, o.routeId, o.silentUntil, o.reported, n.sequences)
    BY <1>0, <1>1, <2>1, <2>3, NothingToTell, Emits
  <2>5. QED
    BY <1>1, <2>2, <2>4 DEF IsLike
<1>5. CASE Arrive(v)
  <2>1. PICK x :
          /\ \E amount \in Drains : x = Moved(o, 0, Larger(o.battery - amount, 0))
          /\ \/ /\ x.leg = "toCustomer"
                /\ \E trip \in Journeys :
                     Emit(v, WithRoute(Onto(x, "withCustomer", trip), 0), Clearance(x))
             \/ x.leg = "withCustomer" /\ Emit(v, OnLeg(x, "parked"), <<>>)
             \/ x.leg = "toParking" /\ Emit(v, WithRoute(OnLeg(x, "parked"), 0), Clearance(x))
    BY <1>5, Zenon DEF Arrive, Moved, Onto, OnLeg, WithRoute, Cleared
  <2>2. IsLike(x, o.leg, 0, o.routeId, o.silentUntil, o.reported, o.sequences) /\ x.leg = o.leg
    BY <1>2, <1>a, <2>1, MovedIsLike DEF IsLike
  <2>3. o.path # 0
    <3>1. o.path > 0
      BY <1>5, Zenon DEF Arrive
    <3>2. QED
      BY <1>1, <3>1
  <2>8. WellFormed(Clearance(x)) /\ Faithful(Clearance(x), o, 0, o.reported)
    <3>1. /\ Clearance(x) = <<Event("RouteCleared", x.routeId)>>
          /\ x.routeId \in Nat /\ x.routeId = o.routeId
      BY <2>2 DEF Clearance, IsLike, IsVehicle
    <3>2. Word(Event("RouteCleared", x.routeId)) = 0
      BY DEF Word, Event
    <3>3. QED
      BY <3>1, <3>2, RouteToTell
  <2>4. ASSUME NEW trip \in Journeys,
               Emit(v, WithRoute(Onto(x, "withCustomer", trip), 0), Clearance(x))
        PROVE  (\E events : Sent(v, events)) /\ Replaced(v) /\ IsLike(n, "withCustomer", trip, 0, o.silentUntil, o.reported, n.sequences)
    <3>1. IsLike(Onto(x, "withCustomer", trip), "withCustomer", trip, o.routeId, o.silentUntil, o.reported, o.sequences)
      BY <1>1, <1>2, <2>2, OntoIsLike
    <3>2. IsLike(WithRoute(Onto(x, "withCustomer", trip), 0), "withCustomer", trip, 0, o.silentUntil, o.reported, o.sequences)
      BY <1>2, <3>1, WithRouteIsLike
    <3>3. QED
      BY <1>0, <1>1, <2>4, <2>8, <3>2, Emits
  <2>5. ASSUME Emit(v, OnLeg(x, "parked"), <<>>)
        PROVE  (\E events : Sent(v, events)) /\ Replaced(v) /\ IsLike(n, "parked", 0, o.routeId, o.silentUntil, o.reported, n.sequences)
    <3>1. IsLike(OnLeg(x, "parked"), "parked", 0, o.routeId, o.silentUntil, o.reported, o.sequences)
      BY <1>2, <2>2, OnLegIsLike
    <3>2. QED
      BY <1>0, <1>1, <2>5, <3>1, NothingToTell, Emits
  <2>6. ASSUME Emit(v, WithRoute(OnLeg(x, "parked"), 0), Clearance(x))
        PROVE  (\E events : Sent(v, events)) /\ Replaced(v) /\ IsLike(n, "parked", 0, 0, o.silentUntil, o.reported, n.sequences)
    <3>1. IsLike(OnLeg(x, "parked"), "parked", 0, o.routeId, o.silentUntil, o.reported, o.sequences)
      BY <1>2, <2>2, OnLegIsLike
    <3>2. IsLike(WithRoute(OnLeg(x, "parked"), 0), "parked", 0, 0, o.silentUntil, o.reported, o.sequences)
      BY <1>2, <3>1, WithRouteIsLike
    <3>3. QED
      BY <1>0, <1>1, <2>6, <2>8, <3>2, Emits
  <2>7. QED
    BY <1>1, <2>1, <2>2, <2>3, <2>4, <2>5, <2>6 DEF IsLike
<1>6. QED
  BY <1>3, <1>4, <1>5 DEF Advance

\* The candidate is sent out on a journey with a route of its own.
LEMMA Dispatched ==
  ASSUME Types, Dispatch
  PROVE  LET v == Candidate
             o == vehicles[v]
             n == vehicles'[v]
         IN  /\ v \in Fleet /\ Replaced(v) /\ IsVehicle(n) /\ o.leg = "parked"
             /\ n.silentUntil = o.silentUntil /\ n.reported = o.reported
             /\ n.leg \in {"toCustomer", "toParking"}
             /\ n.path # 0 /\ n.routeId # 0
             /\ \E events : Sent(v, events)
<1> DEFINE v == Candidate
           o == vehicles[v]
           n == vehicles'[v]
<1>1. v \in Fleet
  <2>1. /\ FleetSize \in Nat \ {0} /\ step.start \in Fleet /\ step.turn \in Fleet
    BY SimulatorAssumption DEF Types
  <2>2. step.start + step.turn - 2 \in Int
    BY <2>1 DEF Fleet
  <2>3. (step.start + step.turn - 2) % FleetSize \in 0..(FleetSize - 1)
    BY <2>1, <2>2
  <2>4. QED
    BY <2>1, <2>3 DEF Candidate, Fleet
<1>2. IsLike(o, o.leg, o.path, o.routeId, o.silentUntil, o.reported, o.sequences)
  BY <1>1 DEF Types, IsLike
<1>3. PICK purpose \in {"toCustomer", "toParking"}, journey \in Journeys \ {0} :
        Emit(v, WithRoute(Onto(o, purpose, journey), assigned + 1), Assignment)
  BY Zenon DEF Dispatch, Routed, WithRoute, Onto
<1>4. o.leg = "parked"
  BY Zenon DEF Dispatch, Eligible
<1>0. outbox = <<>>
  BY Zenon DEF Dispatch, Looking
<1>5. purpose \in Legs /\ journey \in Nat /\ assigned + 1 \in Nat /\ assigned + 1 # 0
  BY SimulatorAssumption DEF Legs, Types
<1>6. IsLike(Onto(o, purpose, journey), purpose, journey, o.routeId, o.silentUntil, o.reported, o.sequences)
  BY <1>2, <1>5, OntoIsLike
<1>7. IsLike(WithRoute(Onto(o, purpose, journey), assigned + 1),
             purpose, journey, assigned + 1, o.silentUntil, o.reported, o.sequences)
  BY <1>5, <1>6, WithRouteIsLike
<1>a. WellFormed(Assignment) /\ Faithful(Assignment, o, assigned + 1, o.reported)
  BY <1>5, NewRouteToTell
<1>8. (\E events : Sent(v, events)) /\ Replaced(v) /\ IsLike(n, purpose, journey, assigned + 1, o.silentUntil, o.reported, n.sequences)
  BY <1>0, <1>1, <1>3, <1>7, <1>a, Emits
<1>9. QED
  BY <1>1, <1>4, <1>5, <1>8 DEF IsLike

\* A journey under way is revised: it goes on, under a route of its own.
LEMMA Replanned ==
  ASSUME Types, Replan
  PROVE  LET v == step.turn
             o == vehicles[v]
             n == vehicles'[v]
         IN  /\ v \in Fleet /\ Replaced(v) /\ IsVehicle(n)
             /\ StatusOf(o.leg) = "EN_ROUTE" /\ n.leg = o.leg /\ o.path # 0
             /\ n.silentUntil = o.silentUntil /\ n.reported = o.reported
             /\ n.path # 0 /\ n.routeId # 0
             /\ \E events : Sent(v, events)
<1> DEFINE v == step.turn
           o == vehicles[v]
           n == vehicles'[v]
<1>1. v \in Fleet /\ IsLike(o, o.leg, o.path, o.routeId, o.silentUntil, o.reported, o.sequences) /\ o.path \in Nat
  BY DEF Types, IsLike, IsVehicle
<1>2. PICK rest \in Journeys \ {0} :
        Emit(v, WithRoute(WithPath(o, 1 + rest), assigned + 1), Assignment)
  BY Zenon DEF Replan, Routed, WithRoute, WithPath
<1>3. StatusOf(o.leg) = "EN_ROUTE" /\ o.path > 0
  BY Zenon DEF Replan
<1>0. outbox = <<>>
  BY Zenon DEF Replan, Turn
<1>4. 1 + rest \in Nat /\ 1 + rest # 0 /\ assigned + 1 \in Nat /\ assigned + 1 # 0
  BY SimulatorAssumption DEF Types
<1>5. IsLike(WithPath(o, 1 + rest), o.leg, 1 + rest, o.routeId, o.silentUntil, o.reported, o.sequences)
  BY <1>1, <1>4, WithPathIsLike
<1>6. IsLike(WithRoute(WithPath(o, 1 + rest), assigned + 1),
             o.leg, 1 + rest, assigned + 1, o.silentUntil, o.reported, o.sequences)
  BY <1>4, <1>5, WithRouteIsLike
<1>a. WellFormed(Assignment) /\ Faithful(Assignment, o, assigned + 1, o.reported)
  BY <1>4, NewRouteToTell
<1>7. (\E events : Sent(v, events)) /\ Replaced(v) /\ IsLike(n, o.leg, 1 + rest, assigned + 1, o.silentUntil, o.reported, n.sequences)
  BY <1>0, <1>1, <1>2, <1>6, <1>a, Emits
<1>8. QED
  BY <1>1, <1>3, <1>4, <1>7 DEF IsLike

\* A report tells of the status as it is, and a dropout begins after now.
LEMMA Reports ==
  ASSUME Types, Speak \/ FallSilent
  PROVE  LET v == step.turn
             o == vehicles[v]
             n == vehicles'[v]
         IN  /\ v \in Fleet /\ Replaced(v) /\ IsVehicle(n)
             /\ n.leg = o.leg /\ n.path = o.path /\ n.routeId = o.routeId
             /\ Speak => /\ n.reported = StatusOf(n.leg) /\ n.silentUntil = o.silentUntil
                         /\ \E events : Sent(v, events) /\ Tells(events, "position")
             /\ FallSilent => /\ n.silentUntil > now /\ n.reported = o.reported
                              /\ n.sequences = o.sequences
<1> DEFINE v == step.turn
           o == vehicles[v]
           n == vehicles'[v]
<1>1. v \in Fleet /\ IsLike(o, o.leg, o.path, o.routeId, o.silentUntil, o.reported, o.sequences)
  BY DEF Types, IsLike
<1>2. ASSUME Speak
      PROVE  /\ Replaced(v) /\ IsVehicle(n)
               /\ n.leg = o.leg /\ n.path = o.path /\ n.routeId = o.routeId
               /\ n.reported = StatusOf(n.leg) /\ n.silentUntil = o.silentUntil
               /\ \E events : Sent(v, events) /\ Tells(events, "position")
  <2>1. Emit(v, Spoken(o, o.reports + 1, IF StatusChanged(o) THEN StatusOf(o.leg) ELSE o.reported), Reported(o))
    BY <1>2, Zenon DEF Speak, Spoken
  <2>2. (IF StatusChanged(o) THEN StatusOf(o.leg) ELSE o.reported) = StatusOf(o.leg)
    BY DEF StatusChanged
  <2>3. IsLike(Spoken(o, o.reports + 1, StatusOf(o.leg)),
               o.leg, o.path, o.routeId, o.silentUntil, StatusOf(o.leg), o.sequences)
    BY <1>1, TellableStatus, SpokenIsLike DEF IsLike, IsVehicle
  <2>6. WellFormed(Reported(o)) /\ Tells(Reported(o), "position")
        /\ Faithful(Reported(o), o, o.routeId, StatusOf(o.leg))
    BY <1>1, TellableStatus, ReportToTell DEF IsLike, IsVehicle
  <2>7. outbox = <<>>
    BY <1>2, Zenon DEF Speak, Turn
  <2>4. /\ Sent(v, Reported(o)) /\ Replaced(v)
        /\ IsLike(n, o.leg, o.path, o.routeId, o.silentUntil, StatusOf(o.leg), n.sequences)
    BY <1>1, <2>1, <2>2, <2>3, <2>6, <2>7, Emits
  <2>5. QED
    BY <1>1, <1>2, <2>4, <2>6 DEF IsLike
<1>3. ASSUME FallSilent
      PROVE  /\ Replaced(v) /\ IsVehicle(n)
               /\ n.leg = o.leg /\ n.path = o.path /\ n.routeId = o.routeId
               /\ n.silentUntil > now /\ n.reported = o.reported /\ n.sequences = o.sequences
  <2>1. PICK silence \in SilenceMin..(SilenceMax - 1) :
          vehicles' = [vehicles EXCEPT ![v] = Silenced(o, now + silence)]
    BY <1>3, Zenon DEF FallSilent, Silenced
  <2>2. now + silence \in Nat /\ now + silence > now
    BY SimulatorAssumption DEF Types
  <2>3. IsLike(Silenced(o, now + silence), o.leg, o.path, o.routeId, now + silence, o.reported, o.sequences)
    BY <1>1, <2>2, SilencedIsLike
  <2>4. Replaced(v) /\ n = Silenced(o, now + silence)
    BY <1>1, <2>1 DEF Types, Replaced
  <2>5. QED
    BY <1>1, <1>3, <2>2, <2>3, <2>4 DEF IsLike
<1>4. QED
  BY <1>1, <1>2, <1>3

\* The next vehicle, or the next loop.
LEMMA Turns ==
  ASSUME Types, NEW phase \in Phases, NEW after \in Phases, NextTurn(phase, after)
  PROVE  /\ step' \in [phase : Phases, turn : Fleet, start : Fleet, enRoute : Nat]
         /\ step'.enRoute = step.enRoute
         /\ \/ step'.phase = phase /\ step'.turn = step.turn + 1
            \/ step'.phase = after /\ step'.turn = 1 /\ step.turn = FleetSize
<1>1. FleetSize \in Nat \ {0} /\ step.turn \in 1..FleetSize
  BY SimulatorAssumption DEF Types, Fleet
<1>2. CASE step.turn < FleetSize
  <2>1. step' = [step EXCEPT !.phase = phase, !.turn = step.turn + 1]
    BY <1>2 DEF NextTurn, Types
  <2>2. step.turn + 1 \in Fleet
    BY <1>1, <1>2 DEF Fleet
  <2>3. QED
    BY <2>1, <2>2 DEF Types
<1>3. CASE ~(step.turn < FleetSize)
  <2>1. step' = [step EXCEPT !.phase = after, !.turn = 1]
    BY <1>3 DEF NextTurn, Go
  <2>2. step.turn = FleetSize
    BY <1>1, <1>3
  <2>3. QED
    BY <2>1, <2>2, FleetFinite DEF Types
<1>4. QED
  BY <1>2, <1>3

---------------------------------------------------------------------------
(* The invariant. *)

LEMMA AnyVehicle ==
  ASSUME NEW battery \in 0..Top, NEW charging, NEW sequences \in [Tracked -> Nat],
         NEW reported \in Tellable
  PROVE  LET x == [leg |-> "parked", path |-> 0, routeId |-> 0, battery |-> battery,
                   charging |-> charging, reports |-> 0, silentUntil |-> 0,
                   reported |-> reported, sequences |-> sequences]
         IN  /\ IsVehicle(x) /\ x.leg = "parked" /\ x.routeId = 0 /\ x.silentUntil = 0
             /\ x.sequences = sequences /\ x.reported = reported
BY DEF IsVehicle, Legs

\* A vehicle that has told of nothing yet.
LEMMA NewVehicle ==
  ASSUME NEW battery \in 0..Top
  PROVE  LET x == New(battery)
         IN  /\ IsVehicle(x) /\ x.leg = "parked" /\ x.routeId = 0 /\ x.silentUntil = 0
             /\ x.sequences = [s \in Tracked |-> 0] /\ x.reported = ""
<1>1. [s \in Tracked |-> 0] \in [Tracked -> Nat]
  OBVIOUS
<1>2. "" \in Tellable
  BY Zenon DEF Tellable
<1>3. QED
  BY <1>1, <1>2, AnyVehicle, Zenon DEF New

\* Replacing a vehicle by a vehicle keeps the fleet one of vehicles.
LEMMA StillVehicles ==
  ASSUME Types, NEW v \in Fleet, Replaced(v), IsVehicle(vehicles'[v])
  PROVE  vehicles' = [w \in Fleet |-> vehicles'[w]] /\ \A w \in Fleet : IsVehicle(vehicles'[w])
BY DEF Types, Replaced

\* What is handed over is the consumer's business.
LEMMA Releases ==
  ASSUME Release \/ EndRelease
  PROVE  /\ step.phase = "release" /\ (step' = step \/ Go("advance"))
         /\ now' = now /\ vehicles' = vehicles /\ assigned' = assigned /\ outbox' = outbox
BY Zenon DEF Release, EndRelease

LEMMA TypesStep ==
  ASSUME Types, Next
  PROVE  Types'
<1> DEFINE Steps == [phase : Phases, turn : Fleet, start : Fleet, enRoute : Nat]
<1>1. now \in Nat /\ assigned \in Nat /\ step \in Steps /\ 1 \in Fleet
  BY FleetFinite DEF Types
<1>2. now' \in Nat /\ assigned' \in Nat
  <2>1. CASE now' = now /\ assigned' = assigned
    BY <1>1, <2>1
  <2>2. CASE now' = now /\ assigned' = assigned + 1
    BY <1>1, <2>2
  <2>3. CASE now' = now + 1 /\ assigned' = assigned
    BY <1>1, <2>3
  <2>5. CASE Advance \/ FallSilent \/ Speak
    <3>1. UNCHANGED <<now, assigned, pending, held>> \/ UNCHANGED <<now, assigned, outbox, pending, held>>
      BY <2>5, Zenon DEF Advance, FallSilent, Speak
    <3>2. QED
      BY <2>1, <3>1
  <2>6. CASE Dispatch \/ Replan
    <3>1. UNCHANGED <<now, pending, held>> /\ assigned' = assigned + 1
      BY <2>6, Zenon DEF Dispatch, Replan
    <3>2. QED
      BY <2>2, <3>1
  <2>7. CASE Send
    <3>1. UNCHANGED <<now, step, vehicles, assigned>>
      BY <2>7, Zenon DEF Send
    <3>2. QED
      BY <2>1, <3>1
  <2>8. QED
    BY <2>1, <2>3, <2>5, <2>6, <2>7, Releases
       DEF Next, Count, EndDispatch, PassOver, NotItsTurn, KeepPlan, StayQuiet, EndStep
<1>3. /\ vehicles' = [w \in Fleet |-> vehicles'[w]]
      /\ \A w \in Fleet : IsVehicle(vehicles'[w])
  <2>1. CASE vehicles' = vehicles
    BY <2>1 DEF Types
  <2>2. CASE Advance
    BY <2>2, Advanced, StillVehicles
  <2>3. CASE Dispatch
    BY <2>3, Dispatched, StillVehicles
  <2>4. CASE Replan
    BY <2>4, Replanned, StillVehicles
  <2>5. CASE Speak \/ FallSilent
    BY <2>5, Reports, StillVehicles
  <2>6. QED
    BY <2>1, <2>2, <2>3, <2>4, <2>5, Releases
       DEF Next, Send, Count, EndDispatch, PassOver, NotItsTurn, KeepPlan,
           StayQuiet, EndStep
<1>4. step' \in Steps
  <2>1. /\ {"release", "advance", "count", "dispatch", "report", "speak", "end"} \subseteq Phases
    BY DEF Phases
  <2>2. CASE Send
    BY <1>1, <2>2 DEF Send
  <2>3. CASE Release \/ EndRelease \/ EndDispatch \/ EndStep
    <3>1. step' = step \/ Go("advance") \/ Go("report") \/ Go("release")
      BY <2>3, Releases, Zenon DEF EndDispatch, EndStep
    <3>2. QED
      BY <1>1, <2>1, <3>1 DEF Go
  <2>4. CASE Count
    <3>1. PICK start \in Fleet :
            step' = [phase |-> "dispatch", turn |-> 1, start |-> start,
                     enRoute |-> Cardinality(EnRoute)]
      BY <2>4 DEF Count
    <3>2. Cardinality(EnRoute) \in Nat
      BY FleetFinite DEF EnRoute
    <3>3. QED
      BY <1>1, <2>1, <3>1, <3>2
  <2>5. CASE Dispatch
    <3>1. CASE step.turn < FleetSize
      <4>1. step' = [step EXCEPT !.turn = step.turn + 1, !.enRoute = step.enRoute + 1]
        BY <1>1, <2>5, <3>1 DEF Dispatch
      <4>2. step.turn + 1 \in Fleet /\ step.enRoute + 1 \in Nat
        BY <1>1, <3>1, SimulatorAssumption DEF Fleet
      <4>3. QED
        BY <1>1, <4>1, <4>2
    <3>2. CASE ~(step.turn < FleetSize)
      BY <1>1, <2>1, <2>5, <3>2 DEF Dispatch
    <3>3. QED
      BY <3>1, <3>2
  <2>6. CASE KeepPlan \/ Replan
    BY <1>1, <2>1, <2>6 DEF KeepPlan, Replan
  <2>7. CASE Advance
    BY <2>1, <2>7, Turns DEF Advance
  <2>8. CASE PassOver
    BY <2>1, <2>8, Turns DEF PassOver
  <2>9. CASE NotItsTurn \/ StayQuiet \/ FallSilent \/ Speak
    <3>1. NextTurn("report", "end")
      BY <2>9, Zenon DEF NotItsTurn, StayQuiet, FallSilent, Speak
    <3>2. QED
      BY <2>1, <3>1, Turns
  <2>10. QED
    BY <2>2, <2>3, <2>4, <2>5, <2>6, <2>7, <2>8, <2>9 DEF Next
<1>5. QED
  BY <1>2, <1>3, <1>4 DEF Types

---------------------------------------------------------------------------
(* The target. *)

\* Unless a vehicle starts a journey there are no more of them than before.
LEMMA NoMoreJourneys ==
  ASSUME EnRoute' \subseteq EnRoute
  PROVE  Cardinality(EnRoute') <= Cardinality(EnRoute) /\ Cardinality(EnRoute) \in Nat
                                                       /\ Cardinality(EnRoute') \in Nat
<1>1. IsFiniteSet(EnRoute) /\ Cardinality(EnRoute) \in Nat
  BY FleetFinite DEF EnRoute
<1>2. IsFiniteSet(EnRoute') /\ Cardinality(EnRoute') \in Nat
  BY <1>1, FS_Subset, FS_CardinalityType
<1>3. QED
  BY <1>1, <1>2, FS_Subset

LEMMA SameJourneys ==
  ASSUME vehicles' = vehicles
  PROVE  EnRoute' \subseteq EnRoute
BY DEF EnRoute

LEMMA NoneStarts ==
  ASSUME Types, NEW v \in Fleet, Replaced(v),
         StatusOf(vehicles'[v].leg) # "EN_ROUTE" \/ StatusOf(vehicles[v].leg) = "EN_ROUTE"
  PROVE  EnRoute' \subseteq EnRoute
BY DEF EnRoute, Replaced

LEMMA CountedStep ==
  ASSUME Types, Counted, Next
  PROVE  Counted'
<1>1. /\ EnRouteTarget \in Nat /\ step.enRoute \in Nat /\ Cardinality(EnRoute) \in Nat
      /\ IsFiniteSet(EnRoute)
  BY SimulatorAssumption, FleetFinite DEF Types, EnRoute
<1> DEFINE Same == vehicles' = vehicles
<1>0. Same => EnRoute' = EnRoute
  BY DEF EnRoute
<1> HIDE DEF Same
<1>2. CASE Advance
  <2>1. EnRoute' \subseteq EnRoute
    BY <1>2, Advanced, NoneStarts, StatusOfLegs
  <2>2. step'.phase # "dispatch"
    BY <1>2, Turns DEF Advance, Phases
  <2>3. QED
    BY <1>1, <2>1, <2>2, NoMoreJourneys DEF Counted
<1>3. CASE Replan
  <2>1. EnRoute' \subseteq EnRoute
    BY <1>3, Replanned, NoneStarts
  <2>2. step'.phase = "speak"
    BY <1>3 DEF Replan, Types
  <2>3. QED
    BY <1>1, <2>1, <2>2, NoMoreJourneys DEF Counted
<1>4. CASE Speak \/ FallSilent
  <2>1. EnRoute' \subseteq EnRoute
    BY <1>4, Reports, NoneStarts
  <2>2. NextTurn("report", "end")
    BY <1>4, Zenon DEF Speak, FallSilent
  <2>3. step'.phase # "dispatch"
    BY <2>2, Turns DEF Phases
  <2>4. QED
    BY <1>1, <2>1, <2>3, NoMoreJourneys DEF Counted
<1>5. CASE Dispatch
  <2>1. Candidate \in Fleet /\ EnRoute' \subseteq EnRoute \cup {Candidate}
    BY <1>5, Dispatched DEF EnRoute, Replaced
  <2>2. Cardinality(EnRoute') = Cardinality(EnRoute) + 1
    <3>1. /\ StatusOf(vehicles[Candidate].leg) # "EN_ROUTE"
          /\ StatusOf(vehicles'[Candidate].leg) = "EN_ROUTE"
      BY <1>5, Dispatched, StatusOfLegs
    <3>2. EnRoute' = EnRoute \cup {Candidate} /\ Candidate \notin EnRoute
      BY <1>5, <2>1, <3>1, Dispatched DEF EnRoute, Replaced
    <3>3. QED
      BY <1>1, <3>2, FS_AddElement
  <2>3. step.phase = "dispatch" /\ ~(step.enRoute >= EnRouteTarget)
    BY <1>5 DEF Dispatch, Looking, TargetReached
  <2>4. step'.phase = "dispatch" => step'.enRoute = step.enRoute + 1
    BY <1>5 DEF Dispatch, Types
  <2>5. QED
    BY <1>1, <2>2, <2>3, <2>4 DEF Counted
<1>6. CASE Count
  <2>1. vehicles' = vehicles /\ step'.enRoute = Cardinality(EnRoute)
    BY <1>6 DEF Count
  <2>2. QED
    BY <1>0, <2>1 DEF Counted, Same
<1>7. CASE Release \/ EndRelease \/ EndDispatch \/ EndStep \/ KeepPlan
  <2>1. vehicles' = vehicles /\ step'.phase # "dispatch"
    BY <1>7, Releases DEF EndDispatch, EndStep, KeepPlan, Go, Types
  <2>2. QED
    BY <1>1, <2>1, SameJourneys, NoMoreJourneys DEF Counted
<1>8. CASE NotItsTurn \/ StayQuiet
  <2>1. vehicles' = vehicles /\ NextTurn("report", "end")
    BY <1>8, Zenon DEF NotItsTurn, StayQuiet
  <2>2. step'.phase # "dispatch"
    BY <2>1, Turns DEF Phases
  <2>3. QED
    BY <1>1, <2>1, <2>2, SameJourneys, NoMoreJourneys DEF Counted
<1>9. CASE PassOver
  <2>1. vehicles' = vehicles /\ NextTurn("dispatch", "report") /\ step.phase = "dispatch"
    BY <1>9, Zenon DEF PassOver, Looking
  <2>2. step'.enRoute = step.enRoute
    BY <2>1, Turns DEF Phases
  <2>3. QED
    BY <1>0, <2>1, <2>2 DEF Counted, Same
<1>10. CASE Send
  BY <1>0, <1>10 DEF Counted, Send, Same
<1>11. QED
  BY <1>2, <1>3, <1>4, <1>5, <1>6, <1>7, <1>8, <1>9, <1>10 DEF Next

---------------------------------------------------------------------------
(* What is on its way to the consumer. *)

Records == [vehicle : Fleet, type : Sayings, value : Values, observedAt : Nat, sequence : Nat]
Delayed == [at : Nat, record : Records]
Cells   == [sequence : Nat, observedAt : Nat, value : Values]

Lined ==
  /\ outbox \in Seq(Records) /\ pending \in Seq(Delayed)
  /\ held \in [Fleet -> [Tracked -> Cells]]

\* Of a signal numbered up to c, cell holds what was received and R is on its way: the
\* last word is held or on its way, and is what the vehicle would say again; who has the
\* larger number was observed no sooner; a clear names what the word before it was of.
Follows(c, cell, R, s, routeId, reported, time) ==
  /\ cell.sequence <= c
  /\ cell.sequence = c => Agrees(cell.value, s, routeId, reported)
  /\ \A r \in R : r.sequence <= c
  /\ \A r \in R : r.sequence = c => Agrees(Word(r), s, routeId, reported)
  /\ cell.sequence = c \/ \E r \in R : r.sequence = c
  /\ cell.observedAt <= time
  /\ \A r \in R : r.observedAt <= time
  /\ \A r \in R : r.sequence <= cell.sequence => r.observedAt <= cell.observedAt
  /\ \A r \in R : cell.sequence <= r.sequence => cell.observedAt <= r.observedAt
  /\ \A q, r \in R : q.sequence <= r.sequence => q.observedAt <= r.observedAt
  /\ \A r \in R : r.type = "RouteCleared" /\ r.sequence = cell.sequence + 1 => r.value = cell.value
  /\ \A q, r \in R : r.type = "RouteCleared" /\ r.sequence = q.sequence + 1 => r.value = Word(q)

Followed(v, s) ==
  Follows(vehicles[v].sequences[s], held[v][s], About(v, s), s,
          vehicles[v].routeId, vehicles[v].reported, now)

Caught == \A v \in Fleet, s \in Tracked : Followed(v, s)

\* What a cell becomes when a record is received.
Received(cell, r) ==
  IF r.sequence > cell.sequence
    THEN [sequence |-> r.sequence, observedAt |-> r.observedAt, value |-> Word(r)]
    ELSE cell

LEMMA Reception ==
  ASSUME NEW R \in SUBSET Records, NEW cell \in Cells, NEW c \in Nat, NEW time \in Nat,
         NEW s, NEW routeId, NEW reported, Follows(c, cell, R, s, routeId, reported, time),
         NEW r \in R, NEW Q \in SUBSET R, R \subseteq Q \cup {r}
  PROVE  /\ Follows(c, Received(cell, r), Q, s, routeId, reported, time)
         /\ Received(cell, r) \in Cells
         /\ cell.observedAt <= Received(cell, r).observedAt
         /\ r.observedAt <= Received(cell, r).observedAt
<1>1. /\ cell.sequence \in Nat /\ cell.observedAt \in Nat
      /\ \A q \in R : q.sequence \in Nat /\ q.observedAt \in Nat
  BY DEF Records, Cells
<1>2. CASE r.sequence > cell.sequence
  <2> DEFINE new == [sequence |-> r.sequence, observedAt |-> r.observedAt, value |-> Word(r)]
  <2>1. Received(cell, r) = new
    BY <1>2 DEF Received
  <2>2. Word(r) \in Values
    BY DEF Word, Records, Values
  <2>3. /\ new.sequence = r.sequence /\ new.observedAt = r.observedAt /\ new.value = Word(r)
        /\ new \in Cells
    BY <1>1, <2>2 DEF Cells
  <2> HIDE DEF new
  <2>4. Follows(c, new, Q, s, routeId, reported, time)
    BY <1>1, <1>2, <2>3 DEF Follows
  <2>5. cell.observedAt <= r.observedAt
    BY <1>1, <1>2 DEF Follows
  <2>6. r.observedAt <= new.observedAt
    BY <1>1, <2>3
  <2>7. QED
    BY <2>1, <2>3, <2>4, <2>5, <2>6
<1>3. CASE ~(r.sequence > cell.sequence)
  <2>1. Received(cell, r) = cell
    BY <1>3 DEF Received
  <2>2. Follows(c, cell, Q, s, routeId, reported, time)
    BY <1>1, <1>3 DEF Follows
  <2>3. r.observedAt <= cell.observedAt /\ cell.observedAt <= cell.observedAt
    BY <1>1, <1>3 DEF Follows
  <2>4. QED
    BY <2>1, <2>2, <2>3
<1>4. QED
  BY <1>2, <1>3

\* The next word on a signal.
LEMMA NextWord ==
  ASSUME NEW R \in SUBSET Records, NEW cell \in Cells, NEW c \in Nat, NEW time \in Nat,
         NEW s, NEW routeId, NEW reported, NEW newRoute, NEW newReported,
         Follows(c, cell, R, s, routeId, reported, time),
         NEW r \in Records, r.sequence = c + 1, r.observedAt = time,
         r.type = "RouteCleared" => s = "route" /\ r.value = routeId,
         Agrees(Word(r), s, newRoute, newReported)
  PROVE  Follows(c + 1, cell, R \cup {r}, s, newRoute, newReported, time)
<1>1. /\ cell.sequence \in Nat /\ cell.observedAt \in Nat
      /\ \A q \in R \cup {r} : q.sequence \in Nat /\ q.observedAt \in Nat
  BY DEF Records, Cells
<1>2. /\ c + 1 # c /\ c + 1 \in Nat
      /\ \A q \in R : q.sequence <= c /\ q.sequence # c + 1 /\ q.sequence # c + 1 + 1
      /\ cell.sequence # c + 1 /\ c + 1 # c + 1 + 1
      /\ \A k \in Nat : c + 1 = k + 1 => k = c
  BY <1>1 DEF Follows
<1>3. /\ \A q \in R \cup {r} : q.type = "RouteCleared" /\ q.sequence = cell.sequence + 1
                               => q.value = cell.value
      /\ \A p, q \in R \cup {r} : q.type = "RouteCleared" /\ q.sequence = p.sequence + 1
                               => q.value = Word(p)
  <2>1. ASSUME NEW q \in R \cup {r}, q.type = "RouteCleared"
        PROVE  /\ q.sequence = cell.sequence + 1 => q.value = cell.value
               /\ \A p \in R \cup {r} : q.sequence = p.sequence + 1 => q.value = Word(p)
    <3>1. CASE q = r
      BY <1>1, <1>2, <2>1, <3>1 DEF Follows, Agrees
    <3>2. CASE q \in R
      BY <1>1, <1>2, <2>1, <3>2 DEF Follows
    <3>3. QED
      BY <3>1, <3>2
  <2>2. QED
    BY <2>1
<1>4. QED
  BY <1>1, <1>3 DEF Follows

\* Taking a record out of a sequence.
LEMMA TakenOut ==
  ASSUME NEW S, NEW q \in Seq(S), NEW i \in DOMAIN q
  PROVE  /\ RemoveAt(q, i) \in Seq(S) /\ Len(RemoveAt(q, i)) = Len(q) - 1
         /\ \A j \in DOMAIN RemoveAt(q, i) : \E k \in DOMAIN q : RemoveAt(q, i)[j] = q[k]
         /\ \A k \in DOMAIN q \ {i} : \E j \in DOMAIN RemoveAt(q, i) : RemoveAt(q, i)[j] = q[k]
<1> DEFINE a == SubSeq(q, 1, i - 1)
           b == SubSeq(q, i + 1, Len(q))
           p == a \o b
<1>1. i \in 1..Len(q) /\ Len(q) \in Nat /\ DOMAIN q = 1..Len(q)
  OBVIOUS
<1>2. a \in Seq(S) /\ Len(a) = i - 1 /\ \A j \in 1..(i - 1) : a[j] = q[j]
  BY <1>1
<1>3. b \in Seq(S) /\ Len(b) = Len(q) - i /\ \A j \in 1..(Len(q) - i) : b[j] = q[i + j]
  BY <1>1
<1> HIDE DEF a, b
<1>4. /\ p \in Seq(S) /\ Len(p) = Len(q) - 1 /\ DOMAIN p = 1..(Len(q) - 1)
      /\ \A j \in 1..(i - 1) : p[j] = q[j]
      /\ \A j \in 1..(Len(q) - i) : p[i - 1 + j] = q[i + j]
  <2>1. /\ p \in Seq(S) /\ Len(p) = Len(a) + Len(b)
        /\ \A j \in 1..Len(a) : p[j] = a[j]
        /\ \A j \in 1..Len(b) : p[Len(a) + j] = b[j]
    <3>1. a \in Seq(S) /\ b \in Seq(S)
      BY <1>2, <1>3
    <3>2. QED
      BY <3>1, Joined
  <2> HIDE DEF p
  <2>2. Len(p) = Len(q) - 1 /\ DOMAIN p = 1..(Len(q) - 1)
    BY <1>1, <1>2, <1>3, <2>1
  <2>3. \A j \in 1..(i - 1) : p[j] = q[j]
    BY <1>2, <2>1
  <2>4. \A j \in 1..(Len(q) - i) : p[i - 1 + j] = q[i + j]
    BY <1>2, <1>3, <2>1
  <2>5. QED
    BY <2>1, <2>2, <2>3, <2>4
<1>5. RemoveAt(q, i) = p
  BY DEF RemoveAt, a, b
<1> HIDE DEF p
<1>6. ASSUME NEW j \in DOMAIN p
      PROVE  \E k \in DOMAIN q : p[j] = q[k]
  <2>1. CASE j <= i - 1
    <3>1. j \in 1..(i - 1) /\ j \in DOMAIN q
      BY <1>1, <1>4, <2>1
    <3>2. QED
      BY <1>4, <3>1
  <2>2. CASE j > i - 1
    <3>1. j - (i - 1) \in 1..(Len(q) - i) /\ i + (j - (i - 1)) \in DOMAIN q
          /\ i - 1 + (j - (i - 1)) = j
      BY <1>1, <1>4, <2>2
    <3>2. QED
      BY <1>4, <3>1
  <2>3. QED
    BY <1>1, <1>4, <2>1, <2>2
<1>7. ASSUME NEW k \in DOMAIN q \ {i}
      PROVE  \E j \in DOMAIN p : p[j] = q[k]
  <2>1. CASE k < i
    <3>1. k \in 1..(i - 1) /\ k \in DOMAIN p
      BY <1>1, <1>4, <2>1
    <3>2. QED
      BY <1>4, <3>1
  <2>2. CASE k > i
    <3>1. k - i \in 1..(Len(q) - i) /\ i - 1 + (k - i) \in DOMAIN p /\ i + (k - i) = k
      BY <1>1, <1>4, <2>2
    <3>2. QED
      BY <1>4, <3>1
  <2>3. QED
    BY <1>1, <2>1, <2>2
<1>8. QED
  BY <1>4, <1>5, <1>6, <1>7

LEMMA SequencesAreNumbers ==
  ASSUME Types, NEW v \in Fleet, NEW s \in Tracked
  PROVE  vehicles[v].sequences[s] \in Nat
BY DEF Types, IsVehicle

LEMMA TransitOfRecords ==
  ASSUME Lined
  PROVE  /\ Transit \subseteq Records /\ \A v, s : About(v, s) \in SUBSET Records
         /\ \A v \in Fleet, s \in Tracked : held[v][s] \in Cells
<1>1. \A i \in DOMAIN outbox : outbox[i] \in Records
  BY DEF Lined
<1>2. \A i \in DOMAIN pending : pending[i].record \in Records
  <2>1. \A i \in DOMAIN pending : pending[i] \in Delayed
    BY DEF Lined
  <2>2. \A item \in Delayed : item.record \in Records
    BY DEF Delayed
  <2>3. QED
    BY <2>1, <2>2
<1>3. Transit \subseteq Records
  BY <1>1, <1>2 DEF Transit
<1>4. QED
  BY <1>3 DEF About, Lined

\* A record that is on its way is handed over.
LEMMA Handed ==
  ASSUME Types, Lined, Caught, NEW r \in Transit, held' = Consume(held, r),
         Transit' \subseteq Transit, Transit \subseteq Transit' \cup {r},
         now' = now, vehicles' = vehicles
  PROVE  Caught' /\ Retained /\ held' \in [Fleet -> [Tracked -> Cells]]
<1> DEFINE v == r.vehicle
           s == SignalOf(r.type)
<1>1. /\ r \in Records /\ v \in Fleet /\ s \in Tracked
      /\ \A w, z : About(w, z) \in SUBSET Records
      /\ \A w \in Fleet, z \in Tracked : held[w][z] \in Cells
  <2>1. r \in Records /\ r.vehicle \in Fleet /\ r.type \in Sayings
    BY TransitOfRecords DEF Records
  <2>2. SignalOf(r.type) \in Tracked
    BY <2>1, SignalOfSayings DEF NumberedBy
  <2>3. QED
    BY <2>1, <2>2, TransitOfRecords
<1>2. /\ held' = [w \in Fleet |-> held'[w]] /\ \A w \in Fleet \ {v} : held'[w] = held[w]
      /\ held'[v] = [z \in Tracked |-> held'[v][z]]
      /\ \A z \in Tracked \ {s} : held'[v][z] = held[v][z]
      /\ held'[v][s] = Received(held[v][s], r)
  BY <1>1 DEF Consume, Lined, Received, Word
<1>3. \A w \in Fleet, z \in Tracked : About(w, z)' \subseteq About(w, z)
  BY DEF About
<1>4. \A w \in Fleet, z \in Tracked : About(w, z) \subseteq About(w, z)' \cup {r}
  BY DEF About
<1>5. r \in About(v, s) /\ \A w \in Fleet, z \in Tracked : (w # v \/ z # s) => r \notin About(w, z)
  BY DEF About
<1>6. now \in Nat /\ \A w \in Fleet, z \in Tracked : vehicles[w].sequences[z] \in Nat
  BY SequencesAreNumbers DEF Types
<1>7. /\ Follows(vehicles[v].sequences[s], held'[v][s], About(v, s)', s,
                 vehicles[v].routeId, vehicles[v].reported, now)
      /\ held'[v][s] \in Cells /\ held[v][s].observedAt <= held'[v][s].observedAt
      /\ r.observedAt <= held'[v][s].observedAt
  <2>1. Follows(vehicles[v].sequences[s], held[v][s], About(v, s), s,
                vehicles[v].routeId, vehicles[v].reported, now)
    BY <1>1 DEF Caught, Followed
  <2>2. /\ About(v, s) \in SUBSET Records /\ held[v][s] \in Cells
        /\ vehicles[v].sequences[s] \in Nat /\ now \in Nat /\ r \in About(v, s)
        /\ About(v, s)' \in SUBSET About(v, s) /\ About(v, s) \subseteq About(v, s)' \cup {r}
    BY <1>1, <1>3, <1>4, <1>5, <1>6
  <2>3. /\ Follows(vehicles[v].sequences[s], Received(held[v][s], r), About(v, s)', s,
                   vehicles[v].routeId, vehicles[v].reported, now)
        /\ Received(held[v][s], r) \in Cells
        /\ held[v][s].observedAt <= Received(held[v][s], r).observedAt
        /\ r.observedAt <= Received(held[v][s], r).observedAt
    <3>1. PICK R, Q, cell, c, routeId, reported, z :
            /\ R \in SUBSET Records /\ Q \in SUBSET Records /\ cell \in Cells /\ c \in Nat
            /\ R = About(v, s) /\ Q = About(v, s)' /\ cell = held[v][s]
            /\ c = vehicles[v].sequences[s] /\ z = s
            /\ routeId = vehicles[v].routeId /\ reported = vehicles[v].reported
      BY <2>2
    <3>2. /\ R \in SUBSET Records /\ Q \in SUBSET Records /\ cell \in Cells /\ c \in Nat
          /\ Follows(c, cell, R, z, routeId, reported, now) /\ r \in R /\ Q \in SUBSET R
          /\ R \subseteq Q \cup {r}
      BY <2>1, <2>2, <3>1
    <3>3. /\ Follows(c, Received(cell, r), Q, z, routeId, reported, now)
          /\ Received(cell, r) \in Cells
          /\ cell.observedAt <= Received(cell, r).observedAt
          /\ r.observedAt <= Received(cell, r).observedAt
      BY <2>2, <3>2, Reception
    <3>4. QED
      BY <3>1, <3>3
  <2>4. QED
    BY <1>2, <2>3
<1>8. ASSUME NEW w \in Fleet, NEW z \in Tracked, w # v \/ z # s
      PROVE  held'[w][z] = held[w][z] /\ About(w, z)' = About(w, z)
  <2>1. held'[w][z] = held[w][z]
    <3>1. CASE w # v
      BY <1>2, <3>1
    <3>2. CASE w = v
      <4>1. z \in Tracked \ {s}
        BY <1>8, <3>2
      <4>2. QED
        BY <1>2, <3>2, <4>1
    <3>3. QED
      BY <3>1, <3>2
  <2>2. r \notin About(w, z)
    BY <1>5, <1>8
  <2>3. QED
    BY <1>3, <1>4, <2>1, <2>2
<1>9. Caught'
  <2> SUFFICES ASSUME NEW w \in Fleet, NEW z \in Tracked
               PROVE  Follows(vehicles[w].sequences[z], held'[w][z], About(w, z)', z,
                              vehicles[w].routeId, vehicles[w].reported, now)
    BY DEF Caught, Followed
  <2>1. CASE w = v /\ z = s
    BY <1>7, <2>1
  <2>2. CASE w # v \/ z # s
    BY <1>8, <2>2 DEF Caught, Followed
  <2>3. QED
    BY <2>1, <2>2
<1>10. held' \in [Fleet -> [Tracked -> Cells]]
  <2>1. \A w \in Fleet, z \in Tracked : held'[w][z] \in Cells
    BY <1>1, <1>7, <1>8
  <2>2. \A w \in Fleet : held'[w] \in [Tracked -> Cells]
    BY <1>2, <2>1 DEF Lined
  <2>3. QED
    BY <1>2, <2>2
<1>11. Retained
  <2> SUFFICES ASSUME NEW w \in Fleet, NEW t \in Nat, Observed(w, t)
               PROVE  \/ held'[w]["position"].observedAt >= t
                      \/ \E q \in About(w, "position")' : q.observedAt = t
    BY DEF Retained, Observed
  <2>1. "position" \in Tracked
    BY DEF Tracked, Signals
  <2>2. CASE w = v /\ s = "position"
    <3>1. /\ held[w][s].observedAt \in Nat /\ held'[w][s].observedAt \in Nat
          /\ \A q \in About(w, s) : q.observedAt \in Nat
      BY <1>1, <1>7, <2>2 DEF Cells, Records
    <3>2. CASE held[w][s].observedAt >= t
      BY <1>7, <2>2, <3>1, <3>2
    <3>3. CASE \E q \in About(w, s) : q.observedAt = t
      <4>1. PICK q \in About(w, s) : q.observedAt = t
        BY <3>3
      <4>2. CASE q = r
        BY <1>7, <2>2, <3>1, <4>1, <4>2
      <4>3. CASE q # r
        BY <1>1, <1>4, <2>2, <4>1, <4>3
      <4>4. QED
        BY <4>2, <4>3
    <3>4. QED
      BY <2>2, <3>2, <3>3 DEF Observed
  <2>3. CASE w # v \/ s # "position"
    BY <1>8, <2>1, <2>3 DEF Observed
  <2>4. QED
    BY <2>2, <2>3
<1>12. QED
  BY <1>9, <1>10, <1>11

\* A vehicle has put its events on their way: each signal is as it was, or has one more
\* word.
LEMMA Spreads ==
  ASSUME Types, Lined, Caught, NEW v \in Fleet, Replaced(v), IsVehicle(vehicles'[v]),
         NEW events, Sent(v, events), now' = now, pending' = pending, held' = held
  PROVE  /\ Lined' /\ Caught' /\ Retained
         /\ Tells(events, "position") => Observed(v, now)'
<1> DEFINE Rec(i) == [vehicle |-> v, type |-> events[i].type, value |-> events[i].value,
                      observedAt |-> now,
                      sequence |-> vehicles[v].sequences[NumberedBy(events[i].type)] + 1]
           Old == {pending[i].record : i \in DOMAIN pending}
<1>1. PICK n \in Nat : events \in [1..n -> [type : Sayings, value : Values]]
  BY DEF Sent, WellFormed
<1>2. /\ DOMAIN events = 1..n
      /\ \A i \in 1..n : events[i].type \in Sayings /\ events[i].value \in Values
  BY <1>1
<1>3. \A i \in 1..n : Rec(i) \in Records
  <2>1. \A i \in 1..n : vehicles[v].sequences[NumberedBy(events[i].type)] + 1 \in Nat
    BY <1>2, SignalOfSayings, SequencesAreNumbers
  <2>2. now \in Nat
    BY DEF Types
  <2>3. QED
    BY <1>2, <2>1, <2>2 DEF Records
<1>4. outbox = <<>> /\ outbox' = [i \in 1..n |-> Rec(i)]
  BY <1>2 DEF Sent, Numbered
<1>5. /\ \A i \in 1..n : /\ Rec(i).vehicle = v /\ Rec(i).type = events[i].type
                         /\ Rec(i).value = events[i].value /\ Rec(i).observedAt = now
                         /\ Rec(i).sequence = vehicles[v].sequences[NumberedBy(events[i].type)] + 1
  OBVIOUS
<1> HIDE DEF Rec
<1>6. Lined'
  <2>1. outbox' \in Seq(Records)
    BY <1>3, <1>4
  <2>2. QED
    BY <2>1 DEF Lined
<1>7. Transit = Old /\ Transit' = Old \cup {Rec(i) : i \in 1..n}
  <2>1. Transit = Old
    BY <1>4 DEF Transit
  <2>2. {outbox'[i] : i \in DOMAIN outbox'} = {Rec(i) : i \in 1..n}
    BY <1>4
  <2>3. QED
    BY <2>1, <2>2 DEF Transit
<1>8. \A w \in Fleet \ {v} : \A z : About(w, z)' = About(w, z)
  BY <1>5, <1>7 DEF About
<1>9. \A z : ~Tells(events, z) => About(v, z)' = About(v, z)
  BY <1>2, <1>5, <1>7 DEF About, Tells, NumberedBy
<1>10. \A z : \A i \in 1..n : NumberedBy(events[i].type) = z => About(v, z)' = About(v, z) \cup {Rec(i)}
  <2> SUFFICES ASSUME NEW z, NEW i \in 1..n, NumberedBy(events[i].type) = z
               PROVE  About(v, z)' = About(v, z) \cup {Rec(i)}
    OBVIOUS
  <2>1. \A j \in 1..n : NumberedBy(events[j].type) = z => j = i
    BY <1>2 DEF Sent, WellFormed
  <2>2. \A j \in 1..n : SignalOf(Rec(j).type) = z <=> j = i
    BY <1>5, <2>1 DEF NumberedBy
  <2>3. QED
    BY <1>5, <1>7, <2>2 DEF About
<1>11. Retained
  <2>1. \A w \in Fleet : About(w, "position") \subseteq About(w, "position")'
    BY <1>7 DEF About
  <2>2. QED
    BY <2>1 DEF Retained, Observed
<1>12. Tells(events, "position") => Observed(v, now)'
  <2> SUFFICES ASSUME Tells(events, "position")
               PROVE  \E r \in About(v, "position")' : r.observedAt = now
    BY DEF Observed
  <2>1. PICK i \in 1..n : NumberedBy(events[i].type) = "position"
    BY <1>2 DEF Tells
  <2>2. Rec(i) \in About(v, "position")' /\ Rec(i).observedAt = now
    BY <1>5, <1>10, <2>1
  <2>3. QED
    BY <2>2
<1>13. Caught'
  <2> SUFFICES ASSUME NEW w \in Fleet, NEW z \in Tracked
               PROVE  Follows(vehicles'[w].sequences[z], held[w][z], About(w, z)', z,
                              vehicles'[w].routeId, vehicles'[w].reported, now)
    BY DEF Caught, Followed
  <2>1. Follows(vehicles[w].sequences[z], held[w][z], About(w, z), z,
                vehicles[w].routeId, vehicles[w].reported, now)
    BY DEF Caught, Followed
  <2>2. CASE w # v
    BY <1>8, <2>1, <2>2 DEF Replaced
  <2>3. CASE w = v /\ ~Tells(events, z)
    <3>1. vehicles'[v].sequences[z] = vehicles[v].sequences[z]
      BY <2>3, SequencesAreNumbers DEF Sent
    <3>2. /\ z = "route" => vehicles'[v].routeId = vehicles[v].routeId
          /\ z = "status" => vehicles'[v].reported = vehicles[v].reported
      BY <2>3 DEF Sent, Faithful
    <3>3. About(v, z)' = About(v, z)
      BY <1>9, <2>3
    <3>4. QED
      BY <2>1, <2>3, <3>1, <3>2, <3>3 DEF Follows, Agrees
  <2>4. CASE w = v /\ Tells(events, z)
    <3>1. PICK i \in 1..n : NumberedBy(events[i].type) = z
      BY <1>2, <2>4 DEF Tells
    <3>2. vehicles'[v].sequences[z] = vehicles[v].sequences[z] + 1
      BY <2>4 DEF Sent
    <3>3. Agrees(Word(Rec(i)), z, vehicles'[v].routeId, vehicles'[v].reported)
      <4>1. Word(Rec(i)) = Word(events[i])
        BY <1>5 DEF Word
      <4>2. QED
        BY <1>2, <3>1, <4>1 DEF Sent, Faithful
    <3>4. About(v, z)' = About(v, z) \cup {Rec(i)}
      BY <1>10, <3>1
    <3>5. PICK R \in SUBSET Records, cell \in Cells, c \in Nat :
            R = About(v, z) /\ cell = held[v][z] /\ c = vehicles[v].sequences[z]
      BY TransitOfRecords, SequencesAreNumbers
    <3>6. Rec(i) \in Records /\ Rec(i).sequence = c + 1 /\ Rec(i).observedAt = now /\ now \in Nat
      BY <1>3, <1>5, <3>1, <3>5 DEF Types
    <3>9. Rec(i).type = "RouteCleared" => z = "route" /\ Rec(i).value = vehicles[v].routeId
      BY <1>2, <1>5, <3>1, SignalOfSayings DEF Sent, Faithful
    <3>7. Follows(c + 1, cell, R \cup {Rec(i)}, z, vehicles'[v].routeId, vehicles'[v].reported, now)
      BY <2>1, <2>4, <3>3, <3>5, <3>6, <3>9, NextWord
    <3>8. QED
      BY <2>4, <3>2, <3>4, <3>5, <3>7
  <2>5. QED
    BY <2>2, <2>3, <2>4
<1>14. QED
  BY <1>6, <1>11, <1>12, <1>13

\* Steps that leave what is on its way, and what has been told, alone.
LEMMA NothingSaid ==
  ASSUME Types, Lined, Caught, now' \in {now, now + 1},
         Lined', Transit' = Transit, held' = held,
         \A v \in Fleet : /\ vehicles'[v].sequences = vehicles[v].sequences
                          /\ vehicles'[v].routeId = vehicles[v].routeId
                          /\ vehicles'[v].reported = vehicles[v].reported
  PROVE  Caught' /\ Retained
<1>1. \A v, s : About(v, s)' = About(v, s)
  BY DEF About
<1>3. Retained
  BY <1>1 DEF Retained, Observed
<1>4. ASSUME NEW v \in Fleet, NEW s \in Tracked
      PROVE  Followed(v, s)'
  <2>1. Follows(vehicles[v].sequences[s], held[v][s], About(v, s), s,
                vehicles[v].routeId, vehicles[v].reported, now)
    BY DEF Caught, Followed
  <2>2. /\ held[v][s].observedAt \in Nat /\ now \in Nat /\ now' \in Nat /\ now <= now'
        /\ \A r \in About(v, s) : r.observedAt \in Nat
    BY TransitOfRecords DEF Types, Cells, Records
  <2>3. Follows(vehicles[v].sequences[s], held[v][s], About(v, s), s,
                vehicles[v].routeId, vehicles[v].reported, now')
    BY <2>1, <2>2 DEF Follows
  <2>4. QED
    BY <1>1, <2>3 DEF Followed
<1>5. QED
  BY <1>3, <1>4 DEF Caught

\* A record received twice is received once.
LEMMA ReceivedOnce ==
  ASSUME Lined, NEW r \in Records
  PROVE  Consume(Consume(held, r), r) = Consume(held, r)
<1> DEFINE v == r.vehicle
           s == SignalOf(r.type)
           h == Consume(held, r)
<1>1. v \in Fleet /\ s \in Tracked /\ r.sequence \in Nat /\ held[v][s].sequence \in Nat
  <2>1. r.vehicle \in Fleet /\ r.type \in Sayings /\ r.sequence \in Nat
    BY DEF Records
  <2>2. s \in Tracked
    BY <2>1, SignalOfSayings DEF NumberedBy
  <2>3. QED
    BY <2>1, <2>2 DEF Lined, Cells
<1>2. ~(r.sequence > h[v][s].sequence)
  <2>1. CASE r.sequence > held[v][s].sequence
    <3>1. h[v][s].sequence = r.sequence
      BY <1>1, <2>1 DEF Consume, Lined
    <3>2. QED
      BY <1>1, <3>1
  <2>2. CASE ~(r.sequence > held[v][s].sequence)
    BY <2>2 DEF Consume
  <2>3. QED
    BY <2>1, <2>2
<1> HIDE DEF h
<1>3. Consume(h, r) = h
  BY <1>2 DEF Consume
<1>4. QED
  BY <1>3 DEF h

\* The head of the outbox, and what is left.
LEMMA OutboxSplit ==
  ASSUME Lined, outbox # <<>>, outbox' = Tail(outbox)
  PROVE  /\ Head(outbox) \in Transit /\ Head(outbox) \in Records
         /\ outbox' \in Seq(Records)
         /\ {outbox'[i] : i \in DOMAIN outbox'} \subseteq {outbox[i] : i \in DOMAIN outbox}
         /\ {outbox[i] : i \in DOMAIN outbox}
              = {outbox'[i] : i \in DOMAIN outbox'} \cup {Head(outbox)}
<1>1. /\ outbox \in Seq(Records) /\ Len(outbox) \in Nat /\ Len(outbox) >= 1
      /\ DOMAIN outbox = 1..Len(outbox) /\ Head(outbox) = outbox[1]
  BY DEF Lined
<1>2. /\ outbox' \in Seq(Records) /\ DOMAIN outbox' = 1..(Len(outbox) - 1)
      /\ \A i \in 1..(Len(outbox) - 1) : outbox'[i] = outbox[i + 1]
  BY <1>1
<1>3. 1 \in DOMAIN outbox /\ Head(outbox) \in Records
  BY <1>1
<1>4. \A i \in DOMAIN outbox' : i + 1 \in DOMAIN outbox
  BY <1>1, <1>2
<1>5. \A i \in DOMAIN outbox : i = 1 \/ (i - 1 \in DOMAIN outbox' /\ outbox'[i - 1] = outbox[i])
  BY <1>1, <1>2
<1> DEFINE Out == {outbox[i] : i \in DOMAIN outbox}
<1>6. Out' \subseteq Out
  <2>1. \A i \in DOMAIN outbox' : outbox'[i] = outbox[i + 1]
    BY <1>2
  <2>2. QED
    BY <1>4, <2>1
<1>7. Out \subseteq Out' \cup {Head(outbox)}
  BY <1>1, <1>5
<1>8. Head(outbox) \in Out
  BY <1>1, <1>3
<1>9. QED
  BY <1>2, <1>3, <1>6, <1>7, <1>8 DEF Transit

LEMMA Sends ==
  ASSUME Types, Lined, Caught, Send
  PROVE  Lined' /\ Caught' /\ Retained
<1> DEFINE r == Head(outbox)
           Out == {outbox[i] : i \in DOMAIN outbox}
<1>1. /\ outbox # <<>> /\ outbox' = Tail(outbox)
      /\ UNCHANGED <<now, step, vehicles, assigned>>
      /\ \/ held' = Consume(held, r) /\ pending' = pending
         \/ held' = Consume(Consume(held, r), r) /\ pending' = pending
         \/ /\ \E delay \in DelayMin..(DelayMax - 1) :
                 pending' = Append(pending, [at |-> now + delay, record |-> r])
            /\ held' = held
  BY Zenon DEF Send
<1>2. /\ r \in Transit /\ r \in Records /\ outbox' \in Seq(Records)
      /\ Out' \subseteq Out /\ Out = Out' \cup {r}
  BY <1>1, OutboxSplit
<1>3. CASE held' = Consume(held, r) /\ pending' = pending
  <2>1. Transit' \subseteq Transit /\ Transit \subseteq Transit' \cup {r}
    BY <1>2, <1>3 DEF Transit
  <2>2. Caught' /\ Retained /\ held' \in [Fleet -> [Tracked -> Cells]]
    BY <1>1, <1>2, <1>3, <2>1, Handed
  <2>3. QED
    BY <1>2, <1>3, <2>2 DEF Lined
<1>4. CASE \E delay \in DelayMin..(DelayMax - 1) :
             /\ pending' = Append(pending, [at |-> now + delay, record |-> r])
             /\ held' = held
  <2>1. PICK delay \in DelayMin..(DelayMax - 1) :
             /\ pending' = Append(pending, [at |-> now + delay, record |-> r])
             /\ held' = held
    BY <1>4
  <2>2. now + delay \in Nat
    BY SimulatorAssumption DEF Types
  <2> DEFINE item == [at |-> now + delay, record |-> r]
             Put == {pending[i].record : i \in DOMAIN pending}
  <2>3. item \in Delayed /\ item.record = r
    BY <1>2, <2>2 DEF Delayed
  <2> HIDE DEF item
  <2>4. /\ pending \in Seq(Delayed) /\ DOMAIN pending = 1..Len(pending) /\ Len(pending) \in Nat
        /\ pending' \in Seq(Delayed) /\ DOMAIN pending' = 1..(Len(pending) + 1)
        /\ pending'[Len(pending) + 1] = item
        /\ \A i \in 1..Len(pending) : pending'[i] = pending[i]
    BY <2>1, <2>3 DEF Lined, item
  <2>5. Put' = Put \cup {r}
    BY <2>3, <2>4
  <2>6. Transit' = Transit
    BY <1>2, <2>5 DEF Transit
  <2>7. Lined'
    BY <1>2, <2>1, <2>4 DEF Lined
  <2>8. QED
    BY <1>1, <2>1, <2>6, <2>7, NothingSaid DEF Types
<1>5. QED
  BY <1>1, <1>2, <1>3, <1>4, ReceivedOnce

LEMMA HandsOver ==
  ASSUME Types, Lined, Caught, Release
  PROVE  Lined' /\ Caught' /\ Retained
<1>1. PICK i \in DOMAIN pending :
        /\ held' = Consume(held, pending[i].record)
        /\ pending' = RemoveAt(pending, i)
  BY Zenon DEF Release
<1>2. now' = now /\ vehicles' = vehicles /\ outbox' = outbox
  BY Releases
<1> DEFINE Put == {pending[j].record : j \in DOMAIN pending}
           r == pending[i].record
<1>3. /\ pending' \in Seq(Delayed)
      /\ \A j \in DOMAIN pending' : \E k \in DOMAIN pending : pending'[j] = pending[k]
      /\ \A k \in DOMAIN pending \ {i} : \E j \in DOMAIN pending' : pending'[j] = pending[k]
  BY <1>1, TakenOut DEF Lined
<1>4. Put' \subseteq Put /\ Put \subseteq Put' \cup {r}
  BY <1>3
<1>5. /\ r \in Transit /\ Transit' \subseteq Transit /\ Transit \subseteq Transit' \cup {r}
  BY <1>2, <1>4 DEF Transit
<1>6. Caught' /\ Retained /\ held' \in [Fleet -> [Tracked -> Cells]]
  BY <1>1, <1>2, <1>5, Handed
<1>7. QED
  BY <1>2, <1>3, <1>6 DEF Lined

\* A step that sends nothing and hands over nothing leaves the line as it is.
LEMMA Idle ==
  ASSUME Types, Lined, Caught, now' \in {now, now + 1},
         UNCHANGED <<vehicles, outbox, pending, held>>
  PROVE  Lined' /\ Caught' /\ Retained
<1>1. Lined' /\ Transit' = Transit /\ held' = held
  BY DEF Lined, Transit
<1>2. QED
  BY <1>1, NothingSaid

LEMMA LineStep ==
  ASSUME Types, Lined, Caught, Next
  PROVE  Lined' /\ Caught' /\ Retained
<1>1. CASE UNCHANGED <<vehicles, outbox, pending, held>> /\ now' \in {now, now + 1}
  BY <1>1, Idle
<1>2. CASE Send
  BY <1>2, Sends
<1>3. CASE Release
  BY <1>3, HandsOver
<1>4. CASE Advance
  <2>1. now' = now /\ pending' = pending /\ held' = held
    BY <1>4, Zenon DEF Advance
  <2>2. QED
    BY <1>4, <2>1, Advanced, Spreads
<1>5. CASE Dispatch
  <2>1. now' = now /\ pending' = pending /\ held' = held
    BY <1>5, Zenon DEF Dispatch
  <2>2. QED
    BY <1>5, <2>1, Dispatched, Spreads
<1>6. CASE Replan
  <2>1. now' = now /\ pending' = pending /\ held' = held
    BY <1>6, Zenon DEF Replan
  <2>2. QED
    BY <1>6, <2>1, Replanned, Spreads
<1>7. CASE Speak
  <2>1. now' = now /\ pending' = pending /\ held' = held
    BY <1>7, Zenon DEF Speak
  <2>2. QED
    BY <1>7, <2>1, Reports, Spreads
<1>8. CASE FallSilent
  <2>1. now' = now /\ outbox' = outbox /\ pending' = pending /\ held' = held
    BY <1>8, Zenon DEF FallSilent
  <2>2. Lined' /\ Transit' = Transit
    BY <2>1 DEF Lined, Transit
  <2>3. \A w \in Fleet : /\ vehicles'[w].sequences = vehicles[w].sequences
                         /\ vehicles'[w].routeId = vehicles[w].routeId
                         /\ vehicles'[w].reported = vehicles[w].reported
    BY <1>8, Reports DEF Replaced
  <2>4. QED
    BY <2>1, <2>2, <2>3, NothingSaid
<1>9. QED
  BY <1>1, <1>2, <1>3, <1>4, <1>5, <1>6, <1>7, <1>8
     DEF Next, EndRelease, Count, EndDispatch, PassOver, NotItsTurn, KeepPlan, StayQuiet, EndStep

---------------------------------------------------------------------------
(* What a dropout delays. *)

\* Whether a vehicle is quiet, and whether it is its turn, depends on the time and on
\* how long its dropout lasts.
LEMMA SameAudience ==
  ASSUME NEW w \in Fleet, now \in Nat, Retained, now' = now, vehicles'[w] = vehicles[w], Told(w)
  PROVE  Told(w)'
<1>1. HasTurn(w)' <=> HasTurn(w)
  BY DEF HasTurn
<1>2. Quiet(w)' <=> Quiet(w)
  BY DEF Quiet
<1>3. Observed(w, now) => Observed(w, now)'
  <2>1. PICK t \in Nat : t = now
    OBVIOUS
  <2>2. Observed(w, t) => Observed(w, t)'
    BY DEF Retained
  <2>3. QED
    BY <2>1, <2>2 DEF Observed
<1>4. QED
  BY <1>1, <1>2, <1>3 DEF Told

\* What is said is observed.
LEMMA SaidIsObserved ==
  ASSUME Types, Lined, Caught, Speak, NEW v \in Fleet, v = step.turn
  PROVE  Observed(v, now)'
<1>1. now' = now /\ pending' = pending /\ held' = held
  BY Zenon DEF Speak
<1>2. QED
  BY <1>1, Reports, Spreads

\* The turn of one vehicle ends: it joins those heard.
LEMMA OneMoreHeard ==
  ASSUME Types, step.phase \in {"report", "speak"}, NextTurn("report", "end")
  PROVE  Heard' \subseteq Heard \cup {step.turn}
<1>1. step.turn \in Fleet /\ FleetSize \in Nat
  BY SimulatorAssumption DEF Types
<1>2. CASE step'.phase = "report" /\ step'.turn = step.turn + 1
  BY <1>1, <1>2 DEF Heard, Fleet
<1>3. CASE step'.phase = "end" /\ step.turn = FleetSize
  BY <1>1, <1>3 DEF Heard, Fleet
<1>4. QED
  BY <1>2, <1>3, Turns DEF Phases

\* When a loop that comes before the reports goes on, or the reports begin.
LEMMA NobodyHeard ==
  ASSUME Types, step' \in [phase : Phases, turn : Fleet, start : Fleet, enRoute : Nat],
         \/ step'.phase \notin {"report", "speak", "end"}
         \/ step'.phase = "report" /\ step'.turn = 1
  PROVE  Made'
<1>1. Heard' = {}
  BY SimulatorAssumption DEF Heard, Fleet
<1>2. QED
  BY <1>1 DEF Made

LEMMA MadeStep ==
  ASSUME Types, Lined, Caught, Made, Next
  PROVE  Made'
<1> DEFINE Steps == [phase : Phases, turn : Fleet, start : Fleet, enRoute : Nat]
<1> PICK v \in Fleet : v = step.turn
  BY DEF Types
<1>1. Types' /\ Retained /\ now \in Nat /\ Heard \subseteq Fleet
  BY TypesStep, LineStep DEF Types, Heard
<1>2. step' \in Steps /\ step \in Steps
  BY <1>1 DEF Types
<1>3. CASE Send
  <2>1. Heard' = Heard /\ now' = now /\ vehicles' = vehicles
    BY <1>3 DEF Send, Heard
  <2>2. QED
    BY <2>1, <1>1, SameAudience DEF Made
<1>4. CASE Release \/ EndRelease \/ Count \/ EndDispatch \/ EndStep
  <2>1. \/ step'.phase \notin {"report", "speak", "end"}
        \/ step'.phase = "report" /\ step'.turn = 1
    <3>1. \/ Go("advance") \/ Go("report") \/ Go("release") \/ step'.phase = "dispatch"
          \/ step' = step /\ step.phase = "release"
      <4>1. CASE Count
        BY <4>1 DEF Count
      <4>2. CASE EndDispatch
        BY <4>2, Zenon DEF EndDispatch
      <4>3. CASE EndStep
        BY <4>3, Zenon DEF EndStep
      <4>4. QED
        BY <1>4, <4>1, <4>2, <4>3, Releases
    <3>2. QED
      BY <1>2, <3>1 DEF Go
  <2>2. QED
    BY <1>2, <2>1, NobodyHeard
<1>5. CASE Advance
  <2>1. NextTurn("advance", "count")
    BY <1>5, Zenon DEF Advance
  <2>2. step'.phase \in {"advance", "count"}
    BY <2>1, Turns DEF Phases
  <2>3. QED
    BY <1>2, <2>2, NobodyHeard
<1>6. CASE PassOver
  <2>1. NextTurn("dispatch", "report")
    BY <1>6, Zenon DEF PassOver
  <2>2. step'.phase = "dispatch" \/ (step'.phase = "report" /\ step'.turn = 1)
    BY <2>1, Turns DEF Phases
  <2>3. QED
    BY <1>2, <2>2, NobodyHeard
<1>7. CASE Dispatch
  <2>1. step.phase = "dispatch"
    BY <1>7 DEF Dispatch, Looking
  <2>2. step'.phase = "dispatch" \/ (step'.phase = "report" /\ step'.turn = 1)
    BY <1>2, <1>7, <2>1 DEF Dispatch
  <2>3. QED
    BY <1>2, <2>2, NobodyHeard
<1>8. CASE KeepPlan \/ Replan
  <2>1. step.phase = "report" /\ now' = now /\ step' = [step EXCEPT !.phase = "speak"]
    <3>1. Turn("report") /\ UNCHANGED now /\ step' = [step EXCEPT !.phase = "speak"]
      BY <1>8, Zenon DEF KeepPlan, Replan
    <3>2. QED
      BY <3>1 DEF Turn
  <2>2. Heard' = Heard /\ v \notin Heard
    BY <1>2, <2>1, SimulatorAssumption DEF Heard, Fleet
  <2>3. \A w \in Heard : w \in Fleet \ {v}
    BY <2>1, <2>2 DEF Heard
  <2>4. \A w \in Heard : vehicles'[w] = vehicles[w]
    <3>1. CASE KeepPlan
      BY <3>1 DEF KeepPlan
    <3>2. CASE Replan
      BY <2>3, <3>2, Replanned DEF Replaced
    <3>3. QED
      BY <1>8, <3>1, <3>2
  <2>5. QED
    BY <2>1, <2>2, <2>4, <1>1, SameAudience DEF Made
<1>9. CASE NotItsTurn \/ StayQuiet \/ FallSilent \/ Speak
  <2>1. /\ step.phase \in {"report", "speak"} /\ NextTurn("report", "end") /\ now' = now
    <3>1. (Turn("report") \/ Turn("speak")) /\ NextTurn("report", "end") /\ UNCHANGED now
      BY <1>9, Zenon DEF NotItsTurn, StayQuiet, FallSilent, Speak
    <3>2. QED
      BY <3>1 DEF Turn
  <2>2. Heard' \subseteq Heard \cup {v}
    BY <2>1, OneMoreHeard
  <2>3. \A w \in Heard \ {v} : vehicles'[w] = vehicles[w]
    <3>1. CASE NotItsTurn \/ StayQuiet
      BY <3>1 DEF NotItsTurn, StayQuiet
    <3>2. CASE FallSilent \/ Speak
      BY <2>1, <3>2, Reports DEF Replaced, Heard
    <3>3. QED
      BY <1>9, <3>1, <3>2
  <2>4. \A w \in Heard \ {v} : Told(w)'
    BY <2>1, <2>3, <1>1, SameAudience DEF Made
  <2>5. Told(v)'
    <3>1. CASE NotItsTurn
      <4>1. ~HasTurn(v) /\ now' = now
        BY <3>1, Zenon DEF NotItsTurn
      <4>2. ~(now' % TicksPerReport = Slot(v))
        BY <4>1 DEF HasTurn
      <4>3. QED
        BY <4>2, Zenon DEF Told, HasTurn
    <3>2. CASE StayQuiet
      <4>1. Quiet(v) /\ now' = now /\ vehicles' = vehicles
        BY <3>2, Zenon DEF StayQuiet
      <4>2. Mute(v) \/ now' < vehicles'[v].silentUntil
        BY <4>1 DEF Quiet
      <4>3. QED
        BY <4>2, Zenon DEF Told, Quiet
    <3>3. CASE FallSilent \/ Speak
      <4>1. \/ vehicles'[v].reported = StatusOf(vehicles'[v].leg) /\ Observed(v, now)'
            \/ vehicles'[v].silentUntil > now'
        BY <2>1, <3>3, Reports, SaidIsObserved
      <4>2. \/ now' < vehicles'[v].silentUntil
            \/ vehicles'[v].reported = StatusOf(vehicles'[v].leg) /\ Observed(v, now)'
        BY <1>1, <1>2, <4>1 DEF Types, IsVehicle
      <4>3. QED
        BY <4>2, Zenon DEF Told, Quiet
    <3>4. QED
      BY <1>9, <3>1, <3>2, <3>3
  <2>6. QED
    BY <2>2, <2>4, <2>5 DEF Made
<1>10. QED
  BY <1>3, <1>4, <1>5, <1>6, <1>7, <1>8, <1>9 DEF Next

\* A dropout never ends sooner than it was to.
LEMMA LongerSilence ==
  ASSUME Types, Next, NEW v \in Fleet
  PROVE  \/ vehicles'[v].silentUntil = vehicles[v].silentUntil
         \/ vehicles'[v].silentUntil > now
<1>1. CASE vehicles' = vehicles
  BY <1>1
<1>2. CASE Advance
  BY <1>2, Advanced DEF Replaced
<1>3. CASE Dispatch
  BY <1>3, Dispatched DEF Replaced
<1>4. CASE Replan
  BY <1>4, Replanned DEF Replaced
<1>5. CASE Speak \/ FallSilent
  BY <1>5, Reports DEF Replaced
<1>6. QED
  BY <1>1, <1>2, <1>3, <1>4, <1>5, Releases
     DEF Next, Send, Count, EndDispatch, PassOver, NotItsTurn, KeepPlan, StayQuiet, EndStep

\* The steps that do not end a tick stay in it.
LEMMA SameTick ==
  ASSUME Next
  PROVE  now' = now \/ EndStep
<1>1. CASE Advance \/ Dispatch \/ Replan \/ Speak \/ FallSilent \/ Send
  <2>1. UNCHANGED now
    BY <1>1, Zenon DEF Advance, Dispatch, Replan, Speak, FallSilent, Send
  <2>2. QED
    BY <2>1
<1>2. QED
  BY <1>1, Releases DEF Next, Count, EndDispatch, PassOver, NotItsTurn, KeepPlan, StayQuiet

LEMMA PastStep ==
  ASSUME Types, Lined, Caught, Made, Past, Next
  PROVE  Past'
<1>1. Types' /\ Retained /\ now \in Nat
  BY TypesStep, LineStep DEF Types
<1> SUFFICES ASSUME NEW v \in Fleet, NEW t \in Nat, ~Mute(v), t < now',
                    t % TicksPerReport = Slot(v), vehicles'[v].silentUntil <= t
             PROVE  Observed(v, t)'
  BY DEF Past
<1>2. vehicles[v].silentUntil \in Nat /\ vehicles'[v].silentUntil \in Nat
  BY <1>1 DEF Types, IsVehicle
<1>3. CASE t < now
  <2>1. vehicles[v].silentUntil <= t
    BY <1>1, <1>2, <1>3, LongerSilence
  <2>2. Observed(v, t)
    BY <1>3, <2>1 DEF Past
  <2>3. QED
    BY <1>1, <2>2 DEF Retained
<1>4. CASE ~(t < now)
  <2>1. EndStep /\ t = now
    <3>1. EndStep
      BY <1>4, SameTick
    <3>2. now' = now + 1
      BY <3>1 DEF EndStep
    <3>3. QED
      BY <1>1, <1>4, <3>1, <3>2
  <2>2. v \in Heard /\ vehicles' = vehicles
    BY <2>1 DEF EndStep, Turn, Heard
  <2>3. HasTurn(v) /\ ~Quiet(v)
    BY <1>1, <1>2, <2>1, <2>2 DEF HasTurn, Quiet
  <2>4. Observed(v, t)
    BY <2>1, <2>2, <2>3 DEF Made, Told
  <2>5. QED
    BY <1>1, <2>4 DEF Retained
<1>5. QED
  BY <1>3, <1>4

---------------------------------------------------------------------------
(* What is kept for later. *)

\* Nothing is kept beyond the tick in which it is due, and what has just been said waits
\* for nothing.
Kept ==
  /\ now <= MaxTicks /\ (step.phase # "release" => now < MaxTicks)
  /\ Len(pending) <= MaxPending
  /\ \A i \in DOMAIN pending :
       pending[i].at >= now /\ (step.phase # "release" => pending[i].at > now)
  /\ \A i \in DOMAIN outbox : outbox[i].observedAt = now

LEMMA KeptStep ==
  ASSUME Types, Lined, Kept, Next
  PROVE  Kept'
<1>1. now \in Nat /\ MaxTicks \in Nat /\ MaxPending \in Nat /\ 0 < DelayMin
  BY SimulatorAssumption DEF Types
<1>2. /\ \A i \in DOMAIN pending : pending[i] \in Delayed /\ pending[i].at \in Nat
      /\ pending \in Seq(Delayed)
  <2>1. pending \in Seq(Delayed)
    BY DEF Lined
  <2>2. \A i \in DOMAIN pending : pending[i] \in Delayed
    BY <2>1
  <2>3. QED
    BY <2>1, <2>2 DEF Delayed
<1>3. ASSUME now' = now, pending' = pending, step'.phase = "release" \/ step.phase # "release",
             outbox' = outbox \/ \E v, events : Sent(v, events)
      PROVE  Kept'
  <2>1. \A i \in DOMAIN outbox' : outbox'[i].observedAt = now
    <3>1. CASE outbox' = outbox
      BY <3>1 DEF Kept
    <3>2. ASSUME NEW v, NEW events, Sent(v, events)
          PROVE  \A i \in DOMAIN outbox' : outbox'[i].observedAt = now
      BY <3>2 DEF Sent, Numbered
    <3>3. QED
      BY <1>3, <3>1, <3>2
  <2>2. QED
    BY <1>3, <2>1 DEF Kept
<1>4. CASE Release
  <2>1. PICK i \in DOMAIN pending : pending' = RemoveAt(pending, i)
    BY <1>4, Zenon DEF Release
  <2>2. /\ Len(pending') = Len(pending) - 1 /\ pending' \in Seq(Delayed)
        /\ \A j \in DOMAIN pending' : \E k \in DOMAIN pending : pending'[j] = pending[k]
    BY <1>2, <2>1, TakenOut
  <2>3. Len(pending') <= MaxPending
    BY <1>1, <1>2, <2>2 DEF Kept
  <2>4. now' = now /\ outbox' = outbox /\ step' = step
    BY <1>4, Zenon DEF Release
  <2>5. QED
    BY <2>2, <2>3, <2>4 DEF Kept
<1>5. CASE EndRelease
  <2>1. /\ \A i \in DOMAIN pending : ~(pending[i].at <= now)
        /\ now < MaxTicks /\ UNCHANGED <<now, outbox, pending>>
    BY <1>5 DEF EndRelease, Due
  <2>2. QED
    BY <1>1, <1>2, <2>1 DEF Kept
<1>6. CASE Send
  <2>1. /\ outbox # <<>> /\ outbox' = Tail(outbox) /\ now' = now /\ step' = step
        /\ \/ pending' = pending
           \/ /\ Len(pending) < MaxPending
              /\ \E delay \in DelayMin..(DelayMax - 1) :
                   pending' = Append(pending, [at |-> now + delay, record |-> Head(outbox)])
    <3>1. /\ outbox # <<>> /\ outbox' = Tail(outbox) /\ UNCHANGED <<now, step, vehicles, assigned>>
          /\ \/ pending' = pending
             \/ /\ Len(pending) < MaxPending
                /\ \E delay \in DelayMin..(DelayMax - 1) :
                     pending' = Append(pending, [at |-> now + delay, record |-> Head(outbox)])
      BY <1>6, Zenon DEF Send
    <3>2. QED
      BY <3>1
  <2>2. \A i \in DOMAIN outbox' : outbox'[i].observedAt = now
    <3>1. \A i \in DOMAIN outbox' : \E j \in DOMAIN outbox : outbox'[i] = outbox[j]
      BY <2>1, OutboxSplit
    <3>2. QED
      BY <3>1 DEF Kept
  <2>3. CASE pending' = pending
    BY <2>1, <2>2, <2>3 DEF Kept
  <2>4. CASE /\ Len(pending) < MaxPending
             /\ \E delay \in DelayMin..(DelayMax - 1) :
                  pending' = Append(pending, [at |-> now + delay, record |-> Head(outbox)])
    <3>1. PICK delay \in DelayMin..(DelayMax - 1) :
            pending' = Append(pending, [at |-> now + delay, record |-> Head(outbox)])
      BY <2>4
    <3>2. delay \in Nat /\ delay > 0
      BY <1>1, SimulatorAssumption
    <3> DEFINE item == [at |-> now + delay, record |-> Head(outbox)]
    <3>3. item \in Delayed /\ item.at = now + delay
      BY <1>1, <2>1, <3>2, OutboxSplit DEF Delayed
    <3> HIDE DEF item
    <3>4. /\ Len(pending') = Len(pending) + 1 /\ Len(pending) \in Nat
          /\ \A i \in DOMAIN pending' : pending'[i] = item \/ (i \in DOMAIN pending /\ pending'[i] = pending[i])
      BY <1>2, <3>1, <3>3 DEF item
    <3>5. Len(pending') <= MaxPending
      BY <1>1, <2>4, <3>4
    <3>6. \A i \in DOMAIN pending' : pending'[i].at > now \/ (i \in DOMAIN pending /\ pending'[i] = pending[i])
      BY <1>1, <3>2, <3>3, <3>4
    <3>7. \A i \in DOMAIN pending' :
            pending'[i].at >= now /\ (step.phase # "release" => pending'[i].at > now)
      BY <1>1, <3>2, <3>3, <3>4 DEF Kept
    <3>8. QED
      BY <2>1, <2>2, <3>5, <3>7 DEF Kept
  <2>5. QED
    BY <2>1, <2>3, <2>4
<1>7. CASE EndStep
  <2>1. /\ step.phase = "end" /\ outbox = <<>> /\ now' = now + 1
        /\ outbox' = outbox /\ pending' = pending /\ Go("release")
    BY <1>7 DEF EndStep, Turn
  <2>2. step'.phase = "release"
    BY <2>1 DEF Go, Types
  <2>3. QED
    BY <1>1, <1>2, <2>1, <2>2 DEF Kept
<1>8. CASE Advance
  <2>1. step.phase = "advance" /\ now' = now /\ pending' = pending
    BY <1>8, Zenon DEF Advance
  <2>2. QED
    BY <1>3, <1>8, <2>1, Advanced
<1>9. CASE Dispatch
  <2>1. step.phase = "dispatch" /\ now' = now /\ pending' = pending
    BY <1>9, Zenon DEF Dispatch, Looking
  <2>2. QED
    BY <1>3, <1>9, <2>1, Dispatched
<1>10. CASE Replan
  <2>1. step.phase = "report" /\ now' = now /\ pending' = pending
    BY <1>10, Zenon DEF Replan, Turn
  <2>2. QED
    BY <1>3, <1>10, <2>1, Replanned
<1>11. CASE Speak
  <2>1. step.phase = "speak" /\ now' = now /\ pending' = pending
    BY <1>11, Zenon DEF Speak, Turn
  <2>2. QED
    BY <1>3, <1>11, <2>1, Reports
<1>12. CASE Count \/ EndDispatch \/ PassOver \/ NotItsTurn \/ KeepPlan \/ StayQuiet \/ FallSilent
  <2>1. step.phase # "release" /\ now' = now /\ pending' = pending /\ outbox' = outbox
    <3>1. /\ step.phase \in {"count", "dispatch", "report", "speak"}
          /\ UNCHANGED now /\ UNCHANGED pending /\ UNCHANGED outbox
      BY <1>12, Zenon DEF Count, EndDispatch, PassOver, NotItsTurn, KeepPlan, StayQuiet,
                          FallSilent, Looking, Turn
    <3>2. QED
      BY <3>1
  <2>2. QED
    BY <1>3, <2>1
<1>13. QED
  BY <1>4, <1>5, <1>6, <1>7, <1>8, <1>9, <1>10, <1>11, <1>12 DEF Next

---------------------------------------------------------------------------
(* The search that goes round the fleet. *)

LEMMA ModSmall ==
  ASSUME NEW n \in Nat \ {0}, NEW a \in 0..(n - 1)
  PROVE  a % n = a
OBVIOUS

LEMMA ModOnceAround ==
  ASSUME NEW n \in Nat \ {0}, NEW a \in 0..(n - 1)
  PROVE  (a + n) % n = a
OBVIOUS

\* Wherever the search starts, every vehicle has its turn.
LEMMA EveryoneIsSeen ==
  ASSUME Types, NEW v \in Fleet
  PROVE  \E t \in 1..FleetSize : Seen(t) = v
<1>1. FleetSize \in Nat \ {0} /\ step.start \in 1..FleetSize /\ v \in 1..FleetSize
  BY SimulatorAssumption DEF Types, Fleet
<1>2. PICK n \in Nat \ {0}, s \in Nat :
        n = FleetSize /\ s = step.start /\ s \in 1..n /\ v \in 1..n
  BY <1>1
<1>3. CASE v >= s
  <2>1. PICK t \in 1..n : s + t - 2 = v - 1
    <3>1. v - s + 1 \in 1..n /\ s + (v - s + 1) - 2 = v - 1
      BY <1>2, <1>3
    <3>2. QED
      BY <3>1
  <2>2. (v - 1) % n = v - 1
    BY <1>2, ModSmall
  <2>3. Seen(t) = ((v - 1) % n) + 1
    BY <1>2, <2>1, Zenon DEF Seen
  <2>4. QED
    BY <1>1, <1>2, <2>2, <2>3
<1>4. CASE v < s
  <2>1. PICK t \in 1..n : s + t - 2 = (v - 1) + n
    <3>1. v - s + 1 + n \in 1..n /\ s + (v - s + 1 + n) - 2 = (v - 1) + n
      BY <1>2, <1>4
    <3>2. QED
      BY <3>1
  <2>2. ((v - 1) + n) % n = v - 1
    BY <1>2, ModOnceAround
  <2>3. Seen(t) = (((v - 1) + n) % n) + 1
    BY <1>2, <2>1, Zenon DEF Seen
  <2>4. QED
    BY <1>1, <1>2, <2>2, <2>3
<1>5. QED
  BY <1>2, <1>3, <1>4

\* Looking at one more vehicle ends the search, or makes it one more seen.
LEMMA OneMoreSeen ==
  ASSUME Types, step.phase = "dispatch", Sought,
         step' \in [phase : Phases, turn : Fleet, start : Fleet, enRoute : Nat],
         step'.start = step.start,
         \/ step'.phase = "dispatch" /\ step'.turn = step.turn + 1
         \/ step'.phase = "report" /\ step.turn = FleetSize,
         \A v \in Fleet : ~Eligible(vehicles[v]) => ~Eligible(vehicles'[v]),
         ~Eligible(vehicles'[Candidate])
  PROVE  Sought'
<1>1. FleetSize \in Nat \ {0} /\ step.turn \in 1..FleetSize /\ step.start \in 1..FleetSize
  BY SimulatorAssumption DEF Types, Fleet
<1>2. Seen(step.turn) = Candidate
  BY <1>1 DEF Seen, Candidate
<1>3. \A t \in 1..FleetSize : Seen(t) \in Fleet
  <2> SUFFICES ASSUME NEW t \in 1..FleetSize PROVE Seen(t) \in Fleet
    OBVIOUS
  <2>1. step.start + t - 2 \in Int
    BY <1>1
  <2>2. (step.start + t - 2) % FleetSize \in 0..(FleetSize - 1)
    BY <1>1, <2>1
  <2>3. QED
    BY <1>1, <2>2 DEF Seen, Fleet
<1>4. \A t \in 1..FleetSize : t < step.turn + 1 => ~Eligible(vehicles'[Seen(t)])
  <2> SUFFICES ASSUME NEW t \in 1..FleetSize, t < step.turn + 1
               PROVE  ~Eligible(vehicles'[Seen(t)])
    OBVIOUS
  <2>1. CASE t < step.turn
    BY <1>3, <2>1 DEF Sought
  <2>2. CASE t = step.turn
    BY <1>2, <2>2
  <2>3. QED
    BY <1>1, <2>1, <2>2
<1>5. CASE step'.phase = "dispatch" /\ step'.turn = step.turn + 1
  <2>1. \A t : Seen(t)' = Seen(t)
    BY DEF Seen
  <2>2. QED
    BY <1>4, <1>5, <2>1 DEF Sought, TargetHeld, Eligible
<1>6. CASE step'.phase = "report" /\ step.turn = FleetSize
  <2>1. \A v \in Fleet : ~Eligible(vehicles'[v])
    BY <1>1, <1>4, <1>6, EveryoneIsSeen
  <2>2. QED
    BY <1>6, <2>1 DEF Sought, TargetHeld, Eligible
<1>7. QED
  BY <1>5, <1>6

\* Outside the search, and past its end, there is nothing to say of it.
LEMMA NothingSought ==
  ASSUME Types, step' \in [phase : Phases, turn : Fleet, start : Fleet, enRoute : Nat],
         step'.phase # "dispatch", step'.phase = "report" => step'.turn # 1
  PROVE  Sought'
BY DEF Sought, TargetHeld

LEMMA SoughtStep ==
  ASSUME Types, Counted, Sought, 0 \notin Journeys, Next
  PROVE  Sought'
<1>1. /\ step' \in [phase : Phases, turn : Fleet, start : Fleet, enRoute : Nat]
      /\ step \in [phase : Phases, turn : Fleet, start : Fleet, enRoute : Nat]
      /\ EnRouteTarget \in Nat /\ step.enRoute \in Nat
      /\ step.turn \in Nat \ {0}
  <2>1. Types'
    BY TypesStep
  <2>2. step.turn \in Fleet
    BY DEF Types
  <2>3. /\ step' \in [phase : Phases, turn : Fleet, start : Fleet, enRoute : Nat]
        /\ step \in [phase : Phases, turn : Fleet, start : Fleet, enRoute : Nat]
    BY <2>1 DEF Types
  <2>4. EnRouteTarget \in Nat /\ step.turn \in Nat \ {0}
    BY <2>2, SimulatorAssumption DEF Fleet
  <2>5. QED
    BY <2>3, <2>4
<1>2. CASE Send
  <2>1. step' = step /\ vehicles' = vehicles
    BY <1>2 DEF Send
  <2>2. QED
    BY <2>1 DEF Sought, TargetHeld, EnRoute, Seen
<1>3. CASE Release \/ EndRelease \/ EndStep
  <2>1. step'.phase \in {"advance", "release"}
    BY <1>1, <1>3, Releases DEF EndStep, Go
  <2>2. QED
    BY <1>1, <2>1, NothingSought
<1>4. CASE Advance
  <2>1. NextTurn("advance", "count")
    BY <1>4, Zenon DEF Advance
  <2>2. step'.phase \in {"advance", "count"}
    BY <2>1, Turns DEF Phases
  <2>3. QED
    BY <1>1, <2>2, NothingSought
<1>5. CASE KeepPlan \/ Replan
  <2>1. step' = [step EXCEPT !.phase = "speak"]
    BY <1>5, Zenon DEF KeepPlan, Replan
  <2>2. QED
    BY <1>1, <2>1, NothingSought
<1>6. CASE NotItsTurn \/ StayQuiet \/ FallSilent \/ Speak
  <2>1. NextTurn("report", "end")
    BY <1>6, Zenon DEF NotItsTurn, StayQuiet, FallSilent, Speak
  <2>2. step'.phase = "end" \/ (step'.phase = "report" /\ step'.turn = step.turn + 1)
    BY <2>1, Turns DEF Phases
  <2>3. step'.phase # "dispatch" /\ (step'.phase = "report" => step'.turn # 1)
    BY <1>1, <2>2
  <2>4. QED
    BY <1>1, <2>3, NothingSought
<1>7. CASE Count
  <2>1. step'.phase = "dispatch" /\ step'.turn = 1
    BY <1>7 DEF Count
  <2>2. QED
    BY <2>1 DEF Sought, TargetHeld
<1>8. CASE EndDispatch
  <2>1. /\ step.phase = "dispatch" /\ step.enRoute >= EnRouteTarget
        /\ vehicles' = vehicles /\ step' = [step EXCEPT !.phase = "report", !.turn = 1]
    BY <1>8 DEF EndDispatch, Looking, TargetReached, Go
  <2>2. Cardinality(EnRoute) = EnRouteTarget
    BY <1>1, <2>1 DEF Counted
  <2>3. EnRoute' = EnRoute /\ step'.phase = "report"
    BY <1>1, <2>1 DEF EnRoute
  <2>4. QED
    BY <2>2, <2>3 DEF Sought, TargetHeld
<1>9. CASE PassOver
  <2>1. /\ step.phase = "dispatch" /\ vehicles' = vehicles /\ NextTurn("dispatch", "report")
        /\ ~Eligible(vehicles[Candidate])
    BY <1>9, Zenon DEF PassOver, Looking
  <2>2. step'.start = step.start
    BY <1>1, <2>1 DEF NextTurn, Go
  <2>3. \/ step'.phase = "dispatch" /\ step'.turn = step.turn + 1
        \/ step'.phase = "report" /\ step.turn = FleetSize
    BY <2>1, Turns DEF Phases
  <2>4. QED
    BY <1>1, <2>1, <2>2, <2>3, OneMoreSeen
<1>10. CASE Dispatch
  <2>1. step.phase = "dispatch" /\ step.turn \in 1..FleetSize
    BY <1>10 DEF Dispatch, Looking, Types, Fleet
  <2>2. step'.start = step.start
    BY <1>1, <1>10 DEF Dispatch
  <2>3. \/ step'.phase = "dispatch" /\ step'.turn = step.turn + 1
        \/ step'.phase = "report" /\ step.turn = FleetSize
    BY <1>1, <1>10, <2>1, SimulatorAssumption DEF Dispatch
  <2>4. ~Eligible(vehicles'[Candidate])
    BY <1>10, Dispatched DEF Eligible
  <2>5. \A v \in Fleet : ~Eligible(vehicles[v]) => ~Eligible(vehicles'[v])
    BY <1>10, <2>4, Dispatched DEF Replaced
  <2>6. QED
    BY <1>1, <2>1, <2>2, <2>3, <2>4, <2>5, OneMoreSeen
<1>11. QED
  BY <1>2, <1>3, <1>4, <1>5, <1>6, <1>7, <1>8, <1>9, <1>10 DEF Next

---------------------------------------------------------------------------
(* The parts of a journey. *)

InStep == \A v \in Fleet : Journey(vehicles[v])

LEMMA InStepStep ==
  ASSUME Types, InStep, 0 \notin Journeys, Next
  PROVE  InStep'
<1>1. \A w \in Fleet : vehicles[w].leg \in Legs
  BY DEF Types, IsVehicle
<1>2. ASSUME NEW v \in Fleet, Replaced(v), Journey(vehicles'[v])
      PROVE  InStep'
  BY <1>2 DEF InStep, Replaced
<1>3. CASE vehicles' = vehicles
  BY <1>3 DEF InStep
<1>4. CASE Advance
  <2> DEFINE v == step.turn
             o == vehicles[v]
             n == vehicles'[v]
  <2>1. v \in Fleet /\ Replaced(v) /\ Journey(o)
    BY <1>4, Advanced DEF InStep
  <2>2. CASE n.leg = o.leg /\ n.routeId = o.routeId /\ (n.path = 0 <=> o.path = 0)
    BY <1>2, <2>1, <2>2 DEF Journey
  <2>3. CASE /\ o.leg = "toCustomer" /\ n.leg = "withCustomer"
             /\ n.path \in Journeys /\ n.routeId = 0
    BY <1>2, <2>1, <2>3, StatusOfLegs DEF Journey
  <2>4. CASE /\ o.leg = "withCustomer" /\ o.path # 0
             /\ n.leg = "parked" /\ n.path = 0 /\ n.routeId = o.routeId
    BY <1>2, <2>1, <2>4, StatusOfLegs DEF Journey
  <2>5. CASE /\ o.leg = "toParking"
             /\ n.leg = "parked" /\ n.path = 0 /\ n.routeId = 0
    BY <1>2, <2>1, <2>5, StatusOfLegs DEF Journey
  <2>6. QED
    BY <1>4, <2>2, <2>3, <2>4, <2>5, Advanced
<1>5. CASE Dispatch
  <2>1. Journey(vehicles'[Candidate])
    BY <1>5, Dispatched, StatusOfLegs DEF Journey
  <2>2. QED
    BY <1>2, <1>5, <2>1, Dispatched
<1>6. CASE Replan
  <2>1. Journey(vehicles'[step.turn])
    BY <1>6, Replanned, StatusOfLegs DEF Journey
  <2>2. QED
    BY <1>2, <1>6, <2>1, Replanned
<1>7. CASE Speak \/ FallSilent
  <2>1. Journey(vehicles'[step.turn])
    BY <1>7, Reports DEF Journey, InStep
  <2>2. QED
    BY <1>2, <1>7, <2>1, Reports
<1>8. QED
  BY <1>3, <1>4, <1>5, <1>6, <1>7, Releases
     DEF Next, Send, Count, EndDispatch, PassOver, NotItsTurn, KeepPlan, StayQuiet, EndStep

---------------------------------------------------------------------------
(* The theorems. *)

IInv == Types /\ Counted /\ Lined /\ Caught /\ Made /\ Past /\ Kept

\* What is held of a signal before anything was received.
LEMMA FirstCell ==
  ASSUME NEW s, NEW nothing \in Tellable, NEW value,
         value = IF s = "status" THEN nothing ELSE 0
  PROVE  LET cell == [sequence |-> 0, observedAt |-> 0, value |-> value]
         IN  cell \in Cells /\ Follows(0, cell, {}, s, 0, nothing, 0)
<1> DEFINE cell == [sequence |-> 0, observedAt |-> 0, value |-> value]
<1>1. value \in Values
  BY DEF Values
<1>2. cell \in Cells /\ cell.sequence = 0 /\ cell.observedAt = 0 /\ cell.value = value
  BY <1>1 DEF Cells
<1> HIDE DEF cell
<1>3. Follows(0, cell, {}, s, 0, nothing, 0)
  BY <1>2 DEF Follows, Agrees
<1>4. QED
  BY <1>2, <1>3 DEF cell

LEMMA Initially ==
  ASSUME Init
  PROVE  IInv
<1>1. FleetSize \in Nat \ {0} /\ EnRouteTarget \in Nat /\ MaxTicks \in Nat /\ MaxPending \in Nat
  BY SimulatorAssumption
<1>2. PICK levels \in [Fleet -> StartingBattery] : vehicles = [v \in Fleet |-> New(levels[v])]
  BY DEF Init
<1>3. /\ step = [phase |-> "release", turn |-> 1, start |-> 1, enRoute |-> 0]
      /\ now = 0 /\ assigned = 0 /\ outbox = <<>> /\ pending = <<>>
  BY Zenon DEF Init
<1>4. \A v \in Fleet : /\ IsVehicle(vehicles[v]) /\ vehicles[v].leg = "parked"
                       /\ vehicles[v].routeId = 0
                       /\ vehicles[v].sequences = [s \in Tracked |-> 0]
                       /\ vehicles[v].reported = ""
  <2>1. \A v \in Fleet : vehicles[v] = New(levels[v])
    BY <1>2
  <2>2. \A v \in Fleet : levels[v] \in 0..Top
    BY TopIsHighest
  <2>3. SUFFICES ASSUME NEW v \in Fleet
                 PROVE  /\ IsVehicle(vehicles[v]) /\ vehicles[v].leg = "parked"
                        /\ vehicles[v].routeId = 0
                        /\ vehicles[v].sequences = [s \in Tracked |-> 0]
                        /\ vehicles[v].reported = ""
    BY Zenon
  <2>4. vehicles[v] = New(levels[v]) /\ levels[v] \in 0..Top
    BY <2>1, <2>2
  <2>5. QED
    BY <2>4, NewVehicle, Zenon
<1>5. Types
  <2>1. \A v \in Fleet : IsVehicle(vehicles[v])
    BY <1>4, Zenon
  <2>2. QED
    BY <1>2, <1>3, <2>1, FleetFinite DEF Types, Phases
<1>6. Counted
  <2>1. \A v \in Fleet : vehicles[v].leg = "parked"
    BY <1>4, Zenon
  <2>2. EnRoute = {}
    BY <2>1, StatusOfLegs DEF EnRoute
  <2>3. Cardinality(EnRoute) = 0
    BY <2>2, FS_EmptySet
  <2>4. QED
    BY <1>1, <1>3, <2>3 DEF Counted
<1>7. Made /\ Past /\ Kept
  BY <1>1, <1>3 DEF Made, Past, Kept, Heard
<1>8. \A v \in Fleet, s \in Tracked :
        /\ held[v][s] \in Cells
        /\ Follows(0, held[v][s], {}, s, 0, "", 0)
  <2> SUFFICES ASSUME NEW v \in Fleet, NEW s \in Tracked
               PROVE  held[v][s] \in Cells /\ Follows(0, held[v][s], {}, s, 0, "", 0)
    BY Zenon
  <2>1. held[v][s] = [sequence |-> 0, observedAt |-> 0, value |-> IF s = "status" THEN "" ELSE 0]
    BY Zenon DEF Init
  <2>2. "" \in Tellable
    BY Zenon DEF Tellable
  <2>3. QED
    BY <2>1, <2>2, FirstCell, Zenon
<1>9. Lined
  <2>1. \A v \in Fleet, s \in Tracked : held[v][s] \in Cells
    BY <1>8, Zenon
  <2>2. PICK first : held = [v \in Fleet |-> [s \in Tracked |-> first[s]]]
    <3> DEFINE first == [s \in Tracked |-> [sequence |-> 0, observedAt |-> 0,
                                            value |-> IF s = "status" THEN "" ELSE 0]]
    <3>1. \A s \in Tracked : first[s] = [sequence |-> 0, observedAt |-> 0,
                                         value |-> IF s = "status" THEN "" ELSE 0]
      BY Zenon
    <3>2. held = [v \in Fleet |-> [s \in Tracked |-> first[s]]]
      BY <3>1, Zenon DEF Init
    <3> HIDE DEF first
    <3>3. QED
      BY <3>2, Zenon
  <2>3. held \in [Fleet -> [Tracked -> Cells]]
    BY <2>1, <2>2
  <2>4. outbox \in Seq(Records) /\ pending \in Seq(Delayed)
    BY <1>3
  <2>5. QED
    BY <2>3, <2>4 DEF Lined
<1>10. Caught
  <2> SUFFICES ASSUME NEW v \in Fleet, NEW s \in Tracked
               PROVE  Followed(v, s)
    BY Zenon DEF Caught
  <2>1. About(v, s) = {}
    BY <1>3 DEF About, Transit
  <2>2. vehicles[v].sequences = [z \in Tracked |-> 0] /\ vehicles[v].routeId = 0
    BY <1>4, Zenon
  <2>3. vehicles[v].sequences[s] = 0
    BY <2>2
  <2>4. vehicles[v].reported = ""
    BY <1>4, Zenon
  <2>5. QED
    BY <1>3, <1>8, <2>1, <2>2, <2>3, <2>4, Zenon DEF Followed
<1>11. QED
  BY <1>5, <1>6, <1>7, <1>9, <1>10 DEF IInv

LEMMA Untouched ==
  ASSUME UNCHANGED vars
  PROVE  /\ IInv => IInv'
         /\ InStep => InStep'
         /\ Sought => Sought'
<1>1. UNCHANGED <<now, step, vehicles, assigned, outbox, pending, held>>
  BY Zenon DEF vars
<1>2. Transit' = Transit
  BY <1>1 DEF Transit
<1>3. \A v, s : About(v, s)' = About(v, s)
  BY <1>2 DEF About
<1>4. \A v, t : Observed(v, t)' <=> Observed(v, t)
  BY <1>1, <1>3 DEF Observed
<1>5. (Made => Made') /\ (Past => Past')
  <2>1. Heard' = Heard /\ \A v : Told(v)' <=> Told(v)
    <3>1. \A v : (Observed(v, now)' <=> Observed(v, now))
      BY <1>1, <1>3 DEF Observed
    <3>2. QED
      BY <1>1, <3>1 DEF Heard, Told, HasTurn, Quiet
  <2>2. QED
    BY <1>1, <1>4, <2>1 DEF Made, Past
<1>6. Caught => Caught'
  BY <1>1, <1>3 DEF Caught, Followed
<1>7. (Types => Types') /\ (Counted => Counted') /\ (Lined => Lined') /\ (Kept => Kept')
  BY <1>1 DEF Types, Counted, EnRoute, Lined, Kept
<1>8. (InStep => InStep') /\ (Sought => Sought')
  BY <1>1 DEF InStep, Sought, TargetHeld, Seen, EnRoute
<1>9. QED
  BY <1>5, <1>6, <1>7, <1>8 DEF IInv

\* The invariant holds throughout.
LEMMA Invariance == Spec => []IInv
<1>1. Init => IInv
  BY Initially
<1>2. IInv /\ [Next]_vars => IInv'
  BY TypesStep, CountedStep, LineStep, MadeStep, PastStep, KeptStep, Untouched DEF IInv
<1>3. QED
  BY <1>1, <1>2, PTL DEF Spec

\* Simulator.dispatch, with the arrivals and the replans of a tick: there are never more
\* journeys under way than the target.
THEOREM TargetIsKept == Spec => []AtMostTarget
<1>1. IInv => AtMostTarget
  BY DEF IInv, Counted, AtMostTarget
<1>2. QED
  BY <1>1, Invariance, PTL

\* vehicle.report and the dropout: a vehicle that is not quiet has told of its status as
\* it is by the end of its turn, however long it was quiet before.
THEOREM DropoutsAreMadeUpFor == Spec => []StatusMadeUp
<1>1. IInv => StatusMadeUp
  BY DEF IInv, Made, Heard, Told, StatusMadeUp
<1>2. QED
  BY <1>1, Invariance, PTL

\* vehicle.plan finds a trip wherever a customer is met: a vehicle has somewhere to drive
\* exactly when it is not parked, and a route exactly while it is driven remotely.  That a
\* plan always finds a way is what NobodyIsStranded of Journeys is about.  A clear that is
\* next in line names the route the consumer holds, whatever was replanned or overtaken.
THEOREM PartsAgree ==
  ASSUME 0 \notin Journeys
  PROVE  Spec => []JourneyInStep
<1>1. Init => InStep
  <2> SUFFICES ASSUME Init PROVE InStep
    OBVIOUS
  <2>1. PICK levels \in [Fleet -> StartingBattery] : vehicles = [v \in Fleet |-> New(levels[v])]
    BY DEF Init
  <2>2. \A b : New(b).path = 0 /\ New(b).leg = "parked" /\ New(b).routeId = 0
    BY Zenon DEF New
  <2>3. \A v \in Fleet : vehicles[v] = New(levels[v])
    BY <2>1
  <2>4. QED
    BY <2>2, <2>3, StatusOfLegs DEF InStep, Journey
<1>2. IInv /\ InStep /\ [Next]_vars => InStep'
  BY InStepStep, Untouched DEF IInv
<1>5. IInv => ClearsNameTheLast
  <2> SUFFICES ASSUME IInv, NEW r \in Transit, r.type = "RouteCleared",
                      r.sequence = held[r.vehicle]["route"].sequence + 1
               PROVE  r.value = held[r.vehicle]["route"].value
    BY Zenon DEF ClearsNameTheLast
  <2>1. r.vehicle \in Fleet
    BY TransitOfRecords DEF IInv, Records
  <2>2. "route" \in Tracked /\ SignalOf(r.type) = "route"
    BY SignalOfSayings DEF Tracked, Signals, NumberedBy
  <2>3. r \in About(r.vehicle, "route") /\ Followed(r.vehicle, "route")
    BY <2>1, <2>2 DEF About, IInv, Caught
  <2>4. QED
    BY <2>3 DEF Followed, Follows
<1>3. IInv /\ InStep => JourneyInStep
  BY <1>5 DEF InStep, Journey, JourneyInStep
<1>4. QED
  BY <1>1, <1>2, <1>3, Invariance, PTL DEF Spec

\* Simulator.dispatch goes all the way round the fleet: when it is over there are as many
\* journeys as the target, or no vehicle is fit to go (a way is always found:
\* NobodyIsStranded of Journeys).
THEOREM SearchLeavesNobodyOut ==
  ASSUME 0 \notin Journeys
  PROVE  Spec => []TargetHeld
<1>1. Init => Sought
  <2>1. ASSUME Init PROVE step.phase = "release"
    BY <2>1 DEF Init
  <2>2. QED
    BY <2>1 DEF Sought, TargetHeld
<1>2. IInv /\ Sought /\ [Next]_vars => Sought'
  BY SoughtStep, Untouched DEF IInv
<1>3. Sought => TargetHeld
  BY DEF Sought
<1>4. QED
  BY <1>1, <1>2, <1>3, Invariance, PTL DEF Spec

\* Every vehicle has the shape of a vehicle, with a battery that is neither overdrawn nor
\* overcharged, and nothing is held back beyond the Step in which it is due: what
\* delivery.release leaves is due later.
THEOREM TypesHold == Spec => []TypeOK
<1>1. IInv => TypeOK
  <2> SUFFICES ASSUME IInv
               PROVE  TypeOK
    OBVIOUS
  <2>1. now \in Nat /\ MaxTicks \in Nat
    BY SimulatorAssumption DEF IInv, Types
  <2>2. now \in 0..MaxTicks
    BY <2>1 DEF IInv, Kept
  <2>3. /\ step.phase \in {"release", "advance", "count", "dispatch", "report", "speak", "end"}
        /\ step.turn \in Fleet /\ step.start \in Fleet
    BY DEF IInv, Types, Phases
  <2>4. ASSUME NEW v \in Fleet
        PROVE  /\ vehicles[v].leg \in Legs /\ vehicles[v].path \in Nat
               /\ vehicles[v].battery \in 0..Max(StartingBattery \cup {ChargeTarget})
               /\ vehicles[v].reported \in Statuses \cup {""}
    <3>1. IsVehicle(vehicles[v])
      BY DEF IInv, Types
    <3>2. QED
      BY <3>1, Zenon DEF IsVehicle, Top, Tellable
  <2>5. Len(pending) <= MaxPending /\ \A i \in DOMAIN pending : pending[i].at >= now
    BY DEF IInv, Kept
  <2>6. QED
    BY <2>2, <2>3, <2>4, <2>5, Zenon DEF TypeOK
<1>2. QED
  BY <1>1, Invariance, PTL

\* Simulator.record, delivery and the consumer's register: duplicates, delays and
\* overtaking lose nothing for good. Once nothing of a signal is on its way the consumer
\* holds the last thing the vehicle said of it, and that is still so of the vehicle.
THEOREM ConsumerFollows == Spec => []ConsumerCatchesUp
<1>1. ASSUME IInv, NEW v \in Fleet, NEW s \in Tracked, ~OnItsWay(v, s)
      PROVE  /\ held[v][s].sequence = vehicles[v].sequences[s]
             /\ Agrees(held[v][s].value, s, vehicles[v].routeId, vehicles[v].reported)
  <2>1. About(v, s) = {}
    BY <1>1 DEF About, Transit, OnItsWay
  <2>2. Followed(v, s)
    BY <1>1 DEF IInv, Caught
  <2>3. QED
    BY <2>1, <2>2 DEF Followed, Follows
<1>2. IInv => ConsumerCatchesUp
  <2> SUFFICES ASSUME IInv, NEW v \in Fleet
               PROVE  /\ \A s \in Tracked :
                           ~OnItsWay(v, s) => held[v][s].sequence = vehicles[v].sequences[s]
                      /\ ~OnItsWay(v, "status") => held[v]["status"].value = vehicles[v].reported
                      /\ ~OnItsWay(v, "route") => held[v]["route"].value = vehicles[v].routeId
    BY Zenon DEF ConsumerCatchesUp
  <2>1. "status" \in Tracked /\ "route" \in Tracked
    BY DEF Tracked, Signals
  <2>2. QED
    BY <1>1, <2>1 DEF Agrees
<1>3. QED
  BY <1>2, Invariance, PTL

\* Between now and StaleAfter ago a vehicle has at least two turns.
LEMMA TwoTurns ==
  ASSUME NEW v \in Fleet, NEW t \in Nat
  PROVE  \E a, b \in t..(t + StaleAfter - 1) :
           a # b /\ a % TicksPerReport = Slot(v) /\ b % TicksPerReport = Slot(v)
<1>1. /\ TicksPerReport \in Nat \ {0} /\ StaleAfter \in Nat /\ 2 * TicksPerReport <= StaleAfter
      /\ v - 1 \in Nat
  BY SimulatorAssumption DEF Fleet
<1>2. Slot(v) \in 0..(TicksPerReport - 1)
  BY <1>1 DEF Slot
<1>3. PICK a \in t..(t + TicksPerReport - 1) : a % TicksPerReport = Slot(v)
  BY <1>1, <1>2, OneInARow
<1>4. t + TicksPerReport \in Nat
  BY <1>1
<1>5. PICK b \in (t + TicksPerReport)..(t + TicksPerReport + TicksPerReport - 1) :
        b % TicksPerReport = Slot(v)
  BY <1>1, <1>2, <1>4, OneInARow
<1>6. a # b /\ a \in t..(t + StaleAfter - 1) /\ b \in t..(t + StaleAfter - 1)
  BY <1>1, <1>3, <1>5
<1>7. QED
  BY <1>3, <1>5, <1>6

\* delivery.send and the cadence of vehicle.report: any StaleAfter ticks in a row hold two
\* turns of a vehicle, so one late report never makes it look stale.
THEOREM OneLateReportIsHarmless == Spec => []OneDelayIsHarmless
<1>1. ASSUME IInv, NEW v \in Fleet, StaleThoughSpeaking(v)
      PROVE  Cardinality(HeldBack(v)) >= 2
  <2>1. /\ now \in Nat /\ StaleAfter \in Nat /\ vehicles[v].silentUntil \in Nat
        /\ pending \in Seq(Delayed)
    BY <1>1, SimulatorAssumption DEF IInv, Types, IsVehicle, Lined
  <2>2. PICK a \in Nat : a = now - StaleAfter /\ vehicles[v].silentUntil <= a
    BY <1>1, <2>1 DEF StaleThoughSpeaking
  <2>3. held[v]["position"].observedAt < a
    <3> DEFINE S == {held[v][s].observedAt : s \in Telemetry}
    <3>1. Telemetry \subseteq Tracked /\ "position" \in Telemetry
      BY DEF Telemetry, Tracked, Signals
    <3>2. \A s \in Telemetry : held[v][s] \in Cells
      BY <1>1, <3>1 DEF IInv, Lined
    <3>3. S \in SUBSET Nat /\ held[v]["position"].observedAt \in S
      BY <3>1, <3>2 DEF Cells
    <3>4. IsFiniteSet(S)
      <4> DEFINE at(s) == held[v][s].observedAt
      <4>1. S = {at("position"), at("battery"), at("status")}
        BY DEF Telemetry
      <4> HIDE DEF at, S
      <4>2. IsFiniteSet({at("position")} \cup {at("battery")})
        BY FS_Singleton, FS_AddElement
      <4>3. IsFiniteSet(({at("position")} \cup {at("battery")}) \cup {at("status")})
        BY <4>2, FS_AddElement
      <4>4. QED
        BY <4>1, <4>3
    <3>5. PICK n \in S : \A m \in S : n >= m
      BY <3>3, <3>4, GreatestOf
    <3>6. Max(S) \in S /\ \A m \in S : Max(S) >= m
      BY <3>5 DEF Max
    <3>7. LastObserved(v) = Max(S)
      BY DEF LastObserved
    <3> HIDE DEF S
    <3>8. now - Max(S) > StaleAfter
      BY <1>1, <3>7 DEF StaleThoughSpeaking
    <3>9. Max(S) \in Nat /\ held[v]["position"].observedAt \in Nat
      BY <3>3, <3>6
    <3>10. held[v]["position"].observedAt <= Max(S)
      BY <3>3, <3>6, <3>9
    <3>11. QED
      BY <2>1, <2>2, <3>8, <3>9, <3>10
  <2>4. PICK b, c \in a..(a + StaleAfter - 1) :
          b # c /\ b % TicksPerReport = Slot(v) /\ c % TicksPerReport = Slot(v)
    BY <2>2, TwoTurns
  <2>5. ASSUME NEW t \in a..(a + StaleAfter - 1), t % TicksPerReport = Slot(v)
        PROVE  \E i \in HeldBack(v) : pending[i].record.observedAt = t
    <3>1. t \in Nat /\ t < now /\ vehicles[v].silentUntil <= t
      BY <2>1, <2>2, <2>5
    <3>2. Observed(v, t)
      BY <1>1, <2>5, <3>1 DEF IInv, Past, StaleThoughSpeaking
    <3>3. held[v]["position"].observedAt \in Nat
      <4>1. "position" \in Tracked
        BY DEF Tracked, Signals
      <4>2. QED
        BY <1>1, <4>1 DEF IInv, Lined, Cells
    <3>4. PICK r \in About(v, "position") : r.observedAt = t
      BY <2>2, <2>3, <2>5, <3>1, <3>2, <3>3 DEF Observed
    <3>5. \A i \in DOMAIN outbox : outbox[i].observedAt # t
      BY <1>1, <2>1, <3>1 DEF IInv, Kept
    <3>6. PICK i \in DOMAIN pending : pending[i].record = r
      BY <3>4, <3>5 DEF About, Transit
    <3>7. "position" \in Telemetry
      BY DEF Telemetry
    <3>8. QED
      BY <3>4, <3>6, <3>7 DEF About, HeldBack
  <2>6. PICK i, j \in HeldBack(v) : pending[i].record.observedAt = b /\ pending[j].record.observedAt = c
    BY <2>4, <2>5
  <2>7. IsFiniteSet(HeldBack(v))
    <3>1. HeldBack(v) \in SUBSET (1..Len(pending))
      BY <2>1 DEF HeldBack
    <3>2. 1 \in Int /\ Len(pending) \in Int
      BY <2>1
    <3>3. IsFiniteSet(1..Len(pending))
      BY <3>2, FS_Interval
    <3>4. QED
      BY <3>1, <3>3, FS_Subset
  <2>8. Cardinality({i, j}) = 2 /\ IsFiniteSet({i, j})
    <3>1. i # j
      BY <2>4, <2>6
    <3>2. IsFiniteSet({i}) /\ Cardinality({i}) = 1
      BY FS_Singleton
    <3>3. {i, j} = {i} \cup {j}
      OBVIOUS
    <3>4. QED
      BY <3>1, <3>2, <3>3, FS_AddElement
  <2>9. Cardinality({i, j}) <= Cardinality(HeldBack(v))
    <3>1. {i, j} \in SUBSET HeldBack(v)
      BY <2>6
    <3>2. QED
      BY <2>7, <3>1, FS_Subset
  <2>10. Cardinality(HeldBack(v)) \in Nat
    BY <2>7, FS_CardinalityType
  <2>11. QED
    BY <2>8, <2>9, <2>10
<1>2. IInv => OneDelayIsHarmless
  BY <1>1 DEF OneDelayIsHarmless
<1>3. QED
  BY <1>2, Invariance, PTL

=============================================================================
