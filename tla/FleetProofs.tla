---------------------------- MODULE FleetProofs ----------------------------
(***************************************************************************)
(* Theorems about FleetStore, for every set of vehicles and every stream   *)
(* that satisfies RecordsAssumption, and then about FleetView: what an     *)
(* operator is shown adds up, for every fleet, stream and zones.  The      *)
(* invariant is that of the store: time passing leaves it alone.           *)
(***************************************************************************)
EXTENDS FleetView, FiniteSetTheorems, WellFoundedInduction, TLAPS

-----------------------------------------------------------------------------
(* Induction over the naturals, as a fact about sets.                      *)

\* A nonempty set of naturals has a least element.
LEMMA LeastOf ==
  ASSUME NEW S \in SUBSET Nat, S # {}
  PROVE  \E n \in S : \A m \in S : n <= m
<1> DEFINE R == OpToRel(<, Nat)
<1>1. IsWellFoundedOn(R, Nat)
  BY NatLessThanWellFounded, ZenonT(30)
<1>2. \A m, n \in Nat : m < n => <<m, n>> \in R
  BY DEF OpToRel
<1> HIDE DEF R
<1>3. PICK n \in S : \A m \in S : ~(<<m, n>> \in R)
  BY <1>1, WFMin
<1>4. ASSUME NEW m \in S
      PROVE  n <= m
  <2>1. m \in Nat /\ n \in Nat
    OBVIOUS
  <2>2. ~(m < n)
    BY <1>2, <1>3, <2>1
  <2>3. QED
    BY <2>1, <2>2
<1>5. QED
  BY <1>4

\* A set that holds zero and the successor of each of its naturals holds them all.
LEMMA Naturally ==
  ASSUME NEW S, 0 \in S, \A n \in Nat : n \in S => n + 1 \in S
  PROVE  Nat \subseteq S
<1> SUFFICES ASSUME Nat \ S # {} PROVE FALSE
  OBVIOUS
<1>1. PICK n \in Nat \ S : \A m \in Nat \ S : n <= m
  BY LeastOf
<1>2. n - 1 \in Nat /\ n - 1 \in S
  BY <1>1
<1>3. QED
  BY <1>1, <1>2

-----------------------------------------------------------------------------
(* Events and the registers they write.                                    *)

\* What the checks of the projection and the assumption on producers give.
LEMMA EventFacts ==
  ASSUME NEW r \in Events
  PROVE  /\ r \in Records
         /\ r.type \in EventTypes
         /\ SignalOf(r.type) \in Signals
         /\ r.vehicleId \in Vehicles
         /\ r.sequence \in Nat
         /\ r.observedAt \in Nat
<1>1. r \in Records /\ r.type \in EventTypes
  BY DEF Events, Interpretable
<1>2. SignalOf(r.type) \in Signals
  BY <1>1 DEF EventTypes, SignalOf, Signals
<1>3. QED
  BY <1>1, <1>2, RecordsAssumption

\* An event's value is one its signal can show.
LEMMA HoldingTyped ==
  ASSUME NEW r \in Events
  PROVE  /\ Holding(r) \in Register(UNION {Values(s) : s \in Signals})
         /\ Holding(r).value \in Values(SignalOf(r.type))
<1>1. ValueOf(r) \in Values(SignalOf(r.type))
  BY DEF ValueOf, Values
<1>2. ValueOf(r) \in UNION {Values(s) : s \in Signals}
  BY <1>1, EventFacts
<1>3. QED
  BY <1>1, <1>2, EventFacts DEF Holding, Register

\* accept writes at most the one register it compared, and only a newer event.
LEMMA AcceptEffect ==
  ASSUME TypeOK, NEW r \in Events, Accept(r)
  PROVE  /\ accepted' = accepted \cup {r}
         /\ last'.record = r
         /\ last'.outcome = AcceptOutcome(registers[r.vehicleId][SignalOf(r.type)], r.sequence)
         /\ registers' \in [Vehicles -> [Signals -> Register(UNION {Values(s) : s \in Signals})]]
         /\ \A v \in Vehicles, s \in Signals :
              registers'[v][s] =
                IF v = r.vehicleId /\ s = SignalOf(r.type) /\ last'.outcome = "applied"
                  THEN Holding(r) ELSE registers[v][s]
<1> DEFINE R == Register(UNION {Values(s) : s \in Signals})
           w == r.vehicleId
           t == SignalOf(r.type)
<1>1. w \in Vehicles /\ t \in Signals /\ Holding(r) \in R
  BY EventFacts, HoldingTyped
<1>2. registers \in [Vehicles -> [Signals -> R]]
  BY DEF TypeOK
<1>3. /\ accepted' = accepted \cup {r}
      /\ last' = [record |-> r, outcome |-> AcceptOutcome(registers[w][t], r.sequence)]
      /\ registers' = IF AcceptOutcome(registers[w][t], r.sequence) = "applied"
                        THEN [registers EXCEPT ![w][t] = Holding(r)] ELSE registers
  BY DEF Accept, Return
<1> HIDE DEF R, w, t
<1>4. registers' \in [Vehicles -> [Signals -> R]]
  BY <1>1, <1>2, <1>3
<1>5. \A v \in Vehicles, s \in Signals :
        registers'[v][s] = IF v = w /\ s = t /\ last'.outcome = "applied"
                             THEN Holding(r) ELSE registers[v][s]
  BY <1>1, <1>2, <1>3
<1>6. QED
  BY <1>3, <1>4, <1>5 DEF R, w, t

-----------------------------------------------------------------------------
(* The inductive invariant.                                                *)

\* The three invariants need one another: a vehicle is known as soon as one of
\* its registers is, and what a register holds decides what the next record does.
IInv == TypeOK /\ OnlyRegistrationsCreate /\ HoldsNewest

\* A delivery is compared with a register of a vehicle that is known afterwards,
\* or it changes nothing.
LEMMA DeliveryShape ==
  ASSUME TypeOK, NEW r \in Records, Project(r) \/ Discard(r)
  PROVE  /\ last'.record = r
         /\ \/ /\ r \in Events
               /\ Accept(r)
               /\ known' = known \cup {r.vehicleId}
               /\ r.type = "VehicleRegistered" \/ r.vehicleId \in known
            \/ /\ last'.outcome \in Outcomes \ {"applied"}
               /\ last' = [record |-> r, outcome |-> last'.outcome]
               /\ UNCHANGED <<known, registers, accepted>>
<1>1. CASE Discard(r)
  BY <1>1 DEF Discard, Return, Outcomes
<1>2. CASE Project(r)
  <2> r \in Events
    BY <1>2 DEF Project
  <2>1. CASE RegisterVehicle(r)
    BY <2>1, AcceptEffect DEF RegisterVehicle
  <2>2. CASE Write(r)
    <3>1. CASE r.vehicleId \in known /\ Accept(r) /\ UNCHANGED known
      <4>1. known' = known \cup {r.vehicleId}
        BY <3>1
      <4>2. last'.record = r
        BY <3>1, AcceptEffect
      <4>3. QED
        BY <3>1, <4>1, <4>2
    <3>2. CASE Return(r, "unknown_vehicle") /\ UNCHANGED <<known, registers, accepted>>
      BY <3>2 DEF Return, Outcomes
    <3>3. QED
      BY <2>2, <3>1, <3>2 DEF Write
  <2>3. QED
    BY <1>2, <2>1, <2>2
    DEF Project, SetPosition, SetBattery, SetStatus, SetRoute, ClearRoute
<1>3. QED
  BY <1>1, <1>2

LEMMA InitEstablishes == Init => IInv
<1> SUFFICES ASSUME Init PROVE IInv
  OBVIOUS
<1>1. \A v \in Vehicles, s \in Signals : registers[v][s] = Empty
  BY DEF Init
<1>2. Empty \in Register(UNION {Values(s) : s \in Signals})
  <2>1. "route" \in Signals /\ Zero \in Values("route")
    BY DEF Signals, Values
  <2>2. QED
    BY <2>1 DEF Empty, Register
<1>3. TypeOK
  <2>1. \A s \in Signals : Empty.value \in Values(s)
    BY DEF Empty, Values
  <2>2. registers \in [Vehicles -> [Signals -> Register(UNION {Values(s) : s \in Signals})]]
    BY <1>2 DEF Init
  <2>3. last \in [record : Records \cup {Zero}, outcome : Outcomes]
    BY DEF Init, Outcomes
  <2>4. QED
    BY <1>1, <2>1, <2>2, <2>3 DEF Init, TypeOK
<1>4. OnlyRegistrationsCreate
  BY <1>1 DEF Init, OnlyRegistrationsCreate
<1>5. HoldsNewest
  BY <1>1 DEF Init, HoldsNewest
<1>6. QED
  BY <1>3, <1>4, <1>5 DEF IInv

\* Type correctness is preserved by every delivery.
LEMMA TypeStep ==
  ASSUME TypeOK, NEW r \in Records, Project(r) \/ Discard(r)
  PROVE  TypeOK'
<1>1. CASE r \in Events /\ Accept(r) /\ known' = known \cup {r.vehicleId}
  <2>1. known' \subseteq Vehicles /\ accepted' \subseteq Events
    BY <1>1, EventFacts, AcceptEffect DEF TypeOK
  <2>2. last' \in [record : Records \cup {Zero}, outcome : Outcomes]
    BY <1>1, EventFacts DEF Accept, Return, AcceptOutcome, Outcomes
  <2>3. ASSUME NEW v \in Vehicles, NEW s \in Signals
        PROVE  registers'[v][s].value \in Values(s)
    <3>1. registers[v][s].value \in Values(s)
      BY DEF TypeOK
    <3>2. \/ registers'[v][s] = registers[v][s]
          \/ s = SignalOf(r.type) /\ registers'[v][s] = Holding(r)
      BY <1>1, AcceptEffect
    <3>3. QED
      BY <1>1, <3>1, <3>2, HoldingTyped
  <2>4. QED
    BY <1>1, <2>1, <2>2, <2>3, AcceptEffect DEF TypeOK
<1>2. CASE /\ last'.outcome \in Outcomes
           /\ last' = [record |-> r, outcome |-> last'.outcome]
           /\ UNCHANGED <<known, registers, accepted>>
  BY <1>2 DEF TypeOK
<1>3. QED
  BY <1>1, <1>2, DeliveryShape

\* A vehicle that is not known has five empty registers, and one that is known
\* has been registered.
LEMMA CreateStep ==
  ASSUME IInv, NEW r \in Records, Project(r) \/ Discard(r)
  PROVE  OnlyRegistrationsCreate'
<1> TypeOK /\ OnlyRegistrationsCreate
  BY DEF IInv
<1>1. CASE UNCHANGED <<known, registers>>
  BY <1>1 DEF OnlyRegistrationsCreate
<1>2. CASE /\ r \in Events /\ Accept(r) /\ known' = known \cup {r.vehicleId}
           /\ r.type = "VehicleRegistered" \/ r.vehicleId \in known
  <2> SUFFICES ASSUME NEW v \in Vehicles
               PROVE  IF v \in known' THEN registers'[v]["registration"].present
                      ELSE \A s \in Signals : registers'[v][s] = Empty
    BY DEF OnlyRegistrationsCreate
  <2>1. Holding(r).present /\ "registration" \in Signals
    BY DEF Holding, Signals
  <2>2. CASE v \notin known'
    BY <1>2, <2>2, AcceptEffect DEF OnlyRegistrationsCreate
  <2>3. CASE v \in known
    <3>1. registers[v]["registration"].present
      BY <2>3 DEF OnlyRegistrationsCreate
    <3>2. QED
      BY <1>2, <2>1, <2>3, <3>1, AcceptEffect
  <2>4. CASE v = r.vehicleId /\ v \notin known
    <3>1. r.type = "VehicleRegistered" /\ SignalOf(r.type) = "registration"
      BY <1>2, <2>4 DEF SignalOf
    <3>2. registers[v]["registration"] = Empty
      BY <2>1, <2>4 DEF OnlyRegistrationsCreate
    <3>3. last'.outcome = "applied"
      BY <1>2, <2>4, <3>1, <3>2, AcceptEffect DEF AcceptOutcome, Empty
    <3>4. QED
      BY <1>2, <2>1, <2>4, <3>1, <3>3, AcceptEffect
  <2>5. QED
    BY <1>2, <2>2, <2>3, <2>4
<1>3. QED
  BY <1>1, <1>2, DeliveryShape

\* What a newest record is, so that the two proofs below read the same way.
Seen(v, s) == {r \in accepted : r.vehicleId = v /\ SignalOf(r.type) = s}

IsNewest(r, S) == r \in S /\ \A o \in S : o.sequence <= r.sequence

LEMMA HoldsNewestUnfolded ==
  HoldsNewest <=>
    \A v \in Vehicles, s \in Signals :
      IF Seen(v, s) = {} THEN registers[v][s] = Empty
      ELSE \E r \in Seen(v, s) : registers[v][s] = Holding(r) /\ IsNewest(r, Seen(v, s))
BY DEF HoldsNewest, Seen, IsNewest

\* A register keeps the newest record that reached it: the one that arrives is
\* taken when it is newer than all before it, and then it is the newest.
LEMMA NewestStep ==
  ASSUME IInv, NEW r \in Records, Project(r) \/ Discard(r)
  PROVE  HoldsNewest'
<1> TypeOK /\ HoldsNewest
  BY DEF IInv
<1>1. CASE UNCHANGED <<known, registers, accepted>>
  BY <1>1 DEF HoldsNewest
<1>2. CASE r \in Events /\ Accept(r)
  <2> SUFFICES ASSUME NEW v \in Vehicles, NEW s \in Signals
               PROVE  IF Seen(v, s)' = {} THEN registers'[v][s] = Empty
                      ELSE \E q \in Seen(v, s)' : /\ registers'[v][s] = Holding(q)
                                                 /\ IsNewest(q, Seen(v, s)')
    BY DEF HoldsNewest, Seen, IsNewest
  <2> DEFINE held == registers[v][s]
  <2>1. IF Seen(v, s) = {} THEN held = Empty
        ELSE \E q \in Seen(v, s) : held = Holding(q) /\ IsNewest(q, Seen(v, s))
    BY HoldsNewestUnfolded
  <2>2. \A q \in Seen(v, s) : q.sequence \in Nat
    BY EventFacts DEF Seen, TypeOK
  <2>3. CASE ~(v = r.vehicleId /\ s = SignalOf(r.type))
    <3>1. Seen(v, s)' = Seen(v, s)
      BY <1>2, <2>3, AcceptEffect DEF Seen
    <3>2. registers'[v][s] = held
      BY <1>2, <2>3, AcceptEffect
    <3>3. QED
      BY <2>1, <3>1, <3>2
  <2>4. CASE v = r.vehicleId /\ s = SignalOf(r.type)
    <3>1. Seen(v, s)' = Seen(v, s) \cup {r}
      BY <1>2, <2>4, AcceptEffect DEF Seen
    <3>2. last'.outcome = AcceptOutcome(held, r.sequence)
      BY <1>2, <2>4, AcceptEffect
    <3>3. registers'[v][s] = IF last'.outcome = "applied" THEN Holding(r) ELSE held
      BY <1>2, <2>4, AcceptEffect
    <3>4. r.sequence \in Nat
      BY <1>2, EventFacts
    <3>5. CASE Seen(v, s) = {}
      <4>1. last'.outcome = "applied"
        BY <2>1, <3>2, <3>5 DEF AcceptOutcome, Empty
      <4>2. QED
        BY <3>1, <3>3, <3>4, <3>5, <4>1 DEF IsNewest
    <3>6. CASE Seen(v, s) # {}
      <4>1. PICK q \in Seen(v, s) : held = Holding(q) /\ IsNewest(q, Seen(v, s))
        BY <2>1, <3>6
      <4>2. held.present /\ held.sequence = q.sequence /\ q.sequence \in Nat
        BY <2>2, <4>1 DEF Holding
      <4>3. CASE r.sequence > q.sequence
        <5>1. last'.outcome = "applied"
          BY <3>2, <4>2, <4>3 DEF AcceptOutcome
        <5>2. IsNewest(r, Seen(v, s)')
          BY <2>2, <3>1, <3>4, <4>1, <4>2, <4>3 DEF IsNewest
        <5>3. QED
          BY <3>1, <3>3, <5>1, <5>2
      <4>4. CASE ~(r.sequence > q.sequence)
        <5>1. last'.outcome # "applied"
          BY <3>2, <4>2, <4>4 DEF AcceptOutcome
        <5>2. IsNewest(q, Seen(v, s)')
          BY <2>2, <3>1, <3>4, <4>1, <4>2, <4>4 DEF IsNewest
        <5>3. QED
          BY <3>1, <3>3, <4>1, <5>1, <5>2
      <4>5. QED
        BY <4>3, <4>4
    <3>7. QED
      BY <3>5, <3>6
  <2>5. QED
    BY <2>3, <2>4
<1>3. QED
  BY <1>1, <1>2, DeliveryShape DEF IInv

LEMMA InvariantStep == IInv /\ [Next]_vars => IInv'
<1> SUFFICES ASSUME IInv, [Next]_vars PROVE IInv'
  OBVIOUS
<1>1. CASE UNCHANGED vars
  BY <1>1 DEF IInv, TypeOK, OnlyRegistrationsCreate, HoldsNewest, vars
<1>2. CASE Next
  <2>1. PICK r \in Records : Project(r) \/ Discard(r)
    BY <1>2 DEF Next
  <2>2. QED
    BY <2>1, TypeStep, CreateStep, NewestStep DEF IInv
<1>3. QED
  BY <1>1, <1>2

LEMMA Invariant == Spec => []IInv
BY InitEstablishes, InvariantStep, PTL DEF Spec

-----------------------------------------------------------------------------
(* The theorems.                                                           *)

\* Every register always has the shape of its signal.
THEOREM TypeCorrect == Spec => []TypeOK
<1>1. IInv => TypeOK
  BY DEF IInv
<1>2. QED
  BY <1>1, Invariant, PTL

\* Only an applied registration brings a vehicle into existence.
THEOREM Creation == Spec => []OnlyRegistrationsCreate
<1>1. IInv => OnlyRegistrationsCreate
  BY DEF IInv
<1>2. QED
  BY <1>1, Invariant, PTL

\* A register holds the newest observation that reached it, whatever the order
\* and the number of deliveries.
THEOREM LastWriterWins == Spec => []HoldsNewest
<1>1. IInv => HoldsNewest
  BY DEF IInv
<1>2. QED
  BY <1>1, Invariant, PTL

\* A record that has been compared is never newer than what its register holds.
LEMMA AlreadySeen ==
  ASSUME IInv, NEW r \in accepted
  PROVE  /\ r.vehicleId \in known
         /\ AcceptOutcome(registers[r.vehicleId][SignalOf(r.type)], r.sequence) # "applied"
<1> DEFINE v == r.vehicleId
           s == SignalOf(r.type)
<1>1. r \in Events /\ v \in Vehicles /\ s \in Signals /\ r \in Seen(v, s)
  BY EventFacts DEF IInv, TypeOK, Seen
<1>2. PICK q \in Seen(v, s) : registers[v][s] = Holding(q) /\ IsNewest(q, Seen(v, s))
  BY <1>1, HoldsNewestUnfolded DEF IInv
<1>3. /\ registers[v][s].present /\ registers[v][s].sequence = q.sequence
      /\ q.sequence \in Nat /\ r.sequence \in Nat /\ r.sequence <= q.sequence
  BY <1>1, <1>2, EventFacts DEF Holding, IsNewest, IInv, TypeOK, Seen
<1>4. v \in known
  BY <1>1, <1>3 DEF IInv, OnlyRegistrationsCreate, Empty
<1>5. AcceptOutcome(registers[v][s], r.sequence) # "applied"
  BY <1>3 DEF AcceptOutcome
<1>6. QED
  BY <1>4, <1>5

\* At-least-once delivery is harmless: a repeated record changes nothing.
THEOREM Idempotence == Spec => RedeliveryChangesNothing
<1>1. IInv /\ [Next]_vars =>
        [last'.record \in accepted => UNCHANGED <<known, registers>>]_vars
  <2> SUFFICES ASSUME IInv, Next, last'.record \in accepted
               PROVE  UNCHANGED <<known, registers>>
    BY DEF vars
  <2>1. PICK r \in Records : Project(r) \/ Discard(r)
    BY DEF Next
  <2>2. TypeOK /\ last'.record = r /\ r \in accepted
    BY <2>1, DeliveryShape DEF IInv
  <2>3. CASE r \in Events /\ Accept(r) /\ known' = known \cup {r.vehicleId}
    <3>1. known' = known
      BY <2>2, <2>3, AlreadySeen
    <3>2. AcceptOutcome(registers[r.vehicleId][SignalOf(r.type)], r.sequence) # "applied"
      BY <2>2, AlreadySeen
    <3>3. registers' = registers
      BY <2>3, <3>2 DEF Accept
    <3>4. QED
      BY <3>1, <3>3
  <2>4. QED
    BY <2>1, <2>2, <2>3, DeliveryShape
<1>2. QED
  BY <1>1, Invariant, PTL DEF Spec, RedeliveryChangesNothing

-----------------------------------------------------------------------------
(* What a reader sees never runs backwards.                                *)

\* The observation times LastObserved takes the newest of, for one vehicle's
\* row of registers.
Heard(row) == {0} \cup {row[s].observedAt : s \in {t \in Telemetry : row[t].present}}

LEMMA LastObservedOfRow ==
  ASSUME NEW v \in Vehicles
  PROVE  /\ LastObserved(v) = Max(Heard(registers[v]))
         /\ LastObserved(v)' = Max(Heard(registers'[v]))
BY DEF LastObserved, Heard

\* Three registers have a newest observation time.
LEMMA HeardHasMax ==
  ASSUME NEW row, \A s \in Telemetry : row[s].observedAt \in Nat
  PROVE  /\ Max(Heard(row)) \in Heard(row)
         /\ \A n \in Heard(row) : n <= Max(Heard(row))
<1> DEFINE at(s) == IF row[s].present THEN row[s].observedAt ELSE 0
           a == at("position")
           b == at("battery")
           c == at("status")
<1>1. a \in Nat /\ b \in Nat /\ c \in Nat
  BY DEF Telemetry
<1>2. Heard(row) = {0, a, b, c}
  BY DEF Heard, Telemetry
<1> HIDE DEF a, b, c
<1>3. \E m \in {0, a, b, c} : \A n \in {0, a, b, c} : m >= n
  BY <1>1
<1>4. /\ Max({0, a, b, c}) \in {0, a, b, c}
      /\ \A n \in {0, a, b, c} : Max({0, a, b, c}) >= n
  BY <1>3 DEF Max
<1>5. QED
  BY <1>1, <1>2, <1>4

\* A step leaves a register alone, or replaces it by one that is present and
\* not dated earlier.
LEMMA RegistersAdvance ==
  ASSUME IInv, NEW r \in Records, Project(r) \/ Discard(r),
         NEW v \in Vehicles, NEW s \in Signals
  PROVE  \/ registers'[v][s] = registers[v][s]
         \/ /\ registers'[v][s].present
            /\ registers[v][s].observedAt <= registers'[v][s].observedAt
            /\ last'.outcome = "applied"
            /\ last'.record = r /\ r.vehicleId = v /\ SignalOf(r.type) = s
<1> TypeOK
  BY DEF IInv
<1>1. CASE UNCHANGED registers
  BY <1>1
<1>2. CASE r \in Events /\ Accept(r)
  <2> SUFFICES ASSUME v = r.vehicleId, s = SignalOf(r.type), last'.outcome = "applied"
               PROVE  /\ registers'[v][s].present
                      /\ registers[v][s].observedAt <= registers'[v][s].observedAt
    BY <1>2, AcceptEffect
  <2>1. registers'[v][s] = Holding(r)
    BY <1>2, AcceptEffect
  <2>2. Holding(r).present /\ Holding(r).observedAt = r.observedAt /\ r.observedAt \in Nat
    BY <1>2, EventFacts DEF Holding
  <2>3. CASE Seen(v, s) = {}
    <3>1. registers[v][s] = Empty
      BY <2>3, HoldsNewestUnfolded DEF IInv
    <3>2. QED
      BY <2>1, <2>2, <3>1 DEF Empty
  <2>4. CASE Seen(v, s) # {}
    <3>1. PICK q \in Seen(v, s) : registers[v][s] = Holding(q)
      BY <2>4, HoldsNewestUnfolded DEF IInv
    <3>2. q \in EventsOf(v, s) /\ r \in EventsOf(v, s)
      BY <1>2 DEF TypeOK, Seen, EventsOf
    <3>3. AcceptOutcome(Holding(q), r.sequence) = "applied"
      BY <1>2, <3>1, AcceptEffect
    <3>4. q.sequence \in Nat /\ r.sequence \in Nat /\ q \in Events
      BY <1>2, <3>2, EventFacts DEF EventsOf
    <3>5. q.sequence <= r.sequence
      BY <3>3, <3>4 DEF AcceptOutcome, Holding
    <3>6. q.observedAt <= r.observedAt
      BY <3>2, <3>5, RecordsAssumption
    <3>7. QED
      BY <2>1, <2>2, <3>1, <3>6 DEF Holding
  <2>5. QED
    BY <2>3, <2>4
<1>3. QED
  BY <1>1, <1>2, DeliveryShape

LEMMA ObservedInNat ==
  ASSUME TypeOK
  PROVE  \A v \in Vehicles : \A s \in Signals : registers[v][s].observedAt \in Nat
BY DEF TypeOK, Register

\* Successive snapshots of the store agree forwards: vehicles stay, a reporting
\* vehicle stays reporting, and it was never heard from less recently.
THEOREM ForwardOnly == Spec => SnapshotsNeverRegress
<1> DEFINE Forward(v) == /\ Reporting(v) => Reporting(v)'
                         /\ LastObserved(v) <= LastObserved(v)'
<1>1. IInv /\ IInv' /\ [Next]_vars => [known \subseteq known' /\ \A v \in known : Forward(v)]_vars
  <2> SUFFICES ASSUME IInv, IInv', Next
               PROVE  known \subseteq known' /\ \A v \in known : Forward(v)
    BY DEF vars
  <2>1. PICK r \in Records : Project(r) \/ Discard(r)
    BY DEF Next
  <2>2. known \subseteq known' /\ known \subseteq Vehicles
    BY <2>1, DeliveryShape DEF IInv, TypeOK
  <2>3. ASSUME NEW v \in Vehicles PROVE Forward(v)
    <3>1. /\ \A s \in Telemetry : registers[v][s].observedAt \in Nat
          /\ \A s \in Telemetry : registers'[v][s].observedAt \in Nat
      BY ObservedInNat, EventFacts DEF IInv, TypeOK, Register, Telemetry, Signals
    <3>2. \A s \in Telemetry :
            registers[v][s].present =>
              registers'[v][s].present /\ registers[v][s].observedAt <= registers'[v][s].observedAt
      BY <2>1, <3>1, RegistersAdvance DEF Telemetry, Signals
    <3>3. Reporting(v) => Reporting(v)'
      BY <3>2 DEF Reporting
    <3>4. LastObserved(v) <= LastObserved(v)'
      <4>1. /\ Max(Heard(registers[v])) \in Heard(registers[v])
            /\ \A n \in Heard(registers'[v]) : n <= Max(Heard(registers'[v]))
            /\ Max(Heard(registers'[v])) \in Heard(registers'[v])
        BY <3>1, HeardHasMax
      <4>2. \A n \in Heard(registers[v]) : \E m \in Heard(registers'[v]) : n <= m
        BY <3>1, <3>2 DEF Heard
      <4>3. /\ \A n \in Heard(registers[v]) : n \in Nat
            /\ \A n \in Heard(registers'[v]) : n \in Nat
        BY <3>1 DEF Heard
      <4>4. QED
        BY <4>1, <4>2, <4>3, LastObservedOfRow
    <3>5. QED
      BY <3>3, <3>4
  <2>4. QED
    BY <2>2, <2>3
<1>2. QED
  BY <1>1, Invariant, PTL DEF Spec, SnapshotsNeverRegress

\* Of all deliveries only an applied telemetry event of the vehicle itself moves
\* the time it was last heard from.
LEMMA OnlyOwnTelemetry ==
  ASSUME IInv, Next, NEW v \in Vehicles, LastObserved(v)' # LastObserved(v)
  PROVE  /\ last'.outcome = "applied"
         /\ last'.record.vehicleId = v
         /\ SignalOf(last'.record.type) \in Telemetry
<1>1. PICK r \in Records : Project(r) \/ Discard(r)
  BY DEF Next
<1>2. PICK s \in Telemetry : registers'[v][s] # registers[v][s]
  <2>1. ASSUME \A s \in Telemetry : registers'[v][s] = registers[v][s]
        PROVE  Heard(registers'[v]) = Heard(registers[v])
    BY <2>1 DEF Heard
  <2>2. QED
    BY <2>1, LastObservedOfRow
<1>3. s \in Signals
  BY DEF Telemetry, Signals
<1>4. QED
  BY <1>1, <1>2, <1>3, RegistersAdvance

\* A replayed registration or a late route event freshens no vehicle.
THEOREM FreshnessIsTelemetry == Spec => OnlyTelemetryRefreshes
<1> DEFINE Own(v) == LastObserved(v)' # LastObserved(v) =>
                       /\ last'.outcome = "applied"
                       /\ last'.record.vehicleId = v
                       /\ SignalOf(last'.record.type) \in Telemetry
<1>1. IInv /\ [Next]_vars => [\A v \in Vehicles : Own(v)]_vars
  BY OnlyOwnTelemetry DEF vars
<1>2. QED
  BY <1>1, Invariant, PTL DEF Spec, OnlyTelemetryRefreshes

-----------------------------------------------------------------------------
(* FleetStore implements EventSourcedFleet.                                *)

\* The registers show exactly what the set of accepted records says.
LEMMA ViewIsHistory ==
  IInv =>
    [v \in Vehicles |-> [s \in Signals |-> registers[v][s].value]] = Fleet!ViewOf(accepted)
<1> SUFFICES ASSUME IInv
    PROVE [v \in Vehicles |-> [s \in Signals |-> registers[v][s].value]] = Fleet!ViewOf(accepted)
  OBVIOUS
<1>1. ASSUME NEW v \in Vehicles, NEW s \in Signals
      PROVE  registers[v][s].value = Fleet!Shown(Fleet!About(v, s, accepted))
  <2>1. Fleet!About(v, s, accepted) = Seen(v, s)
    BY DEF Fleet!About, Seen, Fleet!SignalOf, SignalOf
  <2>2. CASE Seen(v, s) = {}
    <3>1. registers[v][s] = Empty
      BY <2>2, HoldsNewestUnfolded DEF IInv
    <3>2. QED
      BY <2>1, <2>2, <3>1 DEF Fleet!Shown, Empty
  <2>3. CASE Seen(v, s) # {}
    <3>1. PICK q \in Seen(v, s) : registers[v][s] = Holding(q) /\ IsNewest(q, Seen(v, s))
      BY <2>3, HoldsNewestUnfolded DEF IInv
    <3>2. ASSUME NEW o \in Seen(v, s), IsNewest(o, Seen(v, s)) PROVE o = q
      <4>1. o \in EventsOf(v, s) /\ q \in EventsOf(v, s)
        BY DEF Seen, EventsOf, IInv, TypeOK
      <4>2. o.sequence \in Nat /\ q.sequence \in Nat
        BY <4>1, EventFacts DEF EventsOf
      <4>3. o.sequence = q.sequence
        BY <3>1, <3>2, <4>2 DEF IsNewest
      <4>4. QED
        BY <4>1, <4>3, RecordsAssumption
    <3>3. Fleet!Newest(Seen(v, s)) = q
      BY <3>1, <3>2 DEF Fleet!Newest, IsNewest
    <3>4. QED
      BY <2>1, <2>3, <3>1, <3>3 DEF Fleet!Shown, Holding, ValueOf
  <2>4. QED
    BY <2>2, <2>3
<1>2. QED
  BY <1>1 DEF Fleet!ViewOf, Fleet!Signals, Signals

\* The store implements the order-free specification: every delivery is either
\* an observation recorded in the history, or invisible.
THEOREM Refinement == Spec => FleetIsEventSourced
<1> DEFINE shown == [v \in Vehicles |-> [s \in Signals |-> registers[v][s].value]]
<1>1. Init => Fleet!Init
  <2> SUFFICES ASSUME Init PROVE Fleet!Init
    OBVIOUS
  <2>1. known = {} /\ accepted = {}
    BY DEF Init
  <2>2. shown = Fleet!ViewOf(accepted)
    BY InitEstablishes, ViewIsHistory
  <2>3. QED
    BY <2>1, <2>2 DEF Fleet!Init
<1>2. (IInv => shown = Fleet!ViewOf(accepted))'
  BY ViewIsHistory, PTL
<1>3. IInv /\ IInv' /\ [Next]_vars => [Fleet!Next]_(Fleet!vars)
  <2> SUFFICES ASSUME IInv, IInv', [Next]_vars PROVE [Fleet!Next]_(Fleet!vars)
    OBVIOUS
  <2>1. CASE UNCHANGED <<known, registers, accepted>>
    BY <2>1 DEF Fleet!vars
  <2>2. CASE Next
    <3>1. PICK r \in Records : Project(r) \/ Discard(r)
      BY <2>2 DEF Next
    <3>2. CASE /\ r \in Events
               /\ Accept(r)
               /\ known' = known \cup {r.vehicleId}
               /\ r.type = "VehicleRegistered" \/ r.vehicleId \in known
      <4>1. known' = known \cup Fleet!Announced(r)
        BY <3>2 DEF Fleet!Announced
      <4>2. accepted' = accepted \cup {r}
        BY <3>2 DEF Accept
      <4>3. shown' = Fleet!ViewOf(accepted')
        BY <1>2
      <4>4. Fleet!Observe(r)
        BY <3>2, <4>1, <4>2, <4>3 DEF Fleet!Observe
      <4>5. QED
        BY <3>2, <4>4 DEF Fleet!Next
    <3>3. QED
      BY <2>1, <3>1, <3>2, DeliveryShape DEF IInv
  <2>3. QED
    BY <2>1, <2>2 DEF vars
<1>4. QED
  BY <1>1, <1>3, Invariant, PTL DEF Spec, FleetIsEventSourced, Fleet!Spec

-----------------------------------------------------------------------------
(* What is shown of the store (FleetView).                                 *)

LEMMA ViewInvariant == ViewSpec => []IInv
<1>1. ViewInit => IInv
  BY InitEstablishes DEF ViewInit
<1>2. IInv /\ [ViewNext]_viewVars => IInv'
  BY InvariantStep DEF ViewNext, Deliver, Tick, viewVars
<1>3. QED
  BY <1>1, <1>2, PTL DEF ViewSpec

-----------------------------------------------------------------------------
(* The copy a publication takes of the store.                              *)

\* It is finite, and holds each vehicle once.
LEMMA StoreSnapshotFinite ==
  ASSUME TypeOK
  PROVE  /\ IsFiniteSet(StoreSnapshot)
         /\ \A x, y \in StoreSnapshot : x.id = y.id => x = y
<1> DEFINE copy == [v \in known |-> StoredVehicle(v)]
<1>1. IsFiniteSet(known)
  BY ViewAssumption, FS_Subset DEF TypeOK
<1>2. copy \in Surjection(known, StoreSnapshot)
  BY DEF Surjection, StoreSnapshot
<1>3. IsFiniteSet(StoreSnapshot)
  BY <1>1, <1>2, FS_Surjection
<1>4. \A v \in known : StoredVehicle(v).id = v
  BY DEF StoredVehicle
<1>5. QED
  BY <1>3, <1>4 DEF StoreSnapshot

\* A vehicle whose status was heard has one of the three statuses.
LEMMA StatusHeard ==
  ASSUME IInv, NEW v \in Vehicles, registers[v]["status"].present
  PROVE  registers[v]["status"].value.status \in Statuses
<1>1. "status" \in Signals
  BY DEF Signals
<1>2. PICK q \in Seen(v, "status") : registers[v]["status"] = Holding(q)
  BY <1>1, HoldsNewestUnfolded DEF IInv, Empty
<1>3. q \in Events /\ SignalOf(q.type) = "status"
  BY DEF Seen, IInv, TypeOK
<1>4. q.type = "VehicleStatus"
  BY <1>3, EventFacts DEF EventTypes, SignalOf
<1>5. q.payload.status \in Statuses
  BY <1>3, <1>4 DEF Events, Interpretable, Plausible
<1>6. QED
  BY <1>2, <1>4, <1>5 DEF Holding, ValueOf

\* So every vehicle on the map has a status the summary counts.
LEMMA ReportingHasStatus ==
  ASSUME IInv, NEW x \in ReportingOf(StoreSnapshot)
  PROVE  x.status \in Statuses
<1>0. \A v \in known : StoredVehicle(v).reporting <=> Reporting(v)
  BY Zenon DEF StoredVehicle, Reporting
<1>1. PICK v \in known : x = StoredVehicle(v) /\ Reporting(v)
  BY <1>0 DEF ReportingOf, StoreSnapshot
<1>2. v \in Vehicles /\ registers[v]["status"].present
  BY <1>1 DEF IInv, TypeOK, Reporting, Telemetry
<1>3. QED
  BY <1>1, <1>2, StatusHeard DEF StoredVehicle

-----------------------------------------------------------------------------
(* Counting.                                                               *)

\* A set of vehicles has as many markers, and as many ids, as vehicles.
LEMMA OneMarkerEach ==
  ASSUME TypeOK, NEW S \in SUBSET StoreSnapshot
  PROVE  /\ IsFiniteSet(S)
         /\ Cardinality({Marker(x, now) : x \in S}) = Cardinality(S)
         /\ Cardinality({x.id : x \in S}) = Cardinality(S)
<1> DEFINE M == {Marker(x, now) : x \in S}
           I == {x.id : x \in S}
           mark == [x \in S |-> Marker(x, now)]
           name == [x \in S |-> x.id]
<1>1. IsFiniteSet(S)
  BY StoreSnapshotFinite, FS_Subset
<1>2. \A x, y \in S : x.id = y.id => x = y
  BY StoreSnapshotFinite
<1>3. \A x, y \in S : Marker(x, now) = Marker(y, now) => x = y
  BY <1>2 DEF Marker
<1>4. mark \in Bijection(S, M)
  BY <1>3 DEF Bijection, Injection, Surjection, IsInjective
<1>5. name \in Bijection(S, I)
  BY <1>2 DEF Bijection, Injection, Surjection, IsInjective
<1>6. ExistsBijection(S, M) /\ ExistsBijection(S, I)
  BY <1>4, <1>5 DEF ExistsBijection
<1>7. QED
  BY <1>1, <1>6, FS_Bijection

\* Two sets with nothing in common are counted one after the other.
LEMMA CountDisjoint ==
  ASSUME NEW S, NEW T, IsFiniteSet(S), IsFiniteSet(T), S \cap T = {}
  PROVE  /\ IsFiniteSet(S \cup T)
         /\ Cardinality(S \cup T) = Cardinality(S) + Cardinality(T)
<1>1. Cardinality(S) \in Nat /\ Cardinality(T) \in Nat
  BY FS_CardinalityType
<1>2. Cardinality(S \cap T) = 0
  BY FS_EmptySet
<1>3. /\ IsFiniteSet(S \cup T)
      /\ Cardinality(S \cup T) = Cardinality(S) + Cardinality(T) - Cardinality(S \cap T)
  BY FS_Union
<1>4. QED
  BY <1>1, <1>2, <1>3

\* What the zones of a coverage have available, together.
AvailableInZones(coverage, S) ==
  LET available(i) == coverage[i].available IN MapThenSumSet(available, S)

\* A figure for every set of zones, which loses with each zone what is available there.
Accumulates(sum, coverage, D) ==
  /\ sum \in [SUBSET D -> Nat] /\ sum[{}] = 0
  /\ \A S \in SUBSET D : \A i \in S : sum[S] = coverage[i].available + sum[S \ {i}]

\* Taking the zones one by one, in whatever order, leads to that figure.
LEMMA SumsTo ==
  ASSUME NEW coverage, NEW D, IsFiniteSet(D), NEW sum, Accumulates(sum, coverage, D)
  PROVE  AvailableInZones(coverage, D) = sum[D]
<1> DEFINE first(S) == CHOOSE i \in S : TRUE
           Sums(f) == f = [S \in SUBSET D |-> IF S = {} THEN 0 ELSE coverage[first(S)].available + f[S \ {first(S)}]]
<1>1. AvailableInZones(coverage, D) = (CHOOSE f : Sums(f))[D]
  BY DEF AvailableInZones, MapThenSumSet, MapThenFoldSet
<1>2. \A S \in SUBSET D : S # {} => first(S) \in S
  OBVIOUS
<1> HIDE DEF first
<1>3. Sums(sum)
  <2>1. \A S \in SUBSET D : sum[S] = IF S = {} THEN 0 ELSE coverage[first(S)].available + sum[S \ {first(S)}]
    BY <1>2 DEF Accumulates
  <2>2. QED
    BY <2>1 DEF Accumulates
<1> HIDE DEF Sums
<1>4. PICK f : f = (CHOOSE g : Sums(g)) /\ Sums(f)
  BY <1>3
<1> DEFINE Good == {n \in Nat : \A S \in SUBSET D : Cardinality(S) = n => f[S] = sum[S]}
<1>5. 0 \in Good
  <2> SUFFICES ASSUME NEW S \in SUBSET D, Cardinality(S) = 0
               PROVE  f[S] = sum[S]
    OBVIOUS
  <2>1. IsFiniteSet(S)
    BY FS_Subset
  <2>2. S = {}
    BY <2>1, FS_EmptySet
  <2>3. QED
    BY <1>4, <2>2 DEF Sums, Accumulates
<1>6. ASSUME NEW n \in Nat, n \in Good
      PROVE  n + 1 \in Good
  <2>0. n + 1 \in Nat
    OBVIOUS
  <2> SUFFICES ASSUME NEW S \in SUBSET D, Cardinality(S) = n + 1
               PROVE  f[S] = sum[S]
    BY <2>0, Zenon
  <2>1. IsFiniteSet(S)
    BY FS_Subset
  <2>2. S # {}
    BY <2>1, FS_EmptySet
  <2>3. PICK i \in S : i = first(S)
    BY <1>2, <2>2
  <2>4. Cardinality(S \ {i}) = n /\ S \ {i} \in SUBSET D
    <3>1. Cardinality(S \ {i}) = Cardinality(S) - 1
      BY <2>1, FS_RemoveElement
    <3>2. QED
      BY <3>1
  <2>5. f[S] = coverage[i].available + f[S \ {i}]
    BY <1>4, <2>2, <2>3 DEF Sums
  <2>6. QED
    BY <1>6, <2>3, <2>4, <2>5 DEF Accumulates
<1>7. Nat \subseteq Good
  <2> HIDE DEF Good
  <2>1. QED
    BY <1>5, <1>6, Naturally
<1>8. Cardinality(D) \in Nat
  BY FS_CardinalityType
<1>9. f[D] = sum[D]
  BY <1>7, <1>8
<1>10. QED
  BY <1>1, <1>4, <1>9

\* Every place is in one of the zones or in none.
LEMMA InAZoneOrNone ==
  ASSUME NEW position
  PROVE  ZoneFor(position) = ZoneNone \/ \E i \in DOMAIN Zones : ZoneFor(position) = Zones[i].id
<1> DEFINE holding == {i \in DOMAIN Zones : Contains(Zones[i].boundary, position)}
<1>1. holding \in SUBSET Nat
  BY DeriveAssumption
<1>2. CASE holding # {}
  <2>1. PICK n \in holding : \A m \in holding : n <= m
    BY <1>1, <1>2, LeastOf
  <2>2. Min(holding) \in holding
    BY <2>1 DEF Min
  <2>3. ZoneFor(position) = Zones[Min(holding)].id
    BY <1>2 DEF ZoneFor
  <2>4. QED
    BY <2>2, <2>3
<1>3. CASE holding = {}
  BY <1>3 DEF ZoneFor
<1>4. QED
  BY <1>2, <1>3

-----------------------------------------------------------------------------
(* The theorems.                                                           *)

\* The total is the sum of the status counts and those awaiting a first report,
\* and what is drawn is the total without them.
THEOREM Reconciles == ViewSpec => []SummaryReconciles
<1> DEFINE V == StoreSnapshot
           F == InStatus(V, "FREE")
           E == InStatus(V, "EN_ROUTE")
           C == InStatus(V, "WITH_CUSTOMER")
           R == ReportingOf(V)
           A == V \ R
<1>1. IInv => SummaryReconciles
  <2> SUFFICES ASSUME IInv PROVE SummaryReconciles
    OBVIOUS
  <2> TypeOK
    BY DEF IInv
  <2>1. /\ F \subseteq R /\ E \subseteq R /\ C \subseteq R /\ R \subseteq V
        /\ F \cap E = {} /\ (F \cup E) \cap C = {}
    BY DEF InStatus, ReportingOf
  <2>2. R = (F \cup E) \cup C
    BY ReportingHasStatus DEF InStatus, Statuses
  <2>3. V = R \cup A /\ R \cap A = {}
    BY <2>1
  <2>4. IsFiniteSet(F) /\ IsFiniteSet(E) /\ IsFiniteSet(C) /\ IsFiniteSet(R) /\ IsFiniteSet(A)
    BY <2>1, StoreSnapshotFinite, FS_Subset
  <2>5. /\ IsFiniteSet(F \cup E)
        /\ Cardinality(F \cup E) = Cardinality(F) + Cardinality(E)
    BY <2>1, <2>4, CountDisjoint
  <2>6. Cardinality(R) = Cardinality(F \cup E) + Cardinality(C)
    BY <2>1, <2>2, <2>4, <2>5, CountDisjoint
  <2>7. Cardinality(V) = Cardinality(R) + Cardinality(A)
    BY <2>3, <2>4, CountDisjoint
  <2>8. /\ Cardinality(F) \in Nat /\ Cardinality(E) \in Nat /\ Cardinality(C) \in Nat
        /\ Cardinality(R) \in Nat /\ Cardinality(A) \in Nat
    BY <2>4, FS_CardinalityType
  <2>9. /\ Cardinality({Marker(x, now) : x \in R}) = Cardinality(R)
        /\ Cardinality({x.id : x \in A}) = Cardinality(A)
    BY <2>1, OneMarkerEach
  <2>10. /\ View.summary.total = Cardinality(V)
         /\ View.summary.free = Cardinality(F)
         /\ View.summary.enRoute = Cardinality(E)
         /\ View.summary.withCustomer = Cardinality(C)
         /\ View.summary.awaitingFirstReport = Cardinality(A)
         /\ View.vehicles = {Marker(x, now) : x \in R}
         /\ View.awaitingFirstReport = {x.id : x \in A}
    BY DEF View, Snapshot, Summary
  <2> HIDE DEF V, F, E, C, R, A
  <2>11. QED
    BY <2>5, <2>6, <2>7, <2>8, <2>9, <2>10 DEF SummaryReconciles
<1>2. QED
  BY <1>1, ViewInvariant, PTL

\* derive.coverage and derive.summary: the zones' available vehicles and those outside any
\* zone make up the free ones, for any zones, however they overlap, and any fleet.
THEOREM CoverageAddsUp == ViewSpec => []FreeAddUp
<1> DEFINE V == StoreSnapshot
           F == InStatus(V, "FREE")
           Within(S) == {x \in F : \E i \in S : ZoneFor(x.position) = Zones[i].id}
           D == DOMAIN Zones
           sum == [S \in SUBSET D |-> Cardinality(Within(S))]
           Outside == AvailableIn(V, ZoneNone)
<1>1. IsFiniteSet(D)
  <2>1. Len(Zones) \in Nat /\ D = 1..Len(Zones)
    BY DeriveAssumption
  <2>2. QED
    BY <2>1, FS_Interval
<1>2. \A i, j \in D : Zones[i].id # ZoneNone /\ (Zones[i].id = Zones[j].id => i = j)
  BY DeriveAssumption DEF UsableZones
<1>3. ASSUME IInv
      PROVE  View.summary.free = AvailableInZones(View.coverage, D)
                                   + View.summary.availableOutsideAnyZone
  <2>1. TypeOK
    BY <1>3 DEF IInv
  <2>2. IsFiniteSet(F) /\ Outside \subseteq F
    BY <2>1, StoreSnapshotFinite, FS_Subset DEF InStatus, ReportingOf, AvailableIn
  <2>3. \A S \in SUBSET D : IsFiniteSet(Within(S)) /\ Cardinality(Within(S)) \in Nat
    BY <2>2, FS_Subset, FS_CardinalityType
  <2>4. Cardinality(Within({})) = 0
    BY FS_EmptySet
  <2>5. ASSUME NEW S \in SUBSET D, NEW i \in S
        PROVE  sum[S] = View.coverage[i].available + sum[S \ {i}]
    <3> DEFINE here == AvailableIn(V, Zones[i].id)
    <3>1. View.coverage[i].available = Cardinality(here)
      BY DEF View, Snapshot, Coverage
    <3>2. Within(S) = here \cup Within(S \ {i}) /\ here \cap Within(S \ {i}) = {}
      BY <1>2 DEF AvailableIn
    <3>3. here \subseteq F
      BY DEF AvailableIn
    <3>4. IsFiniteSet(here) /\ IsFiniteSet(Within(S \ {i}))
      BY <2>2, <2>3, <3>3, FS_Subset
    <3> HIDE DEF here, Within
    <3>5. Cardinality(Within(S)) = Cardinality(here) + Cardinality(Within(S \ {i}))
      BY <3>2, <3>4, CountDisjoint
    <3>6. QED
      BY <3>1, <3>5
  <2>6. AvailableInZones(View.coverage, D) = Cardinality(Within(D))
    <3>1. PICK coverage, f, d : coverage = View.coverage /\ f = sum /\ d = D
      OBVIOUS
    <3>2. IsFiniteSet(d)
      BY <1>1, <3>1
    <3>3. f \in [SUBSET d -> Nat] /\ f[{}] = 0
      BY <2>3, <2>4, <3>1
    <3>4. \A S \in SUBSET d : \A i \in S : f[S] = coverage[i].available + f[S \ {i}]
      BY <2>5, <3>1
    <3>5. f[d] = Cardinality(Within(D))
      BY <3>1
    <3> HIDE DEF sum, Within, D
    <3>6. AvailableInZones(coverage, d) = f[d]
      <4>1. Accumulates(f, coverage, d)
        BY <3>3, <3>4 DEF Accumulates
      <4>2. QED
        BY <3>2, <4>1, SumsTo
    <3>7. QED
      BY <3>1, <3>5, <3>6
  <2>7. Cardinality(F) = Cardinality(Within(D)) + Cardinality(Outside)
    <3>1. F = Within(D) \cup Outside
      BY InAZoneOrNone DEF AvailableIn
    <3>2. Within(D) \cap Outside = {}
      BY <1>2 DEF AvailableIn
    <3>3. IsFiniteSet(Within(D)) /\ IsFiniteSet(Outside)
      BY <2>2, <2>3, FS_Subset
    <3> HIDE DEF F, Within, Outside
    <3>4. QED
      BY <3>1, <3>2, <3>3, CountDisjoint
  <2>8. /\ View.summary.free = Cardinality(F)
        /\ View.summary.availableOutsideAnyZone = Cardinality(Outside)
    BY DEF View, Snapshot, Summary
  <2>9. QED
    BY <2>6, <2>7, <2>8
<1>4. FreeAddUp <=>
        View.summary.free = AvailableInZones(View.coverage, D)
                              + View.summary.availableOutsideAnyZone
  BY Zenon DEF FreeAddUp, AvailableInZones
<1>5. IInv => FreeAddUp
  BY <1>3, <1>4
<1>6. QED
  BY <1>5, ViewInvariant, PTL

\* The geometry published is that of the routes the markers reference.
THEOREM RoutesAreReferenced == ViewSpec => []RoutesMatchMarkers
<1> DEFINE R == ReportingOf(StoreSnapshot)
<1>1. {x.routeId : x \in {y \in R : y.status = "EN_ROUTE"}} \ {""} = {RouteShown(x) : x \in R} \ {""}
  BY DEF RouteShown
<1>2. View.vehicles = {Marker(x, now) : x \in R}
  BY DEF View, Snapshot
<1>3. \A x \in R : Marker(x, now).routeId = RouteShown(x)
  BY DEF Marker
<1>4. RoutesMatchMarkers
  <2> HIDE DEF R
  <2>1. {m.routeId : m \in View.vehicles} = {RouteShown(x) : x \in R}
    BY <1>2, <1>3
  <2>2. QED
    BY <1>1, <2>1 DEF RoutesMatchMarkers, Routes, InStatus, R
<1>5. QED
  BY <1>4, PTL

\* Each figure of the summary is the number of markers its own filter leaves.
THEOREM FiguresAgree == ViewSpec => []FiguresMatchFilters
<1> DEFINE R == ReportingOf(StoreSnapshot)
<1>1. View.vehicles = {Marker(x, now) : x \in R}
  BY DEF View, Snapshot
<1>2. /\ View.summary.free = Cardinality({x \in R : x.status = "FREE"})
      /\ View.summary.enRoute = Cardinality({x \in R : x.status = "EN_ROUTE"})
      /\ View.summary.withCustomer = Cardinality({x \in R : x.status = "WITH_CUSTOMER"})
      /\ View.summary.stale = Cardinality({x \in R : Stale(x, now)})
      /\ View.summary.lowBattery = Cardinality({x \in R : LowBattery(x)})
  BY DEF View, Snapshot, Summary, InStatus
<1>3. \A x \in R : /\ Marker(x, now).status = x.status
                   /\ Marker(x, now).attentionReasons = AttentionReasons(x, now)
  BY DEF Marker
<1>4. ASSUME IInv, NEW s
      PROVE  Showing(View, {s}, {}) = Cardinality({x \in R : x.status = s})
  <2> HIDE DEF R
  <2>1. {m \in View.vehicles : Matches([statuses |-> {s}, attention |-> {}], m)}
          = {Marker(x, now) : x \in {y \in R : y.status = s}}
    BY <1>1, <1>3 DEF Matches
  <2>2. {x \in R : x.status = s} \in SUBSET StoreSnapshot
    BY DEF R, ReportingOf
  <2>3. QED
    BY <1>4, <2>1, <2>2, OneMarkerEach DEF Showing, IInv
<1>5. ASSUME IInv
      PROVE  /\ Showing(View, {}, {"STALE"}) = Cardinality({x \in R : Stale(x, now)})
             /\ Showing(View, {}, {"LOW_BATTERY"}) = Cardinality({x \in R : LowBattery(x)})
  <2>1. \A x \in R : /\ {"STALE"} \cap AttentionReasons(x, now) # {} <=> Stale(x, now)
                     /\ {"LOW_BATTERY"} \cap AttentionReasons(x, now) # {} <=> LowBattery(x)
    BY DEF AttentionReasons
  <2>2. {x \in R : Stale(x, now)} \in SUBSET StoreSnapshot
        /\ {x \in R : LowBattery(x)} \in SUBSET StoreSnapshot
    BY DEF ReportingOf
  <2> HIDE DEF R
  <2>3. {m \in View.vehicles : Matches([statuses |-> {}, attention |-> {"STALE"}], m)}
          = {Marker(x, now) : x \in {y \in R : Stale(y, now)}}
    BY <1>1, <1>3, <2>1 DEF Matches
  <2>4. {m \in View.vehicles : Matches([statuses |-> {}, attention |-> {"LOW_BATTERY"}], m)}
          = {Marker(x, now) : x \in {y \in R : LowBattery(y)}}
    BY <1>1, <1>3, <2>1 DEF Matches
  <2>5. QED
    BY <1>5, <2>2, <2>3, <2>4, OneMarkerEach DEF Showing, IInv
<1>6. IInv => FiguresMatchFilters
  <2> HIDE DEF R
  <2>1. QED
    BY <1>2, <1>4, <1>5 DEF FiguresMatchFilters
<1>7. QED
  BY <1>6, ViewInvariant, PTL

\* The time a vehicle was last heard from is a number.
LEMMA LastObservedInNat == IInv => \A v \in Vehicles : LastObserved(v) \in Nat
<1> SUFFICES ASSUME IInv, NEW v \in Vehicles PROVE LastObserved(v) \in Nat
  OBVIOUS
<1>1. \A s \in Telemetry : registers[v][s].observedAt \in Nat
  BY ObservedInNat DEF IInv, Telemetry, Signals
<1>2. Max(Heard(registers[v])) \in Heard(registers[v])
  BY <1>1, HeardHasMax
<1>3. \A n \in Heard(registers[v]) : n \in Nat
  BY <1>1 DEF Heard
<1>4. QED
  BY <1>2, <1>3, LastObservedOfRow

\* A vehicle stops looking silent, or looks less silent, only because it spoke.
THEOREM OnlyReportsEndSilence == ViewSpec => SilenceEndsOnlyByReport
<1> DEFINE Clock == now \in Nat
           Ended(v) == Reporting(v) /\ (\/ Condition(v) = "STALE" /\ Condition(v)' # "STALE"
                                        \/ Silence(v)' < Silence(v))
           Spoke(v) == /\ last'.outcome = "applied"
                       /\ last'.record.vehicleId = v
                       /\ SignalOf(last'.record.type) \in Telemetry
<1>1. ViewSpec => []Clock
  <2>1. ViewInit => Clock
    BY DEF ViewInit
  <2>2. Clock /\ [ViewNext]_viewVars => Clock'
    BY DEF ViewNext, Deliver, Tick, viewVars
  <2>3. QED
    BY <2>1, <2>2, PTL DEF ViewSpec
<1>2. (IInv => \A v \in Vehicles : LastObserved(v) \in Nat)'
  BY LastObservedInNat, PTL
<1>3. IInv /\ IInv' /\ Clock /\ [ViewNext]_viewVars => [\A v \in Vehicles : Ended(v) => Spoke(v)]_viewVars
  <2> SUFFICES ASSUME IInv, IInv', Clock, ViewNext, NEW v \in Vehicles, Ended(v)
               PROVE  Spoke(v)
    BY DEF viewVars
  <2>1. LastObserved(v) \in Nat /\ LastObserved(v)' \in Nat
    BY <1>2, LastObservedInNat
  <2>2. now' \in Nat /\ now <= now'
    BY DEF ViewNext, Deliver, Tick
  <2>3. LastObserved(v)' # LastObserved(v)
    <3> DEFINE l == LastObserved(v)
               m == LastObserved(v)'
    <3>1. /\ StoredVehicle(v).lastObserved = l
          /\ StoredVehicle(v)'.lastObserved = m
      BY DEF StoredVehicle
    <3>2. CASE Condition(v) = "STALE" /\ Condition(v)' # "STALE"
      <4>1. now - l > StaleAfter
        BY <3>1, <3>2 DEF Condition, Attention, Stale
      <4>2. ~(now' - m > StaleAfter)
        BY <3>1, <3>2 DEF Condition, Attention, Stale
      <4> HIDE DEF l, m
      <4>3. QED
        BY <2>1, <2>2, <4>1, <4>2, DeriveAssumption DEF l, m
    <3>3. CASE Silence(v)' < Silence(v)
      <4>1. /\ Silence(v) = IF now > l THEN now - l ELSE 0
            /\ Silence(v)' = IF now' > m THEN now' - m ELSE 0
        BY <3>1 DEF Silence, SilentFor
      <4>2. QED
        BY <2>1, <2>2, <3>3, <4>1
    <3>4. QED
      BY <3>2, <3>3
  <2>4. Next
    BY <2>3 DEF ViewNext, Deliver, Tick, vars, LastObserved
  <2>5. QED
    BY <2>3, <2>4, OnlyOwnTelemetry
<1>4. QED
  BY <1>1, <1>3, ViewInvariant, PTL DEF ViewSpec, SilenceEndsOnlyByReport

=============================================================================
