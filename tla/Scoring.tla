------------------------------- MODULE Scoring -------------------------------
(***************************************************************************)
(* The three measures plans compete on: delay, cost and risk, in whole     *)
(* numbers.  Delay counts 1/10000 day, cost 1/100 of the currency, risk    *)
(* 1/1200, so that what config/scoring.yaml writes in decimals is exact;   *)
(* its switches are taken as shipped (slips weighted by duration, released *)
(* locations forfeit).                                                     *)
(***************************************************************************)
EXTENDS Candidates

CONSTANTS
    Plates,       \* scenes with a VFX plate
    PlaceRate,    \* day_rate of each place
    PersonRate,   \* daily_rate of each person
    GearRate,     \* daily_rate of each piece of equipment
    Tariff        \* config/scoring.yaml: amounts in 1/100, slips in 1/10 day

\* What is paid for has a price.
ASSUME RatesAssumption ==
    /\ Plates \subseteq Scenes
    /\ \A l \in Places : PlaceRate[l] \in Int
    /\ \A s \in Scenes :
          /\ IsFiniteSet(Cast[s]) /\ \A p \in Cast[s] : PersonRate[p] \in Int
          /\ IsFiniteSet(Gear[s]) /\ \A e \in Gear[s] : GearRate[e] \in Int
    /\ {Tariff.plateSlip, Tariff.plateRelocationSlip, Tariff.shiftEquivalent, Tariff.holding,
        Tariff.overtime, Tariff.reserveFee, Tariff.platePenalty} \subseteq Int

Ratio(num, den) == (2 * num + den) \div (2 * den)

\* The facts a score compares, as sets over a state's days.
ShootingDates(st) == {r.date : r \in {q \in ToSet(st.rows) : q.scenes # {}}}
LocationDays(st) == {<<r.date, r.place>> : r \in {q \in ToSet(st.rows) : q.scenes # {}}}
CastDays(st) == UNION {UNION {Cast[s] \X {r.date} : s \in r.scenes} : r \in ToSet(st.rows)}
EquipmentDays(st) == UNION {GearOf(r) \X {r.date} : r \in ToSet(st.rows)}
Lengths(st) == [d \in DOMAIN ByDate(st.rows) |-> ByDate(st.rows)[d].wrap - ByDate(st.rows)[d].call]
CallTimes(st) == [d \in DOMAIN ByDate(st.rows) |-> ByDate(st.rows)[d].call]

MovedScenes(base, cand) ==
    {s \in Scheduled(base.rows) \cap Scheduled(cand.rows) :
        OnDate(base.rows, s) # OnDate(cand.rows, s)}

RelocatedPlates(base, cand) == {s \in Plates : base.place[s] # cand.place[s]}

\* Cast called for a day that lost all its work.
HeldCastDays(base, cand) ==
    {h \in CastDays(base) : h[2] \in ShootingDates(base) \ ShootingDates(cand)}

\* The slip of the work that moved later, weighted by its length; a relocated
\* plate slips too.  Nothing slipped, but a day changed: a little.
Delay(base, cand) ==
    LET Slip(s)  == OnDate(cand.rows, s) - OnDate(base.rows, s)
        late     == {s \in MovedScenes(base, cand) : Slip(s) > 0}
        plates   == RelocatedPlates(base, cand)
        Later(s) == Slip(s) * Minutes[s] * (IF s \in Plates THEN Tariff.plateSlip ELSE 10)
        Stale(s) == Minutes[s] * Tariff.plateRelocationSlip
        weight   == SumFunction([s \in late |-> Minutes[s]])
                      + SumFunction([s \in plates |-> Minutes[s]])
    IN  IF late \cup plates # {}
        THEN Ratio(1000 * (SumFunction([s \in late |-> Later(s)])
                              + SumFunction([s \in plates |-> Stale(s)])), weight)
        ELSE IF CallTimes(base) # CallTimes(cand) \/ Lengths(base) # Lengths(cand)
             THEN 1000 * Tariff.shiftEquivalent
             ELSE 0

Cost(base, cand) ==
    LET grown == {d \in DOMAIN Lengths(base) \cap DOMAIN Lengths(cand) :
                    Lengths(cand)[d] > Lengths(base)[d]}
    IN    SumFunction([b \in LocationDays(cand) \ LocationDays(base) |-> 100 * PlaceRate[b[2]]])
        + SumFunction([h \in HeldCastDays(base, cand) |-> Tariff.holding * PersonRate[h[1]]])
        + SumFunction([e \in EquipmentDays(cand) \ EquipmentDays(base) |-> 100 * GearRate[e[1]]])
        + SumFunction([d \in grown |-> Tariff.overtime * (Lengths(cand)[d] - Lengths(base)[d])])
        + Tariff.reserveFee
            * Cardinality((ShootingDates(cand) \ ShootingDates(base)) \cap ReserveDays)
        + Tariff.platePenalty * Cardinality(RelocatedPlates(base, cand))

\* Each factor saturates; the weights sum to 100, so a risk is at most 1200.
Risk(base, cand) ==
    LET moved == MovedScenes(base, cand)
        Share(weight, count, ceiling) == (weight * 12 * Min({count, ceiling})) \div ceiling
        nights == Cardinality({s \in moved : Light[s] \in {"NIGHT", "DUSK"}})
        opened == Cardinality(ShootingDates(cand) \ ShootingDates(base))
    IN    Share(10, nights, 3)
        + Share(20, Cardinality(moved \cap Outdoors), 3)
        + Share(15, opened, 2)
        + Share(10, Cardinality(HeldCastDays(base, cand)), 4)
        + Share(45, Cardinality(RelocatedPlates(base, cand)), 2)

Score(base, cand) ==
    <<Delay(base, cand), Cost(base, cand), Risk(base, cand)>>
==============================================================================
