-------------------------------- MODULE Impact --------------------------------
(***************************************************************************)
(* What a disruption touches: impact_of of the dependency graph, and the   *)
(* projection that turns an absence into a fact the rules can see.         *)
(* An event is [kind, subject, from, to], the window being the one of its  *)
(* payload or the 24 hours after it occurred.                              *)
(***************************************************************************)
EXTENDS Rules

EventKinds == {"location.blocked", "actor.unavailable", "equipment.failed",
               "crew.unavailable", "weather.changed"}

\* The graph keeps one set of scenes per date, the last row's.
DayScenes(rows) == [d \in DOMAIN ByDate(rows) |-> ByDate(rows)[d].scenes]

\* A window covers whole dates: the one it starts on, not the one it ends on.
Covers(event, d) == DateAt(event.from) <= d /\ d < DateAt(event.to)

ScenesInWindow(rows, event) ==
    UNION {DayScenes(rows)[d] : d \in {e \in DOMAIN DayScenes(rows) : Covers(event, e)}}

LocationBlocked(state, event) ==
    {s \in ScenesInWindow(state.rows, event) : state.place[s] = event.subject}

ActorUnavailable(state, event) ==
    {s \in ScenesInWindow(state.rows, event) : event.subject \in Cast[s]}

\* A failure has no window: every scene that needs the item is touched.
EquipmentFailed(event) == {s \in Scenes : event.subject \in Gear[s]}

CrewUnavailable(state, event) ==
    UNION {DayScenes(state.rows)[row.date] :
            row \in {r \in ToSet(state.rows) : r.unit = event.subject /\ Covers(event, r.date)}}

WeatherChanged(state, event) == ScenesInWindow(state.rows, event) \cap Outdoors

Direct(state, event) ==
    CASE event.kind = "location.blocked"  -> LocationBlocked(state, event)
      [] event.kind = "actor.unavailable" -> ActorUnavailable(state, event)
      [] event.kind = "equipment.failed"  -> EquipmentFailed(event)
      [] event.kind = "crew.unavailable"  -> CrewUnavailable(state, event)
      [] event.kind = "weather.changed"   -> WeatherChanged(state, event)

\* Everything that depends on a scene of S, directly or not.
Dependants(state, S) ==
    LET Complete(T) == \A t \in Scenes :
                          state.needs[t] \cap (S \cup T) # {} => t \in T
    IN  {s \in Scenes : \A T \in SUBSET Scenes : Complete(T) => s \in T}

\* ImpactReport, as far as a plan depends on it.
ImpactOf(state, event) ==
    LET direct     == Direct(state, event)
        downstream == Dependants(state, direct) \ direct
        affected   == direct \cup downstream
    IN  [direct     |-> direct,
         downstream |-> downstream,
         places     |-> {state.place[s] : s \in affected},
         days       |-> {OnDate(state.rows, s) : s \in affected \cap Scheduled(state.rows)}]

Absence(event) == [from |-> event.from, to |-> event.to]

\* Mutants: the projection is forgotten, or it replaces what was known.
ProjectDisruptionForgotten(state, event) == state
ProjectDisruptionReplaces(state, event) ==
    IF event.kind = "actor.unavailable" /\ event.subject \in DOMAIN state.away
    THEN [state EXCEPT !.away[event.subject] = {Absence(event)}]
    ELSE state

\* An absence joins the windows of the person it names; nothing else is added.
ProjectDisruption(state, event) ==
    IF /\ event.kind = "actor.unavailable"
       /\ event.subject \in DOMAIN state.away
       /\ event.from < event.to
    THEN [state EXCEPT !.away[event.subject] = @ \cup {Absence(event)}]
    ELSE state
===============================================================================
