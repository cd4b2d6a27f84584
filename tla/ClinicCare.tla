----------------------------- MODULE ClinicCare -----------------------------
(***************************************************************************)
(* What the clinic of lab-10 promises, without its threads, mutexes, seats *)
(* and bells: patients are treated in rounds, a full waiting room at a     *)
(* time, each of them once, with medicine for all of them; the cabinet is  *)
(* filled only when there is not enough for a round.                       *)
(***************************************************************************)
EXTENDS Naturals, FiniteSets

CONSTANTS Patients,   \* who may come
          RoomSize    \* patients in a round, and units of medicine for it

VARIABLES waiting,    \* patients in the waiting room
          treated,    \* patients who have been treated
          medicine    \* units in the cabinet

careVars == <<waiting, treated, medicine>>

CareInit ==
    /\ waiting = {}
    /\ treated = {}
    /\ medicine = 0

Arrive(p) ==
    /\ p \notin waiting \cup treated
    /\ Cardinality(waiting) < RoomSize
    /\ waiting' = waiting \cup {p}
    /\ UNCHANGED <<treated, medicine>>

TreatRound ==
    /\ Cardinality(waiting) = RoomSize
    /\ medicine >= RoomSize
    /\ waiting' = {}
    /\ treated' = treated \cup waiting
    /\ medicine' = medicine - RoomSize

FillCabinet ==
    /\ medicine < RoomSize
    /\ medicine' = 2 * RoomSize
    /\ UNCHANGED <<waiting, treated>>

CareNext == (\E p \in Patients : Arrive(p)) \/ TreatRound \/ FillCabinet

CareSpec == CareInit /\ [][CareNext]_careVars
=============================================================================
