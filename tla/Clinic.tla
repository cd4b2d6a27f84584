------------------------------- MODULE Clinic -------------------------------
(***************************************************************************)
(* lab-10/zad.c: patients, pharmacists and one doctor, threads that meet   *)
(* over three mutexes and three condition variables.  The doctor sleeps    *)
(* until SEATS patients wait and there is medicine for them, or until a    *)
(* pharmacist waits and there is not.                                      *)
(*                                                                         *)
(* A thread blocked in pthread_cond_wait is at one of the labels in        *)
(* Asleep; a signal, a broadcast or a spurious wakeup moves it to the      *)
(* statement that takes its mutex back.  mutex_lekarz is locked by nobody  *)
(* but the doctor and excludes nobody: it has no variable.                 *)
(***************************************************************************)
EXTENDS Integers, FiniteSets

CONSTANTS Patients,     \* pacjenci[N]; a patient stands for its id, not 0
          Pharmacists,  \* farmaceuci[M]
          Doctor,       \* lekarz
          Nobody,       \* no owner of a mutex, no id (0) in a seat
          SEATS         \* 3: seats, and units of medicine a consultation takes

ASSUME ClinicAssumption ==
    /\ SEATS \in Nat \ {0}
    /\ Patients \cap Pharmacists = {}
    /\ Doctor \notin Patients \cup Pharmacists
    /\ Nobody \notin Patients \cup Pharmacists \cup {Doctor}

VARIABLES oczekujacy_pacjenci,     \* patients in the waiting room
          farmaceuta_czeka,        \* a pharmacist waits with a delivery
          leki,                    \* units of medicine in the cabinet
          id_pacjentow_w_kolejce,  \* who sits where
          id_w_kolejce,            \* each patient's own seat, Nobody before
          owner,                   \* the holder of each mutex
          pc,                      \* next statement of each thread
          consulted                \* history: whom the doctor has called in

room == <<oczekujacy_pacjenci, id_pacjentow_w_kolejce, id_w_kolejce, consulted>>
cabinet == <<leki, farmaceuta_czeka>>
vars == <<room, cabinet, owner, pc>>

Threads == Patients \cup Pharmacists \cup {Doctor}
Mutexes == {"oczek", "leki", "farm"}
Seats == 0 .. SEATS - 1
FULL == 2 * SEATS      \* 6: what a delivery fills the cabinet to

PatientPc == {"arrive", "desk", "wake", "leaveDesk", "return", "look", "asleep", "done"}
PharmacistPc == {"arrive", "inspect", "asleepFull", "report", "ring", "wake",
                 "leaveBell", "return", "verify", "asleepEmpty", "done"}
DoctorPc == {"check", "doze", "asleep", "choose", "lockRoom", "lockCabinet",
             "consult", "unlockCabinet", "unlockRoom", "announce", "lockBell",
             "lockStock", "restock", "unlockStock", "unlockBell", "announceStock",
             "cancelled"}
-----------------------------------------------------------------------------
Goto(t, from, to) ==
    /\ pc[t] = from
    /\ pc' = [pc EXCEPT ![t] = to]

Lock(m, t) ==
    /\ owner[m] = Nobody
    /\ owner' = [owner EXCEPT ![m] = t]

Unlock(m, t) ==
    /\ owner[m] = t
    /\ owner' = [owner EXCEPT ![m] = Nobody]

\* pc after t has gone from one statement to another and woken those of the
\* sleepers who are at label; they go on to the statement "retake".
GotoWaking(t, from, to, sleepers, label, retake) ==
    /\ pc[t] = from
    /\ pc' = [s \in Threads |-> IF s = t THEN to
                                ELSE IF s \in sleepers /\ pc[s] \in label THEN retake
                                ELSE pc[s]]

\* pthread_cond_signal(&cond_lekarz): only the doctor ever waits for it.
GotoSignalling(t, from, to) == GotoWaking(t, from, to, {Doctor}, {"asleep"}, "check")

Init ==
    /\ oczekujacy_pacjenci = 0
    /\ farmaceuta_czeka = FALSE
    /\ leki = 0
    /\ id_pacjentow_w_kolejce = [s \in Seats |-> Nobody]
    /\ id_w_kolejce = [p \in Patients |-> Nobody]
    /\ owner = [m \in Mutexes |-> Nobody]
    /\ pc = [t \in Threads |-> IF t = Doctor THEN "check" ELSE "arrive"]
    /\ consulted = {}

-----------------------------------------------------------------------------
\* A patient.

\* After the journey, or a later return: the lock of line 45 or 52.
EnterRoom(p) ==
    /\ Goto(p, "arrive", "desk")
    /\ Lock("oczek", p)
    /\ UNCHANGED <<room, cabinet>>

\* A fault: the patient goes away without unlocking.
TurnAwayLocked(p) ==
    /\ oczekujacy_pacjenci >= SEATS
    /\ Goto(p, "desk", "arrive")
    /\ UNCHANGED <<room, cabinet, owner>>

\* The room is full: unlock, sleep, come back.
TurnAway(p) ==
    /\ oczekujacy_pacjenci >= SEATS
    /\ Goto(p, "desk", "arrive")
    /\ Unlock("oczek", p)
    /\ UNCHANGED <<room, cabinet>>

\* A fault: the seat is noted after the counter has been incremented.
SitLate(p) ==
    /\ oczekujacy_pacjenci < SEATS
    /\ Goto(p, "desk", IF oczekujacy_pacjenci + 1 = SEATS THEN "wake" ELSE "leaveDesk")
    /\ id_pacjentow_w_kolejce' = [id_pacjentow_w_kolejce EXCEPT ![oczekujacy_pacjenci] = p]
    /\ id_w_kolejce' = [id_w_kolejce EXCEPT ![p] = (oczekujacy_pacjenci + 1) % SEATS]
    /\ oczekujacy_pacjenci' = oczekujacy_pacjenci + 1
    /\ UNCHANGED <<cabinet, owner, consulted>>

Sit(p) ==
    /\ oczekujacy_pacjenci < SEATS
    /\ Goto(p, "desk", IF oczekujacy_pacjenci + 1 = SEATS THEN "wake" ELSE "leaveDesk")
    /\ id_pacjentow_w_kolejce' = [id_pacjentow_w_kolejce EXCEPT ![oczekujacy_pacjenci] = p]
    /\ id_w_kolejce' = [id_w_kolejce EXCEPT ![p] = oczekujacy_pacjenci]
    /\ oczekujacy_pacjenci' = oczekujacy_pacjenci + 1
    /\ UNCHANGED <<cabinet, owner, consulted>>

\* The one who fills the room signals the doctor.
WakeDoctor(p) ==
    /\ GotoSignalling(p, "wake", "leaveDesk")
    /\ UNCHANGED <<room, cabinet, owner>>

LeaveDesk(p) ==
    /\ Goto(p, "leaveDesk", "return")
    /\ Unlock("oczek", p)
    /\ UNCHANGED <<room, cabinet>>

\* The lock of line 68, or pthread_cond_wait taking the mutex back.
ReturnToRoom(p) ==
    /\ Goto(p, "return", "look")
    /\ Lock("oczek", p)
    /\ UNCHANGED <<room, cabinet>>

StillSeated(p) == \E s \in Seats : id_w_kolejce[p] = s /\ id_pacjentow_w_kolejce[s] = p

AwaitConsultation(p) ==
    /\ StillSeated(p)
    /\ Goto(p, "look", "asleep")
    /\ Unlock("oczek", p)
    /\ UNCHANGED <<room, cabinet>>

\* A fault: the patient counts itself out of the room, as the doctor did.
FinishVisitCounting(p) ==
    /\ ~StillSeated(p)
    /\ Goto(p, "look", "done")
    /\ Unlock("oczek", p)
    /\ oczekujacy_pacjenci' = IF oczekujacy_pacjenci = 0 THEN 0 ELSE oczekujacy_pacjenci - 1
    /\ UNCHANGED <<id_pacjentow_w_kolejce, id_w_kolejce, consulted, cabinet>>

FinishVisit(p) ==
    /\ ~StillSeated(p)
    /\ Goto(p, "look", "done")
    /\ Unlock("oczek", p)
    /\ UNCHANGED <<room, cabinet>>

\* A fault: an if around the wait in place of the while.
PatientSpuriousLeaves(p) ==
    /\ Goto(p, "asleep", "done")
    /\ UNCHANGED <<room, cabinet, owner>>

PatientSpurious(p) ==
    /\ Goto(p, "asleep", "return")
    /\ UNCHANGED <<room, cabinet, owner>>

PatientRuns(p) ==
    TurnAway(p) \/ Sit(p) \/ WakeDoctor(p) \/ LeaveDesk(p)
    \/ AwaitConsultation(p) \/ FinishVisit(p)
PatientLocks(p) == EnterRoom(p) \/ ReturnToRoom(p)

-----------------------------------------------------------------------------
\* A pharmacist.

\* The lock of line 86, or pthread_cond_wait taking the mutex back.
InspectCabinet(f) ==
    /\ Goto(f, "arrive", "inspect")
    /\ Lock("leki", f)
    /\ UNCHANGED <<room, cabinet>>

AwaitEmptying(f) ==
    /\ leki >= SEATS
    /\ Goto(f, "inspect", "asleepFull")
    /\ Unlock("leki", f)
    /\ UNCHANGED <<room, cabinet>>

CabinetIsLow(f) ==
    /\ leki < SEATS
    /\ Goto(f, "inspect", "report")
    /\ Unlock("leki", f)
    /\ UNCHANGED <<room, cabinet>>

LockBell(f) ==
    /\ Goto(f, "report", "ring")
    /\ Lock("farm", f)
    /\ UNCHANGED <<room, cabinet>>

RingBell(f) ==
    /\ Goto(f, "ring", "wake")
    /\ farmaceuta_czeka' = TRUE
    /\ UNCHANGED <<room, leki, owner>>

RingDoctor(f) ==
    /\ GotoSignalling(f, "wake", "leaveBell")
    /\ UNCHANGED <<room, cabinet, owner>>

LeaveBell(f) ==
    /\ Goto(f, "leaveBell", "return")
    /\ Unlock("farm", f)
    /\ UNCHANGED <<room, cabinet>>

ReturnToCabinet(f) ==
    /\ Goto(f, "return", "verify")
    /\ Lock("leki", f)
    /\ UNCHANGED <<room, cabinet>>

AwaitDelivery(f) ==
    /\ leki # FULL
    /\ Goto(f, "verify", "asleepEmpty")
    /\ Unlock("leki", f)
    /\ UNCHANGED <<room, cabinet>>

FinishDelivery(f) ==
    /\ leki = FULL
    /\ Goto(f, "verify", "done")
    /\ Unlock("leki", f)
    /\ UNCHANGED <<room, cabinet>>

PharmacistSpurious(f) ==
    /\ Goto(f, "asleepFull", "arrive") \/ Goto(f, "asleepEmpty", "return")
    /\ UNCHANGED <<room, cabinet, owner>>

PharmacistRuns(f) ==
    AwaitEmptying(f) \/ CabinetIsLow(f) \/ RingBell(f) \/ RingDoctor(f)
    \/ LeaveBell(f) \/ AwaitDelivery(f) \/ FinishDelivery(f)
PharmacistLocks(f) == InspectCabinet(f) \/ LockBell(f) \/ ReturnToCabinet(f)

-----------------------------------------------------------------------------
\* The doctor.  Its two conditions are read without the mutexes of what they
\* read.  One step for both reads is enough: leki is written by the doctor
\* alone and decides which of the other two variables matters.

CanConsult == oczekujacy_pacjenci = SEATS /\ leki >= SEATS
CanRestock == farmaceuta_czeka /\ leki < SEATS

Check ==
    /\ Goto(Doctor, "check", IF CanConsult \/ CanRestock THEN "choose" ELSE "doze")
    /\ UNCHANGED <<room, cabinet, owner>>

\* Nothing keeps a signal from arriving between the check and this wait.
FallAsleep ==
    /\ Goto(Doctor, "doze", "asleep")
    /\ UNCHANGED <<room, cabinet, owner>>

\* A fault: the doctor calls the patients in without looking at the cabinet.
ChooseHasty ==
    /\ Goto(Doctor, "choose", CASE oczekujacy_pacjenci = SEATS -> "lockRoom"
                                [] oczekujacy_pacjenci # SEATS /\ CanRestock -> "lockBell"
                                [] OTHER -> "check")
    /\ UNCHANGED <<room, cabinet, owner>>

Choose ==
    /\ Goto(Doctor, "choose", CASE CanConsult -> "lockRoom"
                                [] ~CanConsult /\ CanRestock -> "lockBell"
                                [] OTHER -> "check")
    /\ UNCHANGED <<room, cabinet, owner>>

DoctorLocks ==
    /\ \/ Goto(Doctor, "lockRoom", "lockCabinet") /\ Lock("oczek", Doctor)
       \/ Goto(Doctor, "lockCabinet", "consult") /\ Lock("leki", Doctor)
       \/ Goto(Doctor, "lockBell", "lockStock") /\ Lock("farm", Doctor)
       \/ Goto(Doctor, "lockStock", "restock") /\ Lock("leki", Doctor)
    /\ UNCHANGED <<room, cabinet>>

\* The doctor calls in whoever the seats name, and clears them.
Consult ==
    /\ Goto(Doctor, "consult", "unlockCabinet")
    /\ leki' = leki - SEATS
    /\ oczekujacy_pacjenci' = 0
    /\ id_pacjentow_w_kolejce' = [s \in Seats |-> Nobody]
    /\ consulted' = consulted \cup
                     {p \in Patients : \E s \in Seats : id_pacjentow_w_kolejce[s] = p}
    /\ UNCHANGED <<id_w_kolejce, farmaceuta_czeka, owner>>

Restock ==
    /\ Goto(Doctor, "restock", "unlockStock")
    /\ leki' = FULL
    /\ farmaceuta_czeka' = FALSE
    /\ UNCHANGED <<room, owner>>

DoctorUnlocks ==
    /\ \/ Goto(Doctor, "unlockCabinet", "unlockRoom") /\ Unlock("leki", Doctor)
       \/ Goto(Doctor, "unlockRoom", "announce") /\ Unlock("oczek", Doctor)
       \/ Goto(Doctor, "unlockStock", "unlockBell") /\ Unlock("leki", Doctor)
       \/ Goto(Doctor, "unlockBell", "announceStock") /\ Unlock("farm", Doctor)
    /\ UNCHANGED <<room, cabinet>>

\* A fault: pthread_cond_signal in place of the broadcast.
AnnounceToOne ==
    /\ \E p \in Patients :
          GotoWaking(Doctor, "announce", "check", {p}, {"asleep"}, "return")
    /\ UNCHANGED <<room, cabinet, owner>>

\* pthread_cond_broadcast(&cond_konsultacja)
Announce ==
    /\ GotoWaking(Doctor, "announce", "check", Patients, {"asleep"}, "return")
    /\ UNCHANGED <<room, cabinet, owner>>

\* pthread_cond_broadcast(&cond_leki), whichever loop a pharmacist waits in.
AnnounceStock ==
    /\ pc[Doctor] = "announceStock"
    /\ pc' = [t \in Threads |->
                 CASE t = Doctor -> "check"
                   [] t \in Pharmacists /\ pc[t] = "asleepFull" -> "arrive"
                   [] t \in Pharmacists /\ pc[t] = "asleepEmpty" -> "return"
                   [] OTHER -> pc[t]]
    /\ UNCHANGED <<room, cabinet, owner>>

DoctorSpurious ==
    /\ Goto(Doctor, "asleep", "check")
    /\ UNCHANGED <<room, cabinet, owner>>

DoctorRuns ==
    Check \/ FallAsleep \/ Choose \/ Consult \/ Restock \/ DoctorUnlocks
    \/ Announce \/ AnnounceStock

\* main(): when every patient and pharmacist has been joined the doctor is
\* cancelled, wherever it is, and the process ends.
CancelDoctor ==
    /\ \A t \in Patients \cup Pharmacists : pc[t] = "done"
    /\ pc[Doctor] # "cancelled"
    /\ pc' = [pc EXCEPT ![Doctor] = "cancelled"]
    /\ UNCHANGED <<room, cabinet, owner>>

-----------------------------------------------------------------------------
Next ==
    \/ \E p \in Patients : PatientRuns(p) \/ PatientLocks(p) \/ PatientSpurious(p)
    \/ \E f \in Pharmacists :
          PharmacistRuns(f) \/ PharmacistLocks(f) \/ PharmacistSpurious(f)
    \/ DoctorRuns \/ DoctorLocks \/ DoctorSpurious
    \/ CancelDoctor

Spec == Init /\ [][Next]_vars

\* Every thread runs.  A thread blocked on a mutex gets it if it is free again
\* and again: whoever holds one sleeps for seconds only after unlocking, or,
\* the doctor, is a single thread.  Spurious wakeups are never relied on.
Fairness ==
    /\ \A p \in Patients : WF_vars(PatientRuns(p)) /\ SF_vars(PatientLocks(p))
    /\ \A f \in Pharmacists : WF_vars(PharmacistRuns(f)) /\ SF_vars(PharmacistLocks(f))
    /\ WF_vars(DoctorRuns) /\ SF_vars(DoctorLocks)

FairSpec == Spec /\ Fairness
-----------------------------------------------------------------------------
\* The type invariant: medicine comes and goes in whole consultations.
TypeOK ==
    /\ oczekujacy_pacjenci \in 0 .. SEATS
    /\ farmaceuta_czeka \in BOOLEAN
    /\ leki \in {0, SEATS, FULL}
    /\ id_pacjentow_w_kolejce \in [Seats -> Patients \cup {Nobody}]
    /\ id_w_kolejce \in [Patients -> Seats \cup {Nobody}]
    /\ owner \in [Mutexes -> Threads \cup {Nobody}]
    /\ pc \in [Threads -> PatientPc \cup PharmacistPc \cup DoctorPc]
    /\ consulted \subseteq Patients

(***************************************************************************)
(* The seats taken are the first oczekujacy_pacjenci ones, each by a       *)
(* different patient who knows it is sitting there.  A patient is missing  *)
(* from its seat, or gone, exactly when the doctor has called it in: what  *)
(* the loop of zad.c:69-70 reads off the seats is whether the patient has  *)
(* been consulted, and no seat given on to another hides or fakes it.      *)
(***************************************************************************)
Visiting(p) == pc[p] \in {"wake", "leaveDesk", "return", "look", "asleep"}

SeatsMatch ==
    /\ \A s \in Seats :
          IF s < oczekujacy_pacjenci
          THEN \E p \in Patients : /\ id_pacjentow_w_kolejce[s] = p
                                   /\ Visiting(p)
                                   /\ id_w_kolejce[p] = s
          ELSE id_pacjentow_w_kolejce[s] = Nobody
    /\ \A p \in Patients :
          p \in consulted <=> pc[p] = "done" \/ (Visiting(p) /\ ~StillSeated(p))

(***************************************************************************)
(* The doctor reads its conditions without the mutexes and acts on them    *)
(* later, under the mutexes: they still hold.  A consultation sees a full  *)
(* room and enough medicine, a delivery a low cabinet and a pharmacist's   *)
(* bell that has rung.                                                     *)
(***************************************************************************)
ChoiceStillHolds ==
    /\ pc[Doctor] \in {"lockRoom", "lockCabinet", "consult"} => CanConsult
    /\ pc[Doctor] \in {"lockBell", "lockStock", "restock"} => CanRestock
    /\ pc[Doctor] = "choose" => CanConsult \/ CanRestock

(***************************************************************************)
(* The clinic implements ClinicCare: who waits is read off the seats, who  *)
(* has been treated off the history of the doctor's calls.  So a patient   *)
(* is called in once, in a full round, with medicine for all of it, and no *)
(* consultation or delivery acts on a state that another has changed.      *)
(***************************************************************************)
Care ==
    INSTANCE ClinicCare WITH
        RoomSize <- SEATS,
        waiting  <- {p \in Patients : Visiting(p) /\ StillSeated(p)},
        treated  <- consulted,
        medicine <- leki

ImplementsCare == Care!CareSpec

(***************************************************************************)
(* Patients who have been consulted go home, all of them: the broadcast    *)
(* after the mutexes are released finds everyone who checked its seat      *)
(* before.                                                                 *)
(***************************************************************************)
Consulted(p) == p \in consulted /\ pc[p] # "done"

ConsultedGoHome ==
    (\E p \in Patients : Consulted(p)) ~> (\A p \in Patients : ~Consulted(p))

(***************************************************************************)
(* The doctor takes two mutexes at a time in two orders; it never hangs    *)
(* between its decision and its announcement.                              *)
(***************************************************************************)
CareCompletes ==
    pc[Doctor] = "choose" ~> pc[Doctor] \in {"announce", "announceStock", "cancelled"}

(***************************************************************************)
(* zad.c:62 "budzę lekarza": the patient who fills the room wakes the      *)
(* doctor, so a full room with medicine for it is consulted.               *)
(***************************************************************************)
FullRoomIsSeen == CanConsult ~> oczekujacy_pacjenci = 0

(***************************************************************************)
(* zad.c:89 "czekam na oproznienie apteczki": a pharmacist who waits for   *)
(* the cabinet to be emptied goes on once it has been.                     *)
(***************************************************************************)
EmptyingIsNoticed ==
    \A f \in Pharmacists :
        (pc[f] = "asleepFull" /\ leki = 0) ~> pc[f] # "asleepFull"
=============================================================================
