---------------------------- MODULE ClinicProofs ----------------------------
(***************************************************************************)
(* Proofs, for any patients and pharmacists and any number of seats, of    *)
(* the invariants of Clinic, and that the clinic implements ClinicCare.    *)
(***************************************************************************)
EXTENDS Clinic, FiniteSetTheorems, TLAPS

\* Every thread is at a statement of its own kind.
PcOK ==
    /\ pc \in [Threads -> PatientPc \cup PharmacistPc \cup DoctorPc]
    /\ \A p \in Patients : pc[p] \in PatientPc
    /\ \A f \in Pharmacists : pc[f] \in PharmacistPc
    /\ pc[Doctor] \in DoctorPc

\* The refinement mapping: who waits.
Waiting == {p \in Patients : Visiting(p) /\ StillSeated(p)}

\* The counter is the number of patients who wait.
RoomCounted == IsFiniteSet(Waiting) /\ Cardinality(Waiting) = oczekujacy_pacjenci

(***************************************************************************)
(* The inductive invariant.  Neither part is inductive alone: a seat stays *)
(* with its patient because a consultation finds the room full, and the    *)
(* doctor finds the room full because only patients who take a free seat   *)
(* are counted.                                                            *)
(***************************************************************************)
IInv == TypeOK /\ PcOK /\ SeatsMatch /\ RoomCounted /\ ChoiceStillHolds

\* A step of the clinic is a step of ClinicCare, or changes nothing of it.
Simulates == Care!CareNext \/ UNCHANGED <<Waiting, consulted, leki>>

\* The initial states satisfy the inductive invariant.
LEMMA InitInv == Init => IInv
<1> SUFFICES ASSUME Init PROVE IInv
  OBVIOUS
<1> USE ClinicAssumption DEF Init
<1>1. PcOK
  <2>1. \A t \in Patients \cup Pharmacists : t # Doctor /\ t \in Threads
    BY DEF Threads
  <2>2. \A t \in Patients \cup Pharmacists : pc[t] = "arrive"
    BY <2>1
  <2>3. pc[Doctor] = "check"
    BY DEF Threads
  <2>4. pc \in [Threads -> PatientPc \cup PharmacistPc \cup DoctorPc]
    BY DEF PatientPc, DoctorPc
  <2> QED
    BY <2>2, <2>3, <2>4 DEF PcOK, PatientPc, PharmacistPc, DoctorPc
<1>t. TypeOK
  <2>1. oczekujacy_pacjenci \in 0 .. SEATS /\ leki \in {0, SEATS, FULL}
    BY DEF FULL
  <2>2. /\ id_pacjentow_w_kolejce \in [Seats -> Patients \cup {Nobody}]
        /\ id_w_kolejce \in [Patients -> Seats \cup {Nobody}]
        /\ owner \in [Mutexes -> Threads \cup {Nobody}]
    OBVIOUS
  <2> QED
    BY <1>1, <2>1, <2>2 DEF TypeOK, PcOK
<1>2. \A p \in Patients : ~Visiting(p) /\ pc[p] # "done"
  BY DEF Visiting, Threads
<1>3. SeatsMatch
  BY <1>2 DEF SeatsMatch, Seats
<1>4. RoomCounted
  <2>1. Waiting = {}
    BY <1>2 DEF Waiting
  <2> QED
    BY <2>1, FS_EmptySet DEF RoomCounted
<1>5. ChoiceStillHolds
  BY DEF ChoiceStillHolds, Threads
<1> QED
  BY <1>1, <1>t, <1>3, <1>4, <1>5 DEF IInv

-----------------------------------------------------------------------------
\* ClinicCare has its Cardinality from its own instance of FiniteSets.
LEMMA CareCardinality ==
    ASSUME NEW S
    PROVE  Care!Cardinality(S) = Cardinality(S)
  BY DEF Care!Cardinality, Cardinality

(***************************************************************************)
(* What the steps have in common.                                          *)
(***************************************************************************)
\* A step that leaves the seats alone, keeps visitors visitors and sends nobody
\* home changes nothing of the waiting room.
LEMMA RoomKept ==
    ASSUME SeatsMatch, RoomCounted, UNCHANGED room,
           \A p \in Patients : /\ Visiting(p)' <=> Visiting(p)
                               /\ pc'[p] = "done" <=> pc[p] = "done"
    PROVE  SeatsMatch' /\ RoomCounted' /\ Waiting' = Waiting /\ consulted' = consulted
<1>1. \A p \in Patients : StillSeated(p)' <=> StillSeated(p)
  BY DEF StillSeated, room
<1>2. Waiting' = Waiting
  BY <1>1 DEF Waiting
<1>3. SeatsMatch'
  BY <1>1 DEF SeatsMatch, room
<1> QED
  BY <1>2, <1>3 DEF RoomCounted, room

\* Such a step that keeps the medicine changes nothing of ClinicCare.
LEMMA QuietStep ==
    ASSUME IInv, TypeOK', PcOK', ChoiceStillHolds', UNCHANGED <<room, leki>>,
           \A p \in Patients : /\ Visiting(p)' <=> Visiting(p)
                               /\ pc'[p] = "done" <=> pc[p] = "done"
    PROVE  IInv' /\ Simulates
<1>1. SeatsMatch' /\ RoomCounted' /\ Waiting' = Waiting /\ consulted' = consulted
  BY RoomKept DEF IInv
<1> QED
  BY <1>1 DEF IInv, Simulates

\* The doctor's choice holds on while the doctor stays where it is and the
\* others only ring its bell.
LEMMA ChoiceKept ==
    ASSUME ChoiceStillHolds, UNCHANGED <<oczekujacy_pacjenci, leki>>,
           farmaceuta_czeka' = farmaceuta_czeka \/ farmaceuta_czeka' = TRUE,
           \/ pc'[Doctor] = pc[Doctor]
           \/ pc'[Doctor] = "check"
    PROVE  ChoiceStillHolds'
  BY DEF ChoiceStillHolds, CanConsult, CanRestock

\* What a plain step from one statement to the next does to pc.
LEMMA GotoPc ==
    ASSUME PcOK, NEW t \in Threads, NEW from, NEW to, Goto(t, from, to)
    PROVE  /\ pc[t] = from /\ pc'[t] = to
           /\ \A s \in Threads : s # t => pc'[s] = pc[s]
           /\ (t \in Patients /\ to \in PatientPc) \/ (t \in Pharmacists /\ to \in PharmacistPc)
                \/ (t = Doctor /\ to \in DoctorPc) => PcOK'
  BY ClinicAssumption DEF PcOK, Goto, Threads

\* The same for a step that wakes sleepers.
LEMMA WakingPc ==
    ASSUME PcOK, NEW t \in Threads, NEW from, NEW to, NEW sleepers, NEW label, NEW retake,
           GotoWaking(t, from, to, sleepers, label, retake)
    PROVE  /\ pc[t] = from /\ pc'[t] = to
           /\ \A s \in Threads : s # t =>
                 pc'[s] = IF s \in sleepers /\ pc[s] \in label THEN retake ELSE pc[s]
           /\ pc' \in [Threads -> {to, retake} \cup (PatientPc \cup PharmacistPc \cup DoctorPc)]
  BY DEF PcOK, GotoWaking

\* Locking and unlocking keep the owners threads.
LEMMA OwnerTyped ==
    ASSUME TypeOK, NEW t \in Threads, NEW m \in Mutexes, Lock(m, t) \/ Unlock(m, t)
    PROVE  owner' \in [Mutexes -> Threads \cup {Nobody}]
  BY DEF TypeOK, Lock, Unlock

-----------------------------------------------------------------------------
(***************************************************************************)
(* The patients.                                                           *)
(***************************************************************************)
\* A patient takes the first free seat: it arrives.
LEMMA SitStep ==
    ASSUME IInv, NEW p \in Patients, Sit(p)
    PROVE  IInv' /\ Simulates
<1> DEFINE s == oczekujacy_pacjenci
<1>a. /\ SEATS \in Nat \ {0} /\ p \in Threads /\ p # Doctor /\ p # Nobody
      /\ \A q \in Patients : q \in Threads /\ q # Nobody
  BY ClinicAssumption DEF Threads
<1>b. TypeOK /\ PcOK /\ SeatsMatch /\ RoomCounted /\ ChoiceStillHolds
  BY DEF IInv
<1>c. s \in 0 .. SEATS - 1 /\ s \in Seats
  BY <1>a, <1>b DEF Sit, TypeOK, Seats
<1>1. /\ pc[p] = "desk" /\ pc'[p] \in {"wake", "leaveDesk"}
      /\ \A t \in Threads : t # p => pc'[t] = pc[t]
      /\ PcOK'
  BY <1>a, <1>b, GotoPc DEF Sit, PatientPc
<1>2. /\ id_pacjentow_w_kolejce' = [id_pacjentow_w_kolejce EXCEPT ![s] = p]
      /\ id_w_kolejce' = [id_w_kolejce EXCEPT ![p] = s]
      /\ oczekujacy_pacjenci' = s + 1
      /\ UNCHANGED <<leki, farmaceuta_czeka, owner, consulted>>
  BY DEF Sit, cabinet
<1>3. TypeOK'
  BY <1>a, <1>b, <1>c, <1>1, <1>2 DEF TypeOK, PcOK
<1>4. /\ ~Visiting(p) /\ Visiting(p)'
      /\ \A q \in Patients : q # p => (Visiting(q)' <=> Visiting(q))
  BY <1>a, <1>1 DEF Visiting
<1>5. id_pacjentow_w_kolejce[s] = Nobody
  BY <1>b, <1>c DEF SeatsMatch, Seats
<1>6. /\ StillSeated(p)'
      /\ \A q \in Patients : q # p => (StillSeated(q)' <=> StillSeated(q))
  <2>1. StillSeated(p)'
    BY <1>b, <1>c, <1>2 DEF StillSeated, TypeOK
  <2>2. ASSUME NEW q \in Patients, q # p
        PROVE  StillSeated(q)' <=> StillSeated(q)
    BY <1>a, <1>b, <1>c, <1>2, <1>5, <2>2 DEF StillSeated, TypeOK
  <2> QED
    BY <2>1, <2>2
<1>7. SeatsMatch'
  <2>1. ASSUME NEW i \in Seats
        PROVE  IF i < oczekujacy_pacjenci'
               THEN \E q \in Patients : /\ id_pacjentow_w_kolejce'[i] = q
                                        /\ Visiting(q)'
                                        /\ id_w_kolejce'[q] = i
               ELSE id_pacjentow_w_kolejce'[i] = Nobody
    <3>1. CASE i = s
      BY <1>b, <1>c, <1>2, <1>4, <3>1 DEF TypeOK, Seats
    <3>2. CASE i < s
      <4>1. PICK q \in Patients : id_pacjentow_w_kolejce[i] = q /\ Visiting(q) /\ id_w_kolejce[q] = i
        BY <1>b, <1>c, <3>2 DEF SeatsMatch
      <4> QED
        BY <1>b, <1>c, <1>2, <1>4, <3>2, <4>1 DEF TypeOK, Seats
    <3>3. CASE i > s
      BY <1>b, <1>c, <1>2, <3>3 DEF SeatsMatch, TypeOK, Seats
    <3> QED
      BY <1>c, <3>1, <3>2, <3>3 DEF Seats
  <2>2. ASSUME NEW q \in Patients
        PROVE  q \in consulted' <=> pc'[q] = "done" \/ (Visiting(q)' /\ ~StillSeated(q)')
    <3>1. CASE q = p
      BY <1>b, <1>1, <1>2, <1>4, <1>6, <3>1 DEF SeatsMatch
    <3>2. CASE q # p
      BY <1>a, <1>b, <1>1, <1>2, <1>4, <1>6, <3>2 DEF SeatsMatch
    <3> QED
      BY <3>1, <3>2
  <2> QED
    BY <2>1, <2>2 DEF SeatsMatch
<1>8. Waiting' = Waiting \cup {p} /\ p \notin Waiting
  BY <1>4, <1>6 DEF Waiting
<1>9. RoomCounted'
  <2>1. IsFiniteSet(Waiting) /\ Cardinality(Waiting) = s
    BY <1>b DEF RoomCounted
  <2>2. IsFiniteSet(Waiting') /\ Cardinality(Waiting') = s + 1
    BY <1>8, <2>1, FS_AddElement
  <2> QED
    BY <1>2, <2>2 DEF RoomCounted
<1>10. ChoiceStillHolds'
  <2>1. ~CanConsult
    BY <1>a, <1>c DEF CanConsult
  <2>2. pc[Doctor] \notin {"lockRoom", "lockCabinet", "consult"} /\ pc'[Doctor] = pc[Doctor]
    BY <1>a, <1>b, <1>1, <2>1 DEF ChoiceStillHolds, Threads
  <2>3. CanRestock' <=> CanRestock
    BY <1>2 DEF CanRestock
  <2> QED
    BY <1>b, <2>1, <2>2, <2>3 DEF ChoiceStillHolds
<1>11. p \notin consulted
  BY <1>b, <1>1, <1>4 DEF SeatsMatch
<1>12. Cardinality(Waiting) < SEATS
  BY <1>a, <1>b, <1>c DEF RoomCounted
<1>13. Care!Arrive(p)
  BY <1>2, <1>8, <1>11, <1>12, CareCardinality DEF Care!Arrive, Waiting
<1> QED
  BY <1>3, <1>1, <1>7, <1>9, <1>10, <1>13 DEF IInv, Simulates, Care!CareNext

\* What a patient's other steps have in common: they are between statements both
\* of a visit, or both not, and neither is the last, unless the patient leaves.
LEMMA PatientQuiet ==
    ASSUME IInv, NEW p \in Patients, NEW from, NEW to, Goto(p, from, to),
           to \in PatientPc \ {"done"}, from # "done",
           from \in {"wake", "leaveDesk", "return", "look", "asleep"}
             <=> to \in {"wake", "leaveDesk", "return", "look", "asleep"},
           UNCHANGED <<room, cabinet>>, owner' \in [Mutexes -> Threads \cup {Nobody}]
    PROVE  IInv' /\ Simulates
<1>a. /\ p \in Threads /\ p # Doctor /\ Doctor \in Threads
      /\ \A q \in Patients : q \in Threads
  BY ClinicAssumption DEF Threads
<1>1. /\ pc[p] = from /\ pc'[p] = to /\ PcOK'
      /\ \A t \in Threads : t # p => pc'[t] = pc[t]
  BY <1>a, GotoPc DEF IInv
<1>2. TypeOK'
  BY <1>1 DEF IInv, TypeOK, PcOK, room, cabinet
<1>3. ChoiceStillHolds'
  BY <1>a, <1>1, ChoiceKept DEF IInv, room, cabinet
<1>4. \A q \in Patients : /\ Visiting(q)' <=> Visiting(q)
                          /\ pc'[q] = "done" <=> pc[q] = "done"
  BY <1>a, <1>1 DEF Visiting
<1> QED
  BY <1>1, <1>2, <1>3, <1>4, QuietStep DEF cabinet

\* A consulted patient goes home: it has been treated before.
LEMMA FinishStep ==
    ASSUME IInv, NEW p \in Patients, FinishVisit(p)
    PROVE  IInv' /\ Simulates
<1>a. /\ p \in Threads /\ p # Doctor /\ Doctor \in Threads /\ Nobody \notin Patients
      /\ \A q \in Patients : q \in Threads
  BY ClinicAssumption DEF Threads
<1>b. TypeOK /\ SeatsMatch /\ RoomCounted /\ ChoiceStillHolds
  BY DEF IInv
<1>1. /\ pc[p] = "look" /\ pc'[p] = "done" /\ PcOK'
      /\ \A t \in Threads : t # p => pc'[t] = pc[t]
  BY <1>a, GotoPc DEF IInv, FinishVisit, PatientPc
<1>2. /\ ~StillSeated(p) /\ Unlock("oczek", p)
      /\ UNCHANGED <<oczekujacy_pacjenci, id_pacjentow_w_kolejce, id_w_kolejce,
                     leki, farmaceuta_czeka, consulted>>
  BY DEF FinishVisit, room, cabinet
<1>3. TypeOK'
  <2>1. owner' \in [Mutexes -> Threads \cup {Nobody}]
    BY <1>a, <1>b, <1>2, OwnerTyped DEF Mutexes
  <2> QED
    BY <1>b, <1>1, <1>2, <2>1 DEF TypeOK, PcOK
<1>4. /\ Visiting(p) /\ ~Visiting(p)'
      /\ \A q \in Patients : q # p => (Visiting(q)' <=> Visiting(q))
  BY <1>a, <1>1 DEF Visiting
<1>5. \A q \in Patients : StillSeated(q)' <=> StillSeated(q)
  BY <1>2 DEF StillSeated
<1>6. SeatsMatch'
  <2>1. \A s \in Seats : ~(id_pacjentow_w_kolejce[s] = p /\ id_w_kolejce[p] = s)
    BY <1>2 DEF StillSeated
  <2>2. ASSUME NEW q \in Patients
        PROVE  q \in consulted' <=> pc'[q] = "done" \/ (Visiting(q)' /\ ~StillSeated(q)')
    BY <1>a, <1>b, <1>1, <1>2, <1>4, <1>5 DEF SeatsMatch
  <2> QED
    BY <1>b, <1>2, <1>4, <2>1, <2>2 DEF SeatsMatch
<1>7. Waiting' = Waiting /\ RoomCounted'
  <2>1. Waiting' = Waiting
    BY <1>2, <1>4, <1>5 DEF Waiting
  <2> QED
    BY <1>b, <1>2, <2>1 DEF RoomCounted
<1>8. ChoiceStillHolds'
  BY <1>a, <1>b, <1>1, <1>2, ChoiceKept
<1> QED
  BY <1>1, <1>2, <1>3, <1>6, <1>7, <1>8 DEF IInv, Simulates

\* A step of a patient.
LEMMA PatientStep ==
    ASSUME IInv, NEW p \in Patients,
           PatientRuns(p) \/ PatientLocks(p) \/ PatientSpurious(p)
    PROVE  IInv' /\ Simulates
<1>a. TypeOK /\ p \in Threads /\ "oczek" \in Mutexes
  BY DEF IInv, Threads, Mutexes
<1>b. ASSUME Lock("oczek", p) \/ Unlock("oczek", p) \/ UNCHANGED owner
      PROVE  owner' \in [Mutexes -> Threads \cup {Nobody}]
  BY <1>a, <1>b, OwnerTyped DEF TypeOK
<1>1. CASE EnterRoom(p)
  BY <1>1, <1>b, PatientQuiet DEF EnterRoom, PatientPc
<1>2. CASE TurnAway(p)
  BY <1>2, <1>b, PatientQuiet DEF TurnAway, PatientPc
<1>3. CASE WakeDoctor(p)
  <2>1. /\ pc[p] = "wake" /\ pc'[p] = "leaveDesk"
        /\ \A t \in Threads : t # p => pc'[t] = IF t = Doctor /\ pc[t] = "asleep"
                                                THEN "check" ELSE pc[t]
        /\ pc' \in [Threads -> {"leaveDesk", "check"}
                                   \cup (PatientPc \cup PharmacistPc \cup DoctorPc)]
    BY <1>3, <1>a, WakingPc DEF IInv, WakeDoctor, GotoSignalling
  <2>2. /\ p # Doctor /\ Doctor \in Threads
        /\ \A q \in Patients \cup Pharmacists : q \in Threads /\ q # Doctor
        /\ p \notin Pharmacists
    BY ClinicAssumption DEF Threads
  <2>3. PcOK'
    BY <2>1, <2>2 DEF IInv, PcOK, PatientPc, DoctorPc
  <2>4. UNCHANGED <<room, cabinet, owner>>
    BY <1>3 DEF WakeDoctor
  <2>5. TypeOK'
    BY <1>a, <2>3, <2>4 DEF TypeOK, PcOK, room, cabinet
  <2>6. ChoiceStillHolds'
    BY <2>1, <2>2, <2>4, ChoiceKept DEF IInv, room, cabinet
  <2>7. \A q \in Patients : /\ Visiting(q)' <=> Visiting(q)
                            /\ pc'[q] = "done" <=> pc[q] = "done"
    BY <2>1, <2>2 DEF Visiting
  <2> QED
    BY <2>3, <2>4, <2>5, <2>6, <2>7, QuietStep DEF cabinet
<1>4. CASE LeaveDesk(p)
  BY <1>4, <1>b, PatientQuiet DEF LeaveDesk, PatientPc
<1>5. CASE AwaitConsultation(p)
  BY <1>5, <1>b, PatientQuiet DEF AwaitConsultation, PatientPc
<1>6. CASE ReturnToRoom(p)
  BY <1>6, <1>b, PatientQuiet DEF ReturnToRoom, PatientPc
<1>7. CASE PatientSpurious(p)
  BY <1>7, <1>b, PatientQuiet DEF PatientSpurious, PatientPc
<1> QED
  BY <1>1, <1>2, <1>3, <1>4, <1>5, <1>6, <1>7, SitStep, FinishStep
     DEF PatientRuns, PatientLocks

-----------------------------------------------------------------------------
(***************************************************************************)
(* The pharmacists: nothing of theirs is seen in ClinicCare.               *)
(***************************************************************************)
\* A step from one statement to another that at most rings the bell.
LEMMA PharmacistQuiet ==
    ASSUME IInv, NEW f \in Pharmacists, NEW from, NEW to, Goto(f, from, to),
           to \in PharmacistPc, UNCHANGED <<room, leki>>,
           farmaceuta_czeka' = farmaceuta_czeka \/ farmaceuta_czeka' = TRUE,
           owner' \in [Mutexes -> Threads \cup {Nobody}]
    PROVE  IInv' /\ Simulates
<1>a. /\ f \in Threads /\ f # Doctor /\ Doctor \in Threads
      /\ \A q \in Patients : q \in Threads /\ q # f
  BY ClinicAssumption DEF Threads
<1>1. /\ PcOK'
      /\ \A t \in Threads : t # f => pc'[t] = pc[t]
  BY <1>a, GotoPc DEF IInv
<1>2. TypeOK'
  BY <1>1 DEF IInv, TypeOK, PcOK, room
<1>3. ChoiceStillHolds'
  BY <1>a, <1>1, ChoiceKept DEF IInv, room
<1>4. \A q \in Patients : /\ Visiting(q)' <=> Visiting(q)
                          /\ pc'[q] = "done" <=> pc[q] = "done"
  BY <1>a, <1>1 DEF Visiting
<1> QED
  BY <1>1, <1>2, <1>3, <1>4, QuietStep

\* A step of a pharmacist.
LEMMA PharmacistStep ==
    ASSUME IInv, NEW f \in Pharmacists,
           PharmacistRuns(f) \/ PharmacistLocks(f) \/ PharmacistSpurious(f)
    PROVE  IInv' /\ Simulates
<1>a. TypeOK /\ f \in Threads /\ "leki" \in Mutexes /\ "farm" \in Mutexes
  BY DEF IInv, Threads, Mutexes
<1>b. ASSUME NEW m \in Mutexes, Lock(m, f) \/ Unlock(m, f)
      PROVE  owner' \in [Mutexes -> Threads \cup {Nobody}]
  BY <1>a, <1>b, OwnerTyped
<1>1. CASE InspectCabinet(f)
  BY <1>1, <1>a, <1>b, PharmacistQuiet DEF InspectCabinet, PharmacistPc, cabinet
<1>2. CASE AwaitEmptying(f)
  BY <1>2, <1>a, <1>b, PharmacistQuiet DEF AwaitEmptying, PharmacistPc, cabinet
<1>3. CASE CabinetIsLow(f)
  BY <1>3, <1>a, <1>b, PharmacistQuiet DEF CabinetIsLow, PharmacistPc, cabinet
<1>4. CASE LockBell(f)
  BY <1>4, <1>a, <1>b, PharmacistQuiet DEF LockBell, PharmacistPc, cabinet
<1>5. CASE RingBell(f)
  BY <1>5, <1>a, PharmacistQuiet DEF RingBell, PharmacistPc, TypeOK
<1>6. CASE RingDoctor(f)
  <2>1. /\ pc[f] = "wake" /\ pc'[f] = "leaveBell"
        /\ \A t \in Threads : t # f => pc'[t] = IF t = Doctor /\ pc[t] = "asleep"
                                                THEN "check" ELSE pc[t]
        /\ pc' \in [Threads -> {"leaveBell", "check"}
                                   \cup (PatientPc \cup PharmacistPc \cup DoctorPc)]
    BY <1>6, <1>a, WakingPc DEF IInv, RingDoctor, GotoSignalling
  <2>2. /\ f # Doctor /\ Doctor \in Threads
        /\ \A q \in Patients \cup Pharmacists : q \in Threads /\ q # Doctor
        /\ f \notin Patients
    BY ClinicAssumption DEF Threads
  <2>3. PcOK'
    BY <2>1, <2>2 DEF IInv, PcOK, PharmacistPc, DoctorPc
  <2>4. UNCHANGED <<room, cabinet, owner>>
    BY <1>6 DEF RingDoctor
  <2>5. TypeOK'
    BY <1>a, <2>3, <2>4 DEF TypeOK, PcOK, room, cabinet
  <2>6. ChoiceStillHolds'
    BY <2>1, <2>2, <2>4, ChoiceKept DEF IInv, room, cabinet
  <2>7. \A q \in Patients : /\ Visiting(q)' <=> Visiting(q)
                            /\ pc'[q] = "done" <=> pc[q] = "done"
    BY <2>1, <2>2 DEF Visiting
  <2> QED
    BY <2>3, <2>4, <2>5, <2>6, <2>7, QuietStep DEF cabinet
<1>7. CASE LeaveBell(f)
  BY <1>7, <1>a, <1>b, PharmacistQuiet DEF LeaveBell, PharmacistPc, cabinet
<1>8. CASE ReturnToCabinet(f)
  BY <1>8, <1>a, <1>b, PharmacistQuiet DEF ReturnToCabinet, PharmacistPc, cabinet
<1>9. CASE AwaitDelivery(f)
  BY <1>9, <1>a, <1>b, PharmacistQuiet DEF AwaitDelivery, PharmacistPc, cabinet
<1>10. CASE FinishDelivery(f)
  BY <1>10, <1>a, <1>b, PharmacistQuiet DEF FinishDelivery, PharmacistPc, cabinet
<1>11. CASE PharmacistSpurious(f)
  BY <1>11, <1>a, PharmacistQuiet DEF PharmacistSpurious, PharmacistPc, cabinet, TypeOK
<1> QED
  BY <1>1, <1>2, <1>3, <1>4, <1>5, <1>6, <1>7, <1>8, <1>9, <1>10, <1>11
     DEF PharmacistRuns, PharmacistLocks

-----------------------------------------------------------------------------
(***************************************************************************)
(* The doctor.                                                             *)
(***************************************************************************)
\* A step from one statement to another, to one that acts on a choice only
\* when the choice holds.
LEMMA DoctorQuiet ==
    ASSUME IInv, NEW from, NEW to, Goto(Doctor, from, to), to \in DoctorPc,
           UNCHANGED <<room, cabinet>>, owner' \in [Mutexes -> Threads \cup {Nobody}],
           to \in {"lockRoom", "lockCabinet", "consult"} => CanConsult,
           to \in {"lockBell", "lockStock", "restock"} => CanRestock,
           to = "choose" => CanConsult \/ CanRestock
    PROVE  IInv' /\ Simulates
<1>a. /\ Doctor \in Threads
      /\ \A q \in Patients : q \in Threads /\ q # Doctor
  BY ClinicAssumption DEF Threads
<1>1. /\ PcOK' /\ pc'[Doctor] = to
      /\ \A t \in Threads : t # Doctor => pc'[t] = pc[t]
  BY <1>a, GotoPc DEF IInv
<1>2. TypeOK'
  BY <1>1 DEF IInv, TypeOK, PcOK, room, cabinet
<1>3. ChoiceStillHolds'
  BY <1>1 DEF ChoiceStillHolds, CanConsult, CanRestock, room, cabinet
<1>4. \A q \in Patients : /\ Visiting(q)' <=> Visiting(q)
                          /\ pc'[q] = "done" <=> pc[q] = "done"
  BY <1>a, <1>1 DEF Visiting
<1> QED
  BY <1>1, <1>2, <1>3, <1>4, QuietStep DEF cabinet

\* A consultation is a round of treatment: the room is full of the patients who
\* wait, although the doctor looked before it had the mutexes.
LEMMA ConsultStep ==
    ASSUME IInv, Consult
    PROVE  IInv' /\ Simulates
<1>a. /\ SEATS \in Nat \ {0} /\ Doctor \in Threads /\ Nobody \notin Patients
      /\ \A q \in Patients : q \in Threads /\ q # Doctor
  BY ClinicAssumption DEF Threads
<1>b. TypeOK /\ PcOK /\ SeatsMatch /\ RoomCounted /\ ChoiceStillHolds
  BY DEF IInv
<1>1. /\ pc[Doctor] = "consult" /\ pc'[Doctor] = "unlockCabinet" /\ PcOK'
      /\ \A t \in Threads : t # Doctor => pc'[t] = pc[t]
  BY <1>a, <1>b, GotoPc DEF Consult, DoctorPc
<1>2. /\ leki' = leki - SEATS /\ oczekujacy_pacjenci' = 0
      /\ id_pacjentow_w_kolejce' = [s \in Seats |-> Nobody]
      /\ consulted' = consulted \cup
                       {p \in Patients : \E s \in Seats : id_pacjentow_w_kolejce[s] = p}
      /\ UNCHANGED <<id_w_kolejce, farmaceuta_czeka, owner>>
  BY DEF Consult
<1>3. oczekujacy_pacjenci = SEATS /\ leki >= SEATS
  BY <1>b, <1>1 DEF ChoiceStillHolds, CanConsult
<1>4. TypeOK'
  <2>1. leki' \in {0, SEATS, FULL}
    BY <1>a, <1>b, <1>2, <1>3 DEF TypeOK, FULL
  <2>2. oczekujacy_pacjenci' \in 0 .. SEATS
    BY <1>a, <1>2
  <2>3. id_pacjentow_w_kolejce' \in [Seats -> Patients \cup {Nobody}]
    BY <1>2
  <2> QED
    BY <1>b, <1>1, <1>2, <2>1, <2>2, <2>3 DEF TypeOK, PcOK
<1>5. \A q \in Patients : /\ Visiting(q)' <=> Visiting(q)
                          /\ pc'[q] = "done" <=> pc[q] = "done"
                          /\ ~StillSeated(q)'
  <2>1. \A q \in Patients : /\ Visiting(q)' <=> Visiting(q)
                            /\ pc'[q] = "done" <=> pc[q] = "done"
    BY <1>a, <1>1 DEF Visiting
  <2>2. \A q \in Patients : ~StillSeated(q)'
    BY <1>a, <1>2 DEF StillSeated
  <2> QED
    BY <2>1, <2>2
<1>6. consulted' = consulted \cup Waiting
  <2>1. \A p \in Patients : p \in Waiting <=> \E s \in Seats : id_pacjentow_w_kolejce[s] = p
    BY <1>a, <1>b, <1>3 DEF SeatsMatch, Seats, Waiting, StillSeated
  <2> QED
    BY <1>2, <2>1 DEF Waiting
<1>7. SeatsMatch'
  <2>1. \A s \in Seats : /\ ~(s < oczekujacy_pacjenci')
                         /\ id_pacjentow_w_kolejce'[s] = Nobody
    BY <1>2 DEF Seats
  <2>2. \A p \in Patients : p \in consulted' <=> pc[p] = "done" \/ Visiting(p)
    BY <1>b, <1>6 DEF SeatsMatch, Waiting, Visiting
  <2> QED
    BY <1>5, <2>1, <2>2 DEF SeatsMatch
<1>8. Waiting' = {} /\ RoomCounted'
  <2>1. Waiting' = {}
    BY <1>5 DEF Waiting
  <2> QED
    BY <1>2, <2>1, FS_EmptySet DEF RoomCounted
<1>9. ChoiceStillHolds'
  BY <1>1 DEF ChoiceStillHolds
<1>10. Care!TreatRound
  <2>1. Care!Cardinality(Waiting) = SEATS
    BY <1>b, <1>3, CareCardinality DEF RoomCounted
  <2> QED
    BY <1>2, <1>3, <1>6, <1>8, <2>1 DEF Care!TreatRound, Waiting
<1> QED
  BY <1>1, <1>4, <1>7, <1>8, <1>9, <1>10 DEF IInv, Simulates, Care!CareNext

\* A delivery fills a low cabinet.
LEMMA RestockStep ==
    ASSUME IInv, Restock
    PROVE  IInv' /\ Simulates
<1>a. /\ SEATS \in Nat \ {0} /\ Doctor \in Threads
      /\ \A q \in Patients : q \in Threads /\ q # Doctor
  BY ClinicAssumption DEF Threads
<1>b. TypeOK /\ PcOK /\ SeatsMatch /\ RoomCounted /\ ChoiceStillHolds
  BY DEF IInv
<1>1. /\ pc[Doctor] = "restock" /\ pc'[Doctor] = "unlockStock" /\ PcOK'
      /\ \A t \in Threads : t # Doctor => pc'[t] = pc[t]
  BY <1>a, <1>b, GotoPc DEF Restock, DoctorPc
<1>2. leki' = FULL /\ farmaceuta_czeka' = FALSE /\ UNCHANGED <<room, owner>>
  BY DEF Restock
<1>3. leki < SEATS
  BY <1>b, <1>1 DEF ChoiceStillHolds, CanRestock
<1>4. TypeOK'
  BY <1>b, <1>1, <1>2 DEF TypeOK, PcOK, room
<1>5. \A q \in Patients : /\ Visiting(q)' <=> Visiting(q)
                          /\ pc'[q] = "done" <=> pc[q] = "done"
  BY <1>a, <1>1 DEF Visiting
<1>6. SeatsMatch' /\ RoomCounted' /\ Waiting' = Waiting /\ consulted' = consulted
  BY <1>b, <1>2, <1>5, RoomKept
<1>7. ChoiceStillHolds'
  BY <1>1 DEF ChoiceStillHolds
<1>8. Care!FillCabinet
  BY <1>2, <1>3, <1>6 DEF Care!FillCabinet, Waiting, FULL
<1> QED
  BY <1>1, <1>4, <1>6, <1>7, <1>8 DEF IInv, Simulates, Care!CareNext

\* A broadcast, and the doctor's return to its check.
LEMMA BroadcastStep ==
    ASSUME IInv, Announce \/ AnnounceStock
    PROVE  IInv' /\ Simulates
<1>a. /\ Doctor \in Threads /\ Doctor \notin Patients \cup Pharmacists
      /\ \A q \in Patients \cup Pharmacists : q \in Threads
      /\ \A q \in Patients : q \notin Pharmacists
  BY ClinicAssumption DEF Threads
<1>1. /\ UNCHANGED <<room, cabinet, owner>>
      /\ pc'[Doctor] = "check"
      /\ DOMAIN pc' = Threads /\ pc' = [t \in Threads |-> pc'[t]]
      /\ \A q \in Patients : pc'[q] = pc[q] \/ (pc[q] = "asleep" /\ pc'[q] = "return")
      /\ \A f \in Pharmacists : pc'[f] \in {pc[f], "arrive", "return"}
  <2>1. CASE Announce
    BY <1>a, <2>1 DEF Announce, GotoWaking
  <2>2. CASE AnnounceStock
    BY <1>a, <2>2 DEF AnnounceStock
  <2> QED
    BY <2>1, <2>2
<1>2. PcOK'
  <2>1. \A q \in Patients : pc'[q] \in PatientPc
    BY <1>1 DEF IInv, PcOK, PatientPc
  <2>2. \A f \in Pharmacists : pc'[f] \in PharmacistPc
    BY <1>1 DEF IInv, PcOK, PharmacistPc
  <2>3. pc'[Doctor] \in DoctorPc
    BY <1>1 DEF DoctorPc
  <2>4. \A t \in Threads : pc'[t] \in PatientPc \cup PharmacistPc \cup DoctorPc
    BY <2>1, <2>2, <2>3 DEF Threads
  <2> QED
    BY <1>1, <2>1, <2>2, <2>3, <2>4 DEF PcOK
<1>3. TypeOK'
  BY <1>1, <1>2 DEF IInv, TypeOK, PcOK, room, cabinet
<1>4. ChoiceStillHolds'
  BY <1>1 DEF ChoiceStillHolds
<1>5. \A q \in Patients : /\ Visiting(q)' <=> Visiting(q)
                          /\ pc'[q] = "done" <=> pc[q] = "done"
  BY <1>1 DEF Visiting
<1> QED
  BY <1>1, <1>2, <1>3, <1>4, <1>5, QuietStep DEF cabinet

\* A step of the doctor.
LEMMA DoctorStep ==
    ASSUME IInv, DoctorRuns \/ DoctorLocks \/ DoctorSpurious
    PROVE  IInv' /\ Simulates
<1>a. /\ TypeOK /\ ChoiceStillHolds /\ Doctor \in Threads
      /\ owner \in [Mutexes -> Threads \cup {Nobody}]
  BY DEF IInv, TypeOK, Threads
<1>b. ASSUME NEW m \in Mutexes, Lock(m, Doctor) \/ Unlock(m, Doctor)
      PROVE  owner' \in [Mutexes -> Threads \cup {Nobody}]
  BY <1>a, <1>b, OwnerTyped
<1>c. "oczek" \in Mutexes /\ "leki" \in Mutexes /\ "farm" \in Mutexes
  BY DEF Mutexes
<1>1. CASE Check
  <2> DEFINE to == IF CanConsult \/ CanRestock THEN "choose" ELSE "doze"
  <2>1. Goto(Doctor, "check", to) /\ UNCHANGED <<room, cabinet, owner>>
    BY <1>1 DEF Check
  <2>2. /\ to \in DoctorPc /\ to \notin {"lockRoom", "lockCabinet", "consult"}
        /\ to \notin {"lockBell", "lockStock", "restock"}
        /\ to = "choose" => CanConsult \/ CanRestock
    BY DEF DoctorPc
  <2> HIDE DEF to
  <2> QED
    BY <1>a, <2>1, <2>2, DoctorQuiet
<1>2. CASE FallAsleep
  BY <1>a, <1>2, DoctorQuiet DEF FallAsleep, DoctorPc
<1>3. CASE Choose
  <2> DEFINE to == CASE CanConsult -> "lockRoom"
                     [] ~CanConsult /\ CanRestock -> "lockBell"
                     [] OTHER -> "check"
  <2>1. Goto(Doctor, "choose", to) /\ UNCHANGED <<room, cabinet, owner>>
    BY <1>3 DEF Choose
  <2>2. /\ to \in {"lockRoom", "lockBell", "check"}
        /\ to = "lockRoom" => CanConsult
        /\ to = "lockBell" => CanRestock
    OBVIOUS
  <2> HIDE DEF to
  <2> QED
    BY <1>a, <2>1, <2>2, DoctorQuiet DEF DoctorPc
<1>4. CASE DoctorLocks
  <2>1. CASE Goto(Doctor, "lockRoom", "lockCabinet") /\ Lock("oczek", Doctor)
    <3>1. CanConsult
      BY <1>a, <2>1 DEF ChoiceStillHolds, Goto
    <3> QED
      BY <1>4, <1>b, <1>c, <2>1, <3>1, DoctorQuiet DEF DoctorLocks, DoctorPc
  <2>2. CASE Goto(Doctor, "lockCabinet", "consult") /\ Lock("leki", Doctor)
    <3>1. CanConsult
      BY <1>a, <2>2 DEF ChoiceStillHolds, Goto
    <3> QED
      BY <1>4, <1>b, <1>c, <2>2, <3>1, DoctorQuiet DEF DoctorLocks, DoctorPc
  <2>3. CASE Goto(Doctor, "lockBell", "lockStock") /\ Lock("farm", Doctor)
    <3>1. CanRestock
      BY <1>a, <2>3 DEF ChoiceStillHolds, Goto
    <3> QED
      BY <1>4, <1>b, <1>c, <2>3, <3>1, DoctorQuiet DEF DoctorLocks, DoctorPc
  <2>4. CASE Goto(Doctor, "lockStock", "restock") /\ Lock("leki", Doctor)
    <3>1. CanRestock
      BY <1>a, <2>4 DEF ChoiceStillHolds, Goto
    <3> QED
      BY <1>4, <1>b, <1>c, <2>4, <3>1, DoctorQuiet DEF DoctorLocks, DoctorPc
  <2> QED
    BY <1>4, <2>1, <2>2, <2>3, <2>4 DEF DoctorLocks
<1>5. CASE DoctorUnlocks
  <2>1. PICK to \in {"unlockRoom", "announce", "unlockBell", "announceStock"},
             m \in Mutexes, from \in DoctorPc :
                /\ Goto(Doctor, from, to) /\ Unlock(m, Doctor)
                /\ UNCHANGED <<room, cabinet>>
    BY <1>5, <1>c DEF DoctorUnlocks, DoctorPc
  <2> QED
    BY <1>b, <2>1, DoctorQuiet DEF DoctorPc
<1>6. CASE DoctorSpurious
  BY <1>a, <1>6, DoctorQuiet DEF DoctorSpurious, DoctorPc
<1> QED
  BY <1>1, <1>2, <1>3, <1>4, <1>5, <1>6, ConsultStep, RestockStep, BroadcastStep
     DEF DoctorRuns

\* The end of the program: the doctor is cancelled wherever it is.
LEMMA CancelStep ==
    ASSUME IInv, CancelDoctor
    PROVE  IInv' /\ Simulates
<1>1. /\ Goto(Doctor, pc[Doctor], "cancelled")
      /\ UNCHANGED <<room, cabinet, owner>>
  BY DEF CancelDoctor, Goto
<1> QED
  BY <1>1, DoctorQuiet DEF IInv, TypeOK, DoctorPc

-----------------------------------------------------------------------------
\* Every step keeps the invariant and is allowed by ClinicCare.
LEMMA InductiveStep == IInv /\ [Next]_vars => IInv' /\ Simulates
<1> SUFFICES ASSUME IInv, [Next]_vars PROVE IInv' /\ Simulates
  OBVIOUS
<1>1. CASE UNCHANGED vars
  <2>1. UNCHANGED <<room, cabinet, owner, pc>>
    BY <1>1 DEF vars
  <2>2. TypeOK' /\ PcOK' /\ ChoiceStillHolds'
    BY <2>1 DEF IInv, TypeOK, PcOK, ChoiceStillHolds, CanConsult, CanRestock, room, cabinet
  <2>3. \A q \in Patients : /\ Visiting(q)' <=> Visiting(q)
                            /\ pc'[q] = "done" <=> pc[q] = "done"
    BY <2>1 DEF Visiting
  <2> QED
    BY <2>1, <2>2, <2>3, QuietStep DEF cabinet
<1> QED
  BY <1>1, PatientStep, PharmacistStep, DoctorStep, CancelStep DEF Next

(***************************************************************************)
(* The theorems.                                                           *)
(***************************************************************************)
\* The inductive invariant holds in every reachable state.
THEOREM Invariance == Spec => []IInv
<1>1. IInv /\ [Next]_vars => IInv'
  BY InductiveStep
<1> QED
  BY <1>1, InitInv, PTL DEF Spec

\* The type invariant: every thread is at a statement of its own, and medicine
\* comes and goes in whole consultations.
THEOREM TypeCorrect == Spec => []TypeOK
<1>1. IInv => TypeOK
  BY DEF IInv
<1> QED
  BY <1>1, Invariance, PTL

\* The seats taken are the first ones of the counter, each with a visitor who
\* knows it (zad.c:55-57 and the consultation of 130-134), and the patients who
\* miss their id in their seat (69), or have gone, are those the doctor called in.
THEOREM SeatsCorrect == Spec => []SeatsMatch
<1>1. IInv => SeatsMatch
  BY DEF IInv
<1> QED
  BY <1>1, Invariance, PTL

\* What the doctor has read without the mutexes still holds whenever it acts on
\* it, in the four statements that lie between.
THEOREM ChoicesHold == Spec => []ChoiceStillHolds
<1>1. IInv => ChoiceStillHolds
  BY DEF IInv
<1> QED
  BY <1>1, Invariance, PTL

\* The clinic implements ClinicCare: full rounds, nobody treated twice, medicine
\* for everyone in a round.
THEOREM Implementation == Spec => ImplementsCare
<1>1. Init => Care!CareInit
  <2> SUFFICES ASSUME Init PROVE Care!CareInit
    OBVIOUS
  <2>1. \A p \in Patients : pc[p] = "arrive"
    BY ClinicAssumption DEF Init, Threads
  <2>2. Waiting = {}
    BY <2>1 DEF Waiting, Visiting
  <2> QED
    BY <2>2 DEF Care!CareInit, Waiting, Init
<1>2. IInv /\ [Next]_vars => [Care!CareNext]_(Care!careVars)
  BY InductiveStep DEF Simulates, Care!careVars, Waiting
<1> QED
  BY <1>1, <1>2, Invariance, PTL DEF Spec, ImplementsCare, Care!CareSpec
=============================================================================
