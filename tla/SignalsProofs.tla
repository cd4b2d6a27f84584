---------------------------- MODULE SignalsProofs ----------------------------
(***************************************************************************)
(* Proofs, for any number of senders, of the invariants of Signals.        *)
(***************************************************************************)
EXTENDS Signals, FiniteSetTheorems, TLAPS

Taken == idle \cup busy

(***************************************************************************)
(* What is known of a sender's one signal on its way: unsent, pending or   *)
(* merged away, taken, confirmed.  A signal is in one place at a time, and *)
(* one that was merged is never taken.                                     *)
(***************************************************************************)
SignalOnce ==
    /\ \A s \in Senders : sender[s] = "sigqueue" => s \notin Taken \cup merged /\ pending # s
    /\ pending # Nobody => pending \notin Taken \cup merged
    /\ merged \cap Taken = {}
    /\ handling # Nobody => handling = sender_pid /\ handling \in Taken
    /\ confirmed \subseteq Taken

(***************************************************************************)
(* What is known of the mode the catcher holds: between two modes it is of *)
(* a signal that came then and has not been carried out, or none; and the  *)
(* one being carried out is of such a signal too, whatever mode has been   *)
(* set meanwhile.                                                          *)
(***************************************************************************)
ModeFresh ==
    /\ catcher = "sigaction" => mode = 0
    /\ catcher = "switch" /\ mode # 0 => sender_pid \in idle \ obeyed
    /\ catcher \in {"loop", "ignore", "write", "count"} => doing \in idle \ obeyed

IInv == TypeOK /\ SignalOnce /\ ModeFresh /\ ObeyedOnce /\ ConfirmedWereTaken

\* The initial states satisfy the inductive invariant.
LEMMA InitInv == Init => IInv
<1> SUFFICES ASSUME Init PROVE IInv
  OBVIOUS
<1>1. Cardinality({}) = 0 /\ Cardinality(Senders) \in Nat
  BY SignalsAssumption, FS_EmptySet, FS_CardinalityType
<1>2. TypeOK
  BY <1>1 DEF Init, TypeOK, SenderPc, CatcherPc, Modes
<1>3. SignalOnce
  BY SignalsAssumption DEF Init, SignalOnce, Taken
<1>4. ModeFresh
  BY DEF Init, ModeFresh
<1>5. ObeyedOnce /\ ConfirmedWereTaken
  BY <1>1 DEF Init, ObeyedOnce, ConfirmedWereTaken
<1> QED
  BY <1>2, <1>3, <1>4, <1>5 DEF IInv

-----------------------------------------------------------------------------
(***************************************************************************)
(* The induction step, one action at a time.                               *)
(***************************************************************************)
\* A step of a sender.
LEMMA SenderStep ==
    ASSUME IInv, NEW s \in Senders, Sender(s)
    PROVE  IInv'
<1> USE SignalsAssumption DEF IInv
<1>a. ASSUME UNCHANGED <<catcher, globals, idle, busy, doing, obeyed>>
      PROVE  ModeFresh' /\ ObeyedOnce'
  BY <1>a DEF ModeFresh, ObeyedOnce, globals
<1>1. CASE Queue(s)
  <2>1. TypeOK'
    BY <1>1 DEF Queue, Goto, Merge, TypeOK, SenderPc, globals
  <2>2. SignalOnce'
    BY <1>1 DEF Queue, Goto, Merge, TypeOK, SignalOnce, Taken, globals
  <2>3. ConfirmedWereTaken'
    BY <1>1 DEF Queue, Goto, Merge, TypeOK, ConfirmedWereTaken
  <2> QED
    BY <1>1, <1>a, <2>1, <2>2, <2>3 DEF Queue
<1>2. CASE QueueFails(s)
  <2>1. TypeOK' /\ SignalOnce' /\ ConfirmedWereTaken'
    BY <1>2 DEF QueueFails, Goto, TypeOK, SenderPc, SignalOnce, Taken, ConfirmedWereTaken,
                signals, globals, history
  <2> QED
    BY <1>2, <1>a, <2>1 DEF QueueFails, history
<1>3. CASE Install(s)
  <2>1. TypeOK' /\ SignalOnce' /\ ConfirmedWereTaken'
    BY <1>3 DEF Install, Goto, TypeOK, SenderPc, SignalOnce, Taken, ConfirmedWereTaken,
                signals, globals, history
  <2> QED
    BY <1>3, <1>a, <2>1 DEF Install, history
<1>4. CASE Suspend(s)
  <2>1. TypeOK' /\ SignalOnce' /\ ConfirmedWereTaken'
    BY <1>4 DEF Suspend, Goto, TypeOK, SenderPc, SignalOnce, Taken, ConfirmedWereTaken,
                signals, globals, history
  <2> QED
    BY <1>4, <1>a, <2>1 DEF Suspend, history
<1>5. CASE Confirmed(s)
  <2>1. s \in Taken /\ s \notin merged
    BY <1>5 DEF Confirmed, SignalOnce
  <2>2. TypeOK'
    BY <1>5 DEF Confirmed, TypeOK, SenderPc, signals, globals, history
  <2>3. SignalOnce'
    BY <1>5 DEF Confirmed, TypeOK, SignalOnce, Taken, signals, globals, history
  <2>4. ConfirmedWereTaken'
    BY <1>5, <2>1 DEF Confirmed, TypeOK, ConfirmedWereTaken, Taken, history
  <2> QED
    BY <1>5, <1>a, <2>2, <2>3, <2>4 DEF Confirmed, history
<1> QED
  BY <1>1, <1>2, <1>3, <1>4, <1>5 DEF Sender

\* A step of the catcher's handler.
LEMMA HandlerStep ==
    ASSUME IInv, Handler
    PROVE  IInv'
<1> USE SignalsAssumption DEF IInv
<1>1. CASE Killed
  <2>1. TypeOK' /\ SignalOnce'
    BY <1>1 DEF Killed, TypeOK, CatcherPc, SignalOnce, Taken, sending, globals, history
  <2>2. ModeFresh' /\ ObeyedOnce' /\ ConfirmedWereTaken'
    BY <1>1 DEF Killed, ModeFresh, ObeyedOnce, ConfirmedWereTaken, sending, globals, history
  <2> QED
    BY <2>1, <2>2
<1>2. CASE Take
  <2>1. /\ pending \in Senders /\ pending \notin Taken \cup merged
        /\ pending \notin obeyed
    BY <1>2 DEF Take, TypeOK, SignalOnce, ObeyedOnce, Taken
  <2>2. TypeOK'
    BY <1>2, <2>1 DEF Take, TypeOK, sending
  <2>3. SignalOnce'
    BY <1>2, <2>1 DEF Take, SignalOnce, Taken, sending
  <2>4. ModeFresh'
    BY <1>2, <2>1 DEF Take, ModeFresh, sending
  <2>5. ObeyedOnce' /\ ConfirmedWereTaken'
    BY <1>2, <2>1 DEF Take, ObeyedOnce, ConfirmedWereTaken, Taken, sending
  <2> QED
    BY <2>2, <2>3, <2>4, <2>5
<1>3. CASE Confirm
  <2>1. TypeOK' /\ SignalOnce'
    BY <1>3 DEF Confirm, TypeOK, SignalOnce, Taken, sending, globals, history
  <2>2. ModeFresh' /\ ObeyedOnce' /\ ConfirmedWereTaken'
    BY <1>3 DEF Confirm, ModeFresh, ObeyedOnce, ConfirmedWereTaken, globals, history
  <2> QED
    BY <2>1, <2>2
<1> QED
  BY <1>1, <1>2, <1>3 DEF Handler

\* A step of the catcher's main().
LEMMA LoopStep ==
    ASSUME IInv, Loop
    PROVE  IInv'
<1> USE SignalsAssumption DEF IInv
<1>a. ASSUME UNCHANGED <<sending, signals, sender_pid, merged, idle, busy>>
      PROVE  SignalOnce' /\ ConfirmedWereTaken'
  BY <1>a DEF SignalOnce, ConfirmedWereTaken, Taken, sending, signals
<1>1. CASE Start
  <2>1. TypeOK' /\ ModeFresh' /\ ObeyedOnce'
    BY <1>1 DEF Start, Main, TypeOK, CatcherPc, ModeFresh, ObeyedOnce,
                sending, signals, globals, history
  <2> QED
    BY <1>1, <1>a, <2>1 DEF Start, globals, history
<1>2. CASE Switch
  <2>1. TypeOK' /\ ModeFresh' /\ ObeyedOnce'
    BY <1>2 DEF Switch, Main, TypeOK, CatcherPc, ModeFresh, ObeyedOnce,
                sending, signals, globals
  <2> QED
    BY <1>2, <1>a, <2>1 DEF Switch, globals
<1>3. CASE LeaveLoop
  <2>1. TypeOK' /\ ModeFresh' /\ ObeyedOnce'
    BY <1>3 DEF LeaveLoop, Main, TypeOK, CatcherPc, ModeFresh, ObeyedOnce,
                sending, signals, globals, history
  <2> QED
    BY <1>3, <1>a, <2>1 DEF LeaveLoop, globals, history
<1>4. CASE SetSigint
  <2>1. TypeOK' /\ ModeFresh' /\ ObeyedOnce'
    BY <1>4 DEF SetSigint, Main, TypeOK, CatcherPc, ModeFresh, ObeyedOnce,
                sending, signals, globals, history
  <2> QED
    BY <1>4, <1>a, <2>1 DEF SetSigint, globals, history
<1>5. CASE Count
  <2>1. doing \in idle \ obeyed /\ doing \in Senders
    BY <1>5 DEF Count, Main, ModeFresh, TypeOK
  <2>2. obeyed \subseteq Senders /\ IsFiniteSet(obeyed)
    BY FS_Subset DEF TypeOK
  <2>3. count' = Cardinality(obeyed')
    BY <1>5, <2>1, <2>2, FS_AddElement DEF Count, ObeyedOnce
  <2>4. obeyed' \subseteq Senders
    BY <1>5, <2>1, <2>2 DEF Count
  <2>5. count' \in 0 .. Cardinality(Senders)
    <3>1. /\ IsFiniteSet(obeyed') /\ Cardinality(obeyed') <= Cardinality(Senders)
          /\ Cardinality(obeyed') \in Nat /\ Cardinality(Senders) \in Nat
      BY <2>4, FS_Subset, FS_CardinalityType
    <3> QED
      BY <2>3, <3>1
  <2>6. TypeOK'
    BY <1>5, <2>4, <2>5 DEF Count, Main, TypeOK, CatcherPc, sending, signals
  <2>7. ModeFresh' /\ ObeyedOnce'
    BY <1>5, <2>1, <2>3 DEF Count, Main, ModeFresh, ObeyedOnce
  <2> QED
    BY <1>5, <1>a, <2>6, <2>7 DEF Count
<1>6. CASE Clear
  <2>1. TypeOK' /\ ModeFresh' /\ ObeyedOnce'
    BY <1>6 DEF Clear, Main, TypeOK, CatcherPc, Modes, ModeFresh, ObeyedOnce,
                sending, signals
  <2> QED
    BY <1>6, <1>a, <2>1 DEF Clear
<1> QED
  BY <1>1, <1>2, <1>3, <1>4, <1>5, <1>6 DEF Loop

\* Every step keeps the inductive invariant.
LEMMA InductiveStep == IInv /\ [Next]_vars => IInv'
<1> SUFFICES ASSUME IInv, [Next]_vars PROVE IInv'
  OBVIOUS
<1>1. CASE Interrupt
  <2>1. TypeOK'
    BY <1>1 DEF Interrupt, IInv, TypeOK, CatcherPc, sending, signals, globals, history
  <2>2. SignalOnce' /\ ModeFresh' /\ ObeyedOnce' /\ ConfirmedWereTaken'
    BY <1>1 DEF Interrupt, IInv, SignalOnce, ModeFresh, ObeyedOnce, ConfirmedWereTaken,
                Taken, sending, signals, globals, history
  <2> QED
    BY <2>1, <2>2 DEF IInv
<1>2. CASE UNCHANGED vars
  BY <1>2 DEF IInv, TypeOK, SignalOnce, ModeFresh, ObeyedOnce, ConfirmedWereTaken, Taken,
              vars, sending, signals, globals, history
<1> QED
  BY <1>1, <1>2, SenderStep, HandlerStep, LoopStep DEF Next

-----------------------------------------------------------------------------
\* IInv holds in every reachable state.
THEOREM Invariance == Spec => []IInv
<1>1. Init => IInv
  BY InitInv
<1>2. IInv /\ [Next]_vars => IInv'
  BY InductiveStep
<1> QED
  BY <1>1, <1>2, PTL DEF Spec

(***************************************************************************)
(* The variables stay of their type; count never exceeds the number of     *)
(* senders, although nothing in zad2catcher.c bounds it.                   *)
(***************************************************************************)
THEOREM TypeCorrect == Spec => []TypeOK
<1>1. IInv => TypeOK
  BY DEF IInv
<1> QED
  BY <1>1, Invariance, PTL

(***************************************************************************)
(* The handler may set mode before any statement of the loop, yet no mode  *)
(* is carried out twice, and count is the number of those carried out: all *)
(* of them came between two modes (lab-5/zad2catcher.c:38).                *)
(***************************************************************************)
THEOREM ModesObeyedOnce == Spec => []ObeyedOnce
<1>1. IInv => ObeyedOnce
  BY DEF IInv
<1> QED
  BY <1>1, Invariance, PTL

(***************************************************************************)
(* A sender that ends with success had its own signal taken, not one that  *)
(* its own was merged into (lab-5/zad2sender.c:35).                        *)
(***************************************************************************)
THEOREM SuccessIsTrue == Spec => []ConfirmedWereTaken
<1>1. IInv => ConfirmedWereTaken
  BY DEF IInv
<1> QED
  BY <1>1, Invariance, PTL
=============================================================================
