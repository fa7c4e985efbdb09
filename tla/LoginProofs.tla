---------------------------- MODULE LoginProofs ----------------------------
(***************************************************************************)
(* Proofs about Login, for every set of workers and configurations and     *)
(* every bound on faults, expiries and rotations.                          *)
(***************************************************************************)
EXTENDS Login, TLAPS

\* What a worker in the section knows of the file: from the recheck to the login it
\* is not valid, since only the holder of the mutex makes it so.
Rechecked == \A w \in Workers : pc[w] \in {"secret", "login"} => file # "valid"

\* The mutex, the places of the workers and the state of the file go together.
IInv == TypeOK /\ OneWriter /\ Rechecked

\* The program starts in the invariant.
LEMMA InitInvariant == Init => IInv
PROOF
<1> SUFFICES ASSUME Init PROVE IInv
  OBVIOUS
<1> USE LoginAssumption DEF Init
<1>1. TypeOK
  BY DEF TypeOK
<1>2. OneWriter
  BY DEF OneWriter, Section
<1>3. Rechecked
  BY DEF Rechecked
<1> QED
  BY <1>1, <1>2, <1>3 DEF IInv

\* The calls before the section and the updates beside it.
LEMMA OutsideInvariant ==
  ASSUME IInv, NEW w \in Workers,
         Stat(w) \/ NewAuthorizer(w) \/ UpdateReads(w) \/ UpdateApplies(w)
  PROVE  IInv'
PROOF
<1> USE LoginAssumption
<1>1. CASE Stat(w)
  <2>1. TypeOK'
    BY <1>1 DEF IInv, TypeOK, Stat, Goto, Section
  <2>2. OneWriter' /\ Rechecked'
    BY <1>1 DEF IInv, TypeOK, OneWriter, Rechecked, Stat, Goto, Section
  <2> QED
    BY <2>1, <2>2 DEF IInv
<1>2. CASE NewAuthorizer(w)
  <2>1. TypeOK'
    BY <1>2 DEF IInv, TypeOK, NewAuthorizer, Goto, Return, Section, environment
  <2>2. mutex' = mutex /\ file' = file /\ pc[w] \notin Section /\ pc'[w] \notin Section
    BY <1>2 DEF IInv, TypeOK, OneWriter, NewAuthorizer, Goto, Return, Section
  <2>3. \A u \in Workers \ {w} : pc'[u] = pc[u]
    BY <1>2 DEF IInv, TypeOK, NewAuthorizer, Goto, Return
  <2>4. OneWriter' /\ Rechecked'
    BY <2>2, <2>3 DEF IInv, TypeOK, OneWriter, Rechecked, Section
  <2> QED
    BY <2>1, <2>4 DEF IInv
<1>3. CASE UpdateReads(w) \/ UpdateApplies(w)
  <2>1. TypeOK'
    BY <1>3 DEF IInv, TypeOK, UpdateReads, UpdateApplies, Fault
  <2>2. UNCHANGED <<mutex, file, pc>>
    BY <1>3 DEF UpdateReads, UpdateApplies
  <2> QED
    BY <2>1, <2>2 DEF IInv, OneWriter, Rechecked
<1> QED
  BY <1>1, <1>2, <1>3

\* The calls of the section: none is made by two workers at a time.
LEMMA SectionInvariant ==
  ASSUME IInv, NEW w \in Workers,
         \/ Lock(w) \/ Recheck(w) \/ ReadSecret(w)
         \/ LoginWithConfig(w) \/ FileWritten(w) \/ StatAfterLogin(w)
  PROVE  IInv'
PROOF
<1> USE LoginAssumption
<1>1. CASE Lock(w)
  <2>1. TypeOK'
    BY <1>1 DEF IInv, TypeOK, Lock, Goto, Section, environment
  <2>2. OneWriter' /\ Rechecked'
    BY <1>1 DEF IInv, TypeOK, OneWriter, Rechecked, Lock, Goto, Section
  <2> QED
    BY <2>1, <2>2 DEF IInv
<1>2. CASE Recheck(w)
  <2>1. TypeOK'
    BY <1>2 DEF IInv, TypeOK, Recheck, Goto, Return, Section, environment
  <2>2. OneWriter' /\ Rechecked'
    BY <1>2 DEF IInv, TypeOK, OneWriter, Rechecked, Recheck, Goto, Return, Section
  <2> QED
    BY <2>1, <2>2 DEF IInv
<1>3. CASE ReadSecret(w)
  <2>1. TypeOK'
    <3>1. faults' \in 0..MaxFaults
      BY <1>3 DEF IInv, TypeOK, ReadSecret, Return, Fault
    <3>2. pc' \in [Workers -> {"idle", "authorize", "lock"} \cup Section]
      BY <1>3 DEF IInv, TypeOK, ReadSecret, Return, Section
    <3>3. /\ creds' \in [Workers -> Configs \cup {None}] /\ mutex' \in Workers \cup {None}
          /\ authorized' \in [Workers -> BOOLEAN]
      BY <1>3 DEF IInv, TypeOK, ReadSecret, Return, environment
    <3>4. \A u \in Workers : pc'[u] = "login" => creds'[u] # None
      BY <1>3 DEF IInv, TypeOK, ReadSecret, Return
    <3>5. file' \in {"absent", "partial", "torn", "valid", "expired"} /\ UNCHANGED environment
      BY <1>3 DEF IInv, TypeOK, ReadSecret
    <3> QED
      BY <3>1, <3>2, <3>3, <3>4, <3>5 DEF IInv, TypeOK, environment
  <2>2. OneWriter' /\ Rechecked'
    BY <1>3 DEF IInv, TypeOK, OneWriter, Rechecked, ReadSecret, Return, Section
  <2> QED
    BY <2>1, <2>2 DEF IInv
<1>4. CASE LoginWithConfig(w)
  <2>1. TypeOK'
    <3>1. faults' \in 0..MaxFaults
      BY <1>4 DEF IInv, TypeOK, LoginWithConfig, Goto, Return, Fault
    <3>2. pc' \in [Workers -> {"idle", "authorize", "lock"} \cup Section]
      BY <1>4 DEF IInv, TypeOK, LoginWithConfig, Goto, Return, Section
    <3>3. /\ creds' \in [Workers -> Configs \cup {None}] /\ mutex' \in Workers \cup {None}
          /\ authorized' \in [Workers -> BOOLEAN]
      BY <1>4 DEF IInv, TypeOK, LoginWithConfig, Goto, Return, environment
    <3>4. \A u \in Workers : pc'[u] = "login" => creds'[u] # None
      BY <1>4 DEF IInv, TypeOK, LoginWithConfig, Goto, Return
    <3>5. file' \in {"absent", "partial", "torn", "valid", "expired"} /\ UNCHANGED environment
      BY <1>4 DEF IInv, TypeOK, LoginWithConfig
    <3> QED
      BY <3>1, <3>2, <3>3, <3>4, <3>5 DEF IInv, TypeOK, environment
  <2>2. OneWriter' /\ Rechecked'
    BY <1>4 DEF IInv, TypeOK, OneWriter, Rechecked, LoginWithConfig, Goto, Return, Section
  <2> QED
    BY <2>1, <2>2 DEF IInv
<1>5. CASE FileWritten(w)
  <2>1. TypeOK'
    BY <1>5 DEF IInv, TypeOK, FileWritten, Goto, Section, environment
  <2>2. OneWriter' /\ Rechecked'
    BY <1>5 DEF IInv, TypeOK, OneWriter, Rechecked, FileWritten, Goto, Section
  <2> QED
    BY <2>1, <2>2 DEF IInv
<1>6. CASE StatAfterLogin(w)
  <2>1. TypeOK'
    BY <1>6 DEF IInv, TypeOK, StatAfterLogin, Return, Section, environment
  <2>2. OneWriter' /\ Rechecked'
    BY <1>6 DEF IInv, TypeOK, OneWriter, Rechecked, StatAfterLogin, Return, Section
  <2> QED
    BY <2>1, <2>2 DEF IInv
<1> QED
  BY <1>1, <1>2, <1>3, <1>4, <1>5, <1>6

\* What the environment does, a restart included.
LEMMA EnvironmentInvariant ==
  ASSUME IInv, Expire \/ RotateSecret \/ Restart
  PROVE  IInv'
PROOF
<1> USE LoginAssumption
<1>1. CASE Expire
  <2>1. TypeOK'
    BY <1>1 DEF IInv, TypeOK, Expire
  <2>2. OneWriter' /\ Rechecked'
    BY <1>1 DEF IInv, OneWriter, Rechecked, Expire
  <2> QED
    BY <2>1, <2>2 DEF IInv
<1>2. CASE RotateSecret
  <2>1. TypeOK'
    BY <1>2 DEF IInv, TypeOK, RotateSecret
  <2>2. OneWriter' /\ Rechecked'
    BY <1>2 DEF IInv, OneWriter, Rechecked, RotateSecret
  <2> QED
    BY <2>1, <2>2 DEF IInv
<1>3. CASE Restart
  <2>1. TypeOK'
    BY <1>3 DEF IInv, TypeOK, Restart, Fault
  <2>2. OneWriter' /\ Rechecked'
    BY <1>3 DEF IInv, OneWriter, Rechecked, Restart, Section
  <2> QED
    BY <2>1, <2>2 DEF IInv
<1> QED
  BY <1>1, <1>2, <1>3

\* Every step keeps the invariant.
LEMMA NextInvariant == IInv /\ [Next]_vars => IInv'
PROOF
<1> SUFFICES ASSUME IInv, [Next]_vars PROVE IInv'
  OBVIOUS
<1>1. CASE UNCHANGED vars
  BY <1>1 DEF vars, IInv, TypeOK, OneWriter, Rechecked
<1>2. CASE Next
  BY <1>2, OutsideInvariant, SectionInvariant, EnvironmentInvariant DEF Next, Step
<1> QED
  BY <1>1, <1>2

\* A step that starts to write the session file is a login, and its worker has found
\* no valid session since it took the mutex.
LEMMA LoginStep == IInv /\ [Next]_vars => (file' = "partial" => file # "valid")
PROOF
<1> SUFFICES ASSUME IInv, [Next]_vars, file' = "partial", file = "valid" PROVE FALSE
  OBVIOUS
<1>1. Next
  BY DEF vars
<1>2. ~(Expire \/ RotateSecret \/ Restart)
  BY DEF Expire, RotateSecret, Restart
<1>3. PICK w \in Workers : Step(w) \/ Lock(w) \/ UpdateReads(w) \/ UpdateApplies(w)
  BY <1>1, <1>2 DEF Next
<1>4. LoginWithConfig(w)
  BY <1>3 DEF Step, Stat, NewAuthorizer, Recheck, ReadSecret, FileWritten, StatAfterLogin,
              Lock, UpdateReads, UpdateApplies
<1> QED
  BY <1>4 DEF LoginWithConfig, IInv, Rechecked

\* login is a critical section whatever the number of reconciles: one worker at most is
\* between Lock and Unlock, and a file that is half written is being written by it.
THEOREM LoginExclusive == Spec => []OneWriter
PROOF
<1>1. IInv => OneWriter
  BY DEF IInv
<1> QED
  BY InitInvariant, NextInvariant, <1>1, PTL DEF Spec

\* The recheck under the lock is enough: whatever the number of workers that find the
\* session expired or missing, no login is made while a session is valid.
THEOREM LoginOnce == Spec => OneLogin
PROOF
<1>1. IInv /\ [Next]_vars => [file' = "partial" => file # "valid"]_vars
  BY LoginStep
<1> QED
  BY InitInvariant, NextInvariant, <1>1, PTL DEF Spec, OneLogin

\* Whatever the number of workers, each is at a call of its own and logs in only with a
\* configuration that it has read.
THEOREM TypeCorrect == Spec => []TypeOK
PROOF
<1>1. IInv => TypeOK
  BY DEF IInv
<1> QED
  BY InitInvariant, NextInvariant, <1>1, PTL DEF Spec
=============================================================================
