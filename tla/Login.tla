------------------------------- MODULE Login --------------------------------
(***************************************************************************)
(* pkg/auth: how reconciles get an authorizer for MOC.  Every new cluster  *)
(* or virtual machine scope calls ReconcileAzureStackHCIAccess; the        *)
(* reconciles of all controllers run concurrently in one process and share *)
(* the session that a login leaves in the file WSSD_CONFIG_PATH, a mutex   *)
(* and the login configuration that the MOC SDK keeps for recovery.  The   *)
(* file is in a volume of the pod: it outlives the container, not the pod. *)
(***************************************************************************)
EXTENDS Naturals

CONSTANTS
  Workers,       \* concurrent reconciles
  Configs,       \* login configurations that the secret may hold
  MaxFaults,     \* bound: failed calls and restarts
  MaxExpiries,   \* bound: times the session expires
  MaxRotations,  \* bound: changes of the secret
  None           \* no worker, no configuration

ASSUME LoginAssumption ==
  /\ None \notin Workers \cup Configs
  /\ {MaxFaults, MaxExpiries, MaxRotations} \subseteq Nat

VARIABLES
  debug,    \* WSSD_DEBUG_MODE is "on"
  file,     \* absent, partial (being written), torn (left half written), valid or expired
  secret,   \* a configuration, or None: missing or not parsable
  sdk,      \* the configuration that the SDK would recover with
  mutex,    \* mut: the worker that holds it
  pc, creds,    \* per worker: its next call, the configuration it read
  authorized,   \* per worker: its last call returned an authorizer
  updates,  \* per worker: the UpdateLoginConfig it started last: idle, started, or
            \* the configuration it read
  faults, expiries, rotations

vars == <<debug, file, secret, sdk, mutex, pc, creds, authorized, updates,
          faults, expiries, rotations>>
environment == <<debug, secret, sdk, updates, expiries, rotations>>

\* The calls between mut.Lock and the deferred mut.Unlock.
Section == {"recheck", "secret", "login", "write", "stat"}

\* Every worker is at a call, and it holds a configuration exactly when it has read one.
TypeOK ==
  /\ debug \in BOOLEAN /\ file \in {"absent", "partial", "torn", "valid", "expired"}
  /\ secret \in Configs \cup {None} /\ sdk \in Configs \cup {None}
  /\ mutex \in Workers \cup {None}
  /\ pc \in [Workers -> {"idle", "authorize", "lock"} \cup Section]
  /\ creds \in [Workers -> Configs \cup {None}]
  /\ \A w \in Workers : pc[w] = "login" => creds[w] # None
  /\ authorized \in [Workers -> BOOLEAN]
  /\ updates \in [Workers -> {"idle", "started"} \cup Configs]
  /\ faults \in 0..MaxFaults /\ expiries \in 0..MaxExpiries /\ rotations \in 0..MaxRotations

Fault == faults < MaxFaults /\ faults' = faults + 1

Goto(w, label) == pc' = [pc EXCEPT ![w] = label] /\ UNCHANGED <<authorized, creds>>

\* The call returns; inside the section the deferred Unlock runs.
Return(w, ok) ==
  /\ pc' = [pc EXCEPT ![w] = "idle"]
  /\ authorized' = [authorized EXCEPT ![w] = ok]
  /\ creds' = [creds EXCEPT ![w] = None]
  /\ mutex' = IF mutex = w THEN None ELSE mutex

-----------------------------------------------------------------------------
(* ReconcileAzureStackHCIAccess.                                            *)

\* Without the file a login is needed.  With it UpdateLoginConfig is started beside
\* this call (bound: one of each worker at a time).
Stat(w) ==
  /\ pc[w] = "idle"
  /\ IF debug THEN Goto(w, "authorize") /\ UNCHANGED updates
     ELSE IF file = "absent" THEN Goto(w, "lock") /\ UNCHANGED updates
     ELSE /\ Goto(w, "authorize")
          /\ updates[w] = "idle" /\ updates' = [updates EXCEPT ![w] = "started"]
  /\ UNCHANGED <<debug, file, secret, sdk, mutex, faults, expiries, rotations>>

\* Mutant: an expired session is an error like any other.
NewAuthorizerNoExpiry(w) ==
  /\ pc[w] = "authorize"
  /\ Return(w, file = "valid")
  /\ UNCHANGED <<environment, file, faults>>

\* Only an expired session is renewed; any other error is returned.
NewAuthorizer(w) ==
  /\ pc[w] = "authorize"
  /\ IF file = "expired" THEN Goto(w, "lock") /\ UNCHANGED mutex
     ELSE Return(w, file = "valid")
  /\ UNCHANGED <<environment, file, faults>>

-----------------------------------------------------------------------------
(* login.                                                                   *)

\* Mutant: the mutex is not waited for.
LockShared(w) ==
  /\ pc[w] = "lock"
  /\ mutex' = w /\ Goto(w, "recheck")
  /\ UNCHANGED <<environment, file, faults>>

Lock(w) ==
  /\ pc[w] = "lock" /\ mutex = None
  /\ mutex' = w /\ Goto(w, "recheck")
  /\ UNCHANGED <<environment, file, faults>>

\* Mutant: the worker that waited logs in again.
RecheckSkipped(w) ==
  /\ pc[w] = "recheck"
  /\ Goto(w, "secret")
  /\ UNCHANGED <<environment, file, faults, mutex>>

\* Somebody may have logged in while this worker waited for the lock.
Recheck(w) ==
  /\ pc[w] = "recheck"
  /\ IF file = "valid" THEN Return(w, TRUE) ELSE Goto(w, "secret") /\ UNCHANGED mutex
  /\ UNCHANGED <<environment, file, faults>>

\* Mutant: the configuration is taken as it is, also if it could not be parsed.
ReadSecretUnchecked(w) ==
  /\ pc[w] = "secret"
  /\ pc' = [pc EXCEPT ![w] = "login"] /\ creds' = [creds EXCEPT ![w] = secret]
  /\ UNCHANGED <<environment, file, mutex, authorized, faults>>

\* Mutant: the worker waits for the secret inside the section.
ReadSecretWaits(w) ==
  /\ pc[w] = "secret"
  /\ \/ /\ secret # None
        /\ pc' = [pc EXCEPT ![w] = "login"] /\ creds' = [creds EXCEPT ![w] = secret]
        /\ UNCHANGED <<mutex, authorized, faults>>
     \/ secret = None /\ UNCHANGED <<pc, creds, mutex, authorized, faults>>
     \/ Fault /\ Return(w, FALSE)
  /\ UNCHANGED <<environment, file>>

\* GetSecret, the field and its YAML.
ReadSecret(w) ==
  /\ pc[w] = "secret"
  /\ \/ /\ secret # None
        /\ pc' = [pc EXCEPT ![w] = "login"] /\ creds' = [creds EXCEPT ![w] = secret]
        /\ UNCHANGED <<mutex, authorized, faults>>
     \/ secret = None /\ Return(w, FALSE) /\ UNCHANGED faults
     \/ Fault /\ Return(w, FALSE)
  /\ UNCHANGED <<environment, file>>

\* NewAuthenticationClientAuthMode and LoginWithConfig, which writes the file unless
\* it fails.  AlreadyExists passes for a success but writes nothing.  A configuration
\* that was replaced meanwhile may be refused.
LoginWithConfig(w) ==
  /\ pc[w] = "login"
  /\ \/ file' = "partial" /\ Goto(w, "write") /\ UNCHANGED <<mutex, faults>>
     \/ creds[w] # secret /\ Return(w, FALSE) /\ UNCHANGED <<file, faults>>
     \/ Fault /\ Return(w, FALSE) /\ UNCHANGED file
     \/ Fault /\ Goto(w, "stat") /\ UNCHANGED <<file, mutex>>
  /\ UNCHANGED environment

FileWritten(w) ==
  /\ pc[w] = "write"
  /\ file' = "valid" /\ Goto(w, "stat")
  /\ UNCHANGED <<environment, mutex, faults>>

\* The second Stat and NewAuthorizerFromEnvironment.
StatAfterLogin(w) ==
  /\ pc[w] = "stat"
  /\ Return(w, file = "valid")
  /\ UNCHANGED <<environment, file, faults>>

-----------------------------------------------------------------------------
(* UpdateLoginConfig, which takes no lock.                                  *)

UpdateReads(w) ==
  /\ updates[w] = "started"
  /\ \/ /\ updates' = [updates EXCEPT ![w] = IF secret = None THEN "idle" ELSE secret]
        /\ UNCHANGED faults
     \/ Fault /\ updates' = [updates EXCEPT ![w] = "idle"]
  /\ UNCHANGED <<debug, file, secret, sdk, mutex, pc, creds, authorized, expiries, rotations>>

UpdateApplies(w) ==
  /\ updates[w] \in Configs
  /\ sdk' = updates[w] /\ updates' = [updates EXCEPT ![w] = "idle"]
  /\ UNCHANGED <<debug, file, secret, mutex, pc, creds, authorized, faults, expiries, rotations>>

-----------------------------------------------------------------------------
(* The environment.                                                         *)

Expire ==
  /\ expiries < MaxExpiries /\ expiries' = expiries + 1
  /\ file = "valid" /\ file' = "expired"
  /\ UNCHANGED <<debug, secret, sdk, mutex, pc, creds, authorized, updates, faults, rotations>>

RotateSecret ==
  /\ rotations < MaxRotations /\ rotations' = rotations + 1
  /\ secret' \in (Configs \cup {None}) \ {secret}
  /\ UNCHANGED <<debug, file, sdk, mutex, pc, creds, authorized, updates, faults, expiries>>

\* The container is started again in its pod, or the pod is replaced.
Restart ==
  /\ Fault
  /\ file' \in {"absent", IF file = "partial" THEN "torn" ELSE file}
  /\ sdk' = None /\ mutex' = None
  /\ pc' = [w \in Workers |-> "idle"] /\ creds' = [w \in Workers |-> None]
  /\ authorized' = [w \in Workers |-> FALSE] /\ updates' = [w \in Workers |-> "idle"]
  /\ UNCHANGED <<debug, secret, expiries, rotations>>

-----------------------------------------------------------------------------
\* The file may be there from an earlier container.
Init ==
  /\ debug \in BOOLEAN /\ file \in {"absent", "valid"} /\ secret \in Configs \cup {None}
  /\ sdk = None /\ mutex = None
  /\ pc = [w \in Workers |-> "idle"] /\ creds = [w \in Workers |-> None]
  /\ authorized = [w \in Workers |-> FALSE] /\ updates = [w \in Workers |-> "idle"]
  /\ faults = 0 /\ expiries = 0 /\ rotations = 0

Step(w) ==
  \/ Stat(w) \/ NewAuthorizer(w) \/ Recheck(w) \/ ReadSecret(w)
  \/ LoginWithConfig(w) \/ FileWritten(w) \/ StatAfterLogin(w)

Next ==
  \/ \E w \in Workers : Step(w) \/ Lock(w) \/ UpdateReads(w) \/ UpdateApplies(w)
  \/ Expire \/ RotateSecret \/ Restart

Spec == Init /\ [][Next]_vars

\* Objects are reconciled again and again, every call ends, and sync.Mutex lets no
\* waiter starve.
FairSpec ==
  /\ Spec
  /\ \A w \in Workers :
       /\ WF_vars(Step(w)) /\ SF_vars(Lock(w))
       /\ WF_vars(UpdateReads(w)) /\ WF_vars(UpdateApplies(w))

-----------------------------------------------------------------------------
(* Properties.                                                              *)

\* A worker logs in only while there is no valid session: those that find the session
\* expired together, or missing, make one login between them.
OneLogin == [][file' = "partial" => file # "valid"]_vars

\* A file that is being written is never replaced or read as a session by the one that
\* holds the lock: at most one worker is between Lock and Unlock, and it writes.
OneWriter ==
  /\ \A w \in Workers : pc[w] \in Section <=> mutex = w
  /\ file = "partial" => mutex # None /\ pc[mutex] = "write"

\* Every call returns, whoever fails in the section: the mutex is always given back.
Returns == \A w \in Workers : pc[w] # "idle" ~> pc[w] = "idle"

\* Once the secret holds a configuration for good, every reconcile gets an authorizer
\* again, and the updates that run beside them leave the SDK with that configuration,
\* although an update that read an older one may be applied after a newer one.  The
\* exception is a container that was stopped while it wrote the file: a torn file is not
\* an expired one, and no login repairs it before the pod is replaced.
Recovers ==
  ~debug /\ <>[](secret # None) /\ <>[](file # "torn") =>
    <>[](sdk = secret /\ \A w \in Workers : authorized[w])
=============================================================================
