-------------------------------- MODULE Tunnel --------------------------------
(***************************************************************************)
(* The tunnel service (service.py, run_tunnel) as launchd runs it: a       *)
(* wrapper that admits the install, starts the tunnel client, records who  *)
(* it is, and watches that the install it started from stays in place.     *)
(*                                                                         *)
(* launchd (external) lists the job until its wrapper is gone; what the    *)
(* wrapper leaves of its process group is killed, and may linger.          *)
(***************************************************************************)
EXTENDS Install

CONSTANT MaxStarts  \* bound: tunnel clients ever started

ASSUME MaxStartsAssumption == MaxStarts \in Nat \ {0}

VARIABLES
  job,       \* what launchd knows of the job
  kick,      \* a kickstart was requested and not carried out yet
  wrapper,   \* what run_tunnel does next
  origin,    \* release and runtime manifest that the wrapper started from
  client,    \* the tunnel client that was started last
  identity   \* tunnel-identity.json

tunnel == <<job, kick, wrapper, origin, client, identity>>

Client == [id : 0..MaxStarts, release : Release, state : {"NONE", "UP", "EXITING"}]

TunnelTypeOK ==
  /\ job \in {"LOADED", "ENDING", "UNLOADED"}
  /\ kick \in BOOLEAN
  /\ wrapper \in {"NONE", "LAUNCHED", "ADMITTED", "SPAWNED", "SERVING"}
  /\ client \in Client

\* The old release's client serves.
TunnelInit ==
  /\ job = "LOADED"
  /\ kick = FALSE
  /\ wrapper = "SERVING"
  /\ origin = [release |-> current, runtime |-> disk[current].runtime]
  /\ client = [id |-> 1, release |-> current, state |-> "UP"]
  /\ identity = [id |-> 1, release |-> current]

Serving == client.state = "UP"

\* The process group of a wrapper that is gone.
Killed(state) == IF state = "UP" THEN {"NONE", "EXITING"} ELSE {state}

-----------------------------------------------------------------------------

NoWrapper ==
  /\ wrapper' = "NONE"
  /\ origin' = Nothing

\* The checks before anything is started.  A P0 that only this process sees is latched here.
AdmitInstall ==
  /\ wrapper = "LAUNCHED"
  /\ job = "LOADED"
  /\ IF CurrentIsValid /\ frozen = Nothing /\ CredentialPasses /\ AuditPasses
     THEN /\ wrapper' = "ADMITTED"
          /\ origin' = [release |-> current, runtime |-> disk[current].runtime]
     ELSE NoWrapper
  /\ IF CurrentIsValid /\ frozen = Nothing /\ ~(CredentialPasses /\ AuditPasses)
     THEN Latch(IF CredentialPasses THEN "audit_integrity_failure"
                                    ELSE "credential_security_failure")
     ELSE UNCHANGED frozen
  /\ UNCHANGED <<disk, current, lock, world, troubles, job, kick, client, identity>>

\* A client that finds the port taken by one that is still exiting ends at once.
StartClient ==
  /\ wrapper = "ADMITTED"
  /\ job = "LOADED"
  /\ IF client.state = "NONE"
     THEN /\ client.id < MaxStarts
          /\ client' = [id |-> client.id + 1, release |-> origin.release, state |-> "UP"]
          /\ wrapper' = "SPAWNED"
          /\ UNCHANGED origin
     ELSE NoWrapper /\ UNCHANGED client
  /\ UNCHANGED <<install, world, troubles, job, kick, identity>>

RecordIdentity ==
  /\ wrapper = "SPAWNED"
  /\ identity' = [id |-> client.id, release |-> client.release]
  /\ wrapper' = "SERVING"
  /\ UNCHANGED <<install, world, troubles, job, kick, origin, client>>

\* ps never showed the client's executable.
IdentityUnverified ==
  /\ wrapper = "SPAWNED"
  /\ NoWrapper
  /\ client' = [client EXCEPT !.state = "NONE"]
  /\ UNCHANGED <<install, world, troubles, job, kick, identity>>

\* The manifest or the target of `current` is not what the wrapper started from.
WatchAlignment ==
  /\ wrapper = "SERVING"
  /\ Serving
  /\ current # origin.release \/ disk[current].runtime # origin.runtime
  /\ Latch("runtime_path_failure")
  /\ UNCHANGED <<disk, current, lock, world, troubles, tunnel>>

\* Mutant of ObeyLatch: only a latch that the wrapper wrote itself ends the service.
ObeyOwnLatch ==
  /\ wrapper = "SERVING"
  /\ frozen = "runtime_path_failure"
  /\ NoWrapper
  /\ client' = [client EXCEPT !.state = "NONE"]
  /\ UNCHANGED <<install, world, troubles, job, kick, identity>>

\* A latch of anybody ends the service; the wrapper waits for its child.
ObeyLatch ==
  /\ wrapper = "SERVING"
  /\ frozen # Nothing
  /\ NoWrapper
  /\ client' = [client EXCEPT !.state = "NONE"]
  /\ UNCHANGED <<install, world, troubles, job, kick, identity>>

\* The client ends by itself, and the wrapper with it.  Nothing keeps the job alive.
ClientEnds ==
  /\ wrapper \in {"SPAWNED", "SERVING"}
  /\ Disturb("client")
  /\ client' = [client EXCEPT !.state = "NONE"]
  /\ NoWrapper
  /\ UNCHANGED <<install, world, job, kick, identity>>

-----------------------------------------------------------------------------
\* launchd

\* A job that was booted out ends, and what is left of its group later.
Unload ==
  /\ job = "ENDING"
  /\ job' = "UNLOADED"
  /\ NoWrapper
  /\ \E state \in Killed(client.state) : client' = [client EXCEPT !.state = state]
  /\ UNCHANGED <<install, world, troubles, kick, identity>>

ClientExits ==
  /\ client.state = "EXITING"
  /\ client' = [client EXCEPT !.state = "NONE"]
  /\ UNCHANGED <<install, world, troubles, job, kick, wrapper, origin, identity>>

\* kickstart -k: a running instance is killed and the job started; without the job nothing is.
CarryOutKick ==
  /\ kick
  /\ kick' = FALSE
  /\ IF job = "LOADED"
     THEN /\ wrapper' = "LAUNCHED"
          /\ origin' = Nothing
          /\ \E state \in Killed(client.state) : client' = [client EXCEPT !.state = state]
     ELSE UNCHANGED <<wrapper, origin, client>>
  /\ UNCHANGED <<install, world, troubles, job, identity>>

TunnelNext ==
  \/ AdmitInstall
  \/ StartClient
  \/ RecordIdentity
  \/ IdentityUnverified
  \/ WatchAlignment
  \/ ObeyLatch
  \/ ClientEnds
  \/ Unload
  \/ ClientExits
  \/ CarryOutKick

=============================================================================
