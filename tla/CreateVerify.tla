---------------------------- MODULE CreateVerify ----------------------------
(***************************************************************************)
(* Client.create: _execute_create posts the create through the routing     *)
(* engine and, when the id is taken or the outcome is ambiguous, reads the *)
(* document back and reports whatever it finds there as a success.         *)
(*                                                                         *)
(* The creators, and somebody who does not use this client, all create the *)
(* same document id.  The database is external: the SOT member stores the  *)
(* first create that reaches it, and read members apply it later.          *)
(***************************************************************************)
EXTENDS ReadFailover

CONSTANTS
  Nobody,   (* the document does not exist                                  *)
  Somebody, (* a creator that does not use this client                      *)
  Creators  (* the tasks that create it                                     *)

CreateJob == ReadJob("write", NoCandidate)

ASSUME CreateAssumption ==
  /\ Creators \subseteq Readers
  /\ Nobody \notin Tasks \cup {Somebody}
  /\ Somebody \notin Tasks
  /\ CreateJob \in Jobs

VARIABLES
  verify,   (* Config.create_ambiguous_verify_delay is not negative         *)
  phase,    (* where each create is                                         *)
  posted,   (* how its routed create ended                                  *)
  created,  (* how the call ended                                           *)
  stored,   (* external: whose create the SOT member holds                  *)
  applied   (* external: the servers whose replica has it                   *)

create     == <<phase, posted, created>>
database   == <<stored, applied>>
createVars == <<readVars, verify, create, database>>

Phases == {"idle", "write", "sleep", "exists", "check", "done"}

CreateTypeOK ==
  /\ ReadTypeOK
  /\ verify \in BOOLEAN
  /\ phase \in [Tasks -> Phases]
  /\ posted \in [Tasks -> Results]
  /\ created \in [Tasks -> Results]
  /\ stored \in Tasks \cup {Nobody, Somebody}
  /\ applied \subseteq Servers

CreateInit ==
  /\ ReadInit
  /\ verify \in BOOLEAN
  /\ phase = [t \in Tasks |-> "idle"]
  /\ posted = [t \in Tasks |-> "none"]
  /\ created = [t \in Tasks |-> "none"]
  /\ stored = Nobody
  /\ applied = {}

Step(t, p) == phase' = [phase EXCEPT ![t] = p]

Report(t, r) ==
  /\ Step(t, "done")
  /\ created' = [created EXCEPT ![t] = r]
-----------------------------------------------------------------------------
StartCreate(t) ==
  /\ t \in Creators
  /\ phase[t] = "idle"
  /\ Begin(t, CreateJob)
  /\ Step(t, "write")
  /\ UNCHANGED <<loop, steady, posted, created, database>>

(* The routed create returns: done, unless the document exists or the      *)
(* failure was in the transport (of a post or of an establish refresh) and *)
(* verification is enabled.                                                *)
CreateReturns(t) ==
  /\ phase[t] = "write"
  /\ pc[t] = "done"
  /\ posted' = [posted EXCEPT ![t] = result[t]]
  /\ \/ /\ result[t] = "exists"
        /\ Step(t, "exists")
        /\ UNCHANGED created
     \/ /\ result[t] = "transport" /\ verify
        /\ Step(t, "sleep")
        /\ UNCHANGED created
     \/ /\ result[t] # "exists"
        /\ result[t] = "transport" => ~verify
        /\ Report(t, result[t])
  /\ UNCHANGED <<readVars, database>>

(* After the delay, or at once when the id is taken, read the document.    *)
ReadBack(t) ==
  /\ \/ phase[t] = "sleep"  /\ Step(t, "check")
     \/ phase[t] = "exists" /\ stage[t] = "idle" /\ UNCHANGED phase
  /\ StartRead(t)
  /\ UNCHANGED <<posted, created, database>>

(* A slip: the outcome of the read is not looked at.                       *)
TrustsTheRead(t) ==
  /\ phase[t] \in {"exists", "check"}
  /\ stage[t] = "done"
  /\ Report(t, "ok")
  /\ UNCHANGED <<readVars, posted, database>>

(* A document that is read back counts as created; an error of the read    *)
(* replaces the error of the create, which is raised again if the answer   *)
(* to the read is ok but has no document in it.                            *)
ReadBackReturns(t) ==
  /\ phase[t] \in {"exists", "check"}
  /\ stage[t] = "done"
  /\ \/ Report(t, outcome[t])
     \/ outcome[t] = "ok" /\ Report(t, posted[t])
  /\ UNCHANGED <<readVars, posted, database>>
-----------------------------------------------------------------------------
(* AsyncClient: cancelled in an exchange, or in the pause before the read. *)
CreateInterrupt(t) ==
  \/ Interrupt(t) /\ UNCHANGED <<create, database>>
  \/ /\ Async
     /\ phase[t] = "sleep"
     /\ Report(t, "cancelled")
     /\ UNCHANGED <<readVars, posted, database>>
-----------------------------------------------------------------------------
(***************************************************************************)
(* External: the database.  The document is one register, whoever is SOT   *)
(* member at the moment; a repeated post of the create that is stored may  *)
(* be recognised by its operationId or be told that the document exists.   *)
(***************************************************************************)
Accepts(m) == Host[m.url] \in Servers
                /\ Serves(known[Host[m.url]], Host[m.url], m.job)

ServerCreates(m) ==
  /\ m.job.kind = "write"
  /\ Accepts(m)
  /\ \/ /\ stored = Nobody
        /\ ServerActs(m, "ok")
        /\ stored' = m.task
        /\ applied' = {Host[m.url]}
        /\ ran' = [ran EXCEPT ![m.task] = @ + 1]
     \/ /\ stored # Nobody
        /\ \/ ServerActs(m, "exists")
           \/ stored = m.task /\ ServerActs(m, "ok")
        /\ UNCHANGED <<ran, database>>
     \/ /\ ServerActs(m, "appError")
        /\ UNCHANGED <<ran, database>>

(* The SOT member reads what it stores, a read member what it has applied. *)
ServerReads(m) ==
  /\ m.job.kind \in {"read", "readSot"}
  /\ Accepts(m)
  /\ LET s     == Host[m.url]
         found == \/ s \in applied
                  \/ s = WriteMember(known[s], ReadSlot) /\ stored # Nobody
     IN  ServerActs(m, IF found THEN "ok" ELSE "missing")
  /\ UNCHANGED <<ran, database>>

SomebodyCreates ==
  /\ stored = Nobody
  /\ WriteMember(authoritative, ReadSlot) \in Servers
  /\ stored' = Somebody
  /\ applied' = {WriteMember(authoritative, ReadSlot)}
  /\ UNCHANGED vars

Replicate(s) ==
  /\ stored # Nobody
  /\ s \notin applied
  /\ applied' = applied \cup {s}
  /\ UNCHANGED <<vars, stored>>

DatabaseStep ==
  \/ /\ \/ \E m \in wire : ServerCreates(m) \/ ServerReads(m)
        \/ \E s \in Servers : Replicate(s)
        \/ SomebodyCreates
     /\ UNCHANGED <<loop, steady, create>>
  \/ /\ \E m \in wire : ServerStale(m) \/ ServerBounces(m)
     /\ UNCHANGED <<loop, steady, create, database>>

DeploymentStep ==
  /\ \/ \E t \in Tasks : ServeEstablish(t)
     \/ Publish
     \/ \E s \in Servers : Learn(s)
  /\ steady' = IF authoritative' = authoritative THEN steady
               ELSE [t \in Tasks |-> FALSE]
  /\ UNCHANGED <<loop, create, database>>
-----------------------------------------------------------------------------
CreateStep(t) ==
  \/ ReadStep(t) /\ UNCHANGED <<create, database>>
  \/ CreateReturns(t)
  \/ ReadBack(t)
  \/ ReadBackReturns(t)

CreateNext ==
  /\ \/ \E t \in Tasks : StartCreate(t) \/ CreateStep(t) \/ CreateInterrupt(t)
     \/ DatabaseStep
     \/ DeploymentStep
  /\ UNCHANGED <<policy, verify>>

CreateSpec == CreateInit /\ [][CreateNext]_createVars

CreateFairSpec ==
  /\ CreateSpec
  /\ \A t \in Tasks :
       WF_createVars(CreateStep(t) /\ UNCHANGED <<policy, verify>>)
-----------------------------------------------------------------------------
(* A create that reports success leaves the document in the database,      *)
(* whichever of the four ways it took to get there.                        *)
SuccessMeansStored ==
  \A t \in Tasks : created[t] = "ok" => stored # Nobody

(* A create refused by the routed post itself did not happen and cannot    *)
(* happen later (with transport retries off).                              *)
RefusedCreateNeverLands ==
  TransportRetries = 0 =>
    \A t \in Tasks :
      (phase[t] = "done" /\ posted[t] \in Refusals)
        => /\ stored # t
           /\ \A m \in wire : m.task = t => m.job.kind # "write"

(* docs/documents.md: "Application errors include documentExists if the id *)
(* is already taken": success means the document is the caller's.          *)
SuccessMeansMine ==
  \A t \in Tasks : created[t] = "ok" => stored = t

(* docs/errors.md: connection failures "raise TransportError. These usually*)
(* mean ... the server is down ... not that a document is missing".  A     *)
(* create whose post failed in the transport does not end in               *)
(* documentNotFound.                                                       *)
TransportIsNotMissing ==
  \A t \in Tasks : posted[t] = "transport" => created[t] # "missing"

(* Every create ends.                                                      *)
CreateTermination ==
  \A t \in Tasks : (phase[t] = "write") ~> (phase[t] = "done")
=============================================================================
