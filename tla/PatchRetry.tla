----------------------------- MODULE PatchRetry -----------------------------
(***************************************************************************)
(* Client.patch_with_version_retry: read a document, let the caller build  *)
(* a patch for the version that was read, post it, and on versionMismatch  *)
(* read, build and post once more, under a new operationId.                *)
(*                                                                         *)
(* Both reads go through ReadFailover and both patches through the routing *)
(* engine, so a read may come from a read member that lags behind and a    *)
(* patch may be posted again by the transport retry loop.  The document is *)
(* external: the SOT member applies a patch when its "#" is the current    *)
(* version, and somebody who does not use this client patches it too.      *)
(***************************************************************************)
EXTENDS ReadFailover

CONSTANTS
  Patchers,   (* the tasks that patch the document                          *)
  Idempotent, (* the server recognises an operationId it has carried out    *)
  MaxDoc      (* bound on the document's version for the other writer       *)

PatchJob == ReadJob("write", NoCandidate)

ASSUME PatchAssumption ==
  /\ Patchers \subseteq Readers
  /\ Idempotent \in BOOLEAN
  /\ MaxDoc \in Nat
  /\ PatchJob \in Jobs

Rounds == 1..2

VARIABLES
  phase,   (* where each call is                                            *)
  detail,  (* the "#" of each round's patch and the content it was built on *)
  mark,    (* serial of the task's last POST before its second patch        *)
  patched, (* how the call ended                                            *)
  got,     (* the version in the read reply that the caller has received    *)
  version, (* external: version of the document at the SOT member           *)
  replica, (* external: version each server has applied                     *)
  applies, (* external: how often each round's patch was applied            *)
  lost     (* history: a patch replaced content it was not built on         *)

patch     == <<phase, detail, mark, patched>>
document  == <<version, replica, applies, lost>>
patchVars == <<readVars, patch, got, document>>

Phases == {"idle", "read", "patch", "reread", "repatch", "done"}

PatchTypeOK ==
  /\ ReadTypeOK
  /\ phase \in [Tasks -> Phases]
  /\ detail \in [Tasks -> [Rounds -> [base : Nat, built : Nat]]]
  /\ mark \in [Tasks -> Nat]
  /\ patched \in [Tasks -> Results]
  /\ got \in [Tasks -> Nat]
  /\ version \in Nat
  /\ replica \in [Servers -> Nat]
  /\ applies \in [Tasks -> [Rounds -> Nat]]
  /\ lost \in BOOLEAN

PatchInit ==
  /\ ReadInit
  /\ phase = [t \in Tasks |-> "idle"]
  /\ detail = [t \in Tasks |-> [r \in Rounds |-> [base |-> 0, built |-> 0]]]
  /\ mark = [t \in Tasks |-> 0]
  /\ patched = [t \in Tasks |-> "none"]
  /\ got = [t \in Tasks |-> 0]
  /\ version = 1
  /\ replica = [s \in Servers |-> 1]
  /\ applies = [t \in Tasks |-> [r \in Rounds |-> 0]]
  /\ lost = FALSE

Step(t, p) == phase' = [phase EXCEPT ![t] = p]

Report(t, r) ==
  /\ Step(t, "done")
  /\ patched' = [patched EXCEPT ![t] = r]
-----------------------------------------------------------------------------
StartPatch(t) ==
  /\ t \in Patchers
  /\ phase[t] = "idle"
  /\ StartRead(t)
  /\ Step(t, "read")
  /\ UNCHANGED <<detail, mark, patched, got, document>>

(* The read returned: build(current), mint an operationId, post.  The      *)
(* caller's build takes the "#" from the document it is given.             *)
Build(t, round, content) ==
  /\ detail' = [detail EXCEPT ![t][round] =
                  [base |-> got[t], built |-> content]]
  /\ Begin(t, PatchJob)
  /\ UNCHANGED <<loop, steady, patched, got, document>>

ReadReturns(t) ==
  /\ phase[t] = "read"
  /\ stage[t] = "done"
  /\ outcome[t] = "ok"
  /\ Build(t, 1, got[t])
  /\ Step(t, "patch")
  /\ UNCHANGED mark

(* A slip: the second patch is the first one with a new "#".               *)
RereadKeepsFirstPatch(t) ==
  /\ phase[t] = "reread"
  /\ stage[t] = "done"
  /\ outcome[t] = "ok"
  /\ Build(t, 2, detail[t][1].built)
  /\ Step(t, "repatch")
  /\ mark' = [mark EXCEPT ![t] = serial[t]]

RereadReturns(t) ==
  /\ phase[t] = "reread"
  /\ stage[t] = "done"
  /\ outcome[t] = "ok"
  /\ Build(t, 2, got[t])
  /\ Step(t, "repatch")
  /\ mark' = [mark EXCEPT ![t] = serial[t]]

(* Either read fails: its error is the error of the call.                  *)
ReadFails(t) ==
  /\ phase[t] \in {"read", "reread"}
  /\ stage[t] = "done"
  /\ outcome[t] # "ok"
  /\ Report(t, outcome[t])
  /\ UNCHANGED <<readVars, detail, mark, got, document>>

ReadAgain(t) ==
  /\ Begin(t, Ensure)
  /\ Goto(t, "ensure")
  /\ Step(t, "reread")
  /\ left' = [left EXCEPT ![t] = {}]
  /\ lastErr' = [lastErr EXCEPT ![t] = FALSE]
  /\ outcome' = [outcome EXCEPT ![t] = "none"]
  /\ begunWith' = [begunWith EXCEPT ![t] = 0]
  /\ refusedBy' = [refusedBy EXCEPT ![t] = {}]
  /\ steady' = [steady EXCEPT ![t] = Settled]
  /\ UNCHANGED <<policy, detail, mark, patched, got, document>>

(* A slip: a transport failure is answered like a version mismatch.        *)
RebuildOnAnyError(t) ==
  /\ phase[t] = "patch"
  /\ pc[t] = "done"
  /\ result[t] \in {"mismatch", "transport"}
  /\ ReadAgain(t)

(* The first patch is refused with versionMismatch: read again.            *)
RebuildOnMismatch(t) ==
  /\ phase[t] = "patch"
  /\ pc[t] = "done"
  /\ result[t] = "mismatch"
  /\ ReadAgain(t)

(* Any other outcome of the first patch is the outcome of the call.        *)
PatchReturns(t) ==
  /\ phase[t] = "patch"
  /\ pc[t] = "done"
  /\ result[t] # "mismatch"
  /\ Report(t, result[t])
  /\ UNCHANGED <<readVars, detail, mark, got, document>>

(* A slip: the first error is raised when the second patch fails too.      *)
RaiseFirstError(t) ==
  /\ phase[t] = "repatch"
  /\ pc[t] = "done"
  /\ Report(t, IF result[t] = "ok" THEN "ok" ELSE "mismatch")
  /\ UNCHANGED <<readVars, detail, mark, got, document>>

(* The outcome of the second patch is final, a second mismatch included.   *)
RepatchReturns(t) ==
  /\ phase[t] = "repatch"
  /\ pc[t] = "done"
  /\ Report(t, result[t])
  /\ UNCHANGED <<readVars, detail, mark, got, document>>
-----------------------------------------------------------------------------
(***************************************************************************)
(* External: the document at the servers.                                  *)
(***************************************************************************)
Accepts(m) ==
  /\ Host[m.url] \in Servers
  /\ Serves(known[Host[m.url]], Host[m.url], m.job)

(* The patch a POST carries: of the second round when it was sent after it *)
(* began.                                                                  *)
RoundOf(m) == IF mark[m.task] # 0 /\ m.serial > mark[m.task] THEN 2 ELSE 1

Repeated(m) == Idempotent /\ applies[m.task][RoundOf(m)] > 0

ServerPatches(m) ==
  LET d == detail[m.task][RoundOf(m)]
  IN  /\ m.job.kind = "write"
      /\ Accepts(m)
      /\ ~Repeated(m)
      /\ d.base = version
      /\ ServerActs(m, "ok")
      /\ ran' = [ran EXCEPT ![m.task] = @ + 1]
      /\ version' = version + 1
      /\ replica' = [replica EXCEPT ![Host[m.url]] = version + 1]
      /\ applies' = [applies EXCEPT ![m.task][RoundOf(m)] = @ + 1]
      /\ lost' = (lost \/ d.built # version)
      /\ UNCHANGED got

ServerRefuses(m) ==
  /\ m.job.kind = "write"
  /\ Accepts(m)
  /\ \/ Repeated(m) /\ ServerActs(m, "ok")
     \/ /\ ~Repeated(m)
        /\ detail[m.task][RoundOf(m)].base # version
        /\ ServerActs(m, "mismatch")
     \/ ~Repeated(m) /\ ServerActs(m, "appError")
  /\ UNCHANGED <<ran, got, document>>

ServerReads(m) ==
  LET s == Host[m.url]
      v == IF s = WriteMember(known[s], ReadSlot) THEN version ELSE replica[s]
  IN  /\ m.job.kind \in {"read", "readSot"}
      /\ Accepts(m)
      /\ ServerActs(m, "ok")
      /\ got' = IF reply' # reply THEN [got EXCEPT ![m.task] = v] ELSE got
      /\ UNCHANGED <<ran, document>>

SomebodyPatches ==
  /\ version < MaxDoc
  /\ version' = version + 1
  /\ UNCHANGED <<vars, got, replica, applies, lost>>

Replicate(s) ==
  /\ replica[s] < version
  /\ replica' = [replica EXCEPT ![s] = version]
  /\ UNCHANGED <<vars, got, version, applies, lost>>

DocumentStep ==
  /\ \/ \E m \in wire : ServerPatches(m) \/ ServerRefuses(m) \/ ServerReads(m)
     \/ SomebodyPatches
     \/ \E s \in Servers : Replicate(s)
     \/ /\ \E m \in wire : ServerStale(m) \/ ServerBounces(m)
        /\ UNCHANGED <<got, document>>
  /\ UNCHANGED <<loop, steady, patch>>

DeploymentStep ==
  /\ \/ \E t \in Tasks : ServeEstablish(t)
     \/ Publish
     \/ \E s \in Servers : Learn(s)
  /\ steady' = IF authoritative' = authoritative THEN steady
               ELSE [t \in Tasks |-> FALSE]
  /\ UNCHANGED <<loop, patch, got, document>>
-----------------------------------------------------------------------------
PatchStep(t) ==
  \/ ReadStep(t) /\ UNCHANGED <<patch, got, document>>
  \/ ReadReturns(t)
  \/ RereadReturns(t)
  \/ ReadFails(t)
  \/ RebuildOnMismatch(t)
  \/ PatchReturns(t)
  \/ RepatchReturns(t)

PatchNext ==
  /\ \/ \E t \in Tasks : \/ StartPatch(t)
                         \/ PatchStep(t)
                         \/ Interrupt(t) /\ UNCHANGED <<patch, got, document>>
     \/ DocumentStep
     \/ DeploymentStep
  /\ UNCHANGED policy

PatchSpec == PatchInit /\ [][PatchNext]_patchVars

PatchFairSpec ==
  /\ PatchSpec
  /\ \A t \in Tasks : WF_patchVars(PatchStep(t) /\ UNCHANGED policy)
-----------------------------------------------------------------------------
(* However often the engine posts the two patches, and whenever those      *)
(* posts arrive, at most one of them takes effect, once: the second is only*)
(* posted when the first can no longer be applied.  (With transport retries*)
(* this needs the server to honour the operationId.)                       *)
Applied(t) == applies[t][1] + applies[t][2]

OneEffect ==
  (Idempotent \/ TransportRetries = 0) => \A t \in Tasks : Applied(t) <= 1

(* A call that succeeds has changed the document, and a call that ends in  *)
(* versionMismatch has not, even when transport retries are on.            *)
OutcomeTellsEffect ==
  (Idempotent \/ TransportRetries = 0) =>
    \A t \in Tasks :
      /\ patched[t] = "ok" => Applied(t) = 1
      /\ patched[t] = "mismatch" => Applied(t) = 0

(* No update is lost: a patch only ever replaces the content it was built  *)
(* on, although the reads come from replicas that lag behind.              *)
NoLostUpdate == ~lost

(* The version retry happens once: every call ends.                        *)
PatchTermination ==
  \A t \in Tasks : (phase[t] = "read") ~> (phase[t] = "done")
=============================================================================
