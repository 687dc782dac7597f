-------------------------- MODULE PatchRetryProofs --------------------------
(***************************************************************************)
(* Theorems about PatchRetry, for every set of tasks, servers, layouts and *)
(* retry limits: the types, that no update is lost, and, when the server   *)
(* recognises an operationId or the client does not repeat its posts, that *)
(* the two patches of a call have at most one effect and that the outcome  *)
(* tells which: the whole call is one command of OnceCommand.              *)
(***************************************************************************)
EXTENDS PatchRetry, ReadFailoverProofs

PatchTypes ==
  /\ phase \in [Tasks -> Phases]
  /\ detail \in [Tasks -> [Rounds -> [base : Nat, built : Nat]]]
  /\ mark \in [Tasks -> Nat]
  /\ patched \in [Tasks -> Results]
  /\ got \in [Tasks -> Nat]
  /\ version \in Nat
  /\ replica \in [Servers -> Nat]
  /\ applies \in [Tasks -> [Rounds -> Nat]]
  /\ lost \in BOOLEAN

(* Each patch asks for the version it was built on: the "#" of the document*)
(* the caller's build was given.                                           *)
BuiltOnBase ==
  /\ ~lost
  /\ \A t \in Tasks, r \in Rounds : detail[t][r].built = detail[t][r].base

PatchBase ==
  /\ PartInv /\ LoopTypeOK /\ PatchTypes
  /\ \A s \in Servers : replica[s] <= version
  /\ BuiltOnBase

(***************************************************************************)
(* The steps of the composition as steps of the engine and of the loop.    *)
(***************************************************************************)
LEMMA PatchJobType == PatchJob \in Jobs /\ PatchJob.kind = "write"
BY PatchAssumption DEF PatchJob, ReadJob

LEMMA PatchInitBase == PatchInit => PatchBase
<1> SUFFICES ASSUME PatchInit PROVE PatchBase
  OBVIOUS
<1>1. PartInv /\ LoopTypeOK
  BY PartInit, LoopInit DEF PatchInit, ReadInit
<1>2. PatchTypes
  BY DEF PatchInit, PatchTypes, Phases, Results, AppErrors
<1> QED
  BY <1>1, <1>2 DEF PatchInit, PatchBase, BuiltOnBase

(* A read in progress leaves the patch and the document alone.             *)
LEMMA ReadingBase ==
  ASSUME PatchBase, NEW t \in Tasks, UNCHANGED policy,
         \/ StartPatch(t)
         \/ ReadStep(t) /\ UNCHANGED <<patch, got, document>>
         \/ Interrupt(t) /\ UNCHANGED <<patch, got, document>>
  PROVE  PatchBase'
<1>1. PartInv' /\ LoopTypeOK'
  BY ReadStepMoves, PartTask, LoopType DEF StartPatch, PatchBase
<1>2. /\ phase' \in [Tasks -> Phases]
      /\ UNCHANGED <<detail, mark, patched, got, version, replica, applies,
                     lost>>
  BY DEF StartPatch, Step, patch, document, PatchBase, PatchTypes, Phases
<1> QED
  BY <1>1, <1>2 DEF PatchBase, PatchTypes, BuiltOnBase

LEMMA BuildBase ==
  ASSUME PatchBase, NEW t \in Tasks, UNCHANGED policy,
         ReadReturns(t) \/ RereadReturns(t)
  PROVE  PatchBase'
<1>1. PICK r \in Rounds : Build(t, r, got[t])
  BY DEF ReadReturns, RereadReturns, Rounds
<1>2. PartInv'
  BY <1>1, PatchJobType, PartBegin DEF Build, PatchBase
<1>3. LoopTypeOK'
  BY <1>1, LoopOutside DEF Build, PatchBase
<1>4. /\ phase' \in [Tasks -> Phases] /\ mark' \in [Tasks -> Nat]
      /\ UNCHANGED <<patched, got, version, replica, applies, lost>>
  BY <1>1 DEF ReadReturns, RereadReturns, Build, Step, document, PatchBase,
              PatchTypes, Phases, PartInv, TypeInv, TypeOK
<1>5. /\ detail' \in [Tasks -> [Rounds -> [base : Nat, built : Nat]]]
      /\ \A k \in Tasks, q \in Rounds :
           detail'[k][q].built = detail'[k][q].base
  <2> DEFINE d == [base |-> got[t], built |-> got[t]]
  <2>1. detail' = [detail EXCEPT ![t][r] = d]
    BY <1>1 DEF Build
  <2>2. d \in [base : Nat, built : Nat] /\ d.built = d.base
    BY DEF PatchBase, PatchTypes
  <2> HIDE DEF d
  <2> QED
    BY <2>1, <2>2 DEF PatchBase, PatchTypes, BuiltOnBase
<1> QED
  BY <1>2, <1>3, <1>4, <1>5 DEF PatchBase, PatchTypes, BuiltOnBase

LEMMA ReportBase ==
  ASSUME PatchBase, NEW t \in Tasks, UNCHANGED policy,
         ReadFails(t) \/ PatchReturns(t) \/ RepatchReturns(t)
  PROVE  PatchBase'
<1>1. UNCHANGED <<vars, loop, steady>>
  BY DEF ReadFails, PatchReturns, RepatchReturns, readVars
<1>2. PartInv' /\ LoopTypeOK'
  BY <1>1, PartMove, LoopOutside DEF EngineMove, PatchBase
<1>3. /\ phase' \in [Tasks -> Phases] /\ patched' \in [Tasks -> Results]
      /\ UNCHANGED <<detail, mark, got, version, replica, applies, lost>>
  BY DEF ReadFails, PatchReturns, RepatchReturns, Report, Step, document,
         PatchBase, PatchTypes, Phases, PartInv, TypeInv, TypeOK, LoopTypeOK
<1> QED
  BY <1>2, <1>3 DEF PatchBase, PatchTypes, BuiltOnBase

LEMMA RebuildBase ==
  ASSUME PatchBase, NEW t \in Tasks, UNCHANGED policy, RebuildOnMismatch(t)
  PROVE  PatchBase'
<1>1. ReadAgain(t)
  BY DEF RebuildOnMismatch
<1>2. PartInv'
  BY <1>1, JobsOfReads, PartBegin DEF ReadAgain, PatchBase
<1>3. LoopTypeOK'
  BY <1>1 DEF ReadAgain, Goto, PatchBase, LoopTypeOK, Stages, Results,
              Settled
<1>4. /\ phase' \in [Tasks -> Phases]
      /\ UNCHANGED <<detail, mark, patched, got, version, replica, applies,
                     lost>>
  BY <1>1 DEF ReadAgain, Step, document, PatchBase, PatchTypes, Phases
<1> QED
  BY <1>2, <1>3, <1>4 DEF PatchBase, PatchTypes, BuiltOnBase

(* What the servers answer, and what the document does on its own.         *)
LEMMA DocumentMoves ==
  ASSUME DocumentStep
  PROVE  \/ \E m \in wire, r \in Replies : ServerAnswers(m, r)
         \/ UNCHANGED vars
<1>1. ASSUME NEW m \in wire, ServerPatches(m)
      PROVE  ServerAnswers(m, "ok")
  BY <1>1 DEF ServerPatches, Accepts, ServerAnswers
<1>2. ASSUME NEW m \in wire, ServerRefuses(m)
      PROVE  \E r \in {"ok", "mismatch", "appError"} : ServerAnswers(m, r)
  BY <1>2 DEF ServerRefuses, Accepts, ServerAnswers
<1>3. ASSUME NEW m \in wire, ServerReads(m)
      PROVE  ServerAnswers(m, "ok")
  BY <1>3 DEF ServerReads, Accepts, ServerAnswers
<1>4. {"ok", "mismatch", "appError"} \subseteq Replies
  BY DEF Replies, AppErrors
<1> QED
  BY <1>1, <1>2, <1>3, <1>4, ServersAnswer
     DEF DocumentStep, SomebodyPatches, Replicate

LEMMA DocumentTypes ==
  ASSUME PatchBase, DocumentStep
  PROVE  /\ got' \in [Tasks -> Nat]
         /\ version' \in Nat /\ version' >= version
         /\ replica' \in [Servers -> Nat]
         /\ \A s \in Servers : replica'[s] <= version'
         /\ applies' \in [Tasks -> [Rounds -> Nat]]
         /\ lost' = FALSE
<1>1. /\ got \in [Tasks -> Nat] /\ version \in Nat
      /\ replica \in [Servers -> Nat]
      /\ \A s \in Servers : replica[s] <= version
      /\ applies \in [Tasks -> [Rounds -> Nat]] /\ lost = FALSE
  BY DEF PatchBase, PatchTypes, BuiltOnBase
<1>2. ASSUME NEW m \in wire
      PROVE  m.task \in Tasks /\ RoundOf(m) \in Rounds
  BY DEF PatchBase, PartInv, TypeInv, TypeOK, Requests, RoundOf, Rounds
<1>3. ASSUME NEW m \in wire, ServerPatches(m)
      PROVE  /\ UNCHANGED got /\ version' = version + 1
             /\ Host[m.url] \in Servers
             /\ replica' = [replica EXCEPT ![Host[m.url]] = version + 1]
             /\ applies' = [applies EXCEPT ![m.task][RoundOf(m)] = @ + 1]
             /\ lost' = FALSE
  <2>1. detail[m.task][RoundOf(m)].built = version /\ lost = FALSE
    BY <1>2, <1>3, <1>1 DEF ServerPatches, PatchBase, BuiltOnBase
  <2>2. lost' = FALSE
    BY <1>3, <2>1 DEF ServerPatches
  <2> QED
    BY <1>3, <2>2 DEF ServerPatches, Accepts
<1>4. ASSUME NEW m \in wire, ServerPatches(m)
      PROVE  applies' \in [Tasks -> [Rounds -> Nat]]
  <2>1. /\ applies' = [applies EXCEPT ![m.task][RoundOf(m)] = @ + 1]
        /\ m.task \in Tasks /\ RoundOf(m) \in Rounds
    BY <1>2, <1>3, <1>4
  <2> QED
    BY <1>1, <2>1
<1>5. ASSUME NEW m \in wire, ServerReads(m)
      PROVE  got' \in [Tasks -> Nat] /\ UNCHANGED document
  BY <1>5, <1>1 DEF ServerReads, Accepts
<1>6. ASSUME NEW m \in wire, ServerPatches(m)
      PROVE  /\ version' \in Nat /\ version' >= version
             /\ replica' \in [Servers -> Nat]
             /\ \A s \in Servers : replica'[s] <= version'
  <2>1. /\ version' = version + 1
        /\ replica' = [replica EXCEPT ![Host[m.url]] = version + 1]
    BY <1>3, <1>6
  <2>2. version' \in Nat /\ version' >= version
    BY <1>1, <2>1
  <2>3. ASSUME NEW s \in Servers
        PROVE  replica'[s] \in Nat /\ replica'[s] <= version'
    <3>1. CASE s = Host[m.url]
      BY <1>1, <2>1, <2>2, <3>1
    <3>2. CASE s # Host[m.url]
      BY <1>1, <2>1, <2>2, <3>2
    <3> QED
      BY <3>1, <3>2
  <2>4. replica' = [s \in Servers |-> replica'[s]]
    BY <1>1, <2>1
  <2> QED
    BY <2>2, <2>3, <2>4
<1>7. CASE \/ \E m \in wire : ServerRefuses(m) \/ ServerReads(m)
           \/ UNCHANGED <<got, document>>
  BY <1>5, <1>7, <1>1 DEF ServerRefuses, document
<1>8. CASE SomebodyPatches
  <2>1. version' = version + 1 /\ UNCHANGED <<got, replica, applies, lost>>
    BY <1>8 DEF SomebodyPatches
  <2>2. \A s \in Servers : replica[s] \in Nat
    BY <1>1
  <2> QED
    BY <1>1, <2>1, <2>2
<1>9. ASSUME NEW s \in Servers, Replicate(s)
      PROVE  /\ replica' \in [Servers -> Nat]
             /\ \A q \in Servers : replica'[q] <= version'
             /\ UNCHANGED <<got, version, applies, lost>>
  BY <1>9, <1>1 DEF Replicate
<1>10. CASE \E m \in wire : ServerPatches(m)
  BY <1>1, <1>3, <1>4, <1>6, <1>10
<1>11. CASE \E s \in Servers : Replicate(s)
  BY <1>1, <1>9, <1>11
<1> QED
  BY <1>7, <1>8, <1>10, <1>11 DEF DocumentStep

LEMMA OutsideBase ==
  ASSUME PatchBase, UNCHANGED policy, DocumentStep \/ DeploymentStep
  PROVE  PatchBase'
<1>1. CASE DocumentStep
  <2>1. EngineMove
    BY <1>1, DocumentMoves DEF EngineMove
  <2>2. UNCHANGED <<loop, steady, phase, detail, mark, patched>>
    BY <1>1 DEF DocumentStep, patch
  <2>3. PartInv' /\ LoopTypeOK'
    BY <2>1, <2>2, PartMove, LoopOutside DEF PatchBase
  <2> QED
    BY <1>1, <2>2, <2>3, DocumentTypes DEF PatchBase, PatchTypes, BuiltOnBase
<1>2. CASE DeploymentStep
  <2>1. EngineMove
    BY <1>2 DEF DeploymentStep, EngineMove
  <2>2. UNCHANGED <<loop, patch, got, document>>
    BY <1>2 DEF DeploymentStep
  <2>3. PartInv' /\ LoopTypeOK'
    BY <1>2, <2>1, <2>2, PartMove, LoopOutside DEF DeploymentStep, PatchBase
  <2> QED
    BY <2>2, <2>3 DEF patch, document, PatchBase, PatchTypes, BuiltOnBase
<1> QED
  BY <1>1, <1>2

LEMMA PatchBaseStep == PatchBase /\ [PatchNext]_patchVars => PatchBase'
<1> SUFFICES ASSUME PatchBase, [PatchNext]_patchVars PROVE PatchBase'
  OBVIOUS
<1>1. ASSUME NEW t \in Tasks, UNCHANGED policy,
             \/ StartPatch(t) \/ PatchStep(t)
             \/ Interrupt(t) /\ UNCHANGED <<patch, got, document>>
      PROVE  PatchBase'
  BY <1>1, ReadingBase, BuildBase, ReportBase, RebuildBase DEF PatchStep
<1>2. CASE UNCHANGED patchVars
  <2>1. /\ UNCHANGED <<vars, policy, loop, steady>>
        /\ UNCHANGED <<patch, got, document>>
    BY <1>2 DEF patchVars, readVars
  <2>2. PartInv' /\ LoopTypeOK'
    BY <2>1, PartMove, LoopOutside DEF EngineMove, PatchBase
  <2> QED
    BY <2>1, <2>2 DEF patch, document, PatchBase, PatchTypes, BuiltOnBase
<1> QED
  BY <1>1, <1>2, OutsideBase DEF PatchNext

(* Every variable of the call and of the document keeps its type.          *)
THEOREM PatchTypeCorrect == PatchSpec => []PatchTypeOK
<1>1. PatchBase => PatchTypeOK
  BY DEF PatchBase, PatchTypes, PartInv, TypeInv, LoopTypeOK, ReadTypeOK,
         PatchTypeOK
<1> QED
  BY <1>1, PatchInitBase, PatchBaseStep, PTL DEF PatchSpec

(* However far the replicas lag behind that the reads come from, however   *)
(* often a patch is posted and whoever else patches the document: a patch  *)
(* only ever replaces the content it was built on.                         *)
THEOREM NoUpdateIsLost == PatchSpec => []NoLostUpdate
<1>1. PatchBase => NoLostUpdate
  BY DEF PatchBase, BuiltOnBase, NoLostUpdate
<1> QED
  BY <1>1, PatchInitBase, PatchBaseStep, PTL DEF PatchSpec
-----------------------------------------------------------------------------
(***************************************************************************)
(* One effect.  The server can tell a repeated patch from a new one, or the*)
(* client does not repeat its posts.                                       *)
(***************************************************************************)
CanTell == Idempotent \/ TransportRetries = 0

(* Only a write is refused for its version.                                *)
Refusable(t) ==
  /\ result[t] = "mismatch" => job[t].kind = "write"
  /\ pc[t] = "post" /\ reply[t] = "mismatch" => job[t].kind = "write"
  /\ outcome[t] # "mismatch"

(* Where the read, the engine and the call are, together.                  *)
Control(t) ==
  /\ phase[t] = "idle" => pc[t] = "idle" /\ stage[t] = "idle"
  /\ phase[t] \in {"read", "reread"} =>
       stage[t] # "idle" /\ (stage[t] = "done" => pc[t] = "done")
  /\ phase[t] \in {"patch", "repatch"} =>
       stage[t] = "done" /\ job[t] = PatchJob /\ pc[t] # "idle"
  /\ phase[t] = "done" => pc[t] = "done" /\ stage[t] = "done"

(* A round's patch that has had no effect and can have none any more.      *)
Moot(t, r) == applies[t][r] = 0 /\ detail[t][r].base < version

(* A patch takes effect by using up the version it was built for.          *)
Effects(t) ==
  /\ got[t] <= version
  /\ \A r \in Rounds :
       /\ detail[t][r].base <= version
       /\ applies[t][r] <= 1
       /\ applies[t][r] # 0 => detail[t][r].base < version

(* The second round begins when the first patch is moot, and its posts are *)
(* those above the mark.                                                   *)
Marks(t) ==
  /\ phase[t] \in {"idle", "read"} => applies[t][1] = 0
  /\ phase[t] \in {"idle", "read", "patch", "reread"} => mark[t] = 0
  /\ phase[t] = "reread" => serial[t] >= 1
  /\ phase[t] = "repatch" =>
       /\ mark[t] # 0 /\ mark[t] <= serial[t]
       /\ pc[t] = "post" => mark[t] < serial[t]
  /\ phase[t] = "reread" \/ mark[t] # 0 => Moot(t, 1)
  /\ mark[t] = 0 => applies[t][2] = 0

Round(t) == IF phase[t] = "repatch" THEN 2 ELSE 1

Says(t, r) == (pc[t] = "post" /\ reply[t] = r) \/ result[t] = r

Patching(t) == phase[t] \in {"patch", "repatch"}

(* What the caller of a patch has been told is so.                         *)
Answers(t) ==
  Patching(t) =>
    /\ Says(t, "ok") => applies[t][Round(t)] # 0
    /\ Says(t, "mismatch") => Moot(t, Round(t)) /\ serial[t] >= 1

Told(t) ==
  /\ patched[t] # "none" => phase[t] = "done"
  /\ patched[t] = "ok" => applies[t][1] # 0 \/ applies[t][2] # 0
  /\ patched[t] = "mismatch" => Moot(t, 1) /\ Moot(t, 2)

(* Without transport retries only the current post of a patch is on its    *)
(* way, and it has had no effect as long as the caller waits for it.       *)
Lone(t) ==
  /\ phase[t] = "reread" => WritesOf(t) = {}
  /\ Patching(t) =>
       \A m \in WritesOf(t) : Current(m) \/ GivenUp(t)
  /\ Patching(t) /\ pc[t] \in {"fetch", "route"} => applies[t][Round(t)] = 0
  /\ Patching(t) /\ pc[t] = "post" /\ reply[t] # "ok"
       => applies[t][Round(t)] = 0

Sent(t) ==
  /\ phase[t] \in {"idle", "read"} => WritesOf(t) = {}
  /\ TransportRetries = 0 => Lone(t)

PatchOK(t) ==
  /\ TurnJob(t) /\ Refusable(t) /\ Control(t) /\ Effects(t) /\ Marks(t)
  /\ Answers(t) /\ Told(t) /\ Sent(t)

PatchInv == PatchBase /\ (CanTell => \A t \in Tasks : PatchOK(t))

LEMMA CallTypes ==
  ASSUME PatchBase, NEW t \in Tasks
  PROVE  /\ version \in Nat /\ got[t] \in Nat /\ mark[t] \in Nat
         /\ serial[t] \in Nat
         /\ \A r \in Rounds : detail[t][r].base \in Nat
                              /\ applies[t][r] \in Nat
         /\ Round(t) \in Rounds /\ 1 \in Rounds /\ 2 \in Rounds
         /\ Rounds = {1, 2}
BY DEF PatchBase, PatchTypes, PartInv, TypeInv, TypeOK, Rounds, Round

(* A step that leaves a call alone, apart from taking requests off the wire*)
(* and moving the document on.                                             *)
Kept(k) ==
  /\ pc'[k] = pc[k] /\ job'[k] = job[k] /\ result'[k] = result[k]
  /\ reply'[k] = reply[k] /\ serial'[k] = serial[k]
  /\ stage'[k] = stage[k] /\ outcome'[k] = outcome[k]
  /\ phase'[k] = phase[k] /\ detail'[k] = detail[k] /\ mark'[k] = mark[k]
  /\ patched'[k] = patched[k] /\ got'[k] = got[k]
  /\ applies'[k] = applies[k]

LEMMA KeptMoot ==
  ASSUME PatchBase, PatchBase', NEW k \in Tasks, detail'[k] = detail[k],
         applies'[k] = applies[k], version' >= version, NEW r \in Rounds,
         Moot(k, r)
  PROVE  Moot(k, r)'
BY CallTypes DEF Moot, PatchBase, PatchTypes

LEMMA KeptOK ==
  ASSUME PatchBase, PatchBase', NEW k \in Tasks, PatchOK(k), Kept(k),
         version' >= version, WritesOf(k)' \subseteq WritesOf(k)
  PROVE  PatchOK(k)'
<1> USE DEF Kept
<1>1. TurnJob(k)' /\ Refusable(k)' /\ Control(k)'
  BY DEF PatchOK, TurnJob, Refusable, Control
<1>2. Effects(k)'
  <2>1. version \in Nat /\ version' \in Nat
    BY DEF PatchBase, PatchTypes
  <2> QED
    BY <2>1, CallTypes DEF PatchOK, Effects
<1>3. \A r \in Rounds : Moot(k, r) => Moot(k, r)'
  BY KeptMoot
<1>4. 1 \in Rounds /\ 2 \in Rounds /\ Round(k) \in Rounds
      /\ Round(k)' = Round(k)
  BY CallTypes DEF Round
<1>5. Marks(k)' /\ Told(k)'
  BY <1>3, <1>4 DEF PatchOK, Marks, Told
<1>6. Answers(k)'
  BY <1>3, <1>4 DEF PatchOK, Answers, Says, Patching
<1>7. Sent(k)'
  <2>1. ASSUME NEW m \in WritesOf(k), Current(m)
        PROVE  Current(m)'
    BY <2>1 DEF WritesOf, Current
  <2> QED
    BY <1>4, <2>1 DEF PatchOK, Sent, Lone, Patching, GivenUp
<1> QED
  BY <1>1, <1>2, <1>5, <1>6, <1>7 DEF PatchOK

(***************************************************************************)
(* The servers.  A request that its caller waits for belongs to the round  *)
(* the call is in.                                                         *)
(***************************************************************************)
LEMMA CurrentRound ==
  ASSUME PatchBase, NEW m \in wire, PatchOK(m.task), Current(m),
         Patching(m.task)
  PROVE  RoundOf(m) = Round(m.task)
<1>1. m.task \in Tasks
  BY DEF PatchBase, PartInv, TypeInv, TypeOK, Requests
<1>2. m.serial = serial[m.task] /\ pc[m.task] = "post"
  BY DEF Current
<1> QED
  BY <1>1, <1>2, CallTypes DEF PatchOK, Marks, Patching, RoundOf, Round

(* An answer that a caller in this state may be given.                     *)
MayHear(t, r) ==
  /\ r = "ok" /\ Patching(t) => applies[t][Round(t)] # 0
  /\ r = "mismatch" => job[t].kind = "write"
  /\ r = "mismatch" /\ Patching(t) => Moot(t, Round(t))

(* An answer that changes nothing of the document.                         *)
LEMMA AnswerOK ==
  ASSUME PatchBase, PatchBase', \A t \in Tasks : PatchOK(t),
         NEW m \in wire, NEW r, ServerActs(m, r),
         UNCHANGED <<phase, stage, outcome, detail, mark, patched, document>>,
         \A k \in Tasks : got'[k] = got[k] \/ k = m.task,
         got'[m.task] <= version,
         Current(m) => MayHear(m.task, r)
  PROVE  \A t \in Tasks : PatchOK(t)'
<1> USE DEF document
<1>1. /\ \A k \in Tasks :
           /\ Same(k)
           /\ reply'[k] = IF k = m.task /\ Current(m) THEN r ELSE reply[k]
      /\ UNCHANGED <<serial, pc, job, result>> /\ m.task \in Tasks
      /\ wire' \subseteq wire
  BY ServerFrame DEF ServerActs, PatchBase, PartInv
<1>2. version' >= version /\ version' = version
  BY DEF PatchBase, PatchTypes
<1>3. ASSUME NEW k \in Tasks, k # m.task
      PROVE  PatchOK(k)'
  <2>1. Kept(k)
    BY <1>1, <1>3 DEF Kept
  <2>2. WritesOf(k)' \subseteq WritesOf(k)
    BY <1>1 DEF WritesOf
  <2> QED
    BY <1>2, <2>1, <2>2, KeptOK
<1> DEFINE t == m.task
<1>4. t \in Tasks /\ PatchOK(t)
  BY <1>1
<1>5. \/ reply'[t] = reply[t]
      \/ /\ pc[t] = "post" /\ reply[t] = "none" /\ serial[t] >= 1
         /\ reply'[t] = r /\ MayHear(t, r)
  <2>1. CASE Current(m)
    <3>1. pc[t] = "post" /\ reply'[t] = r /\ MayHear(t, r)
      BY <1>1, <2>1 DEF Current
    <3>2. reply[t] = "none" /\ serial[t] >= 1
      BY <1>4, <2>1, <3>1 DEF PatchBase, PartInv, WireInv
    <3> QED
      BY <3>1, <3>2
  <2>2. CASE ~Current(m)
    BY <1>1, <2>2
  <2> QED
    BY <2>1, <2>2
<1>6. /\ phase'[t] = phase[t] /\ stage'[t] = stage[t]
      /\ outcome'[t] = outcome[t] /\ detail'[t] = detail[t]
      /\ mark'[t] = mark[t] /\ patched'[t] = patched[t]
      /\ applies'[t] = applies[t] /\ got'[t] <= version'
      /\ pc'[t] = pc[t] /\ job'[t] = job[t] /\ result'[t] = result[t]
      /\ serial'[t] = serial[t]
  BY <1>1, <1>2
<1>7. \A q \in Rounds : Moot(t, q)' <=> Moot(t, q)
  BY <1>2, <1>6 DEF Moot
<1>8. /\ Round(t)' = Round(t) /\ 1 \in Rounds /\ 2 \in Rounds
      /\ Round(t) \in Rounds
  BY <1>4, <1>6, CallTypes DEF Round
<1>9. WritesOf(t)' \subseteq WritesOf(t)
      /\ \A n \in WritesOf(t) : Current(n)' <=> Current(n)
  BY <1>1 DEF WritesOf, Current
<1> HIDE DEF t
<1>10. TurnJob(t)' /\ Refusable(t)' /\ Control(t)' /\ Effects(t)'
  BY <1>2, <1>4, <1>5, <1>6
     DEF PatchOK, TurnJob, Refusable, Control, Effects, MayHear
<1>11. Marks(t)' /\ Told(t)'
  BY <1>4, <1>6, <1>7, <1>8 DEF PatchOK, Marks, Told
<1>12. Answers(t)'
  BY <1>4, <1>5, <1>6, <1>7, <1>8
     DEF PatchOK, Answers, Says, Patching, MayHear
<1>13. Sent(t)'
  BY <1>4, <1>5, <1>6, <1>8, <1>9 DEF PatchOK, Sent, Lone, Patching, GivenUp
<1> QED
  BY <1>3, <1>10, <1>11, <1>12, <1>13 DEF PatchOK, t

LEMMA ReadAnswerOK ==
  ASSUME PatchBase, PatchBase', \A t \in Tasks : PatchOK(t),
         NEW m \in wire,
         UNCHANGED <<phase, stage, outcome, detail, mark, patched>>,
         \/ ServerReads(m)
         \/ /\ ServerStale(m) \/ ServerBounces(m)
            /\ UNCHANGED <<got, document>>
  PROVE  \A t \in Tasks : PatchOK(t)'
<1>1. m.task \in Tasks /\ got[m.task] <= version
  BY DEF PatchBase, PartInv, TypeInv, TypeOK, Requests, PatchOK, Effects
<1>2. CASE ServerReads(m)
  <2>1. /\ ServerActs(m, "ok") /\ UNCHANGED document
        /\ \A k \in Tasks : got'[k] = got[k] \/ k = m.task
        /\ m.job.kind \in {"read", "readSot"}
    BY <1>2 DEF ServerReads, PatchBase, PatchTypes
  <2>2. got'[m.task] <= version
    <3>1. /\ version \in Nat /\ Host[m.url] \in Servers
          /\ replica[Host[m.url]] <= version /\ got \in [Tasks -> Nat]
      BY <1>2 DEF ServerReads, Accepts, PatchBase, PatchTypes
    <3> QED
      BY <1>1, <1>2, <3>1 DEF ServerReads
  <2>3. Current(m) => MayHear(m.task, "ok")
    <3>1. PatchJob.kind = "write"
      BY PatchJobType
    <3>2. Current(m) => m.job = job[m.task]
      BY DEF PatchBase, PartInv, WireInv
    <3>3. Patching(m.task) => job[m.task] = PatchJob
      BY <1>1 DEF PatchOK, Control, Patching
    <3> QED
      BY <2>1, <3>1, <3>2, <3>3 DEF MayHear
  <2> QED
    BY <2>1, <2>2, <2>3, AnswerOK
<1>3. CASE /\ ServerStale(m) \/ ServerBounces(m)
           /\ UNCHANGED <<got, document>>
  <2>1. /\ ServerActs(m, "stale") \/ ServerActs(m, "wrongMachine")
        /\ UNCHANGED <<got, document>>
    BY <1>3 DEF ServerStale, ServerBounces
  <2>2. MayHear(m.task, "stale") /\ MayHear(m.task, "wrongMachine")
    BY DEF MayHear
  <2> QED
    BY <1>1, <2>1, <2>2, AnswerOK
<1> QED
  BY <1>2, <1>3

(* A patch that is refused: it has had its effect already, or it has had   *)
(* none and can have none any more.                                        *)
LEMMA RefusalOK ==
  ASSUME CanTell, PatchBase, PatchBase', \A t \in Tasks : PatchOK(t),
         NEW m \in wire, ServerRefuses(m),
         UNCHANGED <<phase, stage, outcome, detail, mark, patched>>
  PROVE  \A t \in Tasks : PatchOK(t)'
<1> DEFINE t == m.task
<1>1. t \in Tasks /\ got[t] <= version /\ UNCHANGED <<got, document>>
  BY DEF PatchBase, PartInv, TypeInv, TypeOK, Requests, PatchOK, Effects,
         ServerRefuses
<1>2. Current(m) =>
        /\ job[t].kind = "write" /\ pc[t] = "post" /\ reply[t] = "none"
        /\ Patching(t) => RoundOf(m) = Round(t)
  BY <1>1, CurrentRound
     DEF PatchBase, PartInv, WireInv, Current, ServerRefuses
<1>3. ASSUME Repeated(m)
      PROVE  Current(m) => MayHear(t, "ok")
  BY <1>1, <1>2, <1>3, CallTypes DEF Repeated, MayHear
<1>4. ASSUME ~Repeated(m), detail[t][RoundOf(m)].base # version
      PROVE  Current(m) => MayHear(t, "mismatch")
  <2>1. SUFFICES ASSUME Current(m), Patching(t)
                 PROVE  Moot(t, Round(t))
    BY <1>2 DEF MayHear
  <2>2. RoundOf(m) = Round(t) /\ Round(t) \in Rounds
    BY <1>1, <1>2, <2>1, CallTypes
  <2>3. detail[t][Round(t)].base < version
    BY <1>1, <1>4, <2>2, CallTypes DEF PatchOK, Effects
  <2>4. applies[t][Round(t)] = 0
    <3>1. CASE Idempotent
      BY <1>1, <1>4, <2>2, <3>1, CallTypes DEF Repeated
    <3>2. CASE TransportRetries = 0
      BY <1>1, <1>2, <2>1, <3>2 DEF PatchOK, Sent, Lone, GivenUp
    <3> QED
      BY <3>1, <3>2 DEF CanTell
  <2> QED
    BY <2>3, <2>4 DEF Moot
<1>5. MayHear(t, "appError")
  BY DEF MayHear
<1>6. PICK r : ServerActs(m, r) /\ (Current(m) => MayHear(t, r))
  BY <1>3, <1>4, <1>5 DEF ServerRefuses
<1> QED
  BY <1>1, <1>6, AnswerOK

(* A patch that takes effect is the round's the call is in, and its first  *)
(* effect.                                                                 *)
LEMMA EffectOK ==
  ASSUME PatchBase, PatchBase', \A t \in Tasks : PatchOK(t),
         NEW m \in wire, ServerPatches(m),
         UNCHANGED <<phase, stage, outcome, detail, mark, patched>>
  PROVE  \A t \in Tasks : PatchOK(t)'
<1> DEFINE t == m.task
<1> DEFINE q == RoundOf(m)
<1>1. /\ \A k \in Tasks :
           /\ Same(k)
           /\ reply'[k] = IF k = t /\ Current(m) THEN "ok" ELSE reply[k]
      /\ UNCHANGED <<serial, pc, job, result, got>> /\ t \in Tasks
      /\ wire' \subseteq wire /\ m \in Requests
  BY ServerFrame DEF ServerPatches, ServerActs, PatchBase, PartInv
<1>2. /\ version \in Nat /\ version' = version + 1 /\ version' >= version
      /\ detail[t][q].base = version /\ m.job.kind = "write"
      /\ applies' = [applies EXCEPT ![t][q] = @ + 1]
  BY DEF ServerPatches, PatchBase, PatchTypes
<1>3. q \in Rounds /\ PatchOK(t)
  BY <1>1 DEF RoundOf, Rounds
<1>4. /\ \A k \in Tasks \ {t} : applies'[k] = applies[k]
      /\ \A i \in Rounds \ {q} : applies'[t][i] = applies[t][i]
      /\ applies'[t][q] = applies[t][q] + 1
  BY <1>1, <1>2, <1>3 DEF PatchBase, PatchTypes
<1>5. ASSUME NEW k \in Tasks, k # t
      PROVE  PatchOK(k)'
  <2>1. Kept(k)
    BY <1>1, <1>4, <1>5 DEF Kept, Same
  <2>2. WritesOf(k)' \subseteq WritesOf(k)
    BY <1>1 DEF WritesOf
  <2> QED
    BY <1>2, <1>5, <2>1, <2>2, KeptOK
<1>6. applies[t][q] = 0 /\ applies'[t][q] = 1 /\ ~Moot(t, q)
  BY <1>1, <1>2, <1>3, <1>4, CallTypes DEF PatchOK, Effects, Moot
<1>7. m \in WritesOf(t)
  BY <1>2 DEF WritesOf
<1>8. phase[t] \in {"patch", "repatch", "done"}
  <2>1. phase[t] \notin {"idle", "read"}
    BY <1>3, <1>7 DEF PatchOK, Sent
  <2>2. phase[t] # "reread"
    BY <1>1, <1>3, <1>6 DEF PatchOK, Marks, RoundOf
  <2> QED
    BY <1>1, <2>1, <2>2 DEF PatchBase, PatchTypes, Phases
<1>9. mark[t] # 0 => q = 2
  BY <1>3, <1>6 DEF PatchOK, Marks, RoundOf, Rounds
<1>10. mark[t] = 0 => q = 1
  BY DEF RoundOf
<1>11. Patching(t) => q = Round(t)
  BY <1>3, <1>8, <1>9, <1>10 DEF PatchOK, Marks, Patching, Round
<1>12. /\ phase'[t] = phase[t] /\ stage'[t] = stage[t]
       /\ outcome'[t] = outcome[t] /\ detail'[t] = detail[t]
       /\ mark'[t] = mark[t] /\ patched'[t] = patched[t]
       /\ pc'[t] = pc[t] /\ job'[t] = job[t] /\ result'[t] = result[t]
       /\ serial'[t] = serial[t] /\ got'[t] = got[t]
       /\ reply'[t] = reply[t] \/ reply'[t] = "ok"
       /\ Round(t)' = Round(t)
  BY <1>1 DEF Round
<1>13. \A i \in Rounds \ {q} : Moot(t, i) => Moot(t, i)'
  BY <1>1, <1>2, <1>4, <1>12, CallTypes DEF Moot
<1>14. /\ WritesOf(t)' \subseteq WritesOf(t)
       /\ \A n \in WritesOf(t) : Current(n) => Current(n)'
  BY <1>1 DEF WritesOf, Current
<1>15. Current(m) => pc[t] = "post" /\ reply'[t] = "ok"
  BY <1>1 DEF Current
<1>16. /\ 1 \in Rounds /\ 2 \in Rounds /\ Rounds = {1, 2}
  BY DEF Rounds
<1>17. \A i \in Rounds : /\ detail[t][i].base \in Nat
                         /\ applies[t][i] \in Nat
  BY <1>1, CallTypes
<1>18. got[t] \in Nat
  BY <1>1, CallTypes
<1> HIDE DEF t, q
<1>19. TurnJob(t)' /\ Refusable(t)' /\ Control(t)'
  BY <1>3, <1>12 DEF PatchOK, TurnJob, Refusable, Control
<1>20. Effects(t)'
  <2>1. got'[t] <= version'
    BY <1>2, <1>3, <1>12, <1>18 DEF PatchOK, Effects
  <2>2. ASSUME NEW i \in Rounds
        PROVE  /\ detail[t][i].base < version'
               /\ applies'[t][i] <= 1
    BY <1>2, <1>3, <1>4, <1>6, <1>17 DEF PatchOK, Effects
  <2>3. \A i \in Rounds : detail[t][i].base <= version'
    BY <1>2, <1>17, <2>2
  <2> QED
    BY <1>12, <2>1, <2>2, <2>3 DEF Effects
<1>21. Marks(t)'
  <2>1. mark[t] # 0 => Moot(t, 1)'
    BY <1>3, <1>9, <1>13, <1>16 DEF PatchOK, Marks
  <2>2. mark[t] = 0 => applies'[t][2] = 0
    BY <1>3, <1>4, <1>10, <1>16 DEF PatchOK, Marks
  <2> QED
    BY <1>3, <1>8, <1>12, <2>1, <2>2 DEF PatchOK, Marks
<1>22. Answers(t)'
  <2>1. SUFFICES ASSUME Patching(t) PROVE Answers(t)'
    BY <1>12 DEF Answers, Patching
  <2>2. ~Says(t, "mismatch")
    BY <1>3, <1>6, <1>11, <2>1 DEF PatchOK, Answers
  <2>3. ~Says(t, "mismatch")'
    BY <1>12, <2>2 DEF Says
  <2>4. applies'[t][Round(t)'] # 0
    BY <1>6, <1>11, <1>12, <2>1
  <2> QED
    BY <2>3, <2>4 DEF Answers
<1>23. Told(t)'
  <2>1. patched[t] # "mismatch"
    BY <1>3, <1>6, <1>16 DEF PatchOK, Told
  <2>2. \A i \in Rounds : applies[t][i] # 0 => applies'[t][i] # 0
    BY <1>4, <1>6
  <2> QED
    BY <1>3, <1>12, <1>16, <2>1, <2>2 DEF PatchOK, Told
<1>24. Sent(t)'
  <2>1. SUFFICES ASSUME TransportRetries = 0 PROVE Lone(t)'
    BY <1>8, <1>12 DEF Sent
  <2>2. CASE ~Patching(t)
    BY <1>8, <1>12, <2>2 DEF Lone, Patching
  <2>3. CASE Patching(t)
    <3>1. \/ pc[t] = "post" /\ reply'[t] = "ok"
          \/ pc[t] = "done"
      BY <1>3, <1>7, <1>15, <2>1, <2>3 DEF PatchOK, Sent, Lone, GivenUp
    <3> QED
      BY <1>3, <1>12, <1>14, <2>1, <2>3, <3>1
         DEF PatchOK, Sent, Lone, Patching, GivenUp
  <2> QED
    BY <2>2, <2>3
<1> QED
  BY <1>5, <1>19, <1>20, <1>21, <1>22, <1>23, <1>24 DEF PatchOK, t

LEMMA OutsideOK ==
  ASSUME CanTell, PatchBase, PatchBase', \A t \in Tasks : PatchOK(t),
         DocumentStep \/ DeploymentStep
  PROVE  \A t \in Tasks : PatchOK(t)'
<1>1. UNCHANGED <<phase, stage, outcome, detail, mark, patched>>
  BY DEF DocumentStep, DeploymentStep, patch, loop
<1>2. ASSUME NEW m \in wire,
             \/ ServerPatches(m) \/ ServerRefuses(m) \/ ServerReads(m)
             \/ /\ ServerStale(m) \/ ServerBounces(m)
                /\ UNCHANGED <<got, document>>
      PROVE  \A t \in Tasks : PatchOK(t)'
  BY <1>1, <1>2, EffectOK, RefusalOK, ReadAnswerOK
<1>3. ASSUME UNCHANGED <<pc, job, result, reply, serial, wire, got, applies>>,
             version' >= version
      PROVE  \A t \in Tasks : PatchOK(t)'
  BY <1>1, <1>3, KeptOK DEF Kept, WritesOf
<1>4. CASE SomebodyPatches \/ \E s \in Servers : Replicate(s)
  BY <1>3, <1>4 DEF SomebodyPatches, Replicate, vars, locals, network,
                    PatchBase, PatchTypes
<1>5. CASE DeploymentStep
  <2>1. UNCHANGED <<pc, job, result, reply, serial, wire>>
    BY <1>5, WorldFrame DEF DeploymentStep, ServeEstablish, network
  <2>2. UNCHANGED <<got, applies, version>> /\ version' >= version
    BY <1>5 DEF DeploymentStep, document, PatchBase, PatchTypes
  <2> QED
    BY <1>3, <2>1, <2>2
<1> QED
  BY <1>2, <1>4, <1>5 DEF DocumentStep

(***************************************************************************)
(* The caller's own steps.                                                 *)
(***************************************************************************)
(* The engine moves on in a read or in a patch.                            *)
LEMMA EngineOK ==
  ASSUME CanTell, PatchBase, PatchBase', NEW t \in Tasks, PatchOK(t),
         EngineStep(t) \/ Interrupt(t),
         UNCHANGED <<patch, got, document>>, TurnJob(t)'
  PROVE  PatchOK(t)'
<1> USE DEF patch, document
<1>1. /\ ClientStep(t) \/ Cancel(t)
      /\ UNCHANGED <<stage, outcome, phase, detail, mark, patched, got,
                     version, applies, job>>
  BY ClientFrame DEF EngineStep, Interrupt, loop, PatchBase, PartInv
<1>2. pc[t] \in {"fetch", "route", "post"}
  BY <1>1, AtRest
<1>3. result[t] = "none"
  BY <1>2 DEF PatchBase, PartInv, CallInv, CallOK
<1>4. /\ 1 \in Rounds /\ 2 \in Rounds /\ Round(t) \in Rounds
      /\ Round(t)' = Round(t) /\ serial[t] \in Nat /\ mark[t] \in Nat
  BY <1>1, CallTypes DEF Round
<1>5. \A i \in Rounds : Moot(t, i)' <=> Moot(t, i)
  BY <1>1 DEF Moot
<1>6. phase[t] \in {"read", "reread", "patch", "repatch"}
  BY <1>2 DEF PatchOK, Control, PatchBase, PatchTypes, Phases
<1>7. phase[t] \in {"read", "reread"} => job[t].kind # "write"
  <2>1. SUFFICES ASSUME phase[t] \in {"read", "reread"}
                 PROVE  job[t].kind # "write"
    OBVIOUS
  <2>2. stage[t] \in {"ensure", "member", "sot"}
    BY <1>2, <2>1 DEF PatchOK, Control, TurnJob, PatchBase, LoopTypeOK,
                      Stages
  <2> QED
    BY <2>2, ReadsAreNoWrites DEF PatchOK, TurnJob
<1>8. Posts(t) \/ TakesReply(t) \/ StopsShort(t) \/ GoesOn(t)
  BY <1>1, ClientSteps DEF PatchBase, PartInv
<1>9. /\ pc'[t] # "idle"
      /\ serial'[t] \in {serial[t], serial[t] + 1}
      /\ pc'[t] = "post" => serial'[t] = serial[t] + 1
      /\ Says(t, "ok")' => Says(t, "ok")
      /\ Says(t, "mismatch")' => Says(t, "mismatch")
      /\ result'[t] = "mismatch" => pc[t] = "post" /\ reply[t] = "mismatch"
      /\ pc'[t] = "post" => reply'[t] = "none"
  BY <1>2, <1>3, <1>8 DEF Posts, TakesReply, StopsShort, GoesOn, Says
<1>10. Refusable(t)'
  BY <1>1, <1>9 DEF PatchOK, Refusable
<1>11. Control(t)'
  BY <1>1, <1>2, <1>6, <1>9 DEF PatchOK, Control
<1>12. Effects(t)'
  BY <1>1 DEF PatchOK, Effects
<1>13. Marks(t)'
  BY <1>1, <1>4, <1>5, <1>9 DEF PatchOK, Marks
<1>14. Answers(t)'
  BY <1>1, <1>4, <1>5, <1>9 DEF PatchOK, Answers, Patching
<1>15. Told(t)'
  BY <1>1, <1>4, <1>5 DEF PatchOK, Told
<1>16. Sent(t)'
  <2>1. Patching(t)' = Patching(t)
    BY <1>1 DEF Patching
  <2>2. phase[t] \in {"read", "reread"} => WritesOf(t)' = WritesOf(t)
    BY <1>1, <1>7, NoWritePosted DEF PatchBase, PartInv
  <2>3. ~Patching(t) => Sent(t)'
    BY <1>1, <1>6, <2>1, <2>2 DEF PatchOK, Sent, Lone, Patching, GivenUp
  <2>4. SUFFICES ASSUME TransportRetries = 0, Patching(t)
                 PROVE  Lone(t)'
    BY <1>1, <2>3 DEF Sent, Patching
  <2>5. \A m \in WritesOf(t) : Current(m)
    BY <1>2, <2>4 DEF PatchOK, Sent, Lone, GivenUp
  <2>6. \A m \in WritesOf(t)' : Current(m)' \/ GivenUp(t)'
    BY <1>1, <2>4, <2>5, LonePost DEF PatchBase
  <2>7. pc'[t] # "done" => applies[t][Round(t)] = 0
    <3>1. pc'[t] # "done" =>
            \/ pc[t] \in {"fetch", "route"}
            \/ pc[t] = "post" /\ reply[t] # "ok"
      BY <1>2, <1>8, <2>4 DEF Posts, TakesReply, StopsShort, GoesOn
    <3> QED
      BY <2>4, <3>1 DEF PatchOK, Sent, Lone, GivenUp
  <2> QED
    BY <1>1, <1>4, <2>1, <2>4, <2>6, <2>7 DEF Lone, Patching
<1> QED
  BY <1>10, <1>11, <1>12, <1>13, <1>14, <1>15, <1>16 DEF PatchOK

(* A read that begins, in either round, or begins its next turn.           *)
LEMMA ReadOn ==
  ASSUME PatchBase, PatchBase', NEW t \in Tasks, PatchOK(t),
         NEW j \in Jobs, Begin(t, j), TurnJob(t)',
         phase'[t] \in {"read", "reread"}, stage'[t] \notin {"idle", "done"},
         outcome'[t] # "mismatch",
         UNCHANGED <<detail, mark, patched, got, document>>,
         \/ phase'[t] = phase[t]
         \/ phase[t] = "idle" /\ phase'[t] = "read"
         \/ /\ phase[t] = "patch" /\ phase'[t] = "reread"
            /\ pc[t] = "done" /\ result[t] = "mismatch"
  PROVE  PatchOK(t)'
<1> USE DEF document
<1>1. /\ reply'[t] = "none" /\ UNCHANGED <<serial, wire>>
      /\ result'[t] \in {"none", "established", "catalog"}
      /\ pc'[t] \in {"fetch", "route", "done"}
  BY BeginFacts DEF PatchBase, PartInv
<1>2. \A i \in Rounds : Moot(t, i)' <=> Moot(t, i)
  BY DEF Moot
<1>3. 1 \in Rounds /\ 2 \in Rounds
  BY DEF Rounds
<1>4. WritesOf(t)' = WritesOf(t)
  BY <1>1 DEF WritesOf
<1>5. phase[t] = "patch" => Moot(t, 1) /\ serial[t] >= 1
  BY DEF PatchOK, Answers, Says, Patching, Round
<1>6. Refusable(t)' /\ Control(t)' /\ Effects(t)'
  BY <1>1 DEF PatchOK, Refusable, Control, Effects
<1>7. Marks(t)' /\ Told(t)'
  BY <1>1, <1>2, <1>3, <1>5 DEF PatchOK, Marks, Told
<1>8. Answers(t)'
  BY DEF Answers, Patching
<1>9. Sent(t)'
  <2>1. phase[t] \in {"idle", "read"} => WritesOf(t) = {}
    BY DEF PatchOK, Sent
  <2>2. TransportRetries = 0 /\ phase[t] \in {"patch", "reread"}
          => WritesOf(t) = {}
    <3>1. ASSUME phase[t] = "patch", NEW m \in WritesOf(t)
          PROVE  ~Current(m)
      BY <3>1 DEF WritesOf, Current
    <3> QED
      BY <3>1 DEF PatchOK, Sent, Lone, Patching, GivenUp
  <2>3. ~Patching(t)'
    BY DEF Patching
  <2> QED
    BY <1>4, <2>1, <2>2, <2>3 DEF Sent, Lone
<1> QED
  BY <1>6, <1>7, <1>8, <1>9 DEF PatchOK

(* A turn ends.                                                            *)
LEMMA TurnEndsOK ==
  ASSUME PatchBase, NEW t \in Tasks, PatchOK(t), EndsTurn(t), TurnJob(t)',
         UNCHANGED <<patch, got, document>>
  PROVE  PatchOK(t)'
<1> USE DEF patch, document
<1>1. /\ (stage[t] \in Turns /\ pc[t] = "done") \/ stage[t] = "loop"
      /\ stage'[t] \in {"loop", "done"}
      /\ \/ outcome'[t] \in {outcome[t], "stale"}
         \/ stage[t] \in Turns /\ outcome'[t] = result[t]
      /\ UNCHANGED <<pc, job, result, reply, serial, wire>>
  BY DEF EndsTurn, vars, locals, network
<1>2. pc[t] = "done" /\ phase[t] \in {"read", "reread"}
  BY <1>1 DEF PatchOK, TurnJob, Control, Turns, PatchBase, PatchTypes, Phases
<1>3. outcome'[t] # "mismatch"
  BY <1>1, ReadsAreNoWrites DEF PatchOK, Refusable, TurnJob, Turns
<1>4. Refusable(t)' /\ Control(t)' /\ Effects(t)'
  BY <1>1, <1>2, <1>3 DEF PatchOK, Refusable, Control, Effects
<1>5. \A i \in Rounds : Moot(t, i)' <=> Moot(t, i)
  BY DEF Moot
<1>6. Marks(t)' /\ Told(t)'
  BY <1>1, <1>5 DEF PatchOK, Marks, Told, Rounds
<1>7. Answers(t)' /\ Sent(t)'
  <2>1. WritesOf(t)' = WritesOf(t) /\ ~Patching(t) /\ ~Patching(t)'
    BY <1>1, <1>2 DEF WritesOf, Patching
  <2> QED
    BY <2>1 DEF PatchOK, Answers, Sent, Lone
<1> QED
  BY <1>4, <1>6, <1>7 DEF PatchOK

LEMMA ReadStepOK ==
  ASSUME CanTell, PatchBase, PatchBase', NEW t \in Tasks, PatchOK(t),
         UNCHANGED policy,
         \/ StartPatch(t)
         \/ ReadStep(t) /\ UNCHANGED <<patch, got, document>>
         \/ Interrupt(t) /\ UNCHANGED <<patch, got, document>>
         \/ RebuildOnMismatch(t)
  PROVE  PatchOK(t)'
<1>1. CASE StartPatch(t)
  <2>1. /\ Begin(t, Ensure) /\ Ensure \in Jobs
        /\ stage'[t] = "ensure" /\ outcome'[t] = outcome[t]
        /\ phase[t] = "idle" /\ phase'[t] = "read"
        /\ UNCHANGED <<detail, mark, patched, got, document>>
    BY <1>1, JobsOfReads
       DEF StartPatch, StartRead, Step, Goto, PatchBase, PatchTypes,
           LoopTypeOK
  <2>2. TurnJob(t)'
    BY <1>1, TurnJobStep DEF StartPatch, PatchBase, PatchOK
  <2> QED
    BY <2>1, <2>2, ReadOn DEF PatchOK, Refusable
<1>2. CASE ReadStep(t) /\ UNCHANGED <<patch, got, document>>
  <2>1. TurnJob(t)'
    BY <1>2, TurnJobStep DEF PatchBase, PatchOK
  <2>2. EngineStep(t) \/ BeginsTurn(t) \/ EndsTurn(t)
    BY <1>2, ReadTurns DEF PatchBase
  <2>3. CASE BeginsTurn(t)
    <3>1. PICK j \in Jobs : Begin(t, j)
      BY <2>3 DEF BeginsTurn
    <3>2. /\ stage[t] = "loop" /\ stage'[t] \notin {"idle", "done"}
          /\ outcome'[t] = outcome[t]
      BY <2>3 DEF BeginsTurn
    <3>3. phase[t] \in {"read", "reread"}
      BY <3>2 DEF PatchOK, Control, PatchBase, PatchTypes, Phases
    <3> QED
      BY <1>2, <2>1, <3>1, <3>2, <3>3, ReadOn DEF PatchOK, Refusable, patch
  <2> QED
    BY <1>2, <2>1, <2>2, <2>3, EngineOK, TurnEndsOK
<1>3. CASE Interrupt(t) /\ UNCHANGED <<patch, got, document>>
  BY <1>3, EngineOK, TurnJobStep DEF PatchBase, PatchOK
<1>4. CASE RebuildOnMismatch(t)
  <2>1. /\ Begin(t, Ensure) /\ Ensure \in Jobs
        /\ stage'[t] = "ensure" /\ outcome'[t] = "none"
        /\ phase[t] = "patch" /\ phase'[t] = "reread"
        /\ pc[t] = "done" /\ result[t] = "mismatch"
        /\ UNCHANGED <<detail, mark, patched, got, document>>
    BY <1>4, JobsOfReads
       DEF RebuildOnMismatch, ReadAgain, Step, Goto, PatchBase, PatchTypes,
           LoopTypeOK
  <2>2. TurnJob(t)'
    BY <2>1, BeginFacts DEF TurnJob, PatchBase, PartInv
  <2> QED
    BY <2>1, <2>2, ReadOn
<1> QED
  BY <1>1, <1>2, <1>3, <1>4

(* A patch is posted that is built on what the read returned.              *)
LEMMA BuildOK ==
  ASSUME PatchBase, PatchBase', NEW t \in Tasks, PatchOK(t),
         ReadReturns(t) \/ RereadReturns(t)
  PROVE  PatchOK(t)'
<1> DEFINE r == IF phase[t] = "read" THEN 1 ELSE 2
<1>1. /\ phase[t] \in {"read", "reread"} /\ stage[t] = "done"
      /\ phase[t] = "read" => phase'[t] = "patch" /\ mark'[t] = mark[t]
      /\ phase[t] = "reread" =>
           phase'[t] = "repatch" /\ mark'[t] = serial[t]
      /\ Build(t, r, got[t])
  BY DEF ReadReturns, RereadReturns, Step, PatchBase, PatchTypes
<1>2. /\ r \in Rounds /\ 1 \in Rounds /\ 2 \in Rounds /\ Rounds = {1, 2}
  BY DEF Rounds
<1>3. Begin(t, PatchJob) /\ PatchJob \in Jobs /\ PatchJob.kind = "write"
  BY <1>1, PatchJobType DEF Build
<1>4. /\ job'[t] = PatchJob /\ reply'[t] = "none"
      /\ result'[t] \in {"none", "established", "catalog"}
      /\ pc'[t] \in {"fetch", "route"} /\ UNCHANGED <<serial, wire>>
  BY <1>3, BeginFacts DEF PatchBase, PartInv
<1>5. /\ stage'[t] = "done" /\ outcome'[t] = outcome[t]
      /\ patched'[t] = patched[t] /\ got' = got /\ version' = version
      /\ applies' = applies
  BY <1>1 DEF Build, loop, document
<1>6. /\ detail'[t][r].base = got[t]
      /\ \A i \in Rounds \ {r} : detail'[t][i] = detail[t][i]
  <2> DEFINE d == [base |-> got[t], built |-> got[t]]
  <2>1. detail' = [detail EXCEPT ![t][r] = d]
    BY <1>1 DEF Build
  <2>2. d.base = got[t]
    OBVIOUS
  <2> HIDE DEF d
  <2>3. detail \in [Tasks -> [Rounds -> [base : Nat, built : Nat]]]
    BY DEF PatchBase, PatchTypes
  <2>4. /\ detail'[t][r] = d
        /\ \A i \in Rounds \ {r} : detail'[t][i] = detail[t][i]
    BY <1>2, <2>1, <2>3
  <2> QED
    BY <2>2, <2>4
<1>7. applies[t][r] = 0 /\ (r = 2 => Moot(t, 1) /\ serial[t] >= 1)
  BY <1>1 DEF PatchOK, Marks
<1>8. serial[t] \in Nat /\ got[t] <= version
  BY CallTypes DEF PatchOK, Effects
<1>9. r = 1 <=> phase[t] = "read"
  OBVIOUS
<1>10. (r = 1 => Round(t)' = 1) /\ (r = 2 => Round(t)' = 2)
  BY <1>1 DEF Round
<1> HIDE DEF r
<1>11. TurnJob(t)' /\ Refusable(t)' /\ Control(t)'
  BY <1>1, <1>4, <1>5 DEF PatchOK, TurnJob, Refusable, Control
<1>12. Effects(t)'
  BY <1>2, <1>5, <1>6, <1>7, <1>8 DEF PatchOK, Effects
<1>13. r = 2 => Moot(t, 1)'
  BY <1>2, <1>5, <1>6, <1>7 DEF Moot
<1>14. Marks(t)'
  BY <1>1, <1>2, <1>4, <1>5, <1>7, <1>8, <1>9, <1>13 DEF PatchOK, Marks
<1>15. Answers(t)'
  BY <1>4 DEF Answers, Says
<1>16. Told(t)'
  BY <1>1, <1>5 DEF PatchOK, Told
<1>17. Sent(t)'
  <2>1. WritesOf(t)' = WritesOf(t)
    BY <1>4 DEF WritesOf
  <2>2. TransportRetries = 0 => WritesOf(t) = {}
    BY <1>1 DEF PatchOK, Sent, Lone, GivenUp
  <2>3. applies'[t][Round(t)'] = 0
    BY <1>2, <1>5, <1>7, <1>10
  <2> QED
    BY <1>1, <1>4, <2>1, <2>2, <2>3 DEF Sent, Lone
<1> QED
  BY <1>11, <1>12, <1>14, <1>15, <1>16, <1>17 DEF PatchOK

(* The call returns.                                                       *)
LEMMA ReportOK ==
  ASSUME PatchBase, NEW t \in Tasks, PatchOK(t),
         ReadFails(t) \/ PatchReturns(t) \/ RepatchReturns(t)
  PROVE  PatchOK(t)'
<1>1. /\ UNCHANGED <<pc, job, result, reply, serial, wire, stage, outcome>>
      /\ UNCHANGED <<detail, mark, got, version, applies>>
      /\ phase'[t] = "done" /\ stage[t] = "done" /\ pc[t] = "done"
  BY DEF ReadFails, PatchReturns, RepatchReturns, Report, Step, readVars,
         vars, locals, network, loop, document, PatchBase, PatchTypes,
         PatchOK, Control
<1>2. TurnJob(t)' /\ Refusable(t)' /\ Control(t)' /\ Effects(t)'
  BY <1>1 DEF PatchOK, TurnJob, Refusable, Control, Effects
<1>3. \A i \in Rounds : Moot(t, i)' <=> Moot(t, i)
  BY <1>1 DEF Moot
<1>4. Marks(t)'
  BY <1>1, <1>3 DEF PatchOK, Marks, Rounds
<1>5. Answers(t)' /\ Sent(t)'
  BY <1>1 DEF Answers, Patching, Sent, Lone
<1>6. /\ patched'[t] = "ok" => applies[t][1] # 0 \/ applies[t][2] # 0
      /\ patched'[t] = "mismatch" => Moot(t, 1) /\ Moot(t, 2)
  <2>1. CASE ReadFails(t)
    BY <2>1 DEF ReadFails, Report, PatchBase, PatchTypes, PatchOK, Refusable
  <2>2. CASE PatchReturns(t)
    <3>1. patched'[t] = result[t] /\ result[t] # "mismatch" /\ Patching(t)
          /\ Round(t) = 1
      BY <2>2 DEF PatchReturns, Report, PatchBase, PatchTypes, Patching, Round
    <3> QED
      BY <3>1 DEF PatchOK, Answers, Says
  <2>3. CASE RepatchReturns(t)
    <3>1. patched'[t] = result[t] /\ Patching(t) /\ Round(t) = 2
          /\ phase[t] = "repatch"
      BY <2>3 DEF RepatchReturns, Report, PatchBase, PatchTypes, Patching,
                  Round
    <3> QED
      BY <3>1 DEF PatchOK, Answers, Says, Marks
  <2> QED
    BY <2>1, <2>2, <2>3
<1>7. Told(t)'
  BY <1>1, <1>3, <1>6 DEF Told, Rounds
<1> QED
  BY <1>2, <1>4, <1>5, <1>7 DEF PatchOK

(* The step of one call leaves the others alone.                           *)
LEMMA OthersKept ==
  ASSUME PatchBase, NEW t \in Tasks, NEW k \in Tasks \ {t},
         \/ StartPatch(t) \/ PatchStep(t)
         \/ Interrupt(t) /\ UNCHANGED <<patch, got, document>>
  PROVE  Kept(k) /\ WritesOf(k)' \subseteq WritesOf(k) /\ UNCHANGED version
<1> USE DEF Kept, LoopSame, PatchTypes
<1>1. ASSUME TaskMoves(t)
      PROVE  /\ Same(k) /\ reply'[k] = reply[k]
             /\ WritesOf(k)' \subseteq WritesOf(k)
  BY <1>1, TaskFrame, TaskWire DEF WritesOf, PatchBase, PartInv
<1> USE DEF Same
<1>2. CASE StartPatch(t)
  <2>1. TaskMoves(t) /\ LoopSame(k)
    BY <1>2, ReadStepMoves, LoopFrame DEF StartPatch, PatchBase
  <2> QED
    BY <1>1, <1>2, <2>1 DEF StartPatch, Step, document, PatchBase
<1>3. CASE \/ ReadStep(t) /\ UNCHANGED <<patch, got, document>>
           \/ Interrupt(t) /\ UNCHANGED <<patch, got, document>>
  <2>1. TaskMoves(t) /\ LoopSame(k)
    BY <1>3, ReadStepMoves, LoopFrame DEF PatchBase
  <2> QED
    BY <1>1, <1>3, <2>1 DEF patch, document
<1>4. CASE ReadReturns(t) \/ RereadReturns(t)
  <2>1. PICK r \in Rounds : Build(t, r, got[t])
    BY <1>4 DEF ReadReturns, RereadReturns, Rounds
  <2>2. TaskMoves(t)
    BY <2>1, PatchJobType DEF Build, TaskMoves
  <2>3. detail'[k] = detail[k]
    BY <2>1 DEF Build, PatchBase
  <2> QED
    BY <1>1, <1>4, <2>1, <2>2, <2>3
       DEF ReadReturns, RereadReturns, Build, Step, loop, document, PatchBase
<1>5. CASE ReadFails(t) \/ PatchReturns(t) \/ RepatchReturns(t)
  <2>1. UNCHANGED vars /\ UNCHANGED <<stage, outcome>>
    BY <1>5 DEF ReadFails, PatchReturns, RepatchReturns, readVars, loop
  <2>2. TaskMoves(t)
    BY <2>1 DEF TaskMoves
  <2> QED
    BY <1>1, <1>5, <2>1, <2>2
       DEF ReadFails, PatchReturns, RepatchReturns, Report, Step, document,
           PatchBase
<1>6. CASE RebuildOnMismatch(t)
  <2>1. ReadAgain(t)
    BY <1>6 DEF RebuildOnMismatch
  <2>2. TaskMoves(t)
    BY <2>1, JobsOfReads DEF ReadAgain, TaskMoves
  <2> QED
    BY <1>1, <2>1, <2>2
       DEF ReadAgain, Step, Goto, document, PatchBase, LoopTypeOK
<1> QED
  BY <1>2, <1>3, <1>4, <1>5, <1>6 DEF PatchStep

LEMMA PatchInvInit == PatchInit => PatchInv
<1> SUFFICES ASSUME PatchInit, NEW t \in Tasks PROVE PatchOK(t)
  BY PatchInitBase DEF PatchInv
<1> USE DEF PatchInit, ReadInit, Init
<1>1. TurnJob(t) /\ Refusable(t) /\ Control(t)
  BY DEF TurnJob, Refusable, Control
<1>2. Effects(t) /\ Marks(t)
  BY DEF Effects, Marks, Rounds
<1>3. Answers(t) /\ Told(t) /\ Sent(t)
  BY DEF Answers, Patching, Told, Sent, Lone, WritesOf
<1> QED
  BY <1>1, <1>2, <1>3 DEF PatchOK

LEMMA PatchInvStep == PatchInv /\ [PatchNext]_patchVars => PatchInv'
<1> SUFFICES ASSUME PatchInv, [PatchNext]_patchVars, CanTell
             PROVE  \A t \in Tasks : PatchOK(t)'
  BY PatchBaseStep DEF PatchInv, CanTell
<1>1. PatchBase /\ PatchBase' /\ \A t \in Tasks : PatchOK(t)
  BY PatchBaseStep DEF PatchInv
<1>2. ASSUME NEW t \in Tasks, UNCHANGED policy,
             \/ StartPatch(t) \/ PatchStep(t)
             \/ Interrupt(t) /\ UNCHANGED <<patch, got, document>>
      PROVE  \A k \in Tasks : PatchOK(k)'
  <2>1. PatchOK(t)'
    BY <1>1, <1>2, ReadStepOK, BuildOK, ReportOK DEF PatchStep
  <2>2. ASSUME NEW k \in Tasks \ {t}
        PROVE  PatchOK(k)'
    <3>1. /\ Kept(k) /\ WritesOf(k)' \subseteq WritesOf(k)
          /\ version' >= version
      BY <1>1, <1>2, OthersKept DEF PatchBase, PatchTypes
    <3> QED
      BY <1>1, <3>1, KeptOK
  <2> QED
    BY <2>1, <2>2
<1>3. CASE UNCHANGED patchVars
  <2>1. \A k \in Tasks : Kept(k) /\ WritesOf(k)' = WritesOf(k)
    BY <1>3 DEF patchVars, readVars, vars, locals, network, loop, patch,
                document, Kept, WritesOf
  <2>2. version' >= version
    BY <1>1, <1>3 DEF patchVars, document, PatchBase, PatchTypes
  <2> QED
    BY <1>1, <2>1, <2>2, KeptOK DEF PatchInv
<1> QED
  BY <1>1, <1>2, <1>3, OutsideOK DEF PatchNext, PatchInv

(* When the server recognises an operationId it has carried out, or the    *)
(* client does not repeat its posts, the two patches of a call change the  *)
(* document at most once, whatever is lost, late or posted again.          *)
THEOREM PatchesOnce == PatchSpec => []OneEffect
<1>1. PatchInv => OneEffect
  <2>1. SUFFICES ASSUME PatchInv, CanTell, NEW t \in Tasks
                 PROVE  Applied(t) <= 1
    BY DEF OneEffect, CanTell
  <2>2. /\ applies[t][1] \in Nat /\ applies[t][2] \in Nat
        /\ applies[t][1] <= 1 /\ applies[t][2] <= 1
        /\ applies[t][1] = 0 \/ applies[t][2] = 0
    BY <2>1, CallTypes DEF PatchInv, PatchOK, Effects, Marks, Moot
  <2> QED
    BY <2>2 DEF Applied
<1> QED
  BY <1>1, PatchInvInit, PatchInvStep, PTL DEF PatchSpec

(* Under the same condition the outcome tells what happened: after a       *)
(* success just one of the two patches has taken effect, after a version   *)
(* mismatch neither has.                                                   *)
THEOREM OutcomesTell == PatchSpec => []OutcomeTellsEffect
<1>1. PatchInv => OutcomeTellsEffect
  <2>1. SUFFICES ASSUME PatchInv, CanTell, NEW t \in Tasks
                 PROVE  /\ patched[t] = "ok" => Applied(t) = 1
                        /\ patched[t] = "mismatch" => Applied(t) = 0
    BY DEF OutcomeTellsEffect, CanTell
  <2>2. /\ applies[t][1] \in Nat /\ applies[t][2] \in Nat
        /\ applies[t][1] <= 1 /\ applies[t][2] <= 1
        /\ applies[t][1] = 0 \/ applies[t][2] = 0
        /\ patched[t] = "ok" => applies[t][1] # 0 \/ applies[t][2] # 0
        /\ patched[t] = "mismatch" =>
             applies[t][1] = 0 /\ applies[t][2] = 0
    BY <2>1, CallTypes DEF PatchInv, PatchOK, Effects, Marks, Moot, Told
  <2> QED
    BY <2>2 DEF Applied
<1> QED
  BY <1>1, PatchInvInit, PatchInvStep, PTL DEF PatchSpec
-----------------------------------------------------------------------------
(***************************************************************************)
(* Refinement.  Under the same condition a whole call, two reads and two   *)
(* patches with all their bounces and repeated posts, looks to its caller  *)
(* like one command that is carried out when either patch takes effect.    *)
(* With transport retries only two outcomes are certain: after any other   *)
(* error an earlier post may still arrive.                                 *)
(***************************************************************************)
CallPhase(t) == IF phase[t] = "idle" THEN "idle"
                ELSE IF phase[t] = "done" THEN "closed" ELSE "open"

CallMap    == [t \in Tasks |-> CallPhase(t)]
AppliedMap == [t \in Tasks |-> Applied(t)]

Doubted == IF TransportRetries = 0 THEN {"transport", "cancelled"}
           ELSE Results \ {"ok", "mismatch"}

Update == INSTANCE OnceCommand WITH
            Limit <- 1, Doubtful <- Doubted,
            phase <- CallMap, ran <- AppliedMap, result <- patched

ImplementsUpdate == Update!Spec

Certain(r) == r \notin {"transport", "cancelled"}
Refused(r) == Certain(r) /\ r # "ok"

(* Without transport retries a patch that was refused has had no effect,   *)
(* and a call whose outcome is certain has left no write behind.           *)
Final(t) ==
  /\ Patching(t) /\ pc[t] = "done" /\ Refused(result[t])
       => applies[t][Round(t)] = 0
  /\ phase[t] = "done" =>
       /\ Certain(patched[t]) => WritesOf(t) = {}
       /\ Refused(patched[t]) => applies[t][1] = 0 /\ applies[t][2] = 0

(* What has ended has an outcome.                                          *)
Concluded(t) ==
  /\ pc[t] = "done" => result[t] # "none"
  /\ stage[t] = "done" => outcome[t] # "none"
  /\ phase[t] = "done" => patched[t] # "none"
  /\ TransportRetries = 0 => Final(t)

UpdateInv == PatchInv /\ \A t \in Tasks : Concluded(t)

LEMMA KeptConcluded ==
  ASSUME NEW k \in Tasks, Concluded(k),
         pc'[k] = pc[k], result'[k] = result[k], stage'[k] = stage[k],
         outcome'[k] = outcome[k], phase'[k] = phase[k],
         patched'[k] = patched[k], applies'[k] = applies[k],
         WritesOf(k)' \subseteq WritesOf(k)
  PROVE  Concluded(k)'
BY DEF Concluded, Final, Patching, Round

(* A patch takes effect for a caller that waits, or that does not know.    *)
LEMMA EffectConcluded ==
  ASSUME CanTell, UpdateInv, NEW m \in wire, ServerPatches(m),
         UNCHANGED <<phase, stage, outcome, patched>>, NEW k \in Tasks
  PROVE  Concluded(k)'
<1> DEFINE t == m.task
<1>1. /\ UNCHANGED <<pc, result>> /\ wire' \subseteq wire /\ t \in Tasks
      /\ m \in WritesOf(t)
  BY ServerFrame
     DEF ServerPatches, ServerActs, UpdateInv, PatchInv, PatchBase, PartInv,
         WritesOf
<1>2. WritesOf(k)' \subseteq WritesOf(k)
  BY <1>1 DEF WritesOf
<1>3. CASE k # t
  <2>1. applies'[k] = applies[k]
    BY <1>3 DEF ServerPatches, UpdateInv, PatchInv, PatchBase, PatchTypes
  <2> QED
    BY <1>1, <1>2, <2>1, KeptConcluded DEF UpdateInv
<1>4. CASE k = t
  <2>1. Concluded(k) /\ WritesOf(k) # {}
    BY <1>1, <1>4 DEF UpdateInv
  <2>2. ASSUME TransportRetries = 0
        PROVE  Final(k)'
    <3>1. ASSUME Patching(k) PROVE Current(m) \/ GivenUp(k)
      BY <1>1, <1>4, <2>2, <3>1 DEF UpdateInv, PatchInv, PatchOK, Sent, Lone
    <3>2. Patching(k) => pc[k] # "done" \/ ~Certain(result[k])
      BY <1>4, <3>1 DEF Current, GivenUp, Certain
    <3>3. Final(k) /\ (phase[k] = "done" => ~Certain(patched[k]))
      BY <2>1, <2>2 DEF Concluded, Final
    <3> QED
      BY <1>1, <1>2, <3>2, <3>3 DEF Final, Patching, Refused
  <2> QED
    BY <1>1, <2>1, <2>2 DEF Concluded
<1> QED
  BY <1>3, <1>4

LEMMA OutsideConcluded ==
  ASSUME CanTell, UpdateInv, DocumentStep \/ DeploymentStep,
         NEW k \in Tasks
  PROVE  Concluded(k)'
<1>1. UNCHANGED <<phase, stage, outcome, patched>>
  BY DEF DocumentStep, DeploymentStep, patch, loop
<1>2. ASSUME NEW m \in wire, NEW r, ServerActs(m, r), UNCHANGED applies
      PROVE  Concluded(k)'
  <2>1. UNCHANGED <<pc, result>> /\ wire' \subseteq wire
    BY <1>2 DEF ServerActs
  <2>2. WritesOf(k)' \subseteq WritesOf(k)
    BY <2>1 DEF WritesOf
  <2> QED
    BY <1>1, <1>2, <2>1, <2>2, KeptConcluded DEF UpdateInv
<1>3. CASE UNCHANGED <<pc, result, wire, applies>>
  <2>1. WritesOf(k)' = WritesOf(k)
    BY <1>3 DEF WritesOf
  <2> QED
    BY <1>1, <1>3, <2>1, KeptConcluded DEF UpdateInv
<1>4. CASE DeploymentStep
  <2>1. UNCHANGED <<pc, result, wire, applies>>
    BY <1>4, WorldFrame
       DEF DeploymentStep, ServeEstablish, network, document
  <2> QED
    BY <1>3, <2>1
<1>5. CASE SomebodyPatches \/ \E s \in Servers : Replicate(s)
  BY <1>3, <1>5 DEF SomebodyPatches, Replicate, vars, network
<1>6. ASSUME NEW m \in wire, ServerPatches(m)
      PROVE  Concluded(k)'
  BY <1>1, <1>6, EffectConcluded
<1>7. ASSUME NEW m \in wire, ServerRefuses(m) \/ ServerReads(m)
      PROVE  Concluded(k)'
  <2>1. UNCHANGED applies /\ \E r \in Replies : ServerActs(m, r)
    BY <1>7 DEF ServerRefuses, ServerReads, document, Replies, AppErrors
  <2> QED
    BY <1>2, <2>1
<1>8. ASSUME NEW m \in wire, ServerStale(m) \/ ServerBounces(m),
             UNCHANGED <<got, document>>
      PROVE  Concluded(k)'
  <2>1. UNCHANGED applies /\ \E r \in Replies : ServerActs(m, r)
    BY <1>8 DEF ServerStale, ServerBounces, document, Replies, AppErrors
  <2> QED
    BY <1>2, <2>1
<1> QED
  BY <1>4, <1>5, <1>6, <1>7, <1>8 DEF DocumentStep

(* The caller's own steps.                                                 *)
LEMMA EngineConcluded ==
  ASSUME CanTell, UpdateInv, NEW t \in Tasks,
         EngineStep(t) \/ Interrupt(t), UNCHANGED <<patch, got, document>>
  PROVE  Concluded(t)'
<1>1. /\ ClientStep(t) \/ Cancel(t)
      /\ UNCHANGED <<stage, outcome, phase, patched, applies>>
  BY DEF EngineStep, Interrupt, loop, patch, document
<1>2. /\ pc[t] \in {"fetch", "route", "post"}
      /\ Posts(t) \/ TakesReply(t) \/ StopsShort(t) \/ GoesOn(t)
  BY <1>1, AtRest, ClientSteps DEF UpdateInv, PatchInv, PatchBase, PartInv
<1>3. Concluded(t) /\ PatchOK(t) /\ (phase[t] = "done" => pc[t] = "done")
  BY DEF UpdateInv, PatchInv, PatchOK, Control
<1>4. pc'[t] = "done" => result'[t] # "none"
  BY <1>2 DEF Posts, TakesReply, StopsShort, GoesOn
<1>5. ASSUME TransportRetries = 0
      PROVE  Final(t)'
  <2>1. Patching(t) /\ pc'[t] = "done" /\ Refused(result'[t])
          => applies[t][Round(t)] = 0
    BY <1>2, <1>3, <1>5
       DEF PatchOK, Sent, Lone, Posts, TakesReply, StopsShort, GoesOn,
           Refused, Certain
  <2> QED
    BY <1>1, <1>2, <1>3, <2>1 DEF Final, Patching, Round
<1> QED
  BY <1>1, <1>2, <1>3, <1>4, <1>5 DEF Concluded

LEMMA TurnsConcluded ==
  ASSUME CanTell, UpdateInv, NEW t \in Tasks,
         BeginsTurn(t) \/ EndsTurn(t), UNCHANGED <<patch, got, document>>
  PROVE  Concluded(t)'
<1>1. Concluded(t) /\ PatchOK(t)
  BY DEF UpdateInv, PatchInv
<1>2. /\ stage[t] \notin {"idle", "done"}
      /\ UNCHANGED <<phase, patched, applies>>
  BY DEF BeginsTurn, EndsTurn, Turns, patch, document
<1>3. phase[t] \in {"read", "reread"}
  BY <1>1, <1>2
     DEF PatchOK, Control, UpdateInv, PatchInv, PatchBase, PatchTypes, Phases
<1>4. CASE BeginsTurn(t)
  <2>1. stage'[t] # "done" /\ (pc'[t] = "done" => result'[t] # "none")
    BY <1>4, BeginFacts DEF BeginsTurn, UpdateInv, PatchInv, PatchBase, PartInv
  <2> QED
    BY <1>2, <1>3, <2>1 DEF Concluded, Final, Patching
<1>5. CASE EndsTurn(t)
  <2>1. UNCHANGED <<pc, result>>
    BY <1>5 DEF EndsTurn, vars
  <2>2. stage'[t] = "done" => outcome'[t] # "none"
    <3>1. stage[t] \in Turns => pc[t] = "done" /\ result[t] # "none"
      BY <1>1, <1>5 DEF EndsTurn, Turns, Concluded
    <3> QED
      BY <1>5, <3>1 DEF EndsTurn
  <2> QED
    BY <1>1, <1>2, <1>3, <2>1, <2>2 DEF Concluded, Final, Patching
<1> QED
  BY <1>4, <1>5

(* A read or a patch begins.                                               *)
LEMMA BeginsConcluded ==
  ASSUME CanTell, UpdateInv, NEW t \in Tasks,
         \/ StartPatch(t) \/ RebuildOnMismatch(t)
         \/ ReadReturns(t) \/ RereadReturns(t)
  PROVE  Concluded(t)'
<1>1. /\ Concluded(t) /\ LoopTypeOK /\ PatchTypes /\ TypeInv
  BY DEF UpdateInv, PatchInv, PatchBase, PartInv
<1>2. CASE StartPatch(t) \/ RebuildOnMismatch(t)
  <2>1. Begin(t, Ensure) /\ stage'[t] = "ensure"
        /\ phase'[t] \in {"read", "reread"}
    BY <1>1, <1>2
       DEF StartPatch, StartRead, RebuildOnMismatch, ReadAgain, Step, Goto,
           LoopTypeOK, PatchTypes
  <2>2. pc'[t] = "done" => result'[t] # "none"
    BY <1>1, <2>1, JobsOfReads, BeginFacts
  <2> QED
    BY <2>1, <2>2 DEF Concluded, Final, Patching
<1>3. CASE ReadReturns(t) \/ RereadReturns(t)
  <2>1. /\ Begin(t, PatchJob) /\ UNCHANGED <<stage, outcome>>
        /\ phase'[t] \in {"patch", "repatch"}
    BY <1>1, <1>3
       DEF ReadReturns, RereadReturns, Build, Step, loop, PatchTypes
  <2>2. pc'[t] \in {"fetch", "route"}
    BY <1>1, <2>1, PatchJobType, BeginFacts
  <2> QED
    BY <1>1, <2>1, <2>2 DEF Concluded, Final
<1> QED
  BY <1>2, <1>3

(* The call returns: with what the read or the patch ended with.           *)
LEMMA ReportConcluded ==
  ASSUME CanTell, UpdateInv, NEW t \in Tasks,
         ReadFails(t) \/ PatchReturns(t) \/ RepatchReturns(t)
  PROVE  Concluded(t)'
<1>1. /\ Concluded(t) /\ PatchOK(t) /\ PatchTypes
  BY DEF UpdateInv, PatchInv, PatchBase
<1>2. /\ UNCHANGED <<pc, result, wire, stage, outcome, applies>>
      /\ phase'[t] = "done" /\ pc[t] = "done" /\ stage[t] = "done"
  BY <1>1
     DEF ReadFails, PatchReturns, RepatchReturns, Report, Step, readVars,
         vars, network, loop, document, PatchTypes, PatchOK, Control
<1>3. patched'[t] # "none"
  BY <1>1, <1>2
     DEF ReadFails, PatchReturns, RepatchReturns, Report, PatchTypes, Concluded
<1>4. ASSUME TransportRetries = 0
      PROVE  /\ Certain(patched'[t]) => WritesOf(t) = {}
             /\ Refused(patched'[t]) => applies[t][1] = 0 /\ applies[t][2] = 0
  <2>1. Lone(t) /\ Final(t)
    BY <1>1, <1>4 DEF PatchOK, Sent, Concluded
  <2>2. CASE ReadFails(t)
    <3>1. phase[t] \in {"read", "reread"}
      BY <2>2 DEF ReadFails
    <3> QED
      BY <1>1, <2>1, <3>1 DEF PatchOK, Sent, Lone, Marks, Moot
  <2>3. CASE PatchReturns(t) \/ RepatchReturns(t)
    <3>1. Patching(t) /\ patched'[t] = result[t]
      BY <1>1, <2>3
         DEF PatchReturns, RepatchReturns, Report, PatchTypes, Patching
    <3>2. Certain(result[t]) => WritesOf(t) = {}
      <4>1. \A m \in WritesOf(t) : ~Current(m)
        BY <1>2 DEF WritesOf, Current
      <4> QED
        BY <2>1, <3>1, <4>1 DEF Lone, GivenUp, Certain
    <3>3. Refused(result[t]) => applies[t][1] = 0 /\ applies[t][2] = 0
      BY <1>1, <1>2, <2>1, <3>1
         DEF Final, PatchOK, Marks, Moot, Patching, Round
    <3> QED
      BY <3>1, <3>2, <3>3
  <2> QED
    BY <2>2, <2>3
<1>5. WritesOf(t)' = WritesOf(t)
  BY <1>2 DEF WritesOf
<1> QED
  BY <1>1, <1>2, <1>3, <1>4, <1>5 DEF Concluded, Final, Patching

LEMMA TaskConcluded ==
  ASSUME CanTell, UpdateInv, NEW t \in Tasks,
         \/ StartPatch(t) \/ PatchStep(t)
         \/ Interrupt(t) /\ UNCHANGED <<patch, got, document>>
  PROVE  \A k \in Tasks : Concluded(k)'
<1>1. Concluded(t)'
  <2>1. CASE ReadStep(t) /\ UNCHANGED <<patch, got, document>>
    <3>1. EngineStep(t) \/ BeginsTurn(t) \/ EndsTurn(t)
      BY <2>1, ReadTurns DEF UpdateInv, PatchInv, PatchBase
    <3> QED
      BY <2>1, <3>1, EngineConcluded, TurnsConcluded
  <2> QED
    BY <2>1, EngineConcluded, BeginsConcluded, ReportConcluded
       DEF PatchStep
<1>2. ASSUME NEW k \in Tasks \ {t}
      PROVE  Concluded(k)'
  <2>1. Kept(k) /\ WritesOf(k)' \subseteq WritesOf(k)
    BY OthersKept DEF UpdateInv, PatchInv
  <2> QED
    BY <2>1, KeptConcluded DEF UpdateInv, Kept
<1> QED
  BY <1>1, <1>2

LEMMA UpdateInvStep ==
  ASSUME CanTell
  PROVE  UpdateInv /\ [PatchNext]_patchVars => UpdateInv'
<1> SUFFICES ASSUME UpdateInv, [PatchNext]_patchVars, NEW k \in Tasks
             PROVE  Concluded(k)'
  BY PatchInvStep DEF UpdateInv
<1>1. CASE PatchNext
  BY <1>1, TaskConcluded, OutsideConcluded DEF PatchNext
<1>2. CASE UNCHANGED patchVars
  <2>1. UNCHANGED <<pc, result, stage, outcome, phase, patched, applies, wire>>
    BY <1>2 DEF patchVars, readVars, vars, network, loop, patch, document
  <2>2. WritesOf(k)' = WritesOf(k)
    BY <2>1 DEF WritesOf
  <2> QED
    BY <2>1, <2>2, KeptConcluded DEF UpdateInv
<1> QED
  BY <1>1, <1>2

(* The steps that the caller cannot see.                                   *)
LEMMA UpdateSame ==
  /\ Update!vars = <<CallMap, AppliedMap, patched>>
  /\ Update!vars' = <<CallMap', AppliedMap', patched'>>
BY DEF Update!vars

LEMMA UpdateStutters ==
  ASSUME UNCHANGED <<patched, applies>>,
         \A k \in Tasks : CallPhase(k)' = CallPhase(k)
  PROVE  UNCHANGED Update!vars
<1>1. UNCHANGED <<CallMap, AppliedMap>>
  BY DEF CallMap, AppliedMap, Applied
<1> QED
  BY <1>1, UpdateSame

LEMMA UpdateOpens ==
  ASSUME UpdateInv, NEW t \in Tasks, StartPatch(t)
  PROVE  Update!Open(t)
<1>1. /\ phase[t] = "idle" /\ phase' = [phase EXCEPT ![t] = "read"]
      /\ UNCHANGED <<patched, applies>> /\ phase \in [Tasks -> Phases]
  BY DEF StartPatch, Step, document, UpdateInv, PatchInv, PatchBase,
         PatchTypes
<1>2. CallMap' = [CallMap EXCEPT ![t] = "open"] /\ CallMap[t] = "idle"
  BY <1>1 DEF CallMap, CallPhase
<1>3. AppliedMap' = AppliedMap
  BY <1>1 DEF AppliedMap, Applied
<1> QED
  BY <1>1, <1>2, <1>3 DEF Update!Open

LEMMA UpdateCloses ==
  ASSUME CanTell, UpdateInv, UpdateInv', NEW t \in Tasks,
         ReadFails(t) \/ PatchReturns(t) \/ RepatchReturns(t)
  PROVE  \E r \in Update!Outcomes : Update!Close(t, r)
<1>1. PatchTypes /\ outcome[t] \in Results /\ result[t] \in Results
  BY DEF UpdateInv, PatchInv, PatchBase, LoopTypeOK, PartInv, TypeInv, TypeOK
<1>2. /\ phase[t] \in {"read", "patch", "reread", "repatch"}
      /\ phase' = [phase EXCEPT ![t] = "done"] /\ UNCHANGED applies
  BY DEF ReadFails, PatchReturns, RepatchReturns, Report, Step, document
<1>3. PICK r \in Results : patched' = [patched EXCEPT ![t] = r]
  BY <1>1 DEF ReadFails, PatchReturns, RepatchReturns, Report
<1>4. phase'[t] = "done" /\ patched'[t] = r
  BY <1>1, <1>2, <1>3 DEF PatchTypes
<1>5. /\ r # "none"
      /\ r \notin Doubted \cup {"ok"} =>
           applies[t][1] = 0 /\ applies[t][2] = 0
      /\ r = "ok" => applies[t][1] # 0 \/ applies[t][2] # 0
  <2>1. Concluded(t)' /\ Told(t)'
    BY DEF UpdateInv, PatchInv, PatchOK
  <2>2. r \notin Doubted \cup {"ok"} =>
          \/ TransportRetries = 0 /\ Refused(r)
          \/ r = "mismatch"
    BY DEF Doubted, Refused, Certain
  <2> QED
    BY <1>2, <1>4, <2>1, <2>2 DEF Concluded, Final, Told, Moot
<1>6. applies[t][1] \in Nat /\ applies[t][2] \in Nat
  BY CallTypes DEF UpdateInv, PatchInv
<1>7. /\ AppliedMap' = AppliedMap
      /\ r = "ok" => AppliedMap[t] > 0
      /\ r \notin Doubted \cup {"ok"} => AppliedMap[t] = 0
  BY <1>2, <1>5, <1>6 DEF AppliedMap, Applied
<1>8. CallMap[t] = "open" /\ CallMap' = [CallMap EXCEPT ![t] = "closed"]
  BY <1>1, <1>2 DEF CallMap, CallPhase, PatchTypes
<1>9. r \in Update!Outcomes
  BY <1>5 DEF Update!Outcomes, Results, AppErrors
<1>10. Update!Close(t, r)
  BY <1>3, <1>7, <1>8 DEF Update!Close
<1> QED
  BY <1>9, <1>10

(* A patch that takes effect is the command being carried out.             *)
LEMMA AtMostOnce ==
  ASSUME PatchInv, CanTell, NEW t \in Tasks
  PROVE  Applied(t) \in Nat /\ Applied(t) <= 1
<1>1. /\ applies[t][1] \in Nat /\ applies[t][2] \in Nat
      /\ applies[t][1] <= 1 /\ applies[t][2] <= 1
      /\ applies[t][1] = 0 \/ applies[t][2] = 0
  BY CallTypes DEF PatchInv, PatchOK, Effects, Marks, Moot
<1> QED
  BY <1>1 DEF Applied

LEMMA UpdateExecutes ==
  ASSUME CanTell, UpdateInv, UpdateInv', NEW m \in wire,
         ServerPatches(m), UNCHANGED patch
  PROVE  Update!Execute(m.task)
<1> DEFINE t == m.task
<1>1. t \in Tasks /\ m \in WritesOf(t)
  BY DEF UpdateInv, PatchInv, PatchBase, PartInv, TypeInv, TypeOK, Requests,
         WritesOf, ServerPatches
<1>2. UNCHANGED <<phase, patched>>
  BY DEF patch
<1>3. Applied(t)' = Applied(t) + 1 /\ \A k \in Tasks \ {t} :
                                      Applied(k)' = Applied(k)
  <2>1. PICK q \in Rounds : applies' = [applies EXCEPT ![t][q] = @ + 1]
    <3>1. RoundOf(m) \in Rounds
      BY DEF RoundOf, Rounds
    <3>2. applies' = [applies EXCEPT ![t][RoundOf(m)] = @ + 1]
      BY DEF ServerPatches
    <3> QED
      BY <3>1, <3>2
  <2>2. /\ applies \in [Tasks -> [Rounds -> Nat]] /\ q \in {1, 2}
        /\ 1 \in Rounds /\ 2 \in Rounds
    BY DEF UpdateInv, PatchInv, PatchBase, PatchTypes, Rounds
  <2>3. /\ \A k \in Tasks \ {t} : applies'[k] = applies[k]
        /\ \A i \in Rounds \ {q} : applies'[t][i] = applies[t][i]
        /\ applies'[t][q] = applies[t][q] + 1
    BY <1>1, <2>1, <2>2
  <2>4. applies[t][1] \in Nat /\ applies[t][2] \in Nat
    BY <1>1, <2>2
  <2> HIDE DEF t
  <2> QED
    BY <2>2, <2>3, <2>4 DEF Applied
<1>4. Applied(t) \in Nat /\ Applied(t)' <= 1
  <2>1. /\ applies'[t][1] \in Nat /\ applies'[t][2] \in Nat
        /\ applies'[t][1] <= 1 /\ applies'[t][2] <= 1
        /\ applies'[t][1] = 0 \/ applies'[t][2] = 0
    BY <1>1 DEF UpdateInv, PatchInv, PatchBase, PatchTypes, PatchOK, Effects,
                Marks, Moot, Rounds
  <2> QED
    BY <1>1, <2>1, AtMostOnce DEF UpdateInv, Applied
<1>5. Applied(t) < 1 /\ AppliedMap[t] < 1 
      /\ AppliedMap' = [AppliedMap EXCEPT ![t] = @ + 1]
  <2>1. Applied(t) < 1 /\ AppliedMap[t] = Applied(t)
    <3>1. Applied(t)' <= 1 /\ Applied(t)' = Applied(t) + 1
      BY <1>3, <1>4
    <3>2. AppliedMap[t] = Applied(t)
      BY <1>1 DEF AppliedMap
    <3> HIDE DEF t
    <3> QED
      BY <1>4, <3>1, <3>2
  <2>2. AppliedMap' = [k \in Tasks |-> applies'[k][1] + applies'[k][2]]
    BY DEF AppliedMap, Applied
  <2>3. /\ applies'[t][1] + applies'[t][2] = AppliedMap[t] + 1
        /\ \A k \in Tasks \ {t} :
             applies'[k][1] + applies'[k][2] = AppliedMap[k]
    BY <1>1, <1>3, <2>1 DEF AppliedMap, Applied
  <2>4. AppliedMap = [k \in Tasks |-> AppliedMap[k]]
    BY DEF AppliedMap
  <2> HIDE DEF t
  <2> QED
    BY <1>1, <2>1, <2>2, <2>3, <2>4
<1>6. phase[t] = "done" => patched[t] \in Doubted
  <2>1. /\ Told(t) /\ Concluded(t) /\ patched[t] \in Results
        /\ applies[t][1] \in Nat /\ applies[t][2] \in Nat
    BY <1>1, CallTypes
       DEF UpdateInv, PatchInv, PatchOK, PatchBase, PatchTypes
  <2>2. CASE TransportRetries = 0
    BY <1>1, <2>1, <2>2 DEF Concluded, Final, Certain, Doubted
  <2>3. CASE TransportRetries # 0
    <3>1. patched[t] # "ok"
      BY <1>5, <2>1 DEF Told, Applied
    <3>2. patched[t] # "mismatch"
      <4>1. detail[t][RoundOf(m)].base = version /\ RoundOf(m) \in {1, 2}
        BY DEF ServerPatches, RoundOf
      <4>2. version \in Nat
        BY DEF UpdateInv, PatchInv, PatchBase, PatchTypes
      <4> QED
        BY <2>1, <4>1, <4>2 DEF Told, Moot
    <3> QED
      BY <2>1, <2>3, <3>1, <3>2 DEF Doubted
  <2> QED
    BY <2>2, <2>3
<1>7. /\ CallMap' = CallMap
      /\ \/ CallMap[t] = "open"
         \/ CallMap[t] = "closed" /\ patched[t] \in Doubted
  <2>1. CallMap' = CallMap
    BY <1>2 DEF CallMap, CallPhase
  <2>2. phase[t] # "idle"
    BY <1>1 DEF UpdateInv, PatchInv, PatchOK, Sent
  <2> QED
    BY <1>1, <1>6, <2>1, <2>2 DEF CallMap, CallPhase
<1> QED
  BY <1>2, <1>5, <1>7 DEF Update!Execute

(* patch_with_version_retry implements OnceCommand when the server can tell*)
(* a repeated post or there is none: the update is made at most once, and  *)
(* "ok" means just once and never again.  Without transport retries every  *)
(* outcome but a transport failure or a cancellation is certain, the errors*)
(* of the second read included; with them a version mismatch still is.     *)
THEOREM PatchImplementsOnce ==
  ASSUME CanTell
  PROVE  PatchSpec => ImplementsUpdate
<1>1. PatchInit => UpdateInv
  <2> SUFFICES ASSUME PatchInit, NEW t \in Tasks PROVE Concluded(t)
    BY PatchInvInit DEF UpdateInv
  <2> QED
    BY DEF PatchInit, ReadInit, Init, Concluded, Final, Patching
<1>2. PatchInit => Update!Init
  BY DEF PatchInit, Update!Init, CallMap, CallPhase, AppliedMap, Applied,
         Rounds
<1>3. UpdateInv /\ UpdateInv' /\ [PatchNext]_patchVars
        => [Update!Next]_(Update!vars)
  <2> SUFFICES ASSUME UpdateInv, UpdateInv', [PatchNext]_patchVars
               PROVE  Update!Next \/ UNCHANGED Update!vars
    OBVIOUS
  <2>1. CASE UNCHANGED <<phase, patched, applies>>
    BY <2>1, UpdateStutters DEF CallPhase
  <2>2. ASSUME NEW t \in Tasks, StartPatch(t)
        PROVE  Update!Next
    BY <2>2, UpdateOpens DEF Update!Next
  <2>3. ASSUME NEW t \in Tasks, PatchStep(t)
        PROVE  Update!Next \/ UNCHANGED Update!vars
    <3>1. CASE ReadFails(t) \/ PatchReturns(t) \/ RepatchReturns(t)
      BY <3>1, UpdateCloses DEF Update!Next
    <3>2. CASE ReadReturns(t) \/ RereadReturns(t) \/ RebuildOnMismatch(t)
      <4>1. /\ UNCHANGED <<patched, applies>>
            /\ \E p \in {"patch", "reread", "repatch"} : Step(t, p)
            /\ phase[t] \in {"read", "patch", "reread"}
        BY <3>2 DEF ReadReturns, RereadReturns, RebuildOnMismatch,
                    ReadAgain, Build, document
      <4>2. \A k \in Tasks : CallPhase(k)' = CallPhase(k)
        BY <4>1 DEF Step, CallPhase, UpdateInv, PatchInv, PatchBase,
                    PatchTypes
      <4> QED
        BY <4>1, <4>2, UpdateStutters
    <3>3. CASE ReadStep(t) /\ UNCHANGED <<patch, got, document>>
      BY <2>1, <3>3 DEF patch, document
    <3> QED
      BY <2>3, <3>1, <3>2, <3>3 DEF PatchStep
  <2>4. ASSUME NEW t \in Tasks,
               Interrupt(t) /\ UNCHANGED <<patch, got, document>>
        PROVE  Update!Next \/ UNCHANGED Update!vars
    BY <2>1, <2>4 DEF patch, document
  <2>5. CASE DocumentStep
    <3>1. UNCHANGED <<phase, patched>> /\ UNCHANGED patch
      BY <2>5 DEF DocumentStep, patch
    <3>2. ASSUME NEW m \in wire, ServerPatches(m)
          PROVE  Update!Next
      <4>1. m.task \in Tasks
        BY DEF UpdateInv, PatchInv, PatchBase, PartInv, TypeInv, TypeOK,
               Requests
      <4> QED
        BY <3>1, <3>2, <4>1, UpdateExecutes DEF Update!Next
    <3>3. CASE UNCHANGED applies
      BY <2>1, <3>1, <3>3
    <3> QED
      BY <2>5, <3>2, <3>3
         DEF DocumentStep, ServerRefuses, ServerReads, SomebodyPatches,
             Replicate, document
  <2>6. CASE DeploymentStep
    BY <2>1, <2>6 DEF DeploymentStep, patch, document
  <2>7. CASE UNCHANGED patchVars
    BY <2>1, <2>7 DEF patchVars, patch, document
  <2> QED
    BY <2>2, <2>3, <2>4, <2>5, <2>6, <2>7 DEF PatchNext
<1>4. UpdateInv /\ [PatchNext]_patchVars => UpdateInv'
  BY UpdateInvStep
<1> QED
  BY <1>1, <1>2, <1>3, <1>4, PTL DEF PatchSpec, ImplementsUpdate, Update!Spec
=============================================================================
