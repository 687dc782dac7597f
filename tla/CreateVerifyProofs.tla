------------------------- MODULE CreateVerifyProofs -------------------------
(***************************************************************************)
(* Theorems about CreateVerify, for every set of tasks, servers, layouts   *)
(* and retry limits: the types, that a create that reports success leaves  *)
(* the document in the database, and that without transport retries a      *)
(* create that was refused has not happened and cannot happen any more.    *)
(***************************************************************************)
EXTENDS CreateVerify, ReadFailoverProofs

CreateTypes ==
  /\ verify \in BOOLEAN
  /\ phase \in [Tasks -> Phases]
  /\ posted \in [Tasks -> Results]
  /\ created \in [Tasks -> Results]
  /\ stored \in Tasks \cup {Nobody, Somebody}
  /\ applied \subseteq Servers

(* Nobody has been told that the document is there.                        *)
Untold(t) ==
  /\ reply[t] # "ok" /\ result[t] # "ok" /\ outcome[t] # "ok"
  /\ posted[t] # "ok" /\ created[t] # "ok"

StoredInv == stored = Nobody => applied = {} /\ \A t \in Tasks : Untold(t)

CreateBase == PartInv /\ LoopTypeOK /\ CreateTypes /\ StoredInv

(* Where the read, the engine and the create are, together.                *)
Control(t) ==
  /\ phase[t] = "idle" => pc[t] = "idle" /\ stage[t] = "idle"
  /\ phase[t] = "write" =>
       stage[t] = "idle" /\ job[t] = CreateJob /\ pc[t] # "idle"
  /\ phase[t] = "sleep" => pc[t] = "done" /\ stage[t] = "idle"
  /\ phase[t] = "check" => stage[t] # "idle"
  /\ phase[t] \in {"exists", "check"} /\ stage[t] \in {"idle", "done"}
       => pc[t] = "done"
  /\ phase[t] = "done" => pc[t] = "done" /\ stage[t] \in {"idle", "done"}

(* Without transport retries the one create a caller has on its way is the *)
(* one it waits for, or has given up on; and it has been stored only if the*)
(* caller is told so or has given up.                                      *)
Pending(t) ==
  /\ \A m \in WritesOf(t) : Current(m) \/ GivenUp(t)
  /\ stored = t => \/ pc[t] = "post" /\ reply[t] = "ok"
                   \/ pc[t] = "done" /\ result[t] = "ok"
                   \/ GivenUp(t)

Ambiguous == {"transport", "cancelled"}

Returned(t) ==
  posted[t] \notin Ambiguous =>
    WritesOf(t) = {} /\ (stored = t => posted[t] = "ok")

Lone(t) ==
  /\ phase[t] = "idle" => WritesOf(t) = {} /\ stored # t
  /\ phase[t] = "write" => Pending(t)
  /\ phase[t] \notin {"idle", "write"} => Returned(t)

CreateOK(t) == TurnJob(t) /\ Control(t) /\ (TransportRetries = 0 => Lone(t))

CreateInv == CreateBase /\ \A t \in Tasks : CreateOK(t)
-----------------------------------------------------------------------------
(***************************************************************************)
(* The steps of the composition as steps of the engine and of the loop.    *)
(***************************************************************************)
LEMMA CreateJobType == CreateJob \in Jobs /\ CreateJob.kind = "write"
BY CreateAssumption DEF CreateJob, ReadJob

LEMMA CreateInitBase == CreateInit => CreateBase
<1> SUFFICES ASSUME CreateInit PROVE CreateBase
  OBVIOUS
<1>1. PartInv /\ LoopTypeOK
  BY PartInit, LoopInit DEF CreateInit, ReadInit
<1>2. CreateTypes
  BY DEF CreateInit, CreateTypes, Phases, Results, AppErrors
<1>3. StoredInv
  BY DEF CreateInit, ReadInit, Init, StoredInv, Untold
<1> QED
  BY <1>1, <1>2, <1>3 DEF CreateBase

(* What a caller does to the engine in a step of its create.               *)
LEMMA CreateTaskMoves ==
  ASSUME LoopTypeOK, NEW t \in Tasks,
         StartCreate(t) \/ CreateStep(t) \/ CreateInterrupt(t)
  PROVE  TaskMoves(t)
<1>1. CASE StartCreate(t)
  BY <1>1, CreateJobType DEF StartCreate, TaskMoves
<1>2. CASE ReadStep(t) \/ Interrupt(t) \/ ReadBack(t)
  BY <1>2, ReadStepMoves DEF ReadBack
<1>3. CASE UNCHANGED vars
  BY <1>3 DEF TaskMoves
<1> QED
  BY <1>1, <1>2, <1>3
     DEF CreateStep, CreateInterrupt, CreateReturns, ReadBackReturns,
         readVars

LEMMA CreateLoop ==
  ASSUME PartInv, LoopTypeOK, NEW t \in Tasks, UNCHANGED policy,
         StartCreate(t) \/ CreateStep(t) \/ CreateInterrupt(t)
  PROVE  LoopTypeOK' /\ \A k \in Tasks \ {t} : LoopSame(k)
<1>1. CASE ReadStep(t) \/ Interrupt(t) \/ ReadBack(t)
  BY <1>1, LoopType, LoopFrame DEF ReadBack
<1>2. CASE UNCHANGED <<loop, steady>>
  BY <1>2, LoopOutside DEF loop, LoopSame
<1> QED
  BY <1>1, <1>2
     DEF StartCreate, CreateStep, CreateInterrupt, CreateReturns,
         ReadBackReturns, readVars

(* What each step of a create does to its own variables.                   *)
LEMMA CreateOwn ==
  ASSUME CreateTypes, LoopTypeOK, NEW t \in Tasks, result[t] \in Results,
         StartCreate(t) \/ CreateStep(t) \/ CreateInterrupt(t)
  PROVE  /\ phase' \in [Tasks -> Phases]
         /\ posted' \in [Tasks -> Results]
         /\ created' \in [Tasks -> Results]
         /\ UNCHANGED database
         /\ \A k \in Tasks \ {t} :
              /\ phase'[k] = phase[k] /\ posted'[k] = posted[k]
              /\ created'[k] = created[k]
         /\ posted'[t] \in {posted[t], result[t]}
         /\ created'[t] \in {created[t], result[t], outcome[t], posted[t],
                             "cancelled"}
<1> USE DEF CreateTypes, LoopTypeOK, Phases, Step, Report
<1>1. CASE StartCreate(t)
  BY <1>1 DEF StartCreate
<1>2. CASE UNCHANGED <<create, database>>
  BY <1>2 DEF create
<1>3. CASE CreateReturns(t)
  BY <1>3 DEF CreateReturns
<1>4. CASE ReadBack(t)
  BY <1>4 DEF ReadBack
<1>5. CASE ReadBackReturns(t)
  BY <1>5 DEF ReadBackReturns
<1>6. CASE CreateInterrupt(t) /\ phase[t] = "sleep"
             /\ Report(t, "cancelled") /\ UNCHANGED <<posted, database>>
  BY <1>6 DEF Results
<1> QED
  BY <1>1, <1>2, <1>3, <1>4, <1>5, <1>6 DEF CreateStep, CreateInterrupt

(* A caller is told ok by a server, or by the call or the read it made.    *)
LEMMA UntoldTask ==
  ASSUME TypeInv, LoopTypeOK, NEW t \in Tasks, Untold(t),
         StartCreate(t) \/ CreateStep(t) \/ CreateInterrupt(t)
  PROVE  reply'[t] # "ok" /\ result'[t] # "ok" /\ outcome'[t] # "ok"
<1>1. reply'[t] # "ok" /\ result'[t] # "ok"
  <2>1. TaskMoves(t)
    BY CreateTaskMoves
  <2>2. CASE \E j \in Jobs : Begin(t, j)
    BY <2>2, BeginFacts
  <2>3. CASE ClientStep(t) \/ Cancel(t)
    BY <2>3, ClientSteps DEF Untold, Posts, TakesReply, StopsShort, GoesOn
  <2>4. CASE UNCHANGED vars
    BY <2>4 DEF vars, network, Untold
  <2> QED
    BY <2>1, <2>2, <2>3, <2>4 DEF TaskMoves
<1>2. outcome'[t] # "ok"
  <2>1. CASE ReadStep(t)
    BY <2>1, ReadTurns
       DEF EngineStep, BeginsTurn, EndsTurn, loop, Untold
  <2>2. CASE UNCHANGED outcome
    BY <2>2 DEF Untold
  <2> QED
    BY <2>1, <2>2
       DEF StartCreate, CreateStep, CreateReturns, ReadBack, StartRead,
           ReadBackReturns, CreateInterrupt, Interrupt, readVars, loop
<1> QED
  BY <1>1, <1>2

LEMMA TaskBase ==
  ASSUME CreateBase, NEW t \in Tasks, UNCHANGED <<policy, verify>>,
         StartCreate(t) \/ CreateStep(t) \/ CreateInterrupt(t)
  PROVE  CreateBase'
<1>1. TaskMoves(t) /\ result[t] \in Results
  BY CreateTaskMoves DEF CreateBase, PartInv, TypeInv, TypeOK
<1>2. PartInv' /\ LoopTypeOK'
  BY <1>1, PartTask, CreateLoop DEF CreateBase
<1>3. CreateTypes'
  BY <1>1, CreateOwn DEF CreateBase, CreateTypes, database
<1>4. StoredInv'
  <2>1. UNCHANGED database
    BY <1>1, CreateOwn DEF CreateBase
  <2>2. SUFFICES ASSUME stored = Nobody, NEW k \in Tasks
                 PROVE  Untold(k)'
    BY <2>1 DEF CreateBase, StoredInv, database
  <2>3. Untold(k) /\ Untold(t)
    BY <2>2 DEF CreateBase, StoredInv
  <2>4. CASE k = t
    BY <1>1, <2>3, <2>4, CreateOwn, UntoldTask
       DEF CreateBase, PartInv, Untold
  <2>5. CASE k # t
    <3>1. Same(k) /\ reply'[k] = reply[k] /\ LoopSame(k)
      BY <1>1, <2>5, TaskFrame, TaskWire, CreateLoop
         DEF CreateBase, PartInv
    <3>2. posted'[k] = posted[k] /\ created'[k] = created[k]
      BY <1>1, <2>5, CreateOwn DEF CreateBase
    <3> QED
      BY <2>3, <3>1, <3>2 DEF Untold, Same, LoopSame
  <2> QED
    BY <2>4, <2>5
<1> QED
  BY <1>2, <1>3, <1>4 DEF CreateBase

(***************************************************************************)
(* The database.                                                           *)
(***************************************************************************)
(* A server that answers a create or a read, and what it does about it.    *)
CreateAnswers(m, r) ==
  /\ ServerAnswers(m, r)
  /\ \/ UNCHANGED database
     \/ /\ r = "ok" /\ stored = Nobody /\ stored' = m.task
        /\ m.job.kind = "write"
        /\ applied' = {Host[m.url]} /\ Host[m.url] \in Servers
  /\ r = "ok" => stored' # Nobody
  /\ r = "ok" /\ m.job.kind = "write" => stored' = m.task

LEMMA CreatesAnswer ==
  ASSUME CreateBase, NEW m \in wire,
         \/ ServerCreates(m) \/ ServerReads(m)
         \/ (ServerStale(m) \/ ServerBounces(m)) /\ UNCHANGED database
  PROVE  \E r \in Replies : CreateAnswers(m, r)
<1>1. {"ok", "exists", "appError", "missing", "stale", "wrongMachine"}
        \subseteq Replies
  BY DEF Replies, AppErrors
<1>2. m.task \in Tasks /\ Nobody \notin Tasks
  BY CreateAssumption DEF CreateBase, PartInv, TypeInv, TypeOK, Requests
<1>3. CASE ServerCreates(m)
  <2>1. /\ m.job.kind = "write" /\ Host[m.url] \in Servers
        /\ Serves(known[Host[m.url]], Host[m.url], m.job)
    BY <1>3 DEF ServerCreates, Accepts
  <2>2. CASE /\ stored = Nobody /\ ServerActs(m, "ok")
             /\ stored' = m.task /\ applied' = {Host[m.url]}
             /\ ran' = [ran EXCEPT ![m.task] = @ + 1]
    <3>1. CreateAnswers(m, "ok")
      BY <1>2, <2>1, <2>2 DEF CreateAnswers, ServerAnswers
    <3> QED
      BY <1>1, <3>1
  <2>3. CASE stored # Nobody /\ ServerActs(m, "exists")
               /\ UNCHANGED <<ran, database>>
    <3>1. CreateAnswers(m, "exists")
      BY <2>1, <2>3 DEF CreateAnswers, ServerAnswers
    <3> QED
      BY <1>1, <3>1
  <2>4. CASE stored = m.task /\ ServerActs(m, "ok")
               /\ UNCHANGED <<ran, database>>
    <3>1. CreateAnswers(m, "ok")
      BY <1>2, <2>1, <2>4 DEF CreateAnswers, ServerAnswers, database
    <3> QED
      BY <1>1, <3>1
  <2>5. CASE ServerActs(m, "appError") /\ UNCHANGED <<ran, database>>
    <3>1. CreateAnswers(m, "appError")
      BY <2>1, <2>5 DEF CreateAnswers, ServerAnswers
    <3> QED
      BY <1>1, <3>1
  <2> QED
    BY <1>3, <2>2, <2>3, <2>4, <2>5 DEF ServerCreates
<1>4. CASE ServerReads(m)
  <2>1. PICK r \in {"ok", "missing"} :
          /\ ServerActs(m, r)
          /\ r = "ok" => applied # {} \/ stored # Nobody
    BY <1>4 DEF ServerReads
  <2>2. r = "ok" => stored # Nobody
    BY <2>1 DEF CreateBase, StoredInv
  <2>3. CreateAnswers(m, r)
    BY <1>4, <2>1, <2>2
       DEF ServerReads, Accepts, CreateAnswers, ServerAnswers, database
  <2> QED
    BY <1>1, <2>3
<1>5. CASE (ServerStale(m) \/ ServerBounces(m)) /\ UNCHANGED database
  <2>1. \E r \in {"stale", "wrongMachine"} : CreateAnswers(m, r)
    BY <1>5 DEF ServerStale, ServerBounces, CreateAnswers, ServerAnswers
  <2> QED
    BY <1>1, <2>1
<1> QED
  BY <1>3, <1>4, <1>5

LEMMA AnswerBase ==
  ASSUME CreateBase, UNCHANGED <<policy, verify, loop, steady, create>>,
         NEW m \in wire, NEW r \in Replies, CreateAnswers(m, r)
  PROVE  CreateBase'
<1>1. PartInv' /\ LoopTypeOK'
  BY PartMove, LoopOutside DEF CreateAnswers, EngineMove, CreateBase
<1>2. /\ \A k \in Tasks :
           /\ result'[k] = result[k]
           /\ reply'[k] = IF k = m.task /\ Current(m) THEN r ELSE reply[k]
      /\ m.task \in Tasks /\ Nobody \notin Tasks
  BY ServerFrame, CreateAssumption
     DEF CreateAnswers, ServerAnswers, Same, CreateBase, PartInv
<1>3. CreateTypes'
  BY <1>2 DEF CreateAnswers, create, database, CreateBase, CreateTypes
<1>4. StoredInv'
  BY <1>2 DEF CreateAnswers, create, database, loop, CreateBase, StoredInv,
              Untold
<1> QED
  BY <1>1, <1>3, <1>4 DEF CreateBase

(* The replicas catch up, somebody else creates the document, the          *)
(* deployment moves on: nothing of a caller changes.                       *)
LEMMA WorldBase ==
  ASSUME CreateBase, UNCHANGED <<policy, verify, create>>,
         \/ /\ SomebodyCreates \/ \E s \in Servers : Replicate(s)
            /\ UNCHANGED <<loop, steady>>
         \/ DeploymentStep
  PROVE  /\ CreateBase'
         /\ stored' = stored \/ stored' = Somebody
         /\ UNCHANGED <<pc, job, result, reply, serial, wire, loop>>
<1>1. EngineMove /\ LoopTypeOK' /\ UNCHANGED loop
  BY LoopOutside
     DEF SomebodyCreates, Replicate, DeploymentStep, EngineMove, CreateBase
<1>2. PartInv'
  BY <1>1, PartMove DEF CreateBase
<1>3. UNCHANGED <<pc, job, result, reply, serial, wire>>
  BY WorldFrame DEF SomebodyCreates, Replicate, DeploymentStep,
                    ServeEstablish, network
<1>4. /\ stored' = stored \/ stored' = Somebody
      /\ stored' = Nobody => stored = Nobody /\ applied' = applied
      /\ applied' \subseteq Servers
  BY CreateAssumption
     DEF SomebodyCreates, Replicate, DeploymentStep, database, CreateBase,
         CreateTypes
<1>5. CreateTypes' /\ StoredInv'
  BY <1>1, <1>3, <1>4
     DEF CreateBase, CreateTypes, StoredInv, Untold, create, loop
<1> QED
  BY <1>1, <1>2, <1>3, <1>4, <1>5 DEF CreateBase

LEMMA CreateSteps ==
  ASSUME CreateBase, CreateNext
  PROVE  \/ \E t \in Tasks :
              StartCreate(t) \/ CreateStep(t) \/ CreateInterrupt(t)
         \/ /\ UNCHANGED <<loop, steady, create>>
            /\ \E m \in wire, r \in Replies : CreateAnswers(m, r)
         \/ /\ UNCHANGED create
            /\ \/ /\ SomebodyCreates \/ \E s \in Servers : Replicate(s)
                  /\ UNCHANGED <<loop, steady>>
               \/ DeploymentStep
<1>1. CASE \E t \in Tasks :
             StartCreate(t) \/ CreateStep(t) \/ CreateInterrupt(t)
  BY <1>1
<1>2. CASE DatabaseStep
  <2>1. UNCHANGED <<loop, steady, create>>
    BY <1>2 DEF DatabaseStep
  <2>2. CASE \E m \in wire : ServerCreates(m) \/ ServerReads(m)
    BY <2>1, <2>2, CreatesAnswer
  <2>3. CASE \E m \in wire :
               (ServerStale(m) \/ ServerBounces(m)) /\ UNCHANGED database
    BY <2>1, <2>3, CreatesAnswer
  <2>4. CASE SomebodyCreates \/ \E s \in Servers : Replicate(s)
    BY <2>1, <2>4
  <2> QED
    BY <1>2, <2>2, <2>3, <2>4 DEF DatabaseStep
<1>3. CASE DeploymentStep
  BY <1>3 DEF DeploymentStep
<1> QED
  BY <1>1, <1>2, <1>3 DEF CreateNext

LEMMA CreateBaseStep == CreateBase /\ [CreateNext]_createVars => CreateBase'
<1> SUFFICES ASSUME CreateBase, [CreateNext]_createVars PROVE CreateBase'
  OBVIOUS
<1>1. CASE CreateNext
  <2>1. UNCHANGED <<policy, verify>>
    BY <1>1 DEF CreateNext
  <2> QED
    BY <1>1, <2>1, CreateSteps, TaskBase, AnswerBase, WorldBase
<1>2. CASE UNCHANGED createVars
  <2>1. UNCHANGED <<vars, policy, loop, steady, verify, create, database>>
    BY <1>2 DEF createVars, readVars
  <2>2. PartInv' /\ LoopTypeOK'
    BY <2>1, PartMove, LoopOutside DEF EngineMove, CreateBase
  <2>3. CreateTypes' /\ StoredInv'
    BY <2>1 DEF vars, network, loop, create, database, CreateBase,
                CreateTypes, StoredInv, Untold
  <2> QED
    BY <2>2, <2>3 DEF CreateBase
<1> QED
  BY <1>1, <1>2

(* Every variable of the create and of the database keeps its type.        *)
THEOREM CreateTypeCorrect == CreateSpec => []CreateTypeOK
<1>1. CreateBase => CreateTypeOK
  BY DEF CreateBase, CreateTypes, PartInv, TypeInv, LoopTypeOK, ReadTypeOK,
         CreateTypeOK
<1> QED
  BY <1>1, CreateInitBase, CreateBaseStep, PTL DEF CreateSpec

(* A create that reports success leaves the document in the database,      *)
(* whether the post was answered, the document was read back from a replica*)
(* that may lag behind, or somebody else had stored it.                    *)
THEOREM SuccessIsStored == CreateSpec => []SuccessMeansStored
<1>1. CreateBase => SuccessMeansStored
  BY DEF CreateBase, StoredInv, Untold, SuccessMeansStored
<1> QED
  BY <1>1, CreateInitBase, CreateBaseStep, PTL DEF CreateSpec
-----------------------------------------------------------------------------
(***************************************************************************)
(* A refused create has not happened and cannot happen any more.           *)
(***************************************************************************)
LEMMA CreateInitOK == CreateInit => CreateInv
<1> SUFFICES ASSUME CreateInit, NEW t \in Tasks PROVE CreateOK(t)
  BY CreateInitBase DEF CreateInv
<1>1. TurnJob(t) /\ Control(t)
  BY DEF CreateInit, ReadInit, Init, TurnJob, Control
<1>2. Lone(t)
  BY CreateAssumption DEF CreateInit, ReadInit, Init, Lone, WritesOf
<1> QED
  BY <1>1, <1>2 DEF CreateOK

(* A task that keeps its place, and nobody posts for it.                   *)
LEMMA CreateFrame ==
  ASSUME NEW k \in Tasks, CreateOK(k),
         pc'[k] = pc[k], job'[k] = job[k], result'[k] = result[k],
         reply'[k] = reply[k], serial'[k] = serial[k],
         stage'[k] = stage[k], phase'[k] = phase[k], posted'[k] = posted[k],
         stored' = stored \/ stored' = Somebody,
         \A m \in wire' : m.task = k => m \in wire
  PROVE  CreateOK(k)'
<1>1. TurnJob(k)' /\ Control(k)'
  BY DEF CreateOK, TurnJob, Control
<1>2. ASSUME TransportRetries = 0
      PROVE  Lone(k)'
  <2>1. Lone(k)
    BY <1>2 DEF CreateOK
  <2>2. \A m \in WritesOf(k)' :
          m \in WritesOf(k) /\ (Current(m) <=> Current(m)')
    BY DEF WritesOf, Current
  <2>3. /\ stored' = k => stored = k
        /\ GivenUp(k)' <=> GivenUp(k)
    BY CreateAssumption DEF GivenUp
  <2>4. Pending(k) => Pending(k)'
    BY <2>2, <2>3 DEF Pending
  <2>5. Returned(k) => Returned(k)'
    BY <2>2, <2>3 DEF Returned
  <2>6. WritesOf(k) = {} => WritesOf(k)' = {}
    BY <2>2
  <2> QED
    BY <2>1, <2>3, <2>4, <2>5, <2>6 DEF Lone
<1> QED
  BY <1>1, <1>2 DEF CreateOK

(* A server answers: what it stores it stores for a caller that is told, or*)
(* has given up.                                                           *)
LEMMA AnswerOK ==
  ASSUME CreateInv, UNCHANGED <<loop, create>>,
         NEW m \in wire, NEW r \in Replies, CreateAnswers(m, r),
         NEW k \in Tasks
  PROVE  CreateOK(k)'
<1>1. /\ UNCHANGED <<pc, job, result, serial, stage, phase, posted>>
      /\ reply'[k] = IF k = m.task /\ Current(m) THEN r ELSE reply[k]
      /\ wire' = wire \ {m}
      /\ CreateOK(k)
  BY ServerFrame
     DEF CreateAnswers, ServerAnswers, ServerActs, loop, create, CreateInv,
         CreateBase, PartInv
<1>2. TurnJob(k)' /\ Control(k)'
  BY <1>1 DEF CreateOK, TurnJob, Control
<1>3. ASSUME TransportRetries = 0
      PROVE  Lone(k)'
  <2>1. Lone(k)
    BY <1>1, <1>3 DEF CreateOK
  <2>2. /\ \A x \in WritesOf(k)' : x \in WritesOf(k)
        /\ \A x : Current(x)' <=> Current(x)
        /\ GivenUp(k)' <=> GivenUp(k)
    BY <1>1 DEF WritesOf, Current, GivenUp
  <2>3. stored' = stored
          \/ (r = "ok" /\ stored' = m.task
                /\ (k = m.task => m \in WritesOf(k)))
    BY DEF CreateAnswers, database, WritesOf
  <2>4. reply[k] = "ok" => reply'[k] = "ok"
    BY <1>1 DEF CreateInv, CreateBase, PartInv, WireInv
  <2>5. Pending(k) => Pending(k)'
    <3>1. SUFFICES ASSUME Pending(k), stored' = k
                   PROVE  \/ pc'[k] = "post" /\ reply'[k] = "ok"
                          \/ pc'[k] = "done" /\ result'[k] = "ok"
                          \/ GivenUp(k)'
      BY <2>2 DEF Pending
    <3>2. CASE stored' = stored
      BY <1>1, <2>2, <2>4, <3>1, <3>2 DEF Pending
    <3>3. CASE r = "ok" /\ k = m.task /\ m \in WritesOf(k)
      <4>1. Current(m) \/ GivenUp(k)
        BY <3>1, <3>3 DEF Pending
      <4> QED
        BY <1>1, <2>2, <3>3, <4>1 DEF Current
    <3> QED
      BY <2>3, <3>1, <3>2, <3>3
  <2>6. WritesOf(k) = {} => WritesOf(k)' = {} /\ (stored' = k => stored = k)
    BY <2>2, <2>3
  <2>7. Returned(k) => Returned(k)'
    BY <1>1, <2>6 DEF Returned
  <2> QED
    BY <1>1, <2>1, <2>5, <2>6, <2>7 DEF Lone
<1> QED
  BY <1>2, <1>3 DEF CreateOK

(* A step of the engine: it belongs to the post of the create, or to the   *)
(* read that follows it.                                                   *)
LEMMA EngineOK ==
  ASSUME CreateBase, NEW t \in Tasks, CreateOK(t),
         ClientStep(t) \/ Cancel(t), TurnJob(t)',
         UNCHANGED <<loop, create, database>>
  PROVE  CreateOK(t)'
<1>1. pc[t] \in {"fetch", "route", "post"} /\ pc'[t] # "idle"
  BY AtRest, ClientSteps
     DEF Posts, TakesReply, StopsShort, GoesOn, CreateBase, PartInv
<1>2. /\ job' = job
      /\ UNCHANGED <<stage, phase, posted, stored>>
  BY ClientFrame DEF loop, create, database, CreateBase, PartInv
<1>3. phase[t] \in {"write", "exists", "check"}
  BY <1>1 DEF CreateOK, Control, CreateBase, CreateTypes, Phases
<1>4. phase[t] # "write" => stage[t] \in Turns
  BY <1>1, <1>3
     DEF CreateOK, Control, TurnJob, CreateBase, LoopTypeOK, Stages, Turns
<1>5. Control(t)'
  BY <1>1, <1>2, <1>3, <1>4 DEF CreateOK, Control, Turns
<1>6. ASSUME TransportRetries = 0
      PROVE  Lone(t)'
  <2>1. CASE phase[t] = "write"
    <3>1. Pending(t) /\ ~GivenUp(t)
      BY <1>1, <1>6, <2>1 DEF CreateOK, Lone, GivenUp
    <3>2. \A m \in WritesOf(t)' : Current(m)' \/ GivenUp(t)'
      BY <1>6, <3>1, LonePost DEF Pending, CreateBase
    <3>3. ASSUME stored = t
          PROVE  \/ pc'[t] = "done" /\ result'[t] = "ok"
                 \/ GivenUp(t)'
      <4>1. pc[t] = "post" /\ reply[t] = "ok"
        BY <1>1, <3>1, <3>3 DEF Pending
      <4> QED
        BY <1>6, <4>1, ClientSteps
           DEF Posts, TakesReply, StopsShort, GoesOn, GivenUp, CreateBase,
               PartInv
    <3>4. Pending(t)'
      BY <1>2, <3>2, <3>3 DEF Pending
    <3> QED
      BY <1>2, <2>1, <3>4 DEF Lone
  <2>2. CASE phase[t] # "write"
    <3>1. job[t].kind # "write"
      BY <1>4, <2>2, ReadsAreNoWrites DEF CreateOK, TurnJob, Turns
    <3>2. WritesOf(t)' = WritesOf(t)
      BY <3>1, NoWritePosted DEF CreateBase, PartInv
    <3>3. Returned(t)
      BY <1>3, <1>6, <2>2 DEF CreateOK, Lone
    <3> QED
      BY <1>2, <1>3, <2>2, <3>2, <3>3 DEF Lone, Returned
  <2> QED
    BY <2>1, <2>2
<1> QED
  BY <1>5, <1>6 DEF CreateOK

(* The read that follows goes on or starts over; it posts no create.       *)
LEMMA ReadingOK ==
  ASSUME CreateBase, NEW t \in Tasks, CreateOK(t), TurnJob(t)',
         phase'[t] \in {"exists", "check", "done"},
         phase[t] \notin {"idle", "write"},
         UNCHANGED <<wire, posted, stored>>, Control(t)'
  PROVE  CreateOK(t)'
BY DEF CreateOK, Lone, Returned, WritesOf

LEMMA TaskOK ==
  ASSUME CreateInv, NEW t \in Tasks,
         StartCreate(t) \/ CreateStep(t) \/ CreateInterrupt(t)
  PROVE  CreateOK(t)'
<1>1. CreateBase /\ CreateOK(t)
  BY DEF CreateInv
<1>2. PartInv /\ TypeInv /\ LoopTypeOK /\ CreateTypes
  BY <1>1 DEF CreateBase, PartInv
<1>3. CASE StartCreate(t)
  <2>1. phase[t] = "idle" /\ phase'[t] = "write" /\ Begin(t, CreateJob)
        /\ UNCHANGED <<stage, stored>>
    BY <1>2, <1>3 DEF StartCreate, Step, CreateTypes, loop, database
  <2>2. job'[t] = CreateJob /\ pc'[t] # "idle" /\ wire' = wire
    BY <1>2, <2>1, CreateJobType, BeginFacts
  <2>3. TurnJob(t)' /\ Control(t)'
    BY <1>1, <2>1, <2>2 DEF CreateOK, TurnJob, Control
  <2>4. Lone(t) => Lone(t)'
    BY <2>1, <2>2 DEF Lone, Pending, WritesOf
  <2> QED
    BY <1>1, <2>3, <2>4 DEF CreateOK
<1>4. CASE ReadStep(t) /\ UNCHANGED <<create, database>>
  <2>1. TurnJob(t)'
    BY <1>1, <1>2, <1>4, TurnJobStep DEF CreateOK
  <2>2. CASE EngineStep(t)
    BY <1>1, <1>4, <2>1, <2>2, EngineOK DEF EngineStep
  <2>3. CASE BeginsTurn(t)
    <3>1. stage[t] = "loop" /\ stage'[t] \in {"member", "sot"}
          /\ wire' = wire /\ UNCHANGED <<phase, posted, stored>>
      BY <1>2, <1>4, <2>3, BeginFacts DEF BeginsTurn, create, database
    <3>2. phase[t] \in {"exists", "check"}
      BY <1>1, <1>2, <3>1 DEF CreateOK, Control, CreateTypes, Phases
    <3>3. Control(t)'
      BY <3>1, <3>2 DEF Control
    <3> QED
      BY <1>1, <2>1, <3>1, <3>2, <3>3, ReadingOK
  <2>4. CASE EndsTurn(t)
    <3>1. /\ stage[t] \notin {"idle", "done"}
          /\ stage'[t] \in {"loop", "done"}
          /\ pc'[t] = pc[t] /\ wire' = wire
          /\ stage[t] \in Turns => pc[t] = "done"
          /\ UNCHANGED <<phase, posted, stored>>
      BY <1>4, <2>4 DEF EndsTurn, Turns, vars, network, create, database
    <3>2. phase[t] \in {"exists", "check"} /\ pc[t] = "done"
      BY <1>1, <1>2, <2>4, <3>1
         DEF CreateOK, Control, TurnJob, EndsTurn, CreateTypes, Phases
    <3>3. Control(t)'
      BY <3>1, <3>2 DEF Control
    <3> QED
      BY <1>1, <2>1, <3>1, <3>2, <3>3, ReadingOK
  <2> QED
    BY <1>2, <1>4, <2>2, <2>3, <2>4, ReadTurns
<1>5. CASE CreateReturns(t)
  <2>1. /\ phase[t] = "write" /\ pc[t] = "done"
        /\ posted'[t] = result[t]
        /\ phase'[t] \in {"exists", "sleep", "done"}
        /\ UNCHANGED <<pc, job, result, wire, stage, stored>>
    BY <1>2, <1>5
       DEF CreateReturns, Step, Report, CreateTypes, readVars, vars, locals,
           network, loop, database
  <2>2. TurnJob(t)' /\ Control(t)'
    BY <1>1, <2>1 DEF CreateOK, TurnJob, Control
  <2>3. ASSUME TransportRetries = 0
        PROVE  Returned(t)'
    <3>1. Pending(t) /\ \A m \in WritesOf(t) : ~Current(m)
      BY <1>1, <2>1, <2>3 DEF CreateOK, Lone, WritesOf, Current
    <3> QED
      BY <2>1, <3>1
         DEF Pending, Returned, GivenUp, Ambiguous, WritesOf
  <2> QED
    BY <2>1, <2>2, <2>3 DEF CreateOK, Lone
<1>6. CASE ReadBack(t)
  <2>1. /\ phase[t] \in {"exists", "sleep"}
        /\ phase'[t] \in {"exists", "check"}
        /\ stage'[t] = "ensure" /\ wire' = wire
        /\ UNCHANGED <<posted, stored>>
    BY <1>2, <1>6, JobsOfReads, BeginFacts
       DEF ReadBack, StartRead, Step, Goto, CreateTypes, LoopTypeOK, database
  <2>2. TurnJob(t)'
    BY <1>1, <1>2, <1>6, TurnJobStep DEF ReadBack, CreateOK
  <2>3. Control(t)'
    BY <2>1 DEF Control
  <2> QED
    BY <1>1, <2>1, <2>2, <2>3, ReadingOK
<1>7. CASE ReadBackReturns(t)
  <2>1. /\ phase[t] \in {"exists", "check"} /\ phase'[t] = "done"
        /\ stage[t] = "done"
        /\ UNCHANGED <<pc, job, wire, stage, posted, stored>>
    BY <1>2, <1>7
       DEF ReadBackReturns, Step, Report, CreateTypes, readVars, vars,
           locals, network, loop, database
  <2>2. TurnJob(t)' /\ Control(t)'
    BY <1>1, <2>1 DEF CreateOK, TurnJob, Control
  <2> QED
    BY <1>1, <2>1, <2>2, ReadingOK
<1>8. CASE Interrupt(t) /\ UNCHANGED <<create, database>>
  <2>1. TurnJob(t)'
    BY <1>1, <1>2, <1>8, TurnJobStep DEF CreateOK
  <2> QED
    BY <1>1, <1>8, <2>1, EngineOK DEF Interrupt
<1>9. CASE /\ phase[t] = "sleep" /\ Report(t, "cancelled")
           /\ UNCHANGED <<readVars, posted, database>>
  <2>1. /\ phase'[t] = "done"
        /\ UNCHANGED <<pc, job, wire, stage, posted, stored>>
    BY <1>2, <1>9
       DEF Step, Report, CreateTypes, readVars, vars, locals, network, loop,
           database
  <2>2. TurnJob(t)' /\ Control(t)'
    BY <1>1, <1>9, <2>1 DEF CreateOK, TurnJob, Control
  <2> QED
    BY <1>1, <1>9, <2>1, <2>2, ReadingOK
<1> QED
  BY <1>3, <1>4, <1>5, <1>6, <1>7, <1>8, <1>9
     DEF CreateStep, CreateInterrupt

LEMMA CreateInvStep == CreateInv /\ [CreateNext]_createVars => CreateInv'
<1> SUFFICES ASSUME CreateInv, [CreateNext]_createVars, NEW k \in Tasks
             PROVE  CreateOK(k)'
  BY CreateBaseStep DEF CreateInv
<1>1. CreateBase /\ CreateOK(k)
  BY DEF CreateInv
<1>2. PartInv /\ TypeInv /\ LoopTypeOK /\ CreateTypes
  BY <1>1 DEF CreateBase, PartInv
<1>3. ASSUME CreateNext, NEW t \in Tasks,
             StartCreate(t) \/ CreateStep(t) \/ CreateInterrupt(t)
      PROVE  CreateOK(k)'
  <2>1. CASE k = t
    BY <1>3, <2>1, TaskOK
  <2>2. CASE k # t
    <3>1. TaskMoves(t) /\ result[t] \in Results /\ policy' = policy
      BY <1>2, <1>3, CreateTaskMoves DEF CreateNext, TypeInv, TypeOK
    <3>2. Same(k) /\ reply'[k] = reply[k] /\ LoopSame(k)
          /\ \A m \in wire' : m.task = k => m \in wire
      BY <1>2, <1>3, <2>2, <3>1, TaskFrame, TaskWire, CreateLoop
    <3>3. phase'[k] = phase[k] /\ posted'[k] = posted[k] /\ stored' = stored
      BY <1>2, <1>3, <2>2, <3>1, CreateOwn DEF database
    <3> QED
      BY <1>1, <3>2, <3>3, CreateFrame DEF Same, LoopSame
  <2> QED
    BY <2>1, <2>2
<1>4. CASE CreateNext /\ UNCHANGED create
           /\ (\/ /\ SomebodyCreates \/ \E s \in Servers : Replicate(s)
                  /\ UNCHANGED <<loop, steady>>
               \/ DeploymentStep)
  <2>1. /\ stored' = stored \/ stored' = Somebody
        /\ UNCHANGED <<pc, job, result, reply, serial, wire, loop>>
    BY <1>1, <1>4, WorldBase DEF CreateNext
  <2> QED
    BY <1>1, <1>4, <2>1, CreateFrame DEF loop, create
<1>5. CASE CreateNext
  <2>1. CASE /\ UNCHANGED <<loop, steady, create>>
             /\ \E m \in wire, r \in Replies : CreateAnswers(m, r)
    BY <2>1, AnswerOK
  <2> QED
    BY <1>1, <1>3, <1>4, <1>5, <2>1, CreateSteps
<1>6. CASE UNCHANGED createVars
  <2>1. UNCHANGED <<pc, job, result, reply, serial, wire, stage, phase,
                    posted, stored>>
    BY <1>6 DEF createVars, readVars, vars, locals, network, loop, create,
                database
  <2> QED
    BY <1>1, <2>1, CreateFrame
<1> QED
  BY <1>5, <1>6

(* Without transport retries a create that was refused by the post itself  *)
(* is not what the database holds, and no request that could still store   *)
(* it is on its way, however the read that follows it, the other creators, *)
(* bounces and cancellations interleave.                                   *)
THEOREM RefusedStaysOut == CreateSpec => []RefusedCreateNeverLands
<1>1. CreateInv => RefusedCreateNeverLands
  BY DEF CreateInv, CreateOK, Lone, Returned, Ambiguous, WritesOf, Refusals,
         AppErrors, RefusedCreateNeverLands
<1> QED
  BY <1>1, CreateInitOK, CreateInvStep, PTL DEF CreateSpec
=============================================================================
