------------------------- MODULE ReadFailoverProofs -------------------------
(***************************************************************************)
(* Theorems about ReadFailover, for every set of tasks, servers, layouts   *)
(* and retry limits: the types, who has been asked when a read ends stale, *)
(* who has the last word under PREFER_SOT, and that every turn of the loop *)
(* finds its way.                                                          *)
(***************************************************************************)
EXTENDS ReadFailover, RoutedCommandBounds

(***************************************************************************)
(* The steps of a read as steps of the engine.                             *)
(***************************************************************************)
LEMMA JobsOfReads ==
  /\ Ensure \in Jobs /\ Refresh \in Jobs
  /\ ReadJob("readSot", NoCandidate) \in Jobs
  /\ \A c \in Candidates : ReadJob("read", c) \in Jobs
BY ReadJobsAssumption DEF ReadJobs

LoopTypeOK ==
  /\ policy \in Policies
  /\ stage \in [Tasks -> Stages]
  /\ left \in [Tasks -> SUBSET Candidates]
  /\ lastErr \in [Tasks -> BOOLEAN]
  /\ outcome \in [Tasks -> Results]
  /\ begunWith \in [Tasks -> Nat]
  /\ refusedBy \in [Tasks -> SUBSET Servers]
  /\ steady \in [Tasks -> BOOLEAN]

(* What one task does to the engine in a step of its read.                 *)
TaskMoves(t) ==
  \/ \E j \in Jobs : Begin(t, j)
  \/ ClientStep(t) \/ Cancel(t)
  \/ UNCHANGED vars

LEMMA ReadStepMoves ==
  ASSUME LoopTypeOK, NEW t \in Tasks,
         \/ RefreshFirst(t) \/ StartRead(t) \/ ReadStep(t) \/ Interrupt(t)
  PROVE  TaskMoves(t)
<1>1. CASE RefreshFirst(t)
  BY <1>1, JobsOfReads DEF RefreshFirst, TaskMoves
<1>2. CASE StartRead(t)
  BY <1>2, JobsOfReads DEF StartRead, TaskMoves
<1>3. CASE EngineStep(t) \/ Interrupt(t)
  BY <1>3 DEF EngineStep, Interrupt, TaskMoves
<1>4. CASE ListPrimaries(t) \/ MemberAnswers(t) \/ SotAnswers(t)
           \/ RaiseLast(t)
  BY <1>4 DEF ListPrimaries, MemberAnswers, SotAnswers, RaiseLast, TaskMoves
<1>5. CASE TryMember(t)
  <2>1. PICK c \in left[t] : Begin(t, ReadJob("read", c))
    BY <1>5 DEF TryMember
  <2>2. c \in Candidates
    BY DEF LoopTypeOK
  <2> QED
    BY <2>1, <2>2, JobsOfReads DEF TaskMoves
<1>6. CASE AskSot(t)
  BY <1>6, JobsOfReads DEF AskSot, TaskMoves
<1> QED
  BY <1>1, <1>2, <1>3, <1>4, <1>5, <1>6 DEF ReadStep

LEMMA PartTask ==
  ASSUME PartInv, NEW t \in Tasks, TaskMoves(t)
  PROVE  PartInv'
<1>1. CASE \E j \in Jobs : Begin(t, j)
  BY <1>1, PartBegin
<1>2. CASE ClientStep(t) \/ Cancel(t) \/ UNCHANGED vars
  BY <1>2, PartMove DEF EngineMove
<1> QED
  BY <1>1, <1>2 DEF TaskMoves

LEMMA WorldMoves == WorldStep => EngineMove
BY ServersAnswer DEF WorldStep, ServerStep, EngineMove

(* The step of one task leaves the others and the documents alone.         *)
LEMMA TaskFrame ==
  ASSUME TypeInv, NEW t \in Tasks, TaskMoves(t)
  PROVE  /\ \A k \in Tasks \ {t} : Same(k)
         /\ UNCHANGED <<authoritative, known>>
<1>1. CASE \E j \in Jobs : Begin(t, j)
  BY <1>1, BeginFrame
<1>2. CASE ClientStep(t) \/ Cancel(t)
  BY <1>2, ClientFrame
<1>3. CASE UNCHANGED vars
  BY <1>3 DEF vars, world, locals, network, history, Same
<1> QED
  BY <1>1, <1>2, <1>3 DEF TaskMoves

(* It posts no request of another task.                                    *)
LEMMA TaskWire ==
  ASSUME TypeInv, NEW t \in Tasks, TaskMoves(t), NEW k \in Tasks \ {t}
  PROVE  /\ reply'[k] = reply[k]
         /\ \A m \in wire' : m.task = k => m \in wire
<1>1. CASE \E j \in Jobs : Begin(t, j)
  BY <1>1, BeginFrame
<1>2. CASE ClientStep(t) \/ Cancel(t)
  <2>1. reply'[k] = reply[k]
    BY <1>2, ClientFrame
  <2>2. \A u : Request(t, u).task = t
    BY DEF Request
  <2> QED
    BY <1>2, <2>1, <2>2, ClientSteps
       DEF Posts, TakesReply, StopsShort, GoesOn
<1>3. CASE UNCHANGED vars
  BY <1>3 DEF vars, network
<1> QED
  BY <1>1, <1>2, <1>3 DEF TaskMoves

(* The writes of a task that a server may still act on.                    *)
WritesOf(t) == {m \in wire : m.task = t /\ m.job.kind = "write"}

LEMMA ReadsAreNoWrites ==
  /\ Ensure.kind # "write"
  /\ ReadJob("readSot", NoCandidate).kind # "write"
  /\ \A c : ReadJob("read", c).kind # "write"
BY DEF Ensure, ReadJob

LEMMA NoWritePosted ==
  ASSUME TypeInv, NEW t \in Tasks, ClientStep(t) \/ Cancel(t),
         job[t].kind # "write"
  PROVE  WritesOf(t)' = WritesOf(t)
<1>1. \A u : Request(t, u).job = job[t]
  BY DEF Request
<1> QED
  BY <1>1, ClientSteps
     DEF Posts, TakesReply, StopsShort, GoesOn, WritesOf

(* Without transport retries a task that waits for every write it has on   *)
(* its way still does after its next step, or has given up on it.          *)
GivenUp(t) == pc[t] = "done" /\ result[t] \in {"transport", "cancelled"}

LEMMA LonePost ==
  ASSUME PartInv, TransportRetries = 0, NEW t \in Tasks,
         ClientStep(t) \/ Cancel(t), \A m \in WritesOf(t) : Current(m)
  PROVE  \A m \in WritesOf(t)' : Current(m)' \/ GivenUp(t)'
<1>1. WritesOf(t) # {} => pc[t] = "post" /\ reply[t] = "none"
  BY DEF WritesOf, Current, PartInv, WireInv
<1>2. Posts(t) \/ TakesReply(t) \/ StopsShort(t) \/ GoesOn(t)
  BY ClientSteps DEF PartInv
<1>3. CASE Posts(t)
  <2>1. WritesOf(t) = {}
    BY <1>1, <1>3 DEF Posts
  <2>2. ASSUME NEW m \in WritesOf(t)'
        PROVE  Current(m)'
    <3>1. PICK u \in Urls : m = Request(t, u)
      BY <1>3, <2>1 DEF Posts, WritesOf
    <3> QED
      BY <1>3, <3>1 DEF Posts, Current, Request
  <2> QED
    BY <2>2
<1>4. CASE TakesReply(t) \/ GoesOn(t)
  BY <1>1, <1>4 DEF TakesReply, GoesOn, WritesOf
<1>5. CASE StopsShort(t)
  BY <1>1, <1>5 DEF StopsShort, WritesOf, GivenUp
<1> QED
  BY <1>2, <1>3, <1>4, <1>5

(* How a call begins.                                                      *)
LEMMA BeginFacts ==
  ASSUME TypeInv, NEW t \in Tasks, NEW j \in Jobs, Begin(t, j)
  PROVE  /\ job'[t] = j /\ reply'[t] = "none" /\ UNCHANGED <<serial, wire>>
         /\ result'[t] \in {"none", "established", "catalog"}
         /\ pc'[t] \in {"fetch", "route", "done"}
         /\ pc'[t] = "done" => result'[t] # "none"
         /\ j.kind = "write" => pc'[t] \in {"fetch", "route"}
BY DEF Begin, TypeInv, TypeOK
-----------------------------------------------------------------------------
(***************************************************************************)
(* Types.                                                                  *)
(***************************************************************************)
LEMMA CandidatesType ==
  ASSUME NEW e \in Establishments, NEW slot
  PROVE  RouteDocumentReadCandidates(e, slot) \subseteq Candidates
BY MembersType, CandidateType DEF RouteDocumentReadCandidates

LEMMA LoopInit == ReadInit => LoopTypeOK
BY DEF ReadInit, LoopTypeOK, Stages, Results, AppErrors

LEMMA LoopType ==
  ASSUME PartInv, LoopTypeOK, NEW t \in Tasks,
         \/ RefreshFirst(t) \/ StartRead(t) \/ ReadStep(t) \/ Interrupt(t),
         UNCHANGED policy
  PROVE  LoopTypeOK'
<1> USE DEF LoopTypeOK, Stages, Goto, Return
<1>1. CASE RefreshFirst(t) \/ EngineStep(t) \/ Interrupt(t)
  BY <1>1 DEF RefreshFirst, EngineStep, Interrupt, loop
<1>2. CASE StartRead(t)
  BY <1>2 DEF StartRead, Settled
<1>3. CASE ListPrimaries(t)
  <2>1. result[t] \in Results
    BY DEF PartInv, TypeInv, TypeOK
  <2>2. ASSUME result[t] = "established"
        PROVE  /\ RouteDocumentReadCandidates(est[t], ReadSlot)
                    \subseteq Candidates
               /\ est[t].version \in Nat
    <3>1. est[t] \in Establishments
      BY <2>2 DEF PartInv, CallInv, CallOK, TypeInv, TypeOK
    <3> QED
      BY <3>1, CandidatesType, VersionNat
  <2> QED
    BY <1>3, <2>1, <2>2 DEF ListPrimaries
<1>4. CASE TryMember(t)
  BY <1>4 DEF TryMember
<1>5. CASE MemberAnswers(t)
  <2>1. result[t] \in Results
    BY DEF PartInv, TypeInv, TypeOK
  <2>2. result[t] = "stale" => Host[hop[t]] \in Servers
    BY DEF PartInv, CallInv, CallOK, Answered, AppErrors
  <2>3. refusedBy' \in [Tasks -> SUBSET Servers]
    <3>1. CASE result[t] = "stale"
      <4>1. refusedBy[t] \cup {Host[hop[t]]} \in SUBSET Servers
        BY <2>2, <3>1
      <4> QED
        BY <1>5, <3>1, <4>1 DEF MemberAnswers
    <3>2. CASE result[t] # "stale"
      BY <1>5, <3>2 DEF MemberAnswers
    <3> QED
      BY <3>1, <3>2
  <2>4. /\ stage' \in [Tasks -> Stages] /\ lastErr' \in [Tasks -> BOOLEAN]
        /\ outcome' \in [Tasks -> Results]
    BY <1>5, <2>1 DEF MemberAnswers
  <2> QED
    BY <1>5, <2>3, <2>4 DEF MemberAnswers
<1>6. CASE AskSot(t)
  BY <1>6 DEF AskSot
<1>7. CASE SotAnswers(t)
  BY <1>7 DEF SotAnswers, PartInv, TypeInv, TypeOK
<1>8. CASE RaiseLast(t)
  BY <1>8 DEF RaiseLast, Results, AppErrors
<1> QED
  BY <1>1, <1>2, <1>3, <1>4, <1>5, <1>6, <1>7, <1>8 DEF ReadStep

LEMMA LoopOutside ==
  ASSUME LoopTypeOK, UNCHANGED <<loop, policy>>,
         \/ UNCHANGED steady
         \/ steady' = [t \in Tasks |-> FALSE]
  PROVE  LoopTypeOK'
BY DEF LoopTypeOK, loop

(* The parts of a step of ReadFailover.                                    *)
LEMMA ReadSteps ==
  ASSUME PartInv, LoopTypeOK, [ReadNext]_readVars
  PROVE  PartInv' /\ LoopTypeOK'
<1>1. ASSUME NEW t \in Tasks, UNCHANGED policy,
             \/ RefreshFirst(t) \/ StartRead(t) \/ ReadStep(t)
             \/ Interrupt(t)
      PROVE  PartInv' /\ LoopTypeOK'
  BY <1>1, ReadStepMoves, PartTask, LoopType
<1>2. CASE Outside /\ UNCHANGED policy
  BY <1>2, WorldMoves, PartMove, LoopOutside DEF Outside
<1>3. CASE UNCHANGED readVars
  <2>1. UNCHANGED vars /\ UNCHANGED <<loop, policy, steady>>
    BY <1>3 DEF readVars
  <2> QED
    BY <2>1, PartMove, LoopOutside DEF EngineMove
<1> QED
  BY <1>1, <1>2, <1>3 DEF ReadNext

(* Every variable of the engine and of the read keeps its type.            *)
THEOREM ReadTypeCorrect == ReadSpec => []ReadTypeOK
<1>1. PartInv /\ LoopTypeOK /\ [ReadNext]_readVars => PartInv' /\ LoopTypeOK'
  BY ReadSteps
<1>2. ReadInit => PartInv /\ LoopTypeOK
  BY PartInit, LoopInit DEF ReadInit
<1>3. PartInv /\ LoopTypeOK => ReadTypeOK
  BY DEF PartInv, TypeInv, LoopTypeOK, ReadTypeOK
<1> QED
  BY <1>1, <1>2, <1>3, PTL DEF ReadSpec
-----------------------------------------------------------------------------
(***************************************************************************)
(* The turns of a read: the job of the engine is the one the read began,   *)
(* and between two turns the engine is at rest.                            *)
(***************************************************************************)
TurnJob(t) ==
  /\ stage[t] = "ensure" => job[t] = Ensure
  /\ stage[t] = "member" =>
       \E c \in Candidates : job[t] = ReadJob("read", c)
  /\ stage[t] = "sot" => job[t] = ReadJob("readSot", NoCandidate)
  /\ stage[t] = "loop" => pc[t] = "done"

Turns == {"ensure", "member", "sot"}

(* A step of a read, seen from outside: the engine moves, the next turn    *)
(* begins, or a turn ends and the read goes on or returns what it got.     *)
BeginsTurn(t) ==
  /\ stage[t] = "loop" /\ stage'[t] \in {"member", "sot"}
  /\ \E j \in Jobs : j.kind \in {"read", "readSot"} /\ Begin(t, j)
  /\ UNCHANGED outcome

EndsTurn(t) ==
  /\ \/ stage[t] \in Turns /\ pc[t] = "done"
     \/ stage[t] = "loop" /\ stage'[t] = "done"
  /\ \/ stage'[t] = "loop" /\ outcome'[t] = outcome[t]
     \/ stage'[t] = "done" /\ outcome'[t] = "stale"
     \/ stage'[t] = "done" /\ stage[t] \in Turns /\ outcome'[t] = result[t]
  /\ UNCHANGED vars

LEMMA ReadTurns ==
  ASSUME LoopTypeOK, NEW t \in Tasks, ReadStep(t)
  PROVE  EngineStep(t) \/ BeginsTurn(t) \/ EndsTurn(t)
<1> USE DEF LoopTypeOK, Goto, Return, BeginsTurn, EndsTurn, Turns
<1>1. CASE ListPrimaries(t)
  BY <1>1 DEF ListPrimaries
<1>2. CASE TryMember(t)
  <2>1. PICK c \in left[t] : Begin(t, ReadJob("read", c))
    BY <1>2 DEF TryMember
  <2>2. ReadJob("read", c) \in Jobs /\ ReadJob("read", c).kind = "read"
    BY JobsOfReads DEF ReadJob
  <2> QED
    BY <1>2, <2>1, <2>2 DEF TryMember
<1>3. CASE MemberAnswers(t)
  BY <1>3 DEF MemberAnswers
<1>4. CASE AskSot(t)
  <2>1. ReadJob("readSot", NoCandidate).kind = "readSot"
    BY DEF ReadJob
  <2> QED
    BY <1>4, <2>1, JobsOfReads DEF AskSot
<1>5. CASE SotAnswers(t) \/ RaiseLast(t)
  BY <1>5 DEF SotAnswers, RaiseLast
<1> QED
  BY <1>1, <1>2, <1>3, <1>4, <1>5 DEF ReadStep

LEMMA AtRest ==
  ASSUME NEW t \in Tasks, ClientStep(t) \/ Cancel(t)
  PROVE  pc[t] \in {"fetch", "route", "post"}
BY DEF ClientStep, InstallEstablishment, RejectCatalog, EstablishFails,
       SelectHop, GiveUp, ReceiveFinal, ReceiveBounce, TransportRetry,
       TransportFail, Cancel

LEMMA TurnJobStep ==
  ASSUME PartInv, LoopTypeOK, NEW t \in Tasks, TurnJob(t),
         \/ RefreshFirst(t) \/ StartRead(t) \/ ReadStep(t) \/ Interrupt(t)
  PROVE  TurnJob(t)'
<1> USE DEF LoopTypeOK, TurnJob, Goto, Return
<1>1. ASSUME NEW j \in Jobs, Begin(t, j)
      PROVE  job'[t] = j
  BY <1>1 DEF Begin, PartInv, TypeInv, TypeOK
<1>2. CASE RefreshFirst(t)
  BY <1>2 DEF RefreshFirst, loop
<1>3. CASE StartRead(t)
  BY <1>1, <1>3, JobsOfReads DEF StartRead
<1>4. CASE EngineStep(t) \/ Interrupt(t)
  <2>1. pc[t] # "done" /\ job' = job /\ UNCHANGED loop
    BY <1>4, AtRest, ClientFrame DEF EngineStep, Interrupt, PartInv
  <2> QED
    BY <2>1 DEF loop
<1>5. CASE ListPrimaries(t) \/ MemberAnswers(t) \/ SotAnswers(t)
           \/ RaiseLast(t)
  BY <1>5 DEF ListPrimaries, MemberAnswers, SotAnswers, RaiseLast, vars,
              locals
<1>6. CASE TryMember(t)
  <2>1. PICK c \in left[t] : Begin(t, ReadJob("read", c))
    BY <1>6 DEF TryMember
  <2>2. c \in Candidates /\ job'[t] = ReadJob("read", c)
    BY <1>1, <2>1, JobsOfReads
  <2> QED
    BY <1>6, <2>2 DEF TryMember
<1>7. CASE AskSot(t)
  BY <1>1, <1>7, JobsOfReads DEF AskSot
<1> QED
  BY <1>2, <1>3, <1>4, <1>5, <1>6, <1>7 DEF ReadStep

-----------------------------------------------------------------------------
(***************************************************************************)
(* What a read knows at each turn.  While no configuration changed during  *)
(* the read none changed during its current turn either.                   *)
(***************************************************************************)
TurnOK(t) == TurnJob(t) /\ (steady[t] => calm[t])

(* The members of the current document, when that is the one the read took *)
(* its list from: each is still on the list, has answered stale, or is the *)
(* one being asked.                                                        *)
Informed(t) ==
  steady[t] /\ ReadRoutable /\ begunWith[t] = authoritative.version

AskedSoFar(t) ==
  Informed(t) =>
    /\ stage[t] \in {"loop", "member"} =>
         \A s \in ReadMembers(authoritative, ReadSlot) :
           \/ s \in refusedBy[t]
           \/ Candidate(authoritative, s) \in left[t]
           \/ /\ stage[t] = "member"
              /\ job[t] = ReadJob("read", Candidate(authoritative, s))
    /\ stage[t] = "sot" \/ Failing(t) =>
         ReadMembers(authoritative, ReadSlot) \subseteq refusedBy[t]

LastWord(t) ==
  (stage[t] = "done" /\ steady[t] /\ SotRoutable
     /\ policy = "preferSot" /\ est[t] = authoritative)
    => outcome[t] # "stale"

FoundItsWay(t) ==
  (stage[t] = "done" /\ steady[t] /\ ReadRoutable /\ SotRoutable)
    => outcome[t] # "wrongMachine"

ReadOK(t) ==
  /\ TurnOK(t)
  /\ stage[t] = "done" => pc[t] = "done"
  /\ AskedSoFar(t) /\ LastWord(t)
  /\ EveryDocumentRoutes => FoundItsWay(t)

ReadInv == PartInv /\ LoopTypeOK /\ \A t \in Tasks : ReadOK(t)

LoopSame(k) ==
  /\ stage'[k] = stage[k] /\ left'[k] = left[k] /\ outcome'[k] = outcome[k]
  /\ begunWith'[k] = begunWith[k] /\ refusedBy'[k] = refusedBy[k]
  /\ steady'[k] = steady[k]

LEMMA ReadFrame ==
  ASSUME NEW k \in Tasks, ReadOK(k), Same(k), LoopSame(k),
         UNCHANGED <<authoritative, policy>>
  PROVE  ReadOK(k)'
<1> USE DEF Same, LoopSame, ReadRoutable, SotRoutable
<1>1. TurnOK(k)'
  BY DEF ReadOK, TurnOK, TurnJob
<1>2. AskedSoFar(k)'
  BY DEF ReadOK, AskedSoFar, Informed, Failing
<1>3. LastWord(k)' /\ (EveryDocumentRoutes => FoundItsWay(k)')
  BY DEF ReadOK, LastWord, FoundItsWay
<1> QED
  BY <1>1, <1>2, <1>3 DEF ReadOK

(* While the configuration changes a read only keeps its place.            *)
LEMMA ReadDisturbed ==
  ASSUME NEW k \in Tasks, ReadOK(k), ~steady'[k],
         pc'[k] = pc[k], job'[k] = job[k], stage'[k] = stage[k]
  PROVE  ReadOK(k)'
BY DEF ReadOK, TurnOK, TurnJob, AskedSoFar, Informed, LastWord, FoundItsWay

LEMMA LoopFrame ==
  ASSUME LoopTypeOK, NEW t \in Tasks,
         \/ RefreshFirst(t) \/ StartRead(t) \/ ReadStep(t) \/ Interrupt(t)
  PROVE  \A k \in Tasks \ {t} : LoopSame(k)
<1> USE DEF LoopTypeOK, LoopSame, Goto, Return
<1>1. CASE RefreshFirst(t) \/ EngineStep(t) \/ Interrupt(t)
  BY <1>1 DEF RefreshFirst, EngineStep, Interrupt, loop
<1>2. CASE StartRead(t)
  BY <1>2 DEF StartRead
<1>3. CASE ListPrimaries(t)
  BY <1>3 DEF ListPrimaries
<1>4. CASE TryMember(t)
  BY <1>4 DEF TryMember
<1>5. CASE MemberAnswers(t)
  BY <1>5 DEF MemberAnswers
<1>6. CASE AskSot(t) \/ SotAnswers(t) \/ RaiseLast(t)
  BY <1>6 DEF AskSot, SotAnswers, RaiseLast
<1> QED
  BY <1>1, <1>2, <1>3, <1>4, <1>5, <1>6 DEF ReadStep

(* The client can route one read of the document when it can route them    *)
(* all: whether it can does not depend on the primary.                     *)
LEMMA RoutableReads ==
  /\ \A c : Routable(authoritative, ReadJob("read", c)) <=> ReadRoutable
  /\ Routable(authoritative, ReadJob("readSot", NoCandidate)) <=> SotRoutable
<1>1. ASSUME NEW c
      PROVE  [ReadJob("read", c) EXCEPT !.primary = NoCandidate]
               = ReadJob("read", NoCandidate)
  BY DEF ReadJob
<1>2. [ReadJob("read", NoCandidate) EXCEPT !.primary = NoCandidate]
        = ReadJob("read", NoCandidate)
  BY DEF ReadJob
<1>3. \A c : /\ ReadJob("read", c).slot = ReadSlot
             /\ ReadJob("read", c).home = ReadSlot
  BY DEF ReadJob
<1> QED
  BY <1>1, <1>2, <1>3 DEF Routable, ReadRoutable, SotRoutable

(* A turn that ended stale in a deployment that stands still has asked the *)
(* member it insisted on, if that is a member of the current document.     *)
LEMMA StaleTurn ==
  ASSUME PartInv, NEW t \in Tasks, calm[t], ReadRoutable,
         NEW s \in ReadMembers(authoritative, ReadSlot),
         job[t] = ReadJob("read", Candidate(authoritative, s)),
         result[t] = "stale"
  PROVE  Host[hop[t]] = s
<1> DEFINE c == Candidate(authoritative, s)
<1> DEFINE free == ReadJob("read", NoCandidate)
<1>1. authoritative \in Establishments /\ s \in Servers \cup {NoMember}
  BY MembersType DEF PartInv, TypeInv, TypeOK
<1>2. /\ job[t].kind = "read" /\ job[t].primary = c
      /\ job[t].slot = ReadSlot /\ job[t].home = ReadSlot
  BY DEF ReadJob
<1>3. Reaches(c)
  <2>1. /\ free.kind = "read" /\ free.slot = ReadSlot
        /\ [free EXCEPT !.primary = NoCandidate] = free
        /\ free.primary = NoCandidate
    BY DEF ReadJob
  <2>2. RouteDocumentReadCandidates(authoritative, ReadSlot)
          \in Offers(authoritative, free)
    BY <2>1 DEF Offers
  <2>3. c \in RouteDocumentReadCandidates(authoritative, ReadSlot)
    BY DEF RouteDocumentReadCandidates
  <2> QED
    BY <2>1, <2>2, <2>3 DEF ReadRoutable, Routable
<1>4. /\ Rewrite(c) \in Urls /\ Host[Rewrite(c)] \in Servers
      /\ Host[Rewrite(c)] = s
  BY <1>1, <1>3, CandidateType, ReachesServer
<1>5. InsistsOn(job[t]) /\ Owns(authoritative, Rewrite(c), job[t])
  BY <1>2, <1>4, NoUrlAssumption DEF InsistsOn, Owns, Serves
<1>6. CalmRoute(t)
  BY RoutableReads DEF PartInv, CalmInv, CalmOK
<1>7. attempt[t] >= 1
  BY DEF PartInv, CallInv, CallOK, Answered, AppErrors
<1>8. attempt[t] = 1 /\ hop[t] = Rewrite(c)
  BY <1>2, <1>5, <1>6, <1>7 DEF CalmRoute
<1> QED
  BY <1>4, <1>8

(* The first turn lists the members of the document it holds.              *)
LEMMA ListKeepsReadOK ==
  ASSUME PartInv, LoopTypeOK, NEW t \in Tasks, ReadOK(t), ListPrimaries(t),
         UNCHANGED policy
  PROVE  ReadOK(t)'
<1> USE DEF ReadRoutable, SotRoutable
<1>1. /\ stage[t] = "ensure" /\ pc[t] = "done" /\ job[t] = Ensure
      /\ UNCHANGED <<authoritative, pc, job, est, calm, steady, refusedBy>>
      /\ steady[t] => calm[t]
  BY DEF ListPrimaries, ReadOK, TurnOK, TurnJob, vars, world, locals, history
<1>2. CASE result[t] = "established"
  <2>1. /\ stage'[t] = "loop" /\ begunWith'[t] = est[t].version
        /\ left'[t] = RouteDocumentReadCandidates(est[t], ReadSlot)
    BY <1>2 DEF ListPrimaries, Goto, LoopTypeOK
  <2>2. est[t].version = authoritative.version => est[t] = authoritative
    BY <1>2 DEF PartInv, CallInv, CallOK, DocsInv, NoNewer
  <2>3. AskedSoFar(t)'
    BY <1>1, <2>1, <2>2
       DEF AskedSoFar, Informed, Failing, RouteDocumentReadCandidates
  <2> QED
    BY <1>1, <2>1, <2>3 DEF ReadOK, TurnOK, TurnJob, LastWord, FoundItsWay
<1>3. CASE result[t] # "established"
  <2>1. result[t] \notin {"stale", "wrongMachine"}
    BY <1>1 DEF PartInv, CallInv, CallOK, Answered, AppErrors, Fetches,
                Ensure, ReadJob
  <2>2. stage'[t] = "done" /\ outcome'[t] = result[t]
    BY <1>3 DEF ListPrimaries, Return, Goto, LoopTypeOK
  <2> QED
    BY <1>1, <2>1, <2>2
       DEF ReadOK, TurnOK, TurnJob, AskedSoFar, Informed, Failing, LastWord,
           FoundItsWay
<1> QED
  BY <1>2, <1>3

(* Beginning a turn.                                                       *)
LEMMA BeginKeepsReadOK ==
  ASSUME PartInv, LoopTypeOK, NEW t \in Tasks, ReadOK(t),
         \/ RefreshFirst(t) \/ StartRead(t) \/ TryMember(t) \/ AskSot(t),
         UNCHANGED policy
  PROVE  ReadOK(t)'
<1>1. ASSUME NEW j \in Jobs, Begin(t, j)
      PROVE  /\ job'[t] = j /\ calm'[t] = Settled /\ pc'[t] # "idle"
             /\ authoritative' = authoritative
  BY <1>1 DEF Begin, world, PartInv, TypeInv, TypeOK
<1>2. steady[t] => Settled
  BY DEF ReadOK, TurnOK, TurnJob, PartInv, CalmInv, CalmOK
<1> USE DEF LoopTypeOK, Goto, ReadRoutable, SotRoutable
<1>3. CASE RefreshFirst(t)
  <2>1. stage'[t] = "idle" /\ steady' = steady /\ calm'[t] = Settled
    BY <1>1, <1>3, JobsOfReads DEF RefreshFirst, loop
  <2> QED
    BY <1>2, <2>1
       DEF ReadOK, TurnOK, TurnJob, AskedSoFar, Failing, LastWord, FoundItsWay
<1>4. CASE StartRead(t)
  <2>1. /\ stage'[t] = "ensure" /\ steady'[t] = Settled
        /\ calm'[t] = Settled /\ job'[t] = Ensure
    BY <1>1, <1>4, JobsOfReads DEF StartRead
  <2> QED
    BY <2>1
       DEF ReadOK, TurnOK, TurnJob, AskedSoFar, Failing, LastWord, FoundItsWay
<1>5. CASE TryMember(t)
  <2>1. PICK c \in left[t] : /\ left' = [left EXCEPT ![t] = @ \ {c}]
                             /\ Begin(t, ReadJob("read", c))
    BY <1>5 DEF TryMember
  <2>2. c \in Candidates /\ ReadJob("read", c) \in Jobs
    BY JobsOfReads
  <2>3. /\ stage[t] = "loop" /\ stage'[t] = "member"
        /\ left'[t] = left[t] \ {c} /\ job'[t] = ReadJob("read", c)
        /\ calm'[t] = Settled /\ authoritative' = authoritative
        /\ UNCHANGED <<steady, begunWith, refusedBy>>
    BY <1>1, <1>5, <2>1, <2>2 DEF TryMember
  <2>4. AskedSoFar(t)'
    BY <2>3 DEF ReadOK, AskedSoFar, Informed, Failing
  <2> QED
    BY <1>2, <2>2, <2>3, <2>4
       DEF ReadOK, TurnOK, TurnJob, LastWord, FoundItsWay
<1>6. CASE AskSot(t)
  <2>1. /\ stage[t] = "loop" /\ stage'[t] = "sot" /\ left[t] = {}
        /\ job'[t] = ReadJob("readSot", NoCandidate)
        /\ calm'[t] = Settled /\ authoritative' = authoritative
        /\ UNCHANGED <<steady, begunWith, refusedBy>>
    BY <1>1, <1>6, JobsOfReads DEF AskSot
  <2>2. AskedSoFar(t)'
    BY <2>1 DEF ReadOK, AskedSoFar, Informed, Failing
  <2> QED
    BY <1>2, <2>1, <2>2 DEF ReadOK, TurnOK, TurnJob, LastWord, FoundItsWay
<1> QED
  BY <1>3, <1>4, <1>5, <1>6

(* A turn comes back: the member's or the SOT member's answer, or the last *)
(* error when nobody is left.                                              *)
LEMMA AnswerKeepsReadOK ==
  ASSUME PartInv, LoopTypeOK, NEW t \in Tasks, ReadOK(t),
         MemberAnswers(t) \/ SotAnswers(t) \/ RaiseLast(t),
         UNCHANGED policy
  PROVE  ReadOK(t)'
<1>1. UNCHANGED <<authoritative, pc, job, est, calm, steady, left, begunWith>>
  BY DEF MemberAnswers, SotAnswers, RaiseLast, vars, world, locals, history
<1>2. TurnOK(t) /\ AskedSoFar(t) /\ result[t] \in Results
  BY DEF ReadOK, PartInv, TypeInv, TypeOK
<1>3. /\ (stage[t] = "member" /\ ReadRoutable)
           \/ (stage[t] = "sot" /\ SotRoutable)
           => Routable(authoritative, job[t])
  BY <1>2, RoutableReads DEF TurnOK, TurnJob
<1>4. steady[t] /\ Routable(authoritative, job[t])
        => CalmRoute(t) /\ CalmSot(t)
  BY <1>2 DEF TurnOK, TurnJob, PartInv, CalmInv, CalmOK
<1> USE DEF LoopTypeOK, Goto, Return, ReadRoutable, SotRoutable
<1>5. CASE MemberAnswers(t) /\ result[t] = "stale"
  <2>1. /\ stage[t] = "member" /\ pc[t] = "done"
        /\ refusedBy'[t] = refusedBy[t] \cup {Host[hop[t]]}
        /\ \/ policy = "surface" /\ stage'[t] = "done"
              /\ outcome'[t] = "stale"
           \/ policy # "surface" /\ stage'[t] = "loop"
    BY <1>5 DEF MemberAnswers
  <2>2. ASSUME Informed(t), NEW s \in ReadMembers(authoritative, ReadSlot)
        PROVE  \/ s \in refusedBy'[t]
               \/ Candidate(authoritative, s) \in left[t]
    BY <1>2, <1>5, <2>1, <2>2, StaleTurn
       DEF AskedSoFar, Informed, TurnOK, TurnJob
  <2>3. AskedSoFar(t)'
    BY <1>1, <2>1, <2>2 DEF AskedSoFar, Informed, Failing
  <2> QED
    BY <1>1, <1>2, <2>1, <2>3
       DEF ReadOK, TurnOK, TurnJob, LastWord, FoundItsWay
<1>6. CASE MemberAnswers(t) /\ result[t] # "stale"
  <2>1. /\ stage[t] = "member" /\ pc[t] = "done" /\ stage'[t] = "done"
        /\ outcome'[t] = result[t]
    BY <1>6 DEF MemberAnswers
  <2>2. (EveryDocumentRoutes => FoundItsWay(t))'
    BY <1>1, <1>3, <1>4, <2>1 DEF FoundItsWay, CalmRoute
  <2> QED
    BY <1>1, <1>2, <1>6, <2>1, <2>2
       DEF ReadOK, TurnOK, TurnJob, AskedSoFar, Failing, LastWord
<1>7. CASE SotAnswers(t)
  <2>1. /\ stage[t] = "sot" /\ pc[t] = "done" /\ stage'[t] = "done"
        /\ outcome'[t] = result[t] /\ UNCHANGED refusedBy
        /\ job[t].kind = "readSot"
    BY <1>2, <1>7 DEF SotAnswers, TurnOK, TurnJob, ReadJob
  <2>2. (EveryDocumentRoutes => FoundItsWay(t))'
    BY <1>1, <1>3, <1>4, <2>1 DEF FoundItsWay, CalmRoute
  <2>3. LastWord(t)'
    BY <1>1, <1>3, <1>4, <2>1 DEF LastWord, CalmSot
  <2>4. AskedSoFar(t)'
    BY <1>1, <1>2, <2>1 DEF AskedSoFar, Informed, Failing
  <2> QED
    BY <1>1, <1>2, <2>1, <2>2, <2>3, <2>4 DEF ReadOK, TurnOK, TurnJob
<1>8. CASE RaiseLast(t)
  <2>1. /\ stage[t] = "loop" /\ left[t] = {} /\ stage'[t] = "done"
        /\ outcome'[t] = "stale" /\ policy # "preferSot"
        /\ UNCHANGED refusedBy /\ pc[t] = "done"
    BY <1>2, <1>8 DEF RaiseLast, TurnOK, TurnJob
  <2>2. AskedSoFar(t)'
    BY <1>1, <1>2, <2>1 DEF AskedSoFar, Informed, Failing
  <2> QED
    BY <1>1, <1>2, <2>1, <2>2
       DEF ReadOK, TurnOK, TurnJob, LastWord, FoundItsWay
<1> QED
  BY <1>5, <1>6, <1>7, <1>8

(* The engine's own steps in a turn.                                       *)
LEMMA EngineKeepsReadOK ==
  ASSUME PartInv, LoopTypeOK, NEW t \in Tasks, ReadOK(t),
         EngineStep(t) \/ Interrupt(t), UNCHANGED policy
  PROVE  ReadOK(t)'
<1>1. /\ ClientStep(t) \/ Cancel(t)
      /\ UNCHANGED <<authoritative, job, calm>>
      /\ UNCHANGED <<loop, steady>>
  BY ClientFrame DEF EngineStep, Interrupt, PartInv
<1>2. pc[t] # "done"
  BY <1>1, AtRest
<1>3. stage[t] \notin {"loop", "done"}
  BY <1>2 DEF ReadOK, TurnOK, TurnJob
<1> QED
  BY <1>1, <1>3
     DEF ReadOK, TurnOK, TurnJob, AskedSoFar, Informed, Failing, LastWord,
         FoundItsWay, ReadRoutable, loop

LEMMA ReadInvInit == ReadInit => ReadInv
<1>1. ReadInit => \A t \in Tasks : ReadOK(t)
  BY DEF ReadInit, ReadOK, TurnOK, TurnJob, AskedSoFar, Failing, LastWord,
         FoundItsWay
<1> QED
  BY <1>1, PartInit, LoopInit DEF ReadInit, ReadInv

LEMMA ReadInvOutside ==
  ASSUME ReadInv, Outside, UNCHANGED policy
  PROVE  \A k \in Tasks : ReadOK(k)'
<1> USE DEF ReadRoutable, SotRoutable
<1>1. UNCHANGED loop
  BY DEF Outside
<1>2. CASE authoritative' = authoritative
  <2>1. ASSUME NEW k \in Tasks
        PROVE  /\ pc'[k] = pc[k] /\ job'[k] = job[k] /\ est'[k] = est[k]
               /\ calm'[k] = calm[k]
    <3>1. CASE \E t \in Tasks : ServeEstablish(t)
      BY <3>1 DEF ServeEstablish, history
    <3>2. CASE ServerStep
      BY <3>2 DEF ServerStep, ServerExecutes, ServerDeclines, ServerStale,
                  ServerBounces, ServerActs, locals
    <3>3. CASE \E s \in Servers : Learn(s)
      BY <3>3 DEF Learn, locals, history
    <3>4. ~Publish
      <4>1. authoritative.version \in Nat
        BY VersionNat DEF ReadInv, PartInv, TypeInv, TypeOK
      <4>2. SUFFICES ASSUME NEW d \in Topologies,
                            authoritative' = [d EXCEPT !.version =
                                                authoritative.version + 1]
                     PROVE  FALSE
        BY DEF Publish
      <4>3. authoritative'.version = authoritative.version + 1
        BY <4>1, <4>2, Stamped
      <4> QED
        BY <1>2, <4>1, <4>3
    <3> QED
      BY <3>1, <3>2, <3>3, <3>4 DEF Outside, WorldStep
  <2>2. steady' = steady
    BY <1>2 DEF Outside
  <2> QED
    BY <1>1, <1>2, <2>1, <2>2
       DEF ReadInv, ReadOK, TurnOK, TurnJob, AskedSoFar, Informed, Failing,
           LastWord, FoundItsWay, loop
<1>3. CASE authoritative' # authoritative
  <2>1. Publish
    BY <1>3 DEF Outside, WorldStep, ServeEstablish, ServerStep,
                ServerExecutes, ServerDeclines, ServerStale, ServerBounces,
                ServerActs, Learn, world
  <2>2. steady' = [t \in Tasks |-> FALSE]
    BY <1>3 DEF Outside
  <2> QED
    BY <1>1, <2>1, <2>2, ReadDisturbed DEF Publish, ReadInv, loop, locals
<1> QED
  BY <1>2, <1>3

LEMMA ReadInvStep == ReadInv /\ [ReadNext]_readVars => ReadInv'
<1> SUFFICES ASSUME ReadInv, [ReadNext]_readVars PROVE ReadInv'
  OBVIOUS
<1>1. PartInv' /\ LoopTypeOK'
  BY ReadSteps DEF ReadInv
<1>2. ASSUME NEW t \in Tasks, UNCHANGED policy,
             \/ RefreshFirst(t) \/ StartRead(t) \/ ReadStep(t)
             \/ Interrupt(t)
      PROVE  \A k \in Tasks : ReadOK(k)'
  <2>1. ReadOK(t)'
    BY <1>2, ListKeepsReadOK, BeginKeepsReadOK, AnswerKeepsReadOK,
       EngineKeepsReadOK DEF ReadInv, ReadStep
  <2>2. ASSUME NEW k \in Tasks \ {t}
        PROVE  ReadOK(k)'
    <3>1. Same(k) /\ authoritative' = authoritative
      BY <1>2, ReadStepMoves, TaskFrame DEF ReadInv, PartInv
    <3>2. LoopSame(k)
      BY <1>2, LoopFrame DEF ReadInv
    <3> QED
      BY <1>2, <3>1, <3>2, ReadFrame DEF ReadInv
  <2> QED
    BY <2>1, <2>2
<1>3. CASE UNCHANGED readVars
  <2>1. /\ \A k \in Tasks : Same(k) /\ LoopSame(k)
        /\ UNCHANGED <<authoritative, policy>>
    BY <1>3 DEF readVars, vars, world, locals, network, history, loop, Same,
                LoopSame
  <2> QED
    BY <1>1, <2>1, ReadFrame DEF ReadInv
<1> QED
  BY <1>1, <1>2, <1>3, ReadInvOutside DEF ReadNext, ReadInv

(* A read that fails with the stale error in a deployment that stands still*)
(* has asked every read member, when it began with the current document.   *)
THEOREM StaleMeansAllAsked == ReadSpec => []AllMembersAsked
<1>1. ReadInv => AllMembersAsked
  BY DEF ReadInv, ReadOK, AskedSoFar, Informed, Failing, AllMembersAsked
<1> QED
  BY <1>1, ReadInvInit, ReadInvStep, PTL DEF ReadSpec

(* Under PREFER_SOT a last turn that is routed by the current document     *)
(* does not end stale.                                                     *)
THEOREM SotAnswersLast == ReadSpec => []SotHasLastWord
<1>1. ReadInv => SotHasLastWord
  BY DEF ReadInv, ReadOK, LastWord, SotHasLastWord
<1> QED
  BY <1>1, ReadInvInit, ReadInvStep, PTL DEF ReadSpec

(* In a deployment that stands still a read finds its way in every turn,   *)
(* whichever of the members are stale.                                     *)
THEOREM ReadsFindTheirWay ==
  ASSUME EveryDocumentRoutes
  PROVE  ReadSpec => []ReadsRoute
<1>1. ReadInv => ReadsRoute
  BY DEF ReadInv, ReadOK, FoundItsWay, ReadsRoute
<1> QED
  BY <1>1, ReadInvInit, ReadInvStep, PTL DEF ReadSpec
=============================================================================
