------------------------ MODULE RoutedCommandBounds ------------------------
(***************************************************************************)
(* More theorems about RoutedCommand, for every limit on transport retries:*)
(* what a success shows, what the catalog check guards, how many posts one *)
(* call can make, how a call ends in a deployment that stands still, the   *)
(* refinement with retries on, and the facts about posts and replies that  *)
(* hold of every composition over the engine.                              *)
(***************************************************************************)
EXTENDS RoutedCommandProofs, FiniteSetTheorems

(***************************************************************************)
(* A success was carried out.  The invariant follows the ok from the server*)
(* that carried the command out, through the caller's connection, to the   *)
(* result: neither a late reply to an earlier post nor a new post in its   *)
(* place can forge one.                                                    *)
(***************************************************************************)
AckInv ==
  \A t \in Tasks :
    /\ pc[t] = "post" /\ reply[t] = "ok" => ran[t] >= 1
    /\ pc[t] = "done" /\ result[t] = "ok" => ran[t] >= 1

LEMMA AckInit == Init => AckInv
BY DEF Init, AckInv

LEMMA AckCall ==
  ASSUME TypeInv, AckInv, NEW t \in Tasks, Call(t)
  PROVE  AckInv'
<1>1. PICK j \in Jobs : Begin(t, j)
  BY DEF Call
<1> QED
  BY <1>1 DEF Begin, AckInv, TypeInv, TypeOK

LEMMA AckClient ==
  ASSUME TypeInv, AckInv, NEW t \in Tasks,
         ClientStep(t) \/ Cancel(t) \/ ServeEstablish(t)
  PROVE  AckInv'
<1>1. CASE InstallEstablishment(t)
  BY <1>1 DEF InstallEstablishment, Resume, Finish, AckInv, TypeInv, TypeOK,
              network, history
<1>2. CASE RejectCatalog(t) \/ EstablishFails(t) \/ GiveUp(t)
             \/ TransportFail(t) \/ Cancel(t)
  BY <1>2 DEF RejectCatalog, EstablishFails, GiveUp, TransportFail, Cancel,
              Finish, AckInv, TypeInv, TypeOK, network, history
<1>3. CASE SelectHop(t)
  <2>1. reply' = [reply EXCEPT ![t] = "none"]
    BY <1>3 DEF SelectHop, Post
  <2> QED
    BY <1>3, <2>1 DEF SelectHop, AckInv, TypeInv, TypeOK, history
<1>4. CASE ReceiveFinal(t)
  BY <1>4 DEF ReceiveFinal, Finish, AckInv, TypeInv, TypeOK, network, history
<1>5. CASE ReceiveBounce(t)
  BY <1>5 DEF ReceiveBounce, Refetch, AckInv, TypeInv, TypeOK, network
<1>6. CASE TransportRetry(t)
  BY <1>6 DEF TransportRetry, Repost, Post, AckInv, TypeInv, TypeOK, history
<1>7. CASE ServeEstablish(t)
  BY <1>7 DEF ServeEstablish, AckInv, network, history
<1> QED
  BY <1>1, <1>2, <1>3, <1>4, <1>5, <1>6, <1>7 DEF ClientStep

LEMMA AckServer ==
  ASSUME TypeInv, AckInv, ServerStep
  PROVE  AckInv'
<1>1. PICK m \in wire : ServerExecutes(m) \/ ServerDeclines(m)
                          \/ ServerStale(m) \/ ServerBounces(m)
  BY DEF ServerStep
<1>2. m.task \in Tasks
  BY DEF TypeInv, TypeOK, Requests
<1>3. UNCHANGED <<pc, result>>
  BY <1>1 DEF ServerExecutes, ServerDeclines, ServerStale, ServerBounces,
              ServerActs
<1>4. CASE ServerExecutes(m)
  BY <1>2, <1>3, <1>4
     DEF ServerExecutes, ServerActs, Deliver, AckInv, TypeInv, TypeOK
<1>5. CASE ServerDeclines(m) \/ ServerStale(m) \/ ServerBounces(m)
  BY <1>2, <1>3, <1>5
     DEF ServerDeclines, ServerStale, ServerBounces, ServerActs, Deliver,
         AckInv, TypeInv, TypeOK
<1> QED
  BY <1>1, <1>4, <1>5

LEMMA AckStep == TypeInv /\ AckInv /\ [Next]_vars => AckInv'
<1> SUFFICES ASSUME TypeInv, AckInv, [Next]_vars PROVE AckInv'
  OBVIOUS
<1>1. ASSUME NEW t \in Tasks,
             \/ Call(t) \/ ClientStep(t)
             \/ Cancel(t) \/ ServeEstablish(t)
      PROVE  AckInv'
  BY <1>1, AckCall, AckClient
<1>2. CASE ServerStep
  BY <1>2, AckServer
<1>3. CASE Publish \/ \E s \in Servers : Learn(s)
  BY <1>3 DEF Publish, Learn, AckInv, network, history
<1>4. CASE UNCHANGED vars
  BY <1>4 DEF vars, network, history, AckInv
<1> QED
  BY <1>1, <1>2, <1>3, <1>4 DEF Next, WorldStep

(* A call that reports success was carried out, at least once with         *)
(* transport retries and exactly once, with nothing in flight, without.    *)
THEOREM SuccessesRan == Spec => []AckedRan
<1>1. CASE TransportRetries = 0
  <2>1. TypeInv /\ AckInv /\ OnceInv => AckedRan
    BY DEF AckInv, AckedRan, OnceInv, Silent, Refusals, AppErrors
  <2>2. TypeInv /\ OnceInv /\ [Next]_vars => OnceInv'
    BY <1>1, OnceStep
  <2> QED
    BY <2>1, <2>2, TypeInit, TypeStep, OnceInit, AckInit, AckStep, PTL
       DEF Spec
<1>2. CASE TransportRetries # 0
  <2>1. AckInv => AckedRan
    BY <1>2 DEF AckInv, AckedRan
  <2> QED
    BY <2>1, TypeInit, TypeStep, AckInit, AckStep, PTL DEF Spec
<1> QED
  BY <1>1, <1>2
-----------------------------------------------------------------------------
(***************************************************************************)
(* The catalog check.  The run FirstBind shows that a call with pairs of   *)
(* its own can put a document into the cache that fails Config.collections;*)
(* that is the only way: if no call checks less than Config.collections,   *)
(* no such document is ever cached or routed by.                           *)
(***************************************************************************)
ChecksConfig == \A j \in Jobs : CfgCatalog \subseteq Catalog(j)

LEMMA CheckedInit == Init => CheckedCatalog
BY DEF Init, CheckedCatalog

LEMMA CheckedCall ==
  ASSUME TypeInv, CheckedCatalog, NEW t \in Tasks, Call(t)
  PROVE  CheckedCatalog'
<1>1. PICK j \in Jobs : Begin(t, j)
  BY DEF Call
<1>2. pc'[t] \in {"route", "post"} => cache # NoEst /\ est'[t] = cache
  BY <1>1 DEF Begin, TypeInv, TypeOK
<1>3. ASSUME NEW k \in Tasks, k # t
      PROVE  pc'[k] = pc[k] /\ est'[k] = est[k]
  BY <1>1, <1>3 DEF Begin, TypeInv, TypeOK
<1>4. cache' = cache
  BY <1>1 DEF Begin
<1> QED
  BY <1>2, <1>3, <1>4 DEF CheckedCatalog

LEMMA CheckedClient ==
  ASSUME ChecksConfig, TypeInv, CheckedCatalog, NEW t \in Tasks,
         ClientStep(t) \/ Cancel(t) \/ ServeEstablish(t)
  PROVE  CheckedCatalog'
<1>1. CASE InstallEstablishment(t)
  <2>1. CfgCatalog \subseteq Catalog(job[t])
    BY DEF ChecksConfig, TypeInv, TypeOK
  <2>2. CatalogHolds(fetched[t], CfgCatalog)
    BY <1>1, <2>1 DEF InstallEstablishment, CatalogHolds
  <2>3. cache' = fetched[t] /\ est' = [est EXCEPT ![t] = fetched[t]]
    BY <1>1 DEF InstallEstablishment
  <2>4. ASSUME NEW k \in Tasks, k # t
        PROVE  pc'[k] = pc[k] /\ est'[k] = est[k]
    BY <1>1, <2>3, <2>4
       DEF InstallEstablishment, Resume, Finish, TypeInv, TypeOK
  <2>5. est'[t] = fetched[t]
    BY <2>3 DEF TypeInv, TypeOK
  <2> QED
    BY <2>2, <2>3, <2>4, <2>5 DEF CheckedCatalog
<1>2. CASE RejectCatalog(t) \/ EstablishFails(t) \/ GiveUp(t)
             \/ ReceiveFinal(t) \/ TransportFail(t) \/ Cancel(t)
  <2>1. UNCHANGED <<cache, est>> /\ pc' = [pc EXCEPT ![t] = "done"]
    BY <1>2 DEF RejectCatalog, EstablishFails, GiveUp, ReceiveFinal,
                TransportFail, Cancel, Finish, locals
  <2> QED
    BY <2>1 DEF CheckedCatalog, TypeInv, TypeOK
<1>3. CASE SelectHop(t) \/ ReceiveBounce(t) \/ TransportRetry(t)
             \/ ServeEstablish(t)
  <2>1. /\ UNCHANGED <<cache, est>>
        /\ \A k \in Tasks : pc'[k] \in {"route", "post"}
                              => pc[k] \in {"route", "post"}
    BY <1>3 DEF SelectHop, ReceiveBounce, Refetch, TransportRetry, Repost,
                ServeEstablish, TypeInv, TypeOK
  <2> QED
    BY <2>1 DEF CheckedCatalog
<1> QED
  BY <1>1, <1>2, <1>3 DEF ClientStep

LEMMA CheckedStep ==
  ASSUME ChecksConfig
  PROVE  TypeInv /\ CheckedCatalog /\ [Next]_vars => CheckedCatalog'
<1> SUFFICES ASSUME TypeInv, CheckedCatalog, [Next]_vars
             PROVE  CheckedCatalog'
  OBVIOUS
<1>1. ASSUME NEW t \in Tasks,
             \/ Call(t) \/ ClientStep(t)
             \/ Cancel(t) \/ ServeEstablish(t)
      PROVE  CheckedCatalog'
  BY <1>1, CheckedCall, CheckedClient
<1>2. CASE ServerStep
  <2>1. UNCHANGED <<cache, est, pc>>
    BY <1>2 DEF ServerStep, ServerExecutes, ServerDeclines, ServerStale,
                ServerBounces, ServerActs, locals
  <2> QED
    BY <2>1 DEF CheckedCatalog
<1>3. CASE Publish \/ \E s \in Servers : Learn(s)
  BY <1>3 DEF Publish, Learn, CheckedCatalog, locals
<1>4. CASE UNCHANGED vars
  BY <1>4 DEF vars, locals, CheckedCatalog
<1> QED
  BY <1>1, <1>2, <1>3, <1>4 DEF Next, WorldStep

(* When no call checks less than Config.collections, every document that   *)
(* is cached or routed by passes Config.collections.                       *)
THEOREM CatalogGuardsRoutes ==
  ASSUME ChecksConfig
  PROVE  Spec => []CheckedCatalog
<1>1. TypeInv /\ CheckedCatalog /\ [Next]_vars => CheckedCatalog'
  BY CheckedStep
<1> QED
  BY <1>1, TypeInit, TypeStep, CheckedInit, PTL DEF Spec
-----------------------------------------------------------------------------
(***************************************************************************)
(* The budget of a call.  WithinBudget bounds the posts of a call by the   *)
(* product of the two limits; the invariant counts them exactly: a hop has *)
(* been posted once and then once for every failed attempt, and every      *)
(* earlier hop at most PostsPerHop times.                                  *)
(***************************************************************************)
PostsPerHop == TransportRetries + 1

Spent(t) == attempt[t] * PostsPerHop

BudgetInv ==
  \A t \in Tasks :
    /\ IsFiniteSet(tried[t]) /\ attempt[t] = Cardinality(tried[t])
    /\ serial[t] <= Spent(t)
    /\ pc[t] = "idle" => serial[t] = 0
    /\ pc[t] = "post" =>
         serial[t] + (TransportRetries - tries[t]) <= Spent(t)

LEMMA OneMoreHop ==
  ASSUME NEW a \in Nat
  PROVE  /\ a * PostsPerHop \in Nat
         /\ (a + 1) * PostsPerHop = a * PostsPerHop + TransportRetries + 1
BY RetriesAssumption DEF PostsPerHop

LEMMA HopsWithinLimit ==
  ASSUME NEW a \in 0..Attempts
  PROVE  a * PostsPerHop <= Attempts * PostsPerHop
<1> DEFINE b == Attempts - a
<1>1. b \in Nat /\ a \in Nat /\ PostsPerHop \in Nat
  BY AttemptsNat, RetriesAssumption DEF PostsPerHop
<1>2. b * PostsPerHop >= 0
  BY <1>1
<1>3. Attempts * PostsPerHop = a * PostsPerHop + b * PostsPerHop
  BY <1>1, AttemptsNat
<1> HIDE DEF b
<1>4. a * PostsPerHop \in Int /\ b * PostsPerHop \in Int
  BY <1>1
<1> QED
  BY <1>2, <1>3, <1>4

LEMMA BudgetInit == Init => BudgetInv
BY FS_EmptySet, RetriesAssumption
   DEF Init, BudgetInv, Spent, PostsPerHop

(* What a step leaves alone keeps the budget of every task but t.          *)
LEMMA BudgetFrame ==
  ASSUME BudgetInv, NEW t \in Tasks,
         NEW k \in Tasks, k # t,
         /\ tried'[k] = tried[k] /\ attempt'[k] = attempt[k]
         /\ serial'[k] = serial[k] /\ tries'[k] = tries[k]
         /\ pc'[k] = pc[k]
  PROVE  /\ IsFiniteSet(tried'[k]) /\ attempt'[k] = Cardinality(tried'[k])
         /\ serial'[k] <= Spent(k)'
         /\ pc'[k] = "idle" => serial'[k] = 0
         /\ pc'[k] = "post" =>
              serial'[k] + (TransportRetries - tries'[k]) <= Spent(k)'
BY DEF BudgetInv, Spent, PostsPerHop

LEMMA BudgetCall ==
  ASSUME TypeInv, BudgetInv, NEW t \in Tasks, Call(t)
  PROVE  BudgetInv'
<1>1. PICK j \in Jobs : Begin(t, j)
  BY DEF Call
<1>2. ASSUME NEW k \in Tasks, k # t
      PROVE  /\ tried'[k] = tried[k] /\ attempt'[k] = attempt[k]
             /\ serial'[k] = serial[k] /\ tries'[k] = tries[k]
             /\ pc'[k] = pc[k]
  BY <1>1, <1>2 DEF Begin, TypeInv, TypeOK
<1>3. /\ tried'[t] = {} /\ attempt'[t] = 0
      /\ pc'[t] \notin {"idle", "post"}
  BY <1>1 DEF Begin, TypeInv, TypeOK
<1>4. serial'[t] = 0
  BY <1>1 DEF Begin, Call, BudgetInv
<1>5. Spent(t)' = 0
  BY <1>3, RetriesAssumption DEF Spent, PostsPerHop
<1> QED
  BY <1>2, <1>3, <1>4, <1>5, BudgetFrame, FS_EmptySet DEF BudgetInv

LEMMA BudgetSelectHop ==
  ASSUME TypeInv, BudgetInv, NEW t \in Tasks, SelectHop(t)
  PROVE  BudgetInv'
<1>1. PICK offer \in Offers(est[t], job[t]) :
        \E u \in Hops(offer, job[t].primary, tried[t]) :
          /\ tried' = [tried EXCEPT ![t] = @ \cup {u}]
          /\ Post(t, u)
  BY DEF SelectHop
<1>2. PICK u \in Hops(offer, job[t].primary, tried[t]) :
          /\ tried' = [tried EXCEPT ![t] = @ \cup {u}]
          /\ Post(t, u)
  BY <1>1
<1>3. pc[t] = "route" /\ est[t] \in Establishments
  BY DEF SelectHop, TypeInv, TypeOK, HasDocument
<1>4. u \notin tried[t]
  BY <1>2, <1>3, HopsAreUrls DEF TypeInv
<1>5. /\ tried'[t] = tried[t] \cup {u}
      /\ attempt'[t] = attempt[t] + 1
      /\ serial'[t] = serial[t] + 1
      /\ tries'[t] = 0
      /\ pc'[t] = "post"
  BY <1>2 DEF SelectHop, Post, TypeInv, TypeOK
<1>6. ASSUME NEW k \in Tasks, k # t
      PROVE  /\ tried'[k] = tried[k] /\ attempt'[k] = attempt[k]
             /\ serial'[k] = serial[k] /\ tries'[k] = tries[k]
             /\ pc'[k] = pc[k]
  BY <1>2, <1>6 DEF SelectHop, Post, TypeInv, TypeOK
<1>7. IsFiniteSet(tried'[t]) /\ attempt'[t] = Cardinality(tried'[t])
  <2>1. IsFiniteSet(tried[t]) /\ attempt[t] = Cardinality(tried[t])
    BY DEF BudgetInv
  <2>2. /\ IsFiniteSet(tried[t] \cup {u})
        /\ Cardinality(tried[t] \cup {u}) = Cardinality(tried[t]) + 1
    BY <1>4, <2>1, FS_AddElement
  <2> QED
    BY <1>5, <2>1, <2>2
<1>8. attempt[t] \in Nat /\ serial[t] \in Nat
  BY AttemptsNat DEF TypeInv, TypeOK
<1>9. Spent(t)' = Spent(t) + TransportRetries + 1 /\ Spent(t) \in Nat
  BY <1>5, <1>8, OneMoreHop DEF Spent, PostsPerHop
<1>10. serial'[t] + (TransportRetries - tries'[t]) <= Spent(t)'
  BY <1>5, <1>8, <1>9, RetriesAssumption DEF BudgetInv
<1>11. serial'[t] <= Spent(t)'
  BY <1>5, <1>8, <1>9, RetriesAssumption DEF BudgetInv
<1> QED
  BY <1>5, <1>6, <1>7, <1>10, <1>11, BudgetFrame DEF BudgetInv

LEMMA BudgetRetry ==
  ASSUME TypeInv, BudgetInv, NEW t \in Tasks, TransportRetry(t)
  PROVE  BudgetInv'
<1>1. /\ serial'[t] = serial[t] + 1
      /\ tries'[t] = tries[t] + 1
      /\ UNCHANGED <<pc, tried, attempt>>
      /\ pc[t] = "post" /\ tries[t] < TransportRetries
  BY DEF TransportRetry, Repost, Post, TypeInv, TypeOK
<1>2. ASSUME NEW k \in Tasks, k # t
      PROVE  /\ tried'[k] = tried[k] /\ attempt'[k] = attempt[k]
             /\ serial'[k] = serial[k] /\ tries'[k] = tries[k]
             /\ pc'[k] = pc[k]
  BY <1>1, <1>2 DEF TransportRetry, Repost, Post, TypeInv, TypeOK
<1>3. /\ serial[t] \in Nat /\ tries[t] \in Nat /\ attempt[t] \in Nat
      /\ Spent(t) \in Nat
  BY AttemptsNat, RetriesAssumption, OneMoreHop DEF TypeInv, TypeOK, Spent
<1>4. Spent(t)' = Spent(t)
  BY <1>1 DEF Spent, PostsPerHop
<1>5. /\ serial'[t] + (TransportRetries - tries'[t]) <= Spent(t)'
      /\ serial'[t] <= Spent(t)'
  BY <1>1, <1>3, <1>4, RetriesAssumption DEF BudgetInv
<1>6. IsFiniteSet(tried'[t]) /\ attempt'[t] = Cardinality(tried'[t])
  BY <1>1 DEF BudgetInv
<1> QED
  BY <1>1, <1>2, <1>5, <1>6, BudgetFrame DEF BudgetInv

(* No other step posts, or changes what has been tried.                    *)
LEMMA BudgetQuiet ==
  ASSUME TypeInv, BudgetInv,
         UNCHANGED <<tried, attempt, serial, tries>>,
         \A k \in Tasks : /\ pc'[k] = "idle" => pc[k] = "idle"
                          /\ pc'[k] = "post" => pc[k] = "post"
  PROVE  BudgetInv'
BY DEF BudgetInv, Spent, PostsPerHop

LEMMA BudgetStep == TypeInv /\ BudgetInv /\ [Next]_vars => BudgetInv'
<1> SUFFICES ASSUME TypeInv, BudgetInv, [Next]_vars PROVE BudgetInv'
  OBVIOUS
<1>1. ASSUME NEW t \in Tasks, Call(t) PROVE BudgetInv'
  BY <1>1, BudgetCall
<1>2. ASSUME NEW t \in Tasks, SelectHop(t) \/ TransportRetry(t)
      PROVE  BudgetInv'
  BY <1>2, BudgetSelectHop, BudgetRetry
<1>3. ASSUME NEW t \in Tasks,
             \/ InstallEstablishment(t) \/ RejectCatalog(t)
             \/ EstablishFails(t) \/ GiveUp(t) \/ ReceiveFinal(t)
             \/ ReceiveBounce(t) \/ TransportFail(t) \/ Cancel(t)
             \/ ServeEstablish(t)
      PROVE  BudgetInv'
  <2>1. UNCHANGED <<tried, attempt, serial, tries>>
    BY <1>3 DEF InstallEstablishment, Resume, RejectCatalog, EstablishFails,
                GiveUp, ReceiveFinal, ReceiveBounce, Refetch, TransportFail,
                Cancel, ServeEstablish, locals, network
  <2>2. PICK p \in {"fetch", "route", "done"} :
          pc' = [pc EXCEPT ![t] = p] \/ pc' = pc
    BY <1>3 DEF InstallEstablishment, Resume, RejectCatalog, EstablishFails,
                GiveUp, ReceiveFinal, ReceiveBounce, Refetch, TransportFail,
                Cancel, ServeEstablish, Finish
  <2> QED
    BY <2>1, <2>2, BudgetQuiet DEF TypeInv, TypeOK
<1>4. CASE ServerStep \/ Publish \/ \E s \in Servers : Learn(s)
  <2>1. UNCHANGED <<tried, attempt, serial, tries, pc>>
    BY <1>4 DEF ServerStep, ServerExecutes, ServerDeclines, ServerStale,
                ServerBounces, ServerActs, Publish, Learn, locals, network
  <2> QED
    BY <2>1, BudgetQuiet
<1>5. CASE UNCHANGED vars
  <2>1. UNCHANGED <<tried, attempt, serial, tries, pc>>
    BY <1>5 DEF vars, locals, network
  <2> QED
    BY <2>1, BudgetQuiet
<1> QED
  BY <1>1, <1>2, <1>3, <1>4, <1>5 DEF Next, WorldStep, ClientStep

(* However the bounces and the transport failures of a call interleave, it *)
(* never posts more than (limit on hops) * (limit on retries + 1) times,   *)
(* and never offers the command to one URL in two hops.                    *)
THEOREM CallsWithinBudget == Spec => []WithinBudget
<1>1. TypeInv /\ BudgetInv => WithinBudget
  <2> SUFFICES ASSUME TypeInv, BudgetInv, NEW t \in Tasks
               PROVE  /\ attempt[t] = Cardinality(tried[t])
                      /\ serial[t] <= Attempts * (TransportRetries + 1)
                      /\ (pc[t] = "post" /\ reply[t] = "none")
                           => serial[t] <= attempt[t] * (TransportRetries + 1)
    BY DEF WithinBudget
  <2>1. attempt[t] \in 0..Attempts /\ serial[t] \in Nat
    BY DEF TypeInv, TypeOK
  <2>2. Spent(t) <= Attempts * PostsPerHop
    BY <2>1, HopsWithinLimit DEF Spent
  <2>3. Spent(t) \in Nat /\ Attempts * PostsPerHop \in Nat
    BY <2>1, AttemptsNat, OneMoreHop DEF Spent
  <2>4. serial[t] <= Spent(t) /\ serial[t] <= Attempts * PostsPerHop
    BY <2>1, <2>2, <2>3 DEF BudgetInv
  <2> QED
    BY <2>4 DEF BudgetInv, Spent, PostsPerHop
<1> QED
  BY <1>1, TypeInit, TypeStep, BudgetInit, BudgetStep, PTL DEF Spec
-----------------------------------------------------------------------------
(***************************************************************************)
(* The engine as a part.  The modules over RoutedCommand begin jobs of     *)
(* their own and have servers that look at a document; whatever they do to *)
(* the variables of the engine is a Begin or an EngineMove, so an invariant*)
(* that both keep is an invariant of every composition.                    *)
(***************************************************************************)
(* A server answers r: it bounces just those requests that it is no member *)
(* for, and a stale answer comes from a mere read member.                  *)
ServerAnswers(m, r) ==
  /\ ServerActs(m, r)
  /\ r # "none"
  /\ r = "wrongMachine"
       <=> ~Serves(known[Host[m.url]], Host[m.url], m.job)
  /\ r = "stale" =>
       /\ m.job.kind \in {"read", "readSot"}
       /\ Host[m.url] # WriteMember(known[Host[m.url]], m.job.home)
  /\ ran' \in {ran, [ran EXCEPT ![m.task] = @ + 1]}

EngineMove ==
  \/ \E t \in Tasks : ClientStep(t) \/ Cancel(t) \/ ServeEstablish(t)
  \/ \E m \in wire, r \in Replies : ServerAnswers(m, r)
  \/ Publish \/ \E s \in Servers : Learn(s)
  \/ UNCHANGED vars

LEMMA ServersAnswer ==
  ASSUME NEW m \in wire,
         \/ ServerExecutes(m) \/ ServerDeclines(m)
         \/ ServerStale(m) \/ ServerBounces(m)
  PROVE  \E r \in Replies : ServerAnswers(m, r)
<1>1. CASE ServerExecutes(m)
  <2>1. ServerAnswers(m, "ok")
    BY <1>1 DEF ServerExecutes, ServerAnswers
  <2> QED
    BY <2>1 DEF Replies
<1>2. CASE ServerDeclines(m)
  <2>1. ServerAnswers(m, "appError")
    BY <1>2 DEF ServerDeclines, ServerAnswers
  <2> QED
    BY <2>1 DEF Replies, AppErrors
<1>3. CASE ServerStale(m)
  <2>1. ServerAnswers(m, "stale")
    BY <1>3 DEF ServerStale, ServerAnswers
  <2> QED
    BY <2>1 DEF Replies, AppErrors
<1>4. CASE ServerBounces(m)
  <2>1. ServerAnswers(m, "wrongMachine")
    BY <1>4 DEF ServerBounces, ServerAnswers
  <2> QED
    BY <2>1 DEF Replies
<1> QED
  BY <1>1, <1>2, <1>3, <1>4

(* The engine on its own begins jobs and moves.                            *)
LEMMA EngineSteps ==
  ASSUME [Next]_vars
  PROVE  \/ \E t \in Tasks, j \in Jobs : pc[t] = "idle" /\ Begin(t, j)
         \/ EngineMove
BY ServersAnswer DEF Next, WorldStep, ServerStep, Call, EngineMove

LEMMA TypeMove ==
  ASSUME TypeInv, EngineMove
  PROVE  TypeInv'
<1>1. ASSUME NEW t \in Tasks, ClientStep(t) \/ Cancel(t) \/ ServeEstablish(t)
      PROVE  TypeInv'
  BY <1>1, TypeFetch, TypeSelectHop, TypeReceive DEF ClientStep
<1>2. ASSUME NEW m \in wire, NEW r \in Replies, ServerAnswers(m, r)
      PROVE  TypeInv'
  BY <1>2, TypeServerActs DEF ServerAnswers
<1>3. CASE Publish \/ \E s \in Servers : Learn(s)
  BY <1>3, TypeWorld
<1>4. CASE UNCHANGED vars
  BY <1>4 DEF vars, world, locals, network, history, TypeInv, TypeOK,
              HasDocument
<1> QED
  BY <1>1, <1>2, <1>3, <1>4 DEF EngineMove

(***************************************************************************)
(* What a caller knows about the requests on the wire.  Each was numbered  *)
(* when it was sent; the one with the caller's current number goes to the  *)
(* current hop with the current job, and as long as it is there the caller *)
(* has no reply.  A reply came from a server, at the URL of the hop.       *)
(***************************************************************************)
Current(m) == pc[m.task] = "post" /\ m.serial = serial[m.task]

WireInv ==
  /\ \A m \in wire : m.serial <= serial[m.task]
  /\ \A m \in wire : Current(m) =>
       /\ m.url = hop[m.task] /\ m.job = job[m.task]
       /\ reply[m.task] = "none"
  /\ \A t \in Tasks : pc[t] = "post" =>
       /\ serial[t] >= 1
       /\ reply[t] # "none" => Host[hop[t]] \in Servers

LEMMA WireInit == Init => WireInv
BY DEF Init, WireInv

LEMMA WireBegin ==
  ASSUME TypeInv, WireInv, NEW t \in Tasks, NEW j \in Jobs, Begin(t, j)
  PROVE  WireInv'
<1>1. /\ UNCHANGED <<serial, wire>> /\ pc'[t] # "post"
      /\ \A k \in Tasks \ {t} :
           /\ pc'[k] = pc[k] /\ hop'[k] = hop[k] /\ job'[k] = job[k]
           /\ reply'[k] = reply[k]
  BY DEF Begin, TypeInv, TypeOK
<1> QED
  BY <1>1 DEF WireInv, Current, TypeInv, TypeOK, Requests

(* A step that posts nothing and receives nothing, and brings no task to   *)
(* the point where it waits.                                               *)
LEMMA WireQuiet ==
  ASSUME TypeInv, WireInv, UNCHANGED <<serial, wire, reply, job, hop>>,
         \A k \in Tasks : pc'[k] = "post" => pc[k] = "post"
  PROVE  WireInv'
BY DEF WireInv, Current, TypeInv, TypeOK, Requests

LEMMA WirePost ==
  ASSUME TypeInv, WireInv, NEW t \in Tasks, NEW u \in Urls, Post(t, u),
         pc' = [pc EXCEPT ![t] = "post"], hop' = [hop EXCEPT ![t] = u],
         UNCHANGED job
  PROVE  WireInv'
<1>1. /\ serial' = [serial EXCEPT ![t] = serial[t] + 1]
      /\ wire' = wire \cup {Request(t, u)}
      /\ reply' = [reply EXCEPT ![t] = "none"]
  BY DEF Post
<1>2. /\ serial'[t] = serial[t] + 1 /\ serial[t] \in Nat
      /\ pc'[t] = "post" /\ hop'[t] = u /\ reply'[t] = "none"
  BY <1>1 DEF TypeInv, TypeOK
<1>3. ASSUME NEW k \in Tasks, k # t
      PROVE  /\ serial'[k] = serial[k] /\ pc'[k] = pc[k]
             /\ hop'[k] = hop[k] /\ reply'[k] = reply[k]
  BY <1>1, <1>3 DEF TypeInv, TypeOK
<1>4. ASSUME NEW m \in wire
      PROVE  /\ m.serial <= serial'[m.task]
             /\ m.task = t => m.serial # serial'[t]
  BY <1>2, <1>3 DEF WireInv, TypeInv, TypeOK, Requests
<1>5. /\ Request(t, u).task = t /\ Request(t, u).serial = serial'[t]
      /\ Request(t, u).url = u /\ Request(t, u).job = job[t]
  BY <1>2 DEF Request
<1>6. ASSUME NEW m \in wire
      PROVE  m.task \in Tasks
  BY DEF TypeInv, TypeOK, Requests
<1>7. \A m \in wire' : m.serial <= serial'[m.task]
  BY <1>1, <1>2, <1>4, <1>5
<1>8. ASSUME NEW m \in wire', Current(m)'
      PROVE  /\ m.url = hop'[m.task] /\ m.job = job'[m.task]
             /\ reply'[m.task] = "none"
  <2>1. CASE m = Request(t, u)
    BY <1>2, <1>5, <2>1
  <2>2. CASE m \in wire /\ m.task # t
    BY <1>3, <1>6, <1>8, <2>2 DEF Current, WireInv
  <2>3. CASE m \in wire /\ m.task = t
    BY <1>4, <1>8, <2>3 DEF Current
  <2> QED
    BY <1>1, <2>1, <2>2, <2>3
<1>9. ASSUME NEW k \in Tasks, pc'[k] = "post"
      PROVE  /\ serial'[k] >= 1
             /\ reply'[k] # "none" => Host[hop'[k]] \in Servers
  BY <1>2, <1>3, <1>9 DEF WireInv
<1> QED
  BY <1>7, <1>8, <1>9 DEF WireInv

LEMMA WireClient ==
  ASSUME TypeInv, WireInv, NEW t \in Tasks,
         ClientStep(t) \/ Cancel(t) \/ ServeEstablish(t)
  PROVE  WireInv'
<1>1. CASE SelectHop(t)
  <2>1. PICK offer \in Offers(est[t], job[t]) :
          \E u \in Hops(offer, job[t].primary, tried[t]) :
            hop' = [hop EXCEPT ![t] = u] /\ Post(t, u)
    BY <1>1 DEF SelectHop
  <2>2. PICK u \in Hops(offer, job[t].primary, tried[t]) :
          hop' = [hop EXCEPT ![t] = u] /\ Post(t, u)
    BY <2>1
  <2>3. u \in Urls
    BY <1>1, <2>2, HopsAreUrls
       DEF SelectHop, TypeInv, TypeOK, HasDocument
  <2> QED
    BY <1>1, <2>2, <2>3, WirePost DEF SelectHop
<1>2. CASE TransportRetry(t)
  <2>1. hop[t] \in Urls /\ Post(t, hop[t]) /\ UNCHANGED <<pc, hop, job>>
    BY <1>2 DEF TransportRetry, Repost, TypeInv, HasDocument
  <2>2. /\ pc' = [pc EXCEPT ![t] = "post"]
        /\ hop' = [hop EXCEPT ![t] = hop[t]]
    BY <1>2, <2>1 DEF TransportRetry, TypeInv, TypeOK
  <2> QED
    BY <2>1, <2>2, WirePost
<1>3. CASE \/ InstallEstablishment(t) \/ RejectCatalog(t)
           \/ EstablishFails(t) \/ GiveUp(t) \/ ReceiveFinal(t)
           \/ ReceiveBounce(t) \/ TransportFail(t) \/ Cancel(t)
           \/ ServeEstablish(t)
  <2>1. UNCHANGED <<serial, wire, reply, job, hop>>
    BY <1>3 DEF InstallEstablishment, Resume, RejectCatalog, EstablishFails,
                GiveUp, ReceiveFinal, ReceiveBounce, Refetch, TransportFail,
                Cancel, ServeEstablish, locals, network
  <2>2. PICK p \in {"fetch", "route", "done"} :
          pc' = [pc EXCEPT ![t] = p] \/ pc' = pc
    BY <1>3 DEF InstallEstablishment, Resume, RejectCatalog, EstablishFails,
                GiveUp, ReceiveFinal, ReceiveBounce, Refetch, TransportFail,
                Cancel, ServeEstablish, Finish
  <2> QED
    BY <2>1, <2>2, WireQuiet DEF TypeInv, TypeOK
<1> QED
  BY <1>1, <1>2, <1>3 DEF ClientStep

(* The request that is answered leaves the wire, and no other request has  *)
(* the number its caller waits for.                                        *)
LEMMA WireServer ==
  ASSUME TypeInv, WireInv, NEW m \in wire, NEW r, ServerActs(m, r)
  PROVE  WireInv'
<1>1. /\ wire' = wire \ {m} /\ UNCHANGED <<serial, pc, job, hop>>
      /\ reply' = Deliver(m, r) /\ Host[m.url] \in Servers
  BY DEF ServerActs, locals
<1>2. m.task \in Tasks
  BY DEF TypeInv, TypeOK, Requests
<1>3. ASSUME NEW n \in wire, Current(m), Current(n), n.task = m.task
      PROVE  n = m
  <2>1. m \in Requests /\ n \in Requests
    BY DEF TypeInv, TypeOK
  <2>2. n.url = m.url /\ n.job = m.job /\ n.serial = m.serial
    BY <1>3 DEF WireInv, Current
  <2> QED
    BY <1>3, <2>1, <2>2 DEF Requests
<1>4. ASSUME NEW k \in Tasks, k # m.task \/ ~Current(m)
      PROVE  reply'[k] = reply[k]
  BY <1>1, <1>2, <1>4 DEF Deliver, Current, TypeInv, TypeOK
<1>5. ASSUME NEW n \in wire'
      PROVE  /\ n.serial <= serial'[n.task]
             /\ Current(n)' => /\ n.url = hop'[n.task]
                               /\ n.job = job'[n.task]
                               /\ reply'[n.task] = "none"
  <2>1. n \in wire /\ n # m /\ n.task \in Tasks
    BY <1>1 DEF TypeInv, TypeOK, Requests
  <2>2. Current(n)' <=> Current(n)
    BY <1>1 DEF Current
  <2>3. Current(n) => n.task # m.task \/ ~Current(m)
    BY <1>3, <2>1
  <2> QED
    BY <1>1, <1>4, <2>1, <2>2, <2>3 DEF WireInv
<1>6. ASSUME NEW k \in Tasks, pc'[k] = "post"
      PROVE  /\ serial'[k] >= 1
             /\ reply'[k] # "none" => Host[hop'[k]] \in Servers
  <2>1. CASE k = m.task /\ Current(m)
    BY <1>1, <1>6, <2>1 DEF WireInv
  <2>2. CASE k # m.task \/ ~Current(m)
    BY <1>1, <1>4, <1>6, <2>2 DEF WireInv
  <2> QED
    BY <2>1, <2>2
<1> QED
  BY <1>5, <1>6 DEF WireInv

LEMMA WireMove ==
  ASSUME TypeInv, WireInv, EngineMove
  PROVE  WireInv'
<1>1. CASE \E t \in Tasks : ClientStep(t) \/ Cancel(t) \/ ServeEstablish(t)
  BY <1>1, WireClient
<1>2. CASE \E m \in wire, r \in Replies : ServerAnswers(m, r)
  BY <1>2, WireServer DEF ServerAnswers
<1>3. CASE \/ Publish \/ \E s \in Servers : Learn(s)
           \/ UNCHANGED vars
  <2>1. UNCHANGED <<serial, wire, reply, job, hop, pc>>
    BY <1>3 DEF Publish, Learn, vars, locals, network
  <2> QED
    BY <2>1, WireQuiet
<1> QED
  BY <1>1, <1>2, <1>3 DEF EngineMove
-----------------------------------------------------------------------------
(***************************************************************************)
(* What the steps of one caller leave alone.                               *)
(***************************************************************************)
Same(k) ==
  /\ pc'[k] = pc[k] /\ job'[k] = job[k] /\ est'[k] = est[k]
  /\ tried'[k] = tried[k] /\ attempt'[k] = attempt[k] /\ hop'[k] = hop[k]
  /\ fetched'[k] = fetched[k] /\ result'[k] = result[k]
  /\ calm'[k] = calm[k] /\ serial'[k] = serial[k]

LEMMA BeginFrame ==
  ASSUME TypeInv, NEW t \in Tasks, NEW j \in Jobs, Begin(t, j)
  PROVE  /\ \A k \in Tasks \ {t} : Same(k) /\ reply'[k] = reply[k]
         /\ UNCHANGED <<authoritative, known, cache, serial, wire>>
BY DEF Begin, Same, TypeInv, TypeOK, world

LEMMA ClientFrame ==
  ASSUME TypeInv, NEW t \in Tasks,
         ClientStep(t) \/ Cancel(t) \/ ServeEstablish(t)
  PROVE  /\ \A k \in Tasks \ {t} : Same(k) /\ reply'[k] = reply[k]
         /\ UNCHANGED <<authoritative, known, job, calm>>
<1> USE DEF Same, TypeInv, TypeOK
<1>1. CASE InstallEstablishment(t)
  BY <1>1 DEF InstallEstablishment, Resume, Finish, world, network, history
<1>2. CASE RejectCatalog(t) \/ EstablishFails(t)
  BY <1>2 DEF RejectCatalog, EstablishFails, Finish, world, locals, network,
              history
<1>3. CASE GiveUp(t) \/ ReceiveFinal(t) \/ TransportFail(t) \/ Cancel(t)
  BY <1>3 DEF GiveUp, ReceiveFinal, TransportFail, Cancel, Finish, world,
              locals, network, history
<1>4. CASE SelectHop(t)
  BY <1>4 DEF SelectHop, Post, world, history
<1>5. CASE ReceiveBounce(t)
  BY <1>5 DEF ReceiveBounce, Refetch, world, network
<1>6. CASE TransportRetry(t)
  BY <1>6 DEF TransportRetry, Repost, Post, world, history
<1>7. CASE ServeEstablish(t)
  BY <1>7 DEF ServeEstablish, world, network, history
<1> QED
  BY <1>1, <1>2, <1>3, <1>4, <1>5, <1>6, <1>7 DEF ClientStep

(* A server changes nothing of a caller but its reply, and that only when  *)
(* the request is the one the caller waits for.                            *)
LEMMA ServerFrame ==
  ASSUME TypeInv, NEW m \in wire, NEW r, ServerActs(m, r)
  PROVE  /\ \A k \in Tasks :
              /\ Same(k)
              /\ reply'[k] = IF k = m.task /\ Current(m)
                             THEN r ELSE reply[k]
         /\ UNCHANGED <<authoritative, known, cache, serial, pc, job, result>>
         /\ m \in Requests /\ m.task \in Tasks
BY DEF ServerActs, Deliver, Current, Same, TypeInv, TypeOK, Requests, world,
       locals

LEMMA WorldFrame ==
  ASSUME \/ Publish \/ \E s \in Servers : Learn(s)
         \/ UNCHANGED vars
  PROVE  UNCHANGED <<cache, pc, job, est, tried, attempt, hop, fetched,
                     serial, wire, reply, result>>
BY DEF Publish, Learn, vars, world, locals, network, history
(* A step of a caller, seen from outside: it posts, it ends with the reply *)
(* it has, it ends without one, or it goes on after a bounce or a refresh. *)
Posts(t) ==
  /\ pc[t] \in {"route", "post"} /\ pc'[t] = "post"
  /\ TransportRetries = 0 => pc[t] = "route"
  /\ \E u \in Urls : wire' = wire \cup {Request(t, u)}
  /\ reply'[t] = "none" /\ serial'[t] = serial[t] + 1 /\ result' = result

TakesReply(t) ==
  /\ pc[t] = "post" /\ pc'[t] = "done"
  /\ reply[t] # "none" /\ result'[t] = reply[t]
  /\ UNCHANGED <<serial, wire, reply>>

StopsShort(t) ==
  /\ pc[t] \in {"fetch", "route", "post"} /\ pc'[t] = "done"
  /\ result'[t] \in {"established", "catalog", "transport", "refused",
                     "wrongMachine", "cancelled"}
  /\ pc[t] = "post" => result'[t] \in {"transport", "cancelled"}
  /\ UNCHANGED <<serial, wire, reply>>

GoesOn(t) ==
  /\ pc[t] \in {"fetch", "post"} /\ pc'[t] \in {"fetch", "route"}
  /\ pc[t] = "post" => reply[t] = "wrongMachine"
  /\ UNCHANGED <<serial, wire, reply, result>>

LEMMA ClientSteps ==
  ASSUME TypeInv, NEW t \in Tasks, ClientStep(t) \/ Cancel(t)
  PROVE  Posts(t) \/ TakesReply(t) \/ StopsShort(t) \/ GoesOn(t)
<1> USE DEF TypeInv, TypeOK
<1>1. CASE InstallEstablishment(t)
  <2>1. /\ pc[t] = "fetch" /\ UNCHANGED <<serial, wire, reply>>
        /\ \/ pc'[t] = "done" /\ result'[t] = "established"
           \/ pc'[t] = "route" /\ UNCHANGED result
    BY <1>1 DEF InstallEstablishment, Resume, Finish, network
  <2> QED
    BY <2>1 DEF StopsShort, GoesOn
<1>2. CASE RejectCatalog(t) \/ EstablishFails(t) \/ GiveUp(t)
           \/ TransportFail(t) \/ Cancel(t)
  <2>1. /\ UNCHANGED <<serial, wire, reply>> /\ pc'[t] = "done"
        /\ pc[t] \in {"fetch", "route", "post"}
        /\ result'[t] \in {"catalog", "transport", "refused",
                           "wrongMachine", "cancelled"}
        /\ pc[t] = "post" => result'[t] \in {"transport", "cancelled"}
    BY <1>2 DEF RejectCatalog, EstablishFails, GiveUp, TransportFail, Cancel,
                Finish, network
  <2> QED
    BY <2>1 DEF StopsShort
<1>3. CASE SelectHop(t)
  <2>1. PICK offer \in Offers(est[t], job[t]) :
          \E u \in Hops(offer, job[t].primary, tried[t]) : Post(t, u)
    BY <1>3 DEF SelectHop
  <2>2. PICK u \in Hops(offer, job[t].primary, tried[t]) : Post(t, u)
    BY <2>1
  <2>3. u \in Urls
    BY <1>3, <2>2, HopsAreUrls DEF SelectHop, HasDocument
  <2>4. /\ reply'[t] = "none" /\ serial'[t] = serial[t] + 1
        /\ wire' = wire \cup {Request(t, u)}
    BY <2>2 DEF Post
  <2> QED
    BY <1>3, <2>3, <2>4 DEF SelectHop, Posts
<1>4. CASE ReceiveFinal(t)
  BY <1>4 DEF ReceiveFinal, Finish, network, AppErrors, TakesReply
<1>5. CASE ReceiveBounce(t)
  BY <1>5 DEF ReceiveBounce, Refetch, network, GoesOn
<1>6. CASE TransportRetry(t)
  <2>1. hop[t] \in Urls
    BY <1>6 DEF TransportRetry, HasDocument
  <2>2. tries[t] \in Nat /\ tries[t] < TransportRetries
    BY <1>6 DEF TransportRetry
  <2>3. /\ reply'[t] = "none" /\ serial'[t] = serial[t] + 1
        /\ wire' = wire \cup {Request(t, hop[t])}
        /\ UNCHANGED <<pc, result>> /\ pc[t] = "post"
    BY <1>6 DEF TransportRetry, Repost, Post
  <2> QED
    BY <2>1, <2>2, <2>3 DEF Posts
<1> QED
  BY <1>1, <1>2, <1>3, <1>4, <1>5, <1>6 DEF ClientStep
-----------------------------------------------------------------------------
(***************************************************************************)
(* Documents.  Each is a published layout with the number under which it   *)
(* was published; none is ahead of the current one, and the one that has   *)
(* the current number is the current one.                                  *)
(***************************************************************************)
Published(e) == \E d \in Topologies : e = [d EXCEPT !.version = e.version]

NoNewer(e) ==
  e # NoEst =>
    /\ Published(e)
    /\ e.version <= authoritative.version
    /\ e.version = authoritative.version => e = authoritative

DocsInv ==
  /\ Published(authoritative)
  /\ NoNewer(cache)
  /\ \A t \in Tasks : NoNewer(est[t]) /\ NoNewer(fetched[t])

LEMMA DocsInit == Init => DocsInv
<1> SUFFICES ASSUME Init PROVE DocsInv
  OBVIOUS
<1>1. PICK d \in Topologies : authoritative = [d EXCEPT !.version = 1]
  BY DEF Init
<1>2. authoritative.version = 1
  BY <1>1, Stamped
<1> QED
  BY <1>1, <1>2 DEF Init, DocsInv, NoNewer, Published

LEMMA DocsBegin ==
  ASSUME TypeInv, DocsInv, NEW t \in Tasks, NEW j \in Jobs, Begin(t, j)
  PROVE  DocsInv'
<1>1. /\ UNCHANGED <<authoritative, cache>>
      /\ est' = [est EXCEPT ![t] = cache]
      /\ fetched' = [fetched EXCEPT ![t] = NoEst]
  BY DEF Begin, world
<1> QED
  BY <1>1 DEF DocsInv, NoNewer, Published, TypeInv, TypeOK

LEMMA DocsMove ==
  ASSUME TypeInv, DocsInv, EngineMove
  PROVE  DocsInv'
<1>1. ASSUME NEW t \in Tasks, ClientStep(t) \/ Cancel(t) \/ ServeEstablish(t)
      PROVE  DocsInv'
  <2>1. authoritative' = authoritative
    BY <1>1, ClientFrame
  <2>2. /\ authoritative \in Establishments
        /\ authoritative.version \in Nat
    BY VersionNat DEF TypeInv, TypeOK
  <2>3. NoNewer(authoritative)
    BY <2>2 DEF DocsInv, NoNewer
  <2>4. /\ cache' \in {cache, fetched[t]}
        /\ est'[t] \in {est[t], fetched[t]}
        /\ fetched'[t] \in {fetched[t], authoritative, NoEst}
    BY <1>1 DEF ClientStep, InstallEstablishment, Resume, RejectCatalog,
                EstablishFails, SelectHop, GiveUp, ReceiveFinal,
                ReceiveBounce, Refetch, TransportRetry, Repost,
                TransportFail, Cancel, ServeEstablish, locals, TypeInv,
                TypeOK
  <2>5. \A k \in Tasks \ {t} : est'[k] = est[k] /\ fetched'[k] = fetched[k]
    BY <1>1, ClientFrame DEF Same
  <2>6. NoNewer(NoEst)
    BY DEF NoNewer
  <2>7. /\ NoNewer(cache')
        /\ \A k \in Tasks : NoNewer(est'[k]) /\ NoNewer(fetched'[k])
    BY <2>3, <2>4, <2>5, <2>6 DEF DocsInv
  <2> QED
    BY <2>1, <2>7 DEF DocsInv, NoNewer, Published
<1>2. CASE \/ \E m \in wire, r \in Replies : ServerAnswers(m, r)
           \/ \E s \in Servers : Learn(s)
           \/ UNCHANGED vars
  <2>1. UNCHANGED <<authoritative, cache, est, fetched>>
    BY <1>2 DEF ServerAnswers, ServerActs, Learn, vars, world, locals
  <2> QED
    BY <2>1 DEF DocsInv, NoNewer, Published
<1>3. CASE Publish
  <2>1. PICK d \in Topologies :
          authoritative' = [d EXCEPT !.version = authoritative.version + 1]
    BY <1>3 DEF Publish
  <2>2. authoritative.version \in Nat
    BY VersionNat DEF TypeInv, TypeOK
  <2>3. authoritative'.version = authoritative.version + 1
    BY <2>1, <2>2, Stamped
  <2>4. Published(authoritative')
    BY <2>1, <2>3 DEF Published
  <2>5. ASSUME NEW e \in Establishments \cup {NoEst}, NoNewer(e)
        PROVE  /\ e # NoEst => Published(e)
               /\ e # NoEst => e.version <= authoritative'.version
               /\ e # NoEst => e.version # authoritative'.version
    BY <2>2, <2>3, <2>5, VersionNat DEF NoNewer
  <2>6. UNCHANGED <<cache, est, fetched>>
    BY <1>3, WorldFrame
  <2> QED
    BY <2>4, <2>5, <2>6 DEF DocsInv, NoNewer, Published, TypeInv, TypeOK
<1> QED
  BY <1>1, <1>2, <1>3 DEF EngineMove
-----------------------------------------------------------------------------
(***************************************************************************)
(* One call.  What the result of a call says about the way it went: only a *)
(* call that routes can bounce or be answered, an answer came from a       *)
(* server at the URL of the last hop, and a read from the SOT member has   *)
(* hopped to the SOT member of the document it routed by.                  *)
(***************************************************************************)
Answered == {"ok"} \cup AppErrors

CallOK(t) ==
  /\ pc[t] # "done" => result[t] = "none"
  /\ pc[t] \in {"route", "post"} => ~Fetches(job[t])
  /\ pc[t] = "post" => attempt[t] >= 1
  /\ pc[t] = "post" /\ job[t].kind = "readSot"
       => hop[t] = Rewrite(RouteDocumentWrite(est[t], job[t].slot))
  /\ result[t] \in Answered \cup {"wrongMachine"} => ~Fetches(job[t])
  /\ result[t] \in Answered
       => attempt[t] >= 1 /\ hop[t] \in Urls /\ Host[hop[t]] \in Servers
  /\ result[t] = "established" => est[t] # NoEst

CallInv == \A t \in Tasks : CallOK(t)

LEMMA CallInit == Init => CallInv
BY DEF Init, CallInv, CallOK, Answered, AppErrors

LEMMA CallFrame ==
  ASSUME NEW k \in Tasks, CallOK(k), Same(k)
  PROVE  CallOK(k)'
BY DEF CallOK, Same

LEMMA CallBegin ==
  ASSUME TypeInv, CallInv, NEW t \in Tasks, NEW j \in Jobs, Begin(t, j)
  PROVE  CallInv'
<1>1. CallOK(t)'
  <2>1. /\ job'[t] = j /\ est'[t] = cache /\ attempt'[t] = 0
        /\ \/ pc'[t] = "fetch" /\ result'[t] = "none"
           \/ pc'[t] = "route" /\ result'[t] = "none" /\ ~Fetches(j)
           \/ /\ cache # NoEst /\ pc'[t] = "done"
              /\ result'[t] \in {"established", "catalog"}
    BY DEF Begin, Fetches, TypeInv, TypeOK
  <2> QED
    BY <2>1 DEF CallOK, Answered, AppErrors
<1>2. ASSUME NEW k \in Tasks \ {t}
      PROVE  CallOK(k)'
  BY BeginFrame, CallFrame DEF CallInv
<1> QED
  BY <1>1, <1>2 DEF CallInv

(* The hop of a read from the SOT member.                                  *)
LEMMA SotHop ==
  ASSUME NEW e, NEW j, j.kind = "readSot", NEW offer \in Offers(e, j),
         NEW seen, NEW u \in Hops(offer, j.primary, seen)
  PROVE  u = Rewrite(RouteDocumentWrite(e, j.slot))
BY DEF Offers, Hops

LEMMA CallClient ==
  ASSUME TypeInv, WireInv, CallInv, NEW t \in Tasks,
         ClientStep(t) \/ Cancel(t) \/ ServeEstablish(t)
  PROVE  CallInv'
<1>1. ASSUME NEW k \in Tasks \ {t}
      PROVE  CallOK(k)'
  BY <1>1, ClientFrame, CallFrame DEF CallInv
<1>2. CallOK(t)
  BY DEF CallInv
<1> USE DEF TypeInv, TypeOK
<1>3. CASE InstallEstablishment(t)
  <2>1. /\ pc[t] = "fetch" /\ job' = job /\ est'[t] = fetched[t]
        /\ fetched[t] # NoEst
        /\ \/ pc'[t] = "done" /\ result'[t] = "established"
           \/ pc'[t] = "route" /\ result' = result /\ ~Fetches(job[t])
    BY <1>3 DEF InstallEstablishment, Resume, Finish, Fetches
  <2>2. CallOK(t)'
    BY <1>2, <2>1 DEF CallOK, Answered, AppErrors
  <2> QED
    BY <1>1, <2>2 DEF CallInv
<1>4. CASE RejectCatalog(t) \/ EstablishFails(t) \/ TransportFail(t)
           \/ Cancel(t)
  <2>1. /\ pc'[t] = "done" /\ job' = job
        /\ result'[t] \in {"catalog", "transport", "refused", "cancelled"}
    BY <1>4 DEF RejectCatalog, EstablishFails, TransportFail, Cancel, Finish,
                locals
  <2>2. CallOK(t)'
    BY <2>1 DEF CallOK, Answered, AppErrors
  <2> QED
    BY <1>1, <2>2 DEF CallInv
<1>5. CASE GiveUp(t)
  <2>1. /\ pc[t] = "route" /\ pc'[t] = "done" /\ job' = job
        /\ result'[t] = "wrongMachine"
    BY <1>5 DEF GiveUp, Finish, locals
  <2>2. CallOK(t)'
    BY <1>2, <2>1 DEF CallOK, Answered, AppErrors
  <2> QED
    BY <1>1, <2>2 DEF CallInv
<1>6. CASE ReceiveFinal(t)
  <2>1. /\ pc[t] = "post" /\ pc'[t] = "done"
        /\ UNCHANGED <<job, attempt, hop>>
        /\ result'[t] = reply[t] /\ reply[t] \in Answered
    BY <1>6 DEF ReceiveFinal, Finish, locals, Answered
  <2>2. hop[t] \in Urls /\ Host[hop[t]] \in Servers
    BY <2>1 DEF WireInv, HasDocument, Answered, AppErrors
  <2>3. CallOK(t)'
    BY <1>2, <2>1, <2>2 DEF CallOK, Answered, AppErrors
  <2> QED
    BY <1>1, <2>3 DEF CallInv
<1>7. CASE SelectHop(t)
  <2>1. PICK offer \in Offers(est[t], job[t]) :
          \E u \in Hops(offer, job[t].primary, tried[t]) :
            hop' = [hop EXCEPT ![t] = u]
    BY <1>7 DEF SelectHop
  <2>2. PICK u \in Hops(offer, job[t].primary, tried[t]) :
          hop' = [hop EXCEPT ![t] = u]
    BY <2>1
  <2>3. /\ pc[t] = "route" /\ pc'[t] = "post"
        /\ UNCHANGED <<job, est, result>>
        /\ hop'[t] = u
        /\ attempt[t] \in Nat /\ attempt'[t] = attempt[t] + 1
    BY <1>7, <2>2, AttemptsNat DEF SelectHop
  <2>4. job[t].kind = "readSot"
          => u = Rewrite(RouteDocumentWrite(est[t], job[t].slot))
    BY SotHop
  <2>5. CallOK(t)'
    BY <1>2, <2>3, <2>4 DEF CallOK, Answered, AppErrors
  <2> QED
    BY <1>1, <2>5 DEF CallInv
<1>8. CASE ReceiveBounce(t) \/ TransportRetry(t) \/ ServeEstablish(t)
  <2>1. /\ UNCHANGED <<job, est, attempt, hop, result>>
        /\ pc'[t] = "fetch" \/ pc' = pc
        /\ pc[t] \in {"fetch", "post"}
    BY <1>8 DEF ReceiveBounce, Refetch, TransportRetry, Repost,
                ServeEstablish
  <2>2. CallOK(t)'
    BY <1>2, <2>1 DEF CallOK, Answered, AppErrors
  <2> QED
    BY <1>1, <2>2 DEF CallInv
<1> QED
  BY <1>3, <1>4, <1>5, <1>6, <1>7, <1>8 DEF ClientStep

LEMMA CallMove ==
  ASSUME TypeInv, WireInv, CallInv, EngineMove
  PROVE  CallInv'
<1>1. ASSUME NEW m \in wire, NEW r \in Replies, ServerAnswers(m, r)
      PROVE  CallInv'
  BY <1>1, ServerFrame, CallFrame DEF ServerAnswers, CallInv
<1>2. CASE \/ Publish \/ \E s \in Servers : Learn(s)
           \/ UNCHANGED vars
  BY <1>2, WorldFrame DEF CallInv, CallOK
<1> QED
  BY <1>1, <1>2, CallClient DEF EngineMove
-----------------------------------------------------------------------------
(***************************************************************************)
(* A deployment that stands still.  While nothing is published every server*)
(* acts on the current document, so a bounce says that the URL belongs to  *)
(* no member for the data, and the hop after it is routed by the current   *)
(* document: it goes to a member.                                          *)
(***************************************************************************)
Owns(e, u, j) == Host[u] \in Servers /\ Serves(e, Host[u], j)

InsistsOn(j) == j.kind = "read" /\ Rewrite(j.primary) # NoUrl

CalmRoute(t) ==
  /\ attempt[t] \in 0..2
  /\ attempt[t] = 0 => tried[t] = {}
  /\ attempt[t] = 1 =>
       /\ tried[t] = {hop[t]}
       /\ InsistsOn(job[t]) => hop[t] = Rewrite(job[t].primary)
       /\ pc[t] \in {"fetch", "route"}
            => ~Owns(authoritative, hop[t], job[t])
       /\ pc[t] = "post" /\ reply[t] = "wrongMachine"
            => ~Owns(authoritative, hop[t], job[t])
       /\ pc[t] = "route" => est[t] = authoritative
  /\ attempt[t] = 2 =>
       /\ pc[t] \in {"post", "done"}
       /\ Owns(authoritative, hop[t], job[t])
       /\ InsistsOn(job[t])
            => ~Owns(authoritative, Rewrite(job[t].primary), job[t])
       /\ pc[t] = "post" => reply[t] # "wrongMachine"
  /\ EveryDocumentRoutes => result[t] # "wrongMachine"

(* A read from the SOT member that was routed by the current document.     *)
CalmSot(t) ==
  (job[t].kind = "readSot" /\ est[t] = authoritative) =>
    /\ pc[t] = "post" => reply[t] # "stale"
    /\ result[t] # "stale"

CalmOK(t) ==
  calm[t] =>
    /\ Settled
    /\ fetched[t] \in {NoEst, authoritative}
    /\ Routable(authoritative, job[t]) => CalmRoute(t) /\ CalmSot(t)

CalmInv == \A t \in Tasks : CalmOK(t)

(* A server's name on a candidate that reaches it.                         *)
LEMMA ReachesServer ==
  ASSUME NEW c \in Candidates, Reaches(c),
         c.name = NoMember => c.base = NoUrl
  PROVE  /\ Rewrite(c) \in Urls
         /\ Host[Rewrite(c)] \in Servers /\ Host[Rewrite(c)] = c.name
<1>1. Rewrite(c) \in Urls
  BY RewriteAssumption DEF Reaches, Rewrite, Candidates
<1>2. c.name # NoMember
  BY NoMemberAssumption, NoUrlAssumption DEF Reaches, Rewrite
<1> QED
  BY <1>1, <1>2 DEF Reaches, Candidates

LEMMA CandidateType ==
  ASSUME NEW e \in Establishments, NEW s \in Servers \cup {NoMember}
  PROVE  /\ Candidate(e, s) \in Candidates
         /\ Candidate(e, s).name = s
         /\ s = NoMember => Candidate(e, s).base = NoUrl
BY NoMemberAssumption
   DEF Candidate, Candidates, ServerBaseURL, Establishments

LEMMA MembersType ==
  ASSUME NEW e \in Establishments, NEW slot
  PROVE  /\ WriteMember(e, slot) \in Servers \cup {NoMember}
         /\ ReadMembers(e, slot) \subseteq Servers \cup {NoMember}
         /\ ReadMembers(e, slot) # {}
BY DEF WriteMember, ReadMembers, Establishments

(* What is offered for a job that the document can route: every candidate  *)
(* but the primary of a read is a member for the data, and there is one.   *)
LEMMA RoutableOffers ==
  ASSUME NEW e \in Establishments, NEW j \in JobType, Routable(e, j),
         NEW offer \in Offers(e, j)
  PROVE  /\ \A c \in offer :
              \/ j.kind = "read" /\ c = j.primary
              \/ Rewrite(c) # NoUrl /\ Owns(e, Rewrite(c), j)
         /\ \E c \in offer : Rewrite(c) # NoUrl /\ Owns(e, Rewrite(c), j)
<1> DEFINE Good(c) == Rewrite(c) # NoUrl /\ Owns(e, Rewrite(c), j)
<1> SUFFICES /\ \A c \in offer : (j.kind = "read" /\ c = j.primary) \/ Good(c)
             /\ \E c \in offer : Good(c)
  OBVIOUS
<1> DEFINE free == [j EXCEPT !.primary = NoCandidate]
<1> HIDE DEF Good
<1>1. /\ j.slot = j.home
      /\ \A o \in Offers(e, free) : \A c \in o : Reaches(c)
  BY DEF Routable
<1>2. free.kind = j.kind /\ free.slot = j.slot /\ free.primary = NoCandidate
  BY DEF JobType
<1>3. ASSUME NEW s \in Servers \cup {NoMember}, Reaches(Candidate(e, s)),
             Serves(e, s, j)
      PROVE  Good(Candidate(e, s))
  <2>1. /\ Rewrite(Candidate(e, s)) \in Urls
        /\ Host[Rewrite(Candidate(e, s))] \in Servers
        /\ Host[Rewrite(Candidate(e, s))] = s
    BY <1>3, CandidateType, ReachesServer
  <2> QED
    BY <1>3, <2>1, NoUrlAssumption DEF Owns, Good
<1>4. CASE j.kind = "read"
  <2>1. /\ offer = RouteDocumentReadCandidates(e, j.slot)
                     \cup ({j.primary} \ {NoCandidate})
        /\ RouteDocumentReadCandidates(e, j.slot) \in Offers(e, free)
    BY <1>2, <1>4 DEF Offers
  <2>2. ASSUME NEW s \in ReadMembers(e, j.slot)
        PROVE  Good(Candidate(e, s)) /\ Candidate(e, s) \in offer
    <3>1. Serves(e, s, j)
      BY <1>1, <1>4 DEF Serves
    <3>2. Reaches(Candidate(e, s)) /\ Candidate(e, s) \in offer
      BY <1>1, <2>1 DEF RouteDocumentReadCandidates
    <3> QED
      BY <1>3, <3>1, <3>2, MembersType
  <2>3. PICK s \in ReadMembers(e, j.slot) : TRUE
    BY MembersType
  <2>4. ASSUME NEW c \in offer
        PROVE  c = j.primary \/ Good(c)
    BY <2>1, <2>2 DEF RouteDocumentReadCandidates
  <2>5. \E c \in offer : Good(c)
    BY <2>2, <2>3
  <2> QED
    BY <1>4, <2>4, <2>5
<1>5. CASE j.kind # "read"
  <2>1. offer \in Offers(e, free)
    BY <1>2, <1>5 DEF Offers
  <2>2. \E s \in Servers \cup {NoMember} :
          offer = {Candidate(e, s)} /\ Serves(e, s, j)
    <3>1. ASSUME j.kind = "search",
                 j.slot \in Slots /\ e.readers[j.slot] # {}
          PROVE  \E s \in Servers : offer = {Candidate(e, s)}
                                    /\ Serves(e, s, j)
      <4>1. PICK s \in e.readers[j.slot] : offer = {Candidate(e, s)}
        BY <3>1 DEF Offers, RouteSearchChoices
      <4>2. s \in Servers
        BY <3>1 DEF Establishments
      <4>3. Serves(e, s, j)
        BY <1>1, <3>1 DEF Serves, ReadMembers
      <4> QED
        BY <4>1, <4>2, <4>3
    <3>2. ASSUME ~(/\ j.kind = "search"
                   /\ j.slot \in Slots /\ e.readers[j.slot] # {})
          PROVE  /\ offer = {Candidate(e, WriteMember(e, j.slot))}
                 /\ Serves(e, WriteMember(e, j.slot), j)
      BY <1>1, <1>5, <3>2
         DEF Offers, RouteSearchChoices, RouteDocumentWrite, Serves
    <3> QED
      BY <3>1, <3>2, MembersType
  <2>3. PICK s \in Servers \cup {NoMember} :
          offer = {Candidate(e, s)} /\ Serves(e, s, j)
    BY <2>2
  <2>4. Good(Candidate(e, s))
    BY <1>1, <1>3, <2>1, <2>3
  <2>5. \A c \in offer : Good(c)
    BY <2>3, <2>4
  <2> QED
    BY <2>3, <2>5
<1> QED
  BY <1>4, <1>5

(* The very first hop of a read goes to its primary, when that has a URL.  *)
LEMMA InsistedHop ==
  ASSUME NEW e, NEW j \in JobType, InsistsOn(j), NEW offer \in Offers(e, j),
         NEW u \in Hops(offer, j.primary, {})
  PROVE  u = Rewrite(j.primary)
<1>1. Rewrite(NoCandidate) = NoUrl
  BY NoMemberAssumption, NoUrlAssumption DEF Rewrite, NoCandidate
<1>2. j.primary \in offer
  BY <1>1 DEF InsistsOn, Offers
<1> QED
  BY <1>2 DEF InsistsOn, Hops

(* The hop after a bounce, routed by the current document, goes to a       *)
(* member for the data.                                                    *)
LEMMA MemberHop ==
  ASSUME NEW e \in Establishments, NEW j \in JobType, Routable(e, j),
         NEW offer \in Offers(e, j), NEW v, ~Owns(e, v, j),
         InsistsOn(j) => v = Rewrite(j.primary)
  PROVE  /\ Hops(offer, j.primary, {v}) # {}
         /\ \A u \in Hops(offer, j.primary, {v}) : Owns(e, u, j)
<1>1. PICK c \in offer : Rewrite(c) # NoUrl /\ Owns(e, Rewrite(c), j)
  BY RoutableOffers
<1>2. Rewrite(c) # v
  BY <1>1
<1>3. Hops(offer, j.primary, {v}) # {}
  BY <1>1, <1>2 DEF Hops
<1>4. ASSUME NEW u \in Hops(offer, j.primary, {v})
      PROVE  Owns(e, u, j)
  <2>1. PICK d \in offer : u = Rewrite(d)
    BY DEF Hops
  <2>2. u # NoUrl /\ u # v
    BY DEF Hops
  <2>3. ~(j.kind = "read" /\ d = j.primary)
    BY <2>1, <2>2 DEF InsistsOn
  <2> QED
    BY <2>1, <2>3, RoutableOffers
<1> QED
  BY <1>3, <1>4

(* A document routes as the layout it was published from.                  *)
LEMMA OffersStamped ==
  ASSUME NEW e \in Establishments, NEW d \in Establishments,
         e = [d EXCEPT !.version = e.version], NEW j
  PROVE  Offers(e, j) = Offers(d, j)
<1>1. /\ e.establishmentServer = d.establishmentServer
      /\ e.baseURL = d.baseURL /\ e.sot = d.sot /\ e.readers = d.readers
  BY DEF Establishments
<1>2. \A s : Candidate(e, s) = Candidate(d, s)
  BY <1>1 DEF Candidate, ServerBaseURL
<1>3. /\ \A slot : WriteMember(e, slot) = WriteMember(d, slot)
      /\ \A slot : ReadMembers(e, slot) = ReadMembers(d, slot)
  BY <1>1 DEF WriteMember, ReadMembers
<1>4. /\ \A slot : RouteDocumentWrite(e, slot) = RouteDocumentWrite(d, slot)
      /\ \A slot : RouteDocumentReadCandidates(e, slot)
                     = RouteDocumentReadCandidates(d, slot)
  BY <1>2, <1>3 DEF RouteDocumentWrite, RouteDocumentReadCandidates
<1>5. \A slot : RouteSearchChoices(e, slot) = RouteSearchChoices(d, slot)
  BY <1>1, <1>2, <1>4 DEF RouteSearchChoices
<1> QED
  BY <1>4, <1>5 DEF Offers

LEMMA FirstHop ==
  ASSUME EveryDocumentRoutes, NEW e \in Establishments, Published(e),
         NEW j \in Jobs, ~Fetches(j), NEW offer \in Offers(e, j)
  PROVE  Hops(offer, j.primary, {}) # {}
<1>1. PICK d \in Topologies : e = [d EXCEPT !.version = e.version]
  BY DEF Published
<1>2. offer \in Offers(d, j)
  BY <1>1, OffersStamped, TopologiesAssumption
<1> QED
  BY <1>2 DEF EveryDocumentRoutes

LEMMA CalmInit == Init => CalmInv
BY DEF Init, CalmInv, CalmOK

LEMMA CalmFrame ==
  ASSUME NEW k \in Tasks, CalmOK(k), Same(k), reply'[k] = reply[k],
         UNCHANGED <<authoritative, known>>
  PROVE  CalmOK(k)'
<1> USE DEF Same
<1>1. CalmRoute(k) => CalmRoute(k)'
  BY DEF CalmRoute
<1>2. CalmSot(k) => CalmSot(k)'
  BY DEF CalmSot
<1> QED
  BY <1>1, <1>2 DEF CalmOK, Settled

LEMMA CalmBegin ==
  ASSUME TypeInv, CalmInv, NEW t \in Tasks, NEW j \in Jobs, Begin(t, j)
  PROVE  CalmInv'
<1>1. CalmOK(t)'
  <2>1. /\ calm'[t] = Settled /\ UNCHANGED <<authoritative, known>>
        /\ fetched'[t] = NoEst /\ attempt'[t] = 0 /\ tried'[t] = {}
        /\ pc'[t] \in {"fetch", "route", "done"}
        /\ result'[t] \in {"none", "established", "catalog"}
    BY DEF Begin, world, TypeInv, TypeOK
  <2>2. CalmRoute(t)'
    BY <2>1 DEF CalmRoute
  <2>3. CalmSot(t)'
    BY <2>1 DEF CalmSot
  <2> QED
    BY <2>1, <2>2, <2>3 DEF CalmOK, Settled
<1>2. ASSUME NEW k \in Tasks \ {t}
      PROVE  CalmOK(k)'
  BY BeginFrame, CalmFrame DEF CalmInv
<1> QED
  BY <1>1, <1>2 DEF CalmInv

(* The step of a caller, once its own part of the invariant is shown.      *)
LEMMA CalmClient ==
  ASSUME TypeInv, DocsInv, CallInv, CalmInv, NEW t \in Tasks,
         ClientStep(t) \/ Cancel(t) \/ ServeEstablish(t)
  PROVE  CalmInv'
<1>1. ASSUME NEW k \in Tasks \ {t}
      PROVE  CalmOK(k)'
  BY <1>1, ClientFrame, CalmFrame DEF CalmInv
<1>2. /\ UNCHANGED <<authoritative, known, job, calm>>
      /\ Settled' = Settled
      /\ Routable(authoritative, job[t])' = Routable(authoritative, job[t])
  BY ClientFrame DEF Settled
<1>3. CalmOK(t) /\ CallOK(t)
  BY DEF CalmInv, CallInv
<1>4. SUFFICES ASSUME calm[t], Settled, fetched[t] \in {NoEst, authoritative}
               PROVE  /\ fetched'[t] \in {NoEst, authoritative}
                      /\ Routable(authoritative, job[t])
                           => CalmRoute(t)' /\ CalmSot(t)'
  BY <1>1, <1>2, <1>3 DEF CalmInv, CalmOK
<1>5. Routable(authoritative, job[t]) => CalmRoute(t) /\ CalmSot(t)
  BY <1>3, <1>4 DEF CalmOK
<1> DEFINE Held == CalmRoute(t)' /\ CalmSot(t)'
<1> HIDE DEF Held
<1> SUFFICES /\ fetched'[t] \in {NoEst, authoritative}
             /\ Routable(authoritative, job[t]) => Held
  BY DEF Held
<1> USE DEF TypeInv, TypeOK
<1>6. CASE ServeEstablish(t)
  <2>1. /\ fetched'[t] = authoritative
        /\ UNCHANGED <<pc, est, tried, attempt, hop, reply, result>>
    BY <1>6 DEF ServeEstablish, network
  <2> QED
    BY <1>2, <1>5, <2>1 DEF Held, CalmRoute, CalmSot
<1>7. CASE InstallEstablishment(t)
  <2>1. /\ pc[t] = "fetch" /\ est'[t] = authoritative /\ fetched'[t] = NoEst
        /\ UNCHANGED <<tried, attempt, hop, reply>>
        /\ \/ pc'[t] = "done" /\ result'[t] = "established"
           \/ pc'[t] = "route" /\ result' = result
    BY <1>4, <1>7 DEF InstallEstablishment, Resume, Finish, network
  <2>2. CalmRoute(t) => CalmRoute(t)'
    BY <1>2, <2>1 DEF CalmRoute
  <2>3. CalmSot(t)'
    BY <1>3, <2>1 DEF CallOK, CalmSot
  <2> QED
    BY <1>5, <2>1, <2>2, <2>3 DEF Held
<1>8. CASE RejectCatalog(t) \/ EstablishFails(t) \/ TransportFail(t)
           \/ Cancel(t)
  <2>1. /\ pc'[t] = "done"
        /\ UNCHANGED <<est, tried, attempt, hop, reply, fetched>>
        /\ result'[t] \in {"catalog", "transport", "refused", "cancelled"}
    BY <1>8 DEF RejectCatalog, EstablishFails, TransportFail, Cancel, Finish,
                locals, network
  <2>2. CalmRoute(t) => CalmRoute(t)'
    BY <1>2, <2>1 DEF CalmRoute
  <2>3. CalmSot(t)'
    BY <2>1 DEF CalmSot
  <2> QED
    BY <1>4, <1>5, <2>1, <2>2, <2>3 DEF Held
<1>9. CASE ReceiveFinal(t)
  <2>1. /\ pc[t] = "post" /\ pc'[t] = "done"
        /\ UNCHANGED <<est, tried, attempt, hop, reply, fetched>>
        /\ result'[t] = reply[t] /\ reply[t] # "wrongMachine"
    BY <1>9 DEF ReceiveFinal, Finish, locals, network, AppErrors
  <2>2. CalmRoute(t) => CalmRoute(t)'
    BY <1>2, <2>1 DEF CalmRoute
  <2>3. CalmSot(t) => CalmSot(t)'
    BY <1>2, <2>1 DEF CalmSot
  <2> QED
    BY <1>4, <1>5, <2>1, <2>2, <2>3 DEF Held
<1>10. CASE ReceiveBounce(t)
  <2>1. /\ pc[t] = "post" /\ pc'[t] = "fetch" /\ reply[t] = "wrongMachine"
        /\ fetched'[t] = NoEst
        /\ UNCHANGED <<est, tried, attempt, hop, reply, result>>
    BY <1>10 DEF ReceiveBounce, Refetch, network
  <2>2. CalmRoute(t) => CalmRoute(t)'
    BY <1>2, <2>1 DEF CalmRoute
  <2>3. CalmSot(t) => CalmSot(t)'
    BY <1>2, <2>1 DEF CalmSot
  <2> QED
    BY <1>5, <2>1, <2>2, <2>3 DEF Held
<1>11. CASE TransportRetry(t)
  <2>1. /\ pc[t] = "post" /\ pc'[t] = "post" /\ reply'[t] = "none"
        /\ UNCHANGED <<est, tried, attempt, hop, fetched, result>>
    BY <1>11 DEF TransportRetry, Repost, Post
  <2>2. CalmRoute(t) => CalmRoute(t)'
    BY <1>2, <2>1 DEF CalmRoute
  <2>3. CalmSot(t) => CalmSot(t)'
    BY <1>2, <2>1 DEF CalmSot
  <2> QED
    BY <1>4, <1>5, <2>1, <2>2, <2>3 DEF Held
<1>12. job[t] \in JobType /\ authoritative \in Establishments
  BY JobsAssumption
<1>13. CASE GiveUp(t)
  <2>1. /\ pc[t] = "route" /\ pc'[t] = "done"
        /\ UNCHANGED <<est, tried, attempt, hop, reply, fetched>>
        /\ result'[t] = "wrongMachine"
        /\ \/ attempt[t] = Attempts
           \/ \E offer \in Offers(est[t], job[t]) :
                Hops(offer, job[t].primary, tried[t]) = {}
    BY <1>13 DEF GiveUp, Finish, locals, network
  <2>2. ASSUME CalmRoute(t), Routable(authoritative, job[t])
        PROVE  ~EveryDocumentRoutes
    <3>1. attempt[t] \in {0, 1} /\ attempt[t] # Attempts
      BY <2>1, <2>2, AttemptsNat DEF CalmRoute
    <3>2. PICK offer \in Offers(est[t], job[t]) :
            Hops(offer, job[t].primary, tried[t]) = {}
      BY <2>1, <3>1
    <3>3. CASE attempt[t] = 0
      <4>1. est[t] \in Establishments /\ Published(est[t])
        BY <2>1 DEF DocsInv, NoNewer, HasDocument
      <4>2. ~Fetches(job[t])
        BY <1>3, <2>1 DEF CallOK
      <4> QED
        BY <2>2, <3>2, <3>3, <4>1, <4>2, FirstHop DEF CalmRoute
    <3>4. CASE attempt[t] = 1
      <4>1. /\ tried[t] = {hop[t]} /\ est[t] = authoritative
            /\ ~Owns(authoritative, hop[t], job[t])
            /\ InsistsOn(job[t]) => hop[t] = Rewrite(job[t].primary)
        BY <2>1, <2>2, <3>4 DEF CalmRoute
      <4> QED
        BY <1>12, <2>2, <3>2, <4>1, MemberHop
    <3> QED
      BY <3>1, <3>3, <3>4
  <2>3. CalmRoute(t) /\ Routable(authoritative, job[t]) => CalmRoute(t)'
    BY <1>2, <2>1, <2>2 DEF CalmRoute
  <2>4. CalmSot(t)'
    BY <2>1 DEF CalmSot
  <2> QED
    BY <1>4, <1>5, <2>1, <2>3, <2>4 DEF Held
<1>14. CASE SelectHop(t)
  <2>1. PICK offer \in Offers(est[t], job[t]) :
          \E u \in Hops(offer, job[t].primary, tried[t]) :
            /\ hop' = [hop EXCEPT ![t] = u]
            /\ tried' = [tried EXCEPT ![t] = @ \cup {u}]
            /\ Post(t, u)
    BY <1>14 DEF SelectHop
  <2>2. PICK u \in Hops(offer, job[t].primary, tried[t]) :
            /\ hop' = [hop EXCEPT ![t] = u]
            /\ tried' = [tried EXCEPT ![t] = @ \cup {u}]
            /\ Post(t, u)
    BY <2>1
  <2>3. /\ pc[t] = "route" /\ pc'[t] = "post"
        /\ UNCHANGED <<est, fetched, result>>
        /\ hop'[t] = u /\ tried'[t] = tried[t] \cup {u}
        /\ attempt'[t] = attempt[t] + 1 /\ reply'[t] = "none"
    BY <1>14, <2>2, AttemptsNat DEF SelectHop, Post
  <2>4. ASSUME CalmRoute(t), Routable(authoritative, job[t])
        PROVE  CalmRoute(t)'
    <3>1. CASE attempt[t] = 0
      <4>1. tried'[t] = {u} /\ attempt'[t] = 1
        BY <2>3, <2>4, <3>1 DEF CalmRoute
      <4>2. InsistsOn(job[t]) => u = Rewrite(job[t].primary)
        BY <1>12, <2>4, <3>1, InsistedHop DEF CalmRoute
      <4> QED
        BY <1>2, <2>3, <2>4, <4>1, <4>2 DEF CalmRoute
    <3>2. CASE attempt[t] = 1
      <4>1. /\ tried[t] = {hop[t]} /\ est[t] = authoritative
            /\ ~Owns(authoritative, hop[t], job[t])
            /\ InsistsOn(job[t]) => hop[t] = Rewrite(job[t].primary)
        BY <2>3, <2>4, <3>2 DEF CalmRoute
      <4>2. Owns(authoritative, u, job[t])
        BY <1>12, <2>4, <4>1, MemberHop
      <4>3. attempt'[t] = 2
        BY <2>3, <3>2
      <4> QED
        BY <1>2, <2>3, <2>4, <4>1, <4>2, <4>3 DEF CalmRoute
    <3> QED
      BY <2>3, <2>4, <3>1, <3>2 DEF CalmRoute
  <2>5. CalmSot(t)'
    BY <1>3, <2>3 DEF CallOK, CalmSot
  <2> QED
    BY <1>4, <1>5, <2>3, <2>4, <2>5 DEF Held
<1> QED
  BY <1>6, <1>7, <1>8, <1>9, <1>10, <1>11, <1>13, <1>14 DEF ClientStep

(* The server that answers acts on the current document: it never bounces  *)
(* a member's request, and the SOT member does not answer stale.           *)
LEMMA CalmServer ==
  ASSUME TypeInv, WireInv, CallInv, CalmInv,
         NEW m \in wire, NEW r \in Replies, ServerAnswers(m, r)
  PROVE  CalmInv'
<1>1. /\ \A k \in Tasks :
           /\ Same(k)
           /\ reply'[k] = IF k = m.task /\ Current(m) THEN r ELSE reply[k]
      /\ UNCHANGED <<authoritative, known>>
      /\ m.task \in Tasks
  BY ServerFrame DEF ServerAnswers
<1>2. ASSUME NEW k \in Tasks, k # m.task \/ ~Current(m)
      PROVE  CalmOK(k)'
  BY <1>1, <1>2, CalmFrame DEF CalmInv
<1>3. ASSUME Current(m)
      PROVE  CalmOK(m.task)'
  <2> DEFINE t == m.task
  <2> HIDE DEF t
  <2>1. /\ t \in Tasks /\ m.task = t /\ Same(t) /\ reply'[t] = r
        /\ pc[t] = "post" /\ m.url = hop[t] /\ m.job = job[t]
        /\ reply[t] = "none" /\ Host[hop[t]] \in Servers
    BY <1>1, <1>3 DEF WireInv, Current, ServerAnswers, ServerActs, t
  <2>2. CalmOK(t) /\ CallOK(t) /\ job[t] \in JobType
        /\ authoritative \in Establishments
    BY <2>1, JobsAssumption DEF CalmInv, CallInv, TypeInv, TypeOK
  <2>3. SUFFICES ASSUME calm[t], Settled, Routable(authoritative, job[t]),
                        CalmRoute(t), CalmSot(t)
                 PROVE  CalmRoute(t)' /\ CalmSot(t)'
    BY <1>1, <2>1, <2>2 DEF CalmOK, Same, Settled, t
  <2>4. r = "wrongMachine" => ~Owns(authoritative, hop[t], job[t])
    BY <2>1, <2>3 DEF ServerAnswers, Settled, Owns
  <2>5. CalmRoute(t)'
    BY <1>1, <2>1, <2>3, <2>4 DEF CalmRoute, Same
  <2>6. ASSUME job[t].kind = "readSot", est[t] = authoritative
        PROVE  r # "stale"
    <3> DEFINE w == WriteMember(authoritative, job[t].slot)
    <3>1. hop[t] = Rewrite(Candidate(authoritative, w))
      BY <2>1, <2>2, <2>6 DEF CallOK, RouteDocumentWrite
    <3>2. {Candidate(authoritative, w)}
            \in Offers(authoritative, [job[t] EXCEPT !.primary = NoCandidate])
      BY <2>2, <2>6 DEF Offers, RouteDocumentWrite, JobType
    <3>3. Reaches(Candidate(authoritative, w)) /\ job[t].slot = job[t].home
      BY <2>3, <3>2 DEF Routable
    <3>4. Host[hop[t]] = w
      BY <3>1, <3>3 DEF Reaches, Candidate
    <3> QED
      BY <2>1, <2>3, <3>3, <3>4 DEF ServerAnswers, Settled
  <2>7. CalmSot(t)'
    BY <1>1, <2>1, <2>3, <2>6 DEF CalmSot, Same
  <2> QED
    BY <2>5, <2>7
<1> QED
  BY <1>1, <1>2, <1>3 DEF CalmInv

LEMMA CalmMove ==
  ASSUME TypeInv, WireInv, DocsInv, CallInv, CalmInv, EngineMove
  PROVE  CalmInv'
<1>1. CASE Publish
  BY <1>1 DEF Publish, CalmInv, CalmOK
<1>2. ASSUME NEW s \in Servers, Learn(s)
      PROVE  CalmInv'
  <2>1. ~Settled /\ calm' = calm
    BY <1>2 DEF Learn, Settled, history
  <2> QED
    BY <2>1 DEF CalmInv, CalmOK
<1>3. CASE UNCHANGED vars
  BY <1>3, CalmFrame
     DEF vars, world, locals, network, history, CalmInv, Same
<1> QED
  BY <1>1, <1>2, <1>3, CalmClient, CalmServer DEF EngineMove

(***************************************************************************)
(* The invariants of the engine as a part, together.                       *)
(***************************************************************************)
PartInv == TypeInv /\ WireInv /\ DocsInv /\ CallInv /\ CalmInv

LEMMA PartInit == Init => PartInv
BY TypeInit, WireInit, DocsInit, CallInit, CalmInit DEF PartInv

LEMMA PartBegin ==
  ASSUME PartInv, NEW t \in Tasks, NEW j \in Jobs, Begin(t, j)
  PROVE  PartInv'
BY TypeBegin, WireBegin, DocsBegin, CallBegin, CalmBegin DEF PartInv

LEMMA PartMove ==
  ASSUME PartInv, EngineMove
  PROVE  PartInv'
BY TypeMove, WireMove, DocsMove, CallMove, CalmMove DEF PartInv

(* In a deployment that stands still a command the client can route takes  *)
(* at most two hops, however stale the document was that it began with.    *)
THEOREM SettledWithinTwoHops ==
  ASSUME EveryDocumentRoutes
  PROVE  Spec => []SettledRoutes
<1>1. PartInv /\ [Next]_vars => PartInv'
  BY EngineSteps, PartBegin, PartMove
<1>2. PartInv => SettledRoutes
  <2> SUFFICES ASSUME PartInv, NEW t \in Tasks, calm[t],
                      Routable(authoritative, job[t])
               PROVE  result[t] # "wrongMachine" /\ attempt[t] <= 2
    BY DEF SettledRoutes
  <2>1. CalmRoute(t)
    BY DEF PartInv, CalmInv, CalmOK
  <2> QED
    BY <2>1 DEF CalmRoute
<1> QED
  BY <1>1, <1>2, PartInit, PTL DEF Spec
-----------------------------------------------------------------------------
(***************************************************************************)
(* The refinement with transport retries.  A server may carry a command out*)
(* once for every post, and each execution takes its request off the wire, *)
(* so that what ran and what may still run are bounded by the posts, which *)
(* BudgetInv bounds by the limits.                                         *)
(***************************************************************************)
InFlight(t) == {m \in wire : m.task = t}

FlightOK(t) ==
  /\ IsFiniteSet(InFlight(t))
  /\ ran[t] + Cardinality(InFlight(t)) <= serial[t]
  /\ pc[t] = "idle" => result[t] = "none"

FlightInv == \A t \in Tasks : FlightOK(t)

LEMMA FlightInit == Init => FlightInv
BY FS_EmptySet DEF Init, FlightInv, FlightOK, InFlight

(* A task nothing happens to keeps its count.                              *)
LEMMA FlightFrame ==
  ASSUME FlightInv, NEW k \in Tasks,
         /\ InFlight(k)' = InFlight(k) /\ ran'[k] = ran[k]
         /\ serial'[k] = serial[k]
         /\ pc'[k] = "idle" => pc[k] = "idle" /\ result'[k] = result[k]
  PROVE  FlightOK(k)'
BY DEF FlightInv, FlightOK

(* A command that has not begun has not run, and no post of it is out.     *)
LEMMA IdleIsSilent ==
  ASSUME TypeInv, BudgetInv, FlightInv, NEW t \in Tasks, pc[t] = "idle"
  PROVE  ran[t] = 0 /\ InFlight(t) = {} /\ result[t] = "none"
<1> DEFINE c == Cardinality(InFlight(t))
<1>1. IsFiniteSet(InFlight(t)) /\ c \in Nat
  BY FS_CardinalityType DEF FlightInv, FlightOK
<1>2. serial[t] = 0 /\ ran[t] \in Nat /\ ran[t] + c <= serial[t]
  BY DEF BudgetInv, FlightInv, FlightOK, TypeInv, TypeOK
<1>3. ran[t] = 0 /\ c = 0
  <2> HIDE DEF c
  <2> QED
    BY <1>1, <1>2
<1> QED
  BY <1>1, <1>3, FS_EmptySet DEF FlightInv, FlightOK

LEMMA FlightCall ==
  ASSUME TypeInv, BudgetInv, FlightInv, NEW t \in Tasks, Call(t)
  PROVE  FlightInv'
<1>1. PICK j \in Jobs : Begin(t, j)
  BY DEF Call
<1>2. ran[t] = 0 /\ result[t] = "none" /\ pc[t] = "idle"
  BY IdleIsSilent DEF Call
<1>3. UNCHANGED <<serial, wire, ran>> /\ pc'[t] # "idle"
  BY <1>1, <1>2 DEF Begin, TypeInv, TypeOK
<1>4. ASSUME NEW k \in Tasks \ {t}
      PROVE  pc'[k] = pc[k] /\ result'[k] = result[k]
  BY <1>1 DEF Begin, TypeInv, TypeOK
<1>5. \A k \in Tasks : InFlight(k)' = InFlight(k)
  BY <1>3 DEF InFlight
<1> QED
  BY <1>3, <1>4, <1>5, FlightFrame DEF FlightInv

LEMMA FlightPost ==
  ASSUME TypeInv, FlightInv, NEW t \in Tasks, NEW u \in Urls, Post(t, u),
         UNCHANGED <<ran, result>>, pc' = [pc EXCEPT ![t] = "post"]
  PROVE  FlightInv'
<1>1. Request(t, u).task = t
  BY DEF Request
<1>2. /\ InFlight(t)' = InFlight(t) \cup {Request(t, u)}
      /\ serial'[t] = serial[t] + 1 /\ pc'[t] = "post"
  BY <1>1 DEF Post, InFlight, TypeInv, TypeOK
<1>3. ASSUME NEW k \in Tasks \ {t}
      PROVE  /\ InFlight(k)' = InFlight(k) /\ serial'[k] = serial[k]
             /\ pc'[k] = pc[k]
  BY <1>1 DEF Post, InFlight, TypeInv, TypeOK
<1>4. FlightOK(t)'
  <2> DEFINE c == Cardinality(InFlight(t))
  <2> DEFINE d == Cardinality(InFlight(t) \cup {Request(t, u)})
  <2>1. IsFiniteSet(InFlight(t)) /\ ran[t] + c <= serial[t]
    BY DEF FlightInv, FlightOK
  <2>2. /\ IsFiniteSet(InFlight(t) \cup {Request(t, u)})
        /\ c \in Nat /\ d \in {c, c + 1}
    BY <2>1, FS_CardinalityType, FS_AddElement
  <2>3. serial[t] \in Nat /\ ran[t] \in Nat
    BY DEF TypeInv, TypeOK
  <2>4. ran[t] + d <= serial[t] + 1
    <3> HIDE DEF c, d
    <3> QED
      BY <2>1, <2>2, <2>3
  <2> QED
    BY <1>2, <2>2, <2>4 DEF FlightOK
<1> QED
  BY <1>3, <1>4, FlightFrame DEF FlightInv

LEMMA FlightClient ==
  ASSUME TypeInv, FlightInv, NEW t \in Tasks,
         ClientStep(t) \/ Cancel(t) \/ ServeEstablish(t)
  PROVE  FlightInv'
<1>1. CASE SelectHop(t)
  <2>1. PICK offer \in Offers(est[t], job[t]) :
          \E u \in Hops(offer, job[t].primary, tried[t]) : Post(t, u)
    BY <1>1 DEF SelectHop
  <2>2. PICK u \in Hops(offer, job[t].primary, tried[t]) : Post(t, u)
    BY <2>1
  <2>3. pc[t] = "route" /\ est[t] \in Establishments
    BY <1>1 DEF SelectHop, TypeInv, TypeOK, HasDocument
  <2>4. u \in Urls
    BY <2>2, <2>3, HopsAreUrls DEF TypeInv
  <2> QED
    BY <1>1, <2>2, <2>4, FlightPost DEF SelectHop, history
<1>2. CASE TransportRetry(t)
  <2>1. hop[t] \in Urls /\ pc' = [pc EXCEPT ![t] = "post"]
    BY <1>2 DEF TransportRetry, Repost, TypeInv, TypeOK, HasDocument
  <2> QED
    BY <1>2, <2>1, FlightPost DEF TransportRetry, Repost, history
<1>3. CASE \/ InstallEstablishment(t) \/ RejectCatalog(t)
           \/ EstablishFails(t) \/ GiveUp(t) \/ ReceiveFinal(t)
           \/ ReceiveBounce(t) \/ TransportFail(t) \/ Cancel(t)
           \/ ServeEstablish(t)
  <2>1. /\ UNCHANGED <<serial, wire, ran>>
        /\ pc[t] # "idle" /\ pc'[t] # "idle"
    BY <1>3 DEF InstallEstablishment, Resume, RejectCatalog, EstablishFails,
                GiveUp, ReceiveFinal, ReceiveBounce, Refetch, TransportFail,
                Cancel, ServeEstablish, Finish, network, history, TypeInv,
                TypeOK
  <2>2. ASSUME NEW k \in Tasks \ {t}
        PROVE  pc'[k] = pc[k] /\ result'[k] = result[k]
    BY <1>3 DEF InstallEstablishment, Resume, RejectCatalog, EstablishFails,
                GiveUp, ReceiveFinal, ReceiveBounce, Refetch, TransportFail,
                Cancel, ServeEstablish, Finish, TypeInv, TypeOK
  <2>3. \A k \in Tasks : InFlight(k)' = InFlight(k)
    BY <2>1 DEF InFlight
  <2> QED
    BY <2>1, <2>2, <2>3, FlightFrame DEF FlightInv
<1> QED
  BY <1>1, <1>2, <1>3 DEF ClientStep

LEMMA FlightServer ==
  ASSUME TypeInv, FlightInv, ServerStep
  PROVE  FlightInv'
<1>1. PICK m \in wire : ServerExecutes(m) \/ ServerDeclines(m)
                          \/ ServerStale(m) \/ ServerBounces(m)
  BY DEF ServerStep
<1> DEFINE t == m.task
<1>2. t \in Tasks
  BY DEF TypeInv, TypeOK, Requests
<1>3. /\ UNCHANGED <<pc, result, serial>> /\ wire' = wire \ {m}
      /\ ran' = ran \/ ran' = [ran EXCEPT ![t] = @ + 1]
  BY <1>1 DEF ServerExecutes, ServerDeclines, ServerStale, ServerBounces,
              ServerActs
<1>4. /\ InFlight(t)' = InFlight(t) \ {m} /\ m \in InFlight(t)
      /\ \A k \in Tasks \ {t} : InFlight(k)' = InFlight(k)
  BY <1>3 DEF InFlight
<1>5. /\ ran'[t] \in {ran[t], ran[t] + 1}
      /\ \A k \in Tasks \ {t} : ran'[k] = ran[k]
  BY <1>2, <1>3 DEF TypeInv, TypeOK
<1>6. FlightOK(t)'
  <2> DEFINE c == Cardinality(InFlight(t))
  <2> DEFINE d == Cardinality(InFlight(t) \ {m})
  <2>1. IsFiniteSet(InFlight(t)) /\ ran[t] + c <= serial[t]
    BY <1>2 DEF FlightInv, FlightOK
  <2>2. IsFiniteSet(InFlight(t) \ {m}) /\ c \in Nat /\ d = c - 1
    BY <1>4, <2>1, FS_CardinalityType, FS_RemoveElement
  <2>3. serial[t] \in Nat /\ ran[t] \in Nat
    BY <1>2 DEF TypeInv, TypeOK
  <2>4. ran'[t] + d <= serial[t]
    <3> HIDE DEF c, d, t
    <3> QED
      BY <1>5, <2>1, <2>2, <2>3
  <2> QED
    BY <1>2, <1>3, <1>4, <2>2, <2>4 DEF FlightInv, FlightOK
<1>7. ASSUME NEW k \in Tasks \ {t}
      PROVE  FlightOK(k)'
  BY <1>3, <1>4, <1>5, FlightFrame
<1> QED
  BY <1>6, <1>7 DEF FlightInv

LEMMA FlightStep ==
  TypeInv /\ BudgetInv /\ FlightInv /\ [Next]_vars => FlightInv'
<1> SUFFICES ASSUME TypeInv, BudgetInv, FlightInv, [Next]_vars
             PROVE  FlightInv'
  OBVIOUS
<1>1. CASE (Publish \/ \E s \in Servers : Learn(s)) \/ UNCHANGED vars
  <2>1. UNCHANGED <<serial, wire, ran, pc, result>>
    BY <1>1 DEF Publish, Learn, vars, network, history
  <2>2. \A k \in Tasks : InFlight(k)' = InFlight(k)
    BY <2>1 DEF InFlight
  <2> QED
    BY <2>1, <2>2, FlightFrame DEF FlightInv
<1> QED
  BY <1>1, FlightCall, FlightClient, FlightServer DEF Next, WorldStep

(* With retries on the limit is more than one, and a post is within it.    *)
Limit == IF TransportRetries = 0 THEN 1 ELSE Attempts * PostsPerHop

LEMMA ManyPosts ==
  ASSUME TransportRetries # 0
  PROVE  Limit \in Nat /\ Limit > 1
<1>1. Attempts - 1 \in Nat
  BY AttemptsNat
<1>2. /\ (Attempts - 1) * PostsPerHop \in Nat
      /\ Attempts * PostsPerHop
           = (Attempts - 1) * PostsPerHop + TransportRetries + 1
  BY <1>1, OneMoreHop, AttemptsNat
<1> QED
  BY <1>2, RetriesAssumption DEF Limit

LEMMA PostsWithinLimit ==
  ASSUME TransportRetries # 0, TypeInv, BudgetInv, NEW t \in Tasks
  PROVE  serial[t] <= Limit
<1>1. attempt[t] \in 0..Attempts /\ serial[t] \in Nat
  BY DEF TypeInv, TypeOK
<1>2. /\ serial[t] <= Spent(t) /\ Spent(t) <= Limit
      /\ Spent(t) \in Nat /\ Limit \in Nat
  BY <1>1, AttemptsNat, HopsWithinLimit, OneMoreHop, ManyPosts
     DEF BudgetInv, Spent, Limit
<1> QED
  BY <1>1, <1>2

(* With retries on, a call ends with any outcome it likes but "ok", which  *)
(* needs an execution.                                                     *)
LEMMA RetriedCloses ==
  ASSUME TransportRetries # 0, TypeInv, AckInv, NEW t \in Tasks,
         \/ RejectCatalog(t) \/ EstablishFails(t) \/ GiveUp(t)
         \/ ReceiveFinal(t) \/ TransportFail(t) \/ Cancel(t)
         \/ InstallEstablishment(t) /\ pc'[t] # "route"
  PROVE  \E r \in Once!Outcomes : Once!Close(t, r)
<1>1. UNCHANGED ran /\ pc[t] \in Pcs \ {"idle", "done"}
  BY DEF RejectCatalog, EstablishFails, GiveUp, ReceiveFinal, TransportFail,
         Cancel, InstallEstablishment, Resume, history, Pcs
<1>2. PICK r \in Once!Outcomes :
        Finish(t, r) /\ (r = "ok" => reply[t] = "ok" /\ pc[t] = "post")
  BY DEF RejectCatalog, EstablishFails, GiveUp, ReceiveFinal, TransportFail,
         Cancel, InstallEstablishment, Resume, TypeInv, TypeOK, AppErrors,
         Once!Outcomes
<1>3. r = "ok" => ran[t] > 0
  BY <1>2 DEF AckInv, TypeInv, TypeOK
<1>4. PhaseMap' = [PhaseMap EXCEPT ![t] = "closed"]
  BY <1>2, PhaseMoves DEF Finish, Pcs, TypeInv
<1>5. PhaseMap[t] = "open"
  BY <1>1 DEF PhaseMap, Phase
<1>6. r \in Results
  BY DEF Once!Outcomes, Results, AppErrors
<1>7. Once!Close(t, r)
  BY <1>1, <1>2, <1>3, <1>4, <1>5, <1>6
     DEF Once!Close, Finish, PhaseMap, Phase
<1> QED
  BY <1>7

(* A server executes a command that has begun and has not used up the      *)
(* posts it may make.                                                      *)
LEMMA RetriedServer ==
  ASSUME TransportRetries # 0, TypeInv, BudgetInv, FlightInv, ServerStep
  PROVE  UNCHANGED Once!vars \/ \E t \in Tasks : Once!Execute(t)
<1>1. PICK m \in wire : ServerExecutes(m) \/ ServerDeclines(m)
                          \/ ServerStale(m) \/ ServerBounces(m)
  BY DEF ServerStep
<1> DEFINE t == m.task
<1>2. t \in Tasks /\ m \in InFlight(t)
  BY DEF TypeInv, TypeOK, Requests, InFlight
<1>3. UNCHANGED <<pc, result>>
  BY <1>1 DEF ServerExecutes, ServerDeclines, ServerStale, ServerBounces,
              ServerActs
<1>4. CASE UNCHANGED ran
  BY <1>3, <1>4, PhaseStays, OnceSame
<1>5. CASE ran' = [ran EXCEPT ![t] = @ + 1]
  <2> DEFINE c == Cardinality(InFlight(t))
  <2>1. c \in Nat /\ c # 0
    BY <1>2, FS_CardinalityType, FS_EmptySet DEF FlightInv, FlightOK
  <2>2. /\ ran[t] + c <= serial[t] /\ serial[t] <= Limit
        /\ ran[t] \in Nat /\ serial[t] \in Nat /\ Limit \in Nat
    BY <1>2, PostsWithinLimit, ManyPosts
       DEF FlightInv, FlightOK, TypeInv, TypeOK
  <2>3. ran[t] < Limit
    <3> HIDE DEF c, t
    <3> QED
      BY <2>1, <2>2
  <2>4. PhaseMap[t] \in {"open", "closed"} /\ result[t] \in Results
    BY <1>2, IdleIsSilent DEF PhaseMap, Phase, TypeInv, TypeOK, Pcs
  <2>5. Once!Execute(t)
    BY <1>3, <1>5, <2>3, <2>4, PhaseStays, ManyPosts
       DEF Once!Execute, PhaseMap, Phase, Limit, PostsPerHop
  <2> QED
    BY <1>2, <2>5
<1> QED
  BY <1>1, <1>4, <1>5 DEF ServerExecutes, ServerDeclines, ServerStale,
                          ServerBounces

(* For every limit on transport retries the engine implements OnceCommand, *)
(* once without retries and with them as often as it may post: nothing runs*)
(* that was not called, "ok" is never reported of what did not run, and    *)
(* lost, late and repeated posts together run no more than the budget.     *)
THEOREM EngineImplementsCommand == Spec => ImplementsOnce
<1>1. CASE TransportRetries = 0
  BY <1>1, EngineImplementsOnce
<1>2. CASE TransportRetries # 0
  <2>1. Init => Once!Init
    BY DEF Init, Once!Init
  <2>2. TypeInv /\ BudgetInv /\ AckInv /\ FlightInv /\ [Next]_vars
          => [Once!Next]_(Once!vars)
    <3> SUFFICES ASSUME TypeInv, BudgetInv, AckInv, FlightInv, [Next]_vars
                 PROVE  Once!Next \/ UNCHANGED Once!vars
      OBVIOUS
    <3>1. ASSUME NEW t \in Tasks, Call(t) PROVE Once!Next
      BY <3>1, IdleIsSilent, OnceRefineCall DEF Call, Once!Next
    <3>2. ASSUME NEW t \in Tasks,
                 ClientStep(t) \/ Cancel(t) \/ ServeEstablish(t)
          PROVE  Once!Next \/ UNCHANGED Once!vars
      BY <1>2, <3>2, OnceRefineQuiet, RetriedCloses DEF ClientStep, Once!Next
    <3>3. CASE ServerStep
      BY <1>2, <3>3, RetriedServer DEF Once!Next
    <3>4. CASE (Publish \/ \E s \in Servers : Learn(s)) \/ UNCHANGED vars
      <4>1. UNCHANGED <<pc, ran, result>>
        BY <3>4 DEF Publish, Learn, vars, history
      <4> QED
        BY <4>1, PhaseStays, OnceSame
    <3> QED
      BY <3>1, <3>2, <3>3, <3>4 DEF Next, WorldStep
  <2> QED
    BY <2>1, <2>2, TypeInit, TypeStep, BudgetInit, BudgetStep, AckInit,
       AckStep, FlightInit, FlightStep, PTL
       DEF Spec, ImplementsOnce, Once!Spec
<1> QED
  BY <1>1, <1>2
=============================================================================
