------------------------ MODULE RoutedCommandProofs ------------------------
(***************************************************************************)
(* Theorems about RoutedCommand, for every set of tasks, servers, layouts  *)
(* and retry limits.                                                       *)
(***************************************************************************)
EXTENDS RoutedCommand, TLAPS

(* The limit on hops is a positive number whatever the configuration.      *)
LEMMA AttemptsNat == Attempts \in Nat /\ Attempts > 1
BY WmRetriesAssumption, RetriesAssumption DEF Attempts, WmRetries

LEMMA VersionNat ==
  ASSUME NEW e \in Establishments
  PROVE  e.version \in Nat
BY DEF Establishments

(* Stamping a published layout with a version gives a document.            *)
LEMMA Stamped ==
  ASSUME NEW d \in Topologies, NEW v \in Nat
  PROVE  /\ [d EXCEPT !.version = v] \in Establishments
         /\ [d EXCEPT !.version = v].version = v
<1>1. d \in Establishments
  BY TopologiesAssumption
<1> QED
  BY <1>1 DEF Establishments

(* The request a task posts is a request.                                  *)
LEMMA RequestType ==
  ASSUME TypeOK, NEW t \in Tasks, NEW u \in Urls
  PROVE  Request(t, u) \in Requests
BY DEF TypeOK, Request, Requests

(* A hop is never the empty URL and never one that was tried.              *)
LEMMA HopsAreUrls ==
  ASSUME NEW t \in Tasks, TypeOK, pc[t] = "route",
         NEW offer \in Offers(est[t], job[t]),
         est[t] \in Establishments,
         NEW u \in Hops(offer, job[t].primary, tried[t])
  PROVE  u \in Urls \ tried[t]
<1> DEFINE e == est[t]
<1> DEFINE j == job[t]
<1>1. j \in JobType
  BY JobsAssumption DEF TypeOK
<1>2. j.primary \in Candidates
  BY <1>1 DEF JobType
<1>3. ASSUME NEW s \in Servers \cup {NoMember}
      PROVE  Candidate(e, s) \in Candidates
  BY DEF Candidate, Candidates, ServerBaseURL, Establishments
<1>4. ASSUME NEW slot
      PROVE  /\ WriteMember(e, slot) \in Servers \cup {NoMember}
             /\ ReadMembers(e, slot) \subseteq Servers \cup {NoMember}
  BY DEF WriteMember, ReadMembers, Establishments
<1>5. ASSUME NEW slot
      PROVE  /\ RouteDocumentWrite(e, slot) \in Candidates
             /\ RouteDocumentReadCandidates(e, slot) \subseteq Candidates
  BY <1>3, <1>4 DEF RouteDocumentWrite, RouteDocumentReadCandidates
<1>6. ASSUME NEW slot
      PROVE  RouteSearchChoices(e, slot) \subseteq Candidates
  BY <1>3, <1>5 DEF RouteSearchChoices, Establishments
<1>7. offer \subseteq Candidates
  BY <1>2, <1>5, <1>6 DEF Offers
<1>8. ASSUME NEW c \in Candidates
      PROVE  Rewrite(c) \in Urls \cup {NoUrl}
  BY RewriteAssumption DEF Candidates, Rewrite
<1> QED
  BY <1>7, <1>8 DEF Hops
-----------------------------------------------------------------------------
(***************************************************************************)
(* A task that routes or posts has a document: TypeOK alone is not         *)
(* inductive, since SelectHop reads est[t] as a document.                  *)
(***************************************************************************)
HasDocument ==
  \A t \in Tasks :
    /\ pc[t] \in {"route", "post"} => est[t] # NoEst
    /\ pc[t] = "post" => hop[t] \in Urls

TypeInv == TypeOK /\ HasDocument

LEMMA TypeInit == Init => TypeInv
<1> SUFFICES ASSUME Init PROVE TypeInv
  OBVIOUS
<1>1. PICK d \in Topologies : authoritative = [d EXCEPT !.version = 1]
  BY DEF Init
<1>2. authoritative \in Establishments
  BY <1>1, Stamped
<1>3. (CHOOSE j \in Jobs : TRUE) \in Jobs
  BY JobsAssumption
<1>4. TypeOK
  BY <1>2, <1>3, AttemptsNat, RetriesAssumption
     DEF Init, TypeOK, Pcs, Replies, Results, AppErrors
<1> QED
  BY <1>4 DEF Init, TypeInv, HasDocument

LEMMA TypeBegin ==
  ASSUME TypeInv, NEW t \in Tasks, NEW j \in Jobs, Begin(t, j)
  PROVE  TypeInv'
<1>1. TypeOK'
  BY AttemptsNat, RetriesAssumption
     DEF TypeInv, TypeOK, Begin, Settled, Pcs, Replies, Results, AppErrors,
         world
<1>2. HasDocument'
  BY DEF TypeInv, TypeOK, HasDocument, Begin
<1> QED
  BY <1>1, <1>2 DEF TypeInv

LEMMA TypeCall ==
  ASSUME TypeInv, NEW t \in Tasks, Call(t)
  PROVE  TypeInv'
BY TypeBegin DEF Call

(* The steps of establish().                                               *)
LEMMA TypeFetch ==
  ASSUME TypeInv, NEW t \in Tasks,
         ServeEstablish(t) \/ InstallEstablishment(t)
           \/ RejectCatalog(t) \/ EstablishFails(t)
  PROVE  TypeInv'
<1>1. CASE ServeEstablish(t)
  BY <1>1 DEF TypeInv, TypeOK, HasDocument, ServeEstablish, world, network,
              history
<1>2. CASE InstallEstablishment(t)
  BY <1>2 DEF TypeInv, TypeOK, HasDocument, InstallEstablishment, Resume,
              Finish, Pcs, Results, AppErrors, world, network, history
<1>3. CASE RejectCatalog(t)
  BY <1>3 DEF TypeInv, TypeOK, HasDocument, RejectCatalog, Finish, Pcs,
              Results, AppErrors, world, locals, network, history
<1>4. CASE EstablishFails(t)
  <2>1. PICK r \in {"transport", "refused"} : Finish(t, r)
    BY <1>4 DEF EstablishFails
  <2> QED
    BY <1>4, <2>1 DEF TypeInv, TypeOK, HasDocument, EstablishFails, Finish,
                      Pcs, Results, AppErrors, world, locals, network,
                      history
<1> QED
  BY <1>1, <1>2, <1>3, <1>4

(* Posting keeps the types of the network variables.                       *)
LEMMA PostType ==
  ASSUME TypeOK, NEW t \in Tasks, NEW u \in Urls, Post(t, u)
  PROVE  /\ serial' \in [Tasks -> Nat]
         /\ wire' \subseteq Requests
         /\ reply' \in [Tasks -> Replies]
BY RequestType DEF TypeOK, Post, Replies, AppErrors

LEMMA TypeSelectHop ==
  ASSUME TypeInv, NEW t \in Tasks, SelectHop(t)
  PROVE  TypeInv'
<1>1. PICK offer \in Offers(est[t], job[t]) :
        \E u \in Hops(offer, job[t].primary, tried[t]) :
          /\ hop' = [hop EXCEPT ![t] = u]
          /\ tried' = [tried EXCEPT ![t] = @ \cup {u}]
          /\ Post(t, u)
  BY DEF SelectHop
<1>2. PICK u \in Hops(offer, job[t].primary, tried[t]) :
          /\ hop' = [hop EXCEPT ![t] = u]
          /\ tried' = [tried EXCEPT ![t] = @ \cup {u}]
          /\ Post(t, u)
  BY <1>1
<1>3. pc[t] = "route" /\ est[t] \in Establishments
  BY DEF SelectHop, TypeInv, TypeOK, HasDocument
<1>4. u \in Urls
  BY <1>2, <1>3, HopsAreUrls DEF TypeInv
<1>5. /\ serial' \in [Tasks -> Nat]
      /\ wire' \subseteq Requests
      /\ reply' \in [Tasks -> Replies]
  BY <1>2, <1>4, PostType DEF TypeInv
<1>6. attempt' \in [Tasks -> 0..Attempts]
  BY AttemptsNat DEF SelectHop, TypeInv, TypeOK
<1>7. tries' \in [Tasks -> 0..TransportRetries]
  BY RetriesAssumption DEF SelectHop, TypeInv, TypeOK
<1>8. TypeOK'
  BY <1>2, <1>4, <1>5, <1>6, <1>7
     DEF SelectHop, TypeInv, TypeOK, Pcs, world, history
<1>9. HasDocument'
  BY <1>2, <1>3, <1>4 DEF SelectHop, TypeInv, TypeOK, HasDocument
<1> QED
  BY <1>8, <1>9 DEF TypeInv

(* The other steps of the caller.                                          *)
LEMMA TypeReceive ==
  ASSUME TypeInv, NEW t \in Tasks,
         GiveUp(t) \/ ReceiveFinal(t) \/ ReceiveBounce(t)
           \/ TransportRetry(t) \/ TransportFail(t) \/ Cancel(t)
  PROVE  TypeInv'
<1>1. CASE GiveUp(t)
  BY <1>1 DEF TypeInv, TypeOK, HasDocument, GiveUp, Finish, Pcs, Results,
              AppErrors, world, locals, network, history
<1>2. CASE ReceiveFinal(t)
  BY <1>2 DEF TypeInv, TypeOK, HasDocument, ReceiveFinal, Finish, Pcs,
              Results, AppErrors, world, locals, network, history
<1>3. CASE ReceiveBounce(t)
  BY <1>3, VersionNat DEF TypeInv, TypeOK, HasDocument, ReceiveBounce, Refetch,
                          Pcs, world, network
<1>4. CASE TransportRetry(t)
  <2>1. hop[t] \in Urls /\ Post(t, hop[t])
    BY <1>4 DEF TransportRetry, Repost, TypeInv, HasDocument
  <2>2. /\ serial' \in [Tasks -> Nat]
        /\ wire' \subseteq Requests
        /\ reply' \in [Tasks -> Replies]
    BY <2>1, PostType DEF TypeInv
  <2>3. tries' \in [Tasks -> 0..TransportRetries]
    BY <1>4, RetriesAssumption DEF TransportRetry, Repost, TypeInv, TypeOK
  <2> QED
    BY <1>4, <2>2, <2>3 DEF TransportRetry, Repost, TypeInv, TypeOK,
                            HasDocument, world, history
<1>5. CASE TransportFail(t)
  BY <1>5 DEF TypeInv, TypeOK, HasDocument, TransportFail, Finish, Pcs,
              Results, AppErrors, world, locals, network, history
<1>6. CASE Cancel(t)
  BY <1>6 DEF TypeInv, TypeOK, HasDocument, Cancel, Finish, Pcs, Results,
              AppErrors, world, locals, network, history
<1> QED
  BY <1>1, <1>2, <1>3, <1>4, <1>5, <1>6

(* A server step keeps the types, whatever the server answers.             *)
LEMMA TypeServerActs ==
  ASSUME TypeInv, NEW m \in wire, NEW r \in Replies, ServerActs(m, r),
         ran' \in {ran, [ran EXCEPT ![m.task] = @ + 1]}
  PROVE  TypeInv'
<1>1. m.task \in Tasks
  BY DEF TypeInv, TypeOK, Requests
<1>2. ran' \in [Tasks -> Nat]
  BY <1>1 DEF TypeInv, TypeOK
<1>3. reply' \in [Tasks -> Replies]
  BY <1>1 DEF ServerActs, Deliver, TypeInv, TypeOK
<1> QED
  BY <1>2, <1>3
     DEF ServerActs, TypeInv, TypeOK, HasDocument, world, locals

LEMMA TypeServer ==
  ASSUME TypeInv, NEW m \in wire,
         ServerExecutes(m) \/ ServerDeclines(m)
           \/ ServerStale(m) \/ ServerBounces(m)
  PROVE  TypeInv'
BY TypeServerActs
   DEF ServerExecutes, ServerDeclines, ServerStale, ServerBounces, Replies,
       AppErrors

LEMMA TypeWorld ==
  ASSUME TypeInv, Publish \/ \E s \in Servers : Learn(s)
  PROVE  TypeInv'
<1>1. CASE Publish
  <2>1. PICK d \in Topologies :
          authoritative' = [d EXCEPT !.version = authoritative.version + 1]
    BY <1>1 DEF Publish
  <2>2. authoritative.version + 1 \in Nat
    BY VersionNat DEF TypeInv, TypeOK
  <2>3. authoritative' \in Establishments
    BY <2>1, <2>2, Stamped
  <2> QED
    BY <1>1, <2>3 DEF Publish, TypeInv, TypeOK, HasDocument, locals, network
<1>2. ASSUME NEW s \in Servers, Learn(s)
      PROVE  TypeInv'
  BY <1>2 DEF Learn, TypeInv, TypeOK, HasDocument, locals, network, history
<1> QED
  BY <1>1, <1>2

LEMMA TypeStep == TypeInv /\ [Next]_vars => TypeInv'
<1> SUFFICES ASSUME TypeInv, [Next]_vars PROVE TypeInv'
  OBVIOUS
<1>1. ASSUME NEW t \in Tasks, Call(t) PROVE TypeInv'
  BY <1>1, TypeCall
<1>2. ASSUME NEW t \in Tasks,
             ClientStep(t) \/ Cancel(t) \/ ServeEstablish(t)
      PROVE  TypeInv'
  BY <1>2, TypeFetch, TypeSelectHop, TypeReceive DEF ClientStep
<1>3. ASSUME ServerStep PROVE TypeInv'
  BY <1>3, TypeServer DEF ServerStep
<1>4. ASSUME Publish \/ \E s \in Servers : Learn(s) PROVE TypeInv'
  BY <1>4, TypeWorld
<1>5. CASE UNCHANGED vars
  BY <1>5 DEF vars, world, locals, network, history, TypeInv, TypeOK,
              HasDocument
<1> QED
  BY <1>1, <1>2, <1>3, <1>4, <1>5 DEF Next, WorldStep

(* Every variable keeps its type, and a task that routes has a document.   *)
THEOREM TypeCorrect == Spec => []TypeOK
<1>1. TypeInv => TypeOK
  BY DEF TypeInv
<1> QED
  BY <1>1, TypeInit, TypeStep, PTL DEF Spec
-----------------------------------------------------------------------------
(***************************************************************************)
(* Freshness.  FreshHop speaks of the moment of posting; the invariant     *)
(* follows the document from the establishment server (fetched) to the     *)
(* route (est) and keeps it at or above the floor on the way.              *)
(***************************************************************************)
FreshInv ==
  \A t \in Tasks :
    /\ floor[t] <= authoritative.version
    /\ pc[t] = "fetch" /\ fetched[t] # NoEst => fetched[t].version >= floor[t]
    /\ pc[t] \in {"route", "post"} => est[t].version >= floor[t]

LEMMA FreshInit == Init => FreshInv
<1> SUFFICES ASSUME Init PROVE FreshInv
  OBVIOUS
<1>1. PICK d \in Topologies : authoritative = [d EXCEPT !.version = 1]
  BY DEF Init
<1>2. authoritative.version = 1
  BY <1>1, Stamped
<1> QED
  BY <1>2 DEF Init, FreshInv

LEMMA FreshCall ==
  ASSUME TypeInv, FreshInv, NEW t \in Tasks, Call(t)
  PROVE  FreshInv'
<1>1. PICK j \in Jobs : Begin(t, j)
  BY DEF Call
<1>2. authoritative.version \in Nat /\ (cache # NoEst => cache.version \in Nat)
  BY VersionNat DEF TypeInv, TypeOK
<1> QED
  BY <1>1, <1>2 DEF Begin, FreshInv, TypeInv, TypeOK, world

LEMMA FreshFetch ==
  ASSUME TypeInv, FreshInv, NEW t \in Tasks,
         ServeEstablish(t) \/ InstallEstablishment(t)
           \/ RejectCatalog(t) \/ EstablishFails(t)
  PROVE  FreshInv'
<1>1. CASE ServeEstablish(t)
  <2>1. authoritative.version \in Nat /\ floor[t] \in Nat
    BY VersionNat DEF TypeInv, TypeOK
  <2> QED
    BY <1>1, <2>1 DEF ServeEstablish, FreshInv, TypeInv, TypeOK, world,
                      history
<1>2. CASE InstallEstablishment(t)
  BY <1>2 DEF InstallEstablishment, Resume, Finish, FreshInv, TypeInv, TypeOK,
              world, history
<1>3. CASE RejectCatalog(t) \/ EstablishFails(t)
  BY <1>3 DEF RejectCatalog, EstablishFails, Finish, FreshInv, TypeInv,
              TypeOK, world, locals, history
<1> QED
  BY <1>1, <1>2, <1>3

LEMMA FreshHops ==
  ASSUME TypeInv, FreshInv, NEW t \in Tasks,
         SelectHop(t) \/ GiveUp(t) \/ ReceiveFinal(t) \/ ReceiveBounce(t)
           \/ TransportRetry(t) \/ TransportFail(t) \/ Cancel(t)
  PROVE  FreshInv'
<1>1. CASE SelectHop(t)
  BY <1>1 DEF SelectHop, FreshInv, TypeInv, TypeOK, world, history
<1>2. CASE GiveUp(t) \/ ReceiveFinal(t) \/ TransportFail(t) \/ Cancel(t)
  BY <1>2 DEF GiveUp, ReceiveFinal, TransportFail, Cancel, Finish, FreshInv,
              TypeInv, TypeOK, world, locals, history
<1>3. CASE ReceiveBounce(t)
  <2>1. authoritative.version \in Nat
    BY VersionNat DEF TypeInv, TypeOK
  <2> QED
    BY <1>3, <2>1 DEF ReceiveBounce, Refetch, FreshInv, TypeInv, TypeOK, world
<1>4. CASE TransportRetry(t)
  BY <1>4 DEF TransportRetry, Repost, FreshInv, world, history
<1> QED
  BY <1>1, <1>2, <1>3, <1>4

LEMMA FreshWorld ==
  ASSUME TypeInv, FreshInv,
         ServerStep \/ Publish \/ \E s \in Servers : Learn(s)
  PROVE  FreshInv'
<1>1. CASE ServerStep
  BY <1>1 DEF ServerStep, ServerExecutes, ServerDeclines, ServerStale,
              ServerBounces, ServerActs, FreshInv, world, locals
<1>2. CASE Publish
  <2>1. PICK d \in Topologies :
          authoritative' = [d EXCEPT !.version = authoritative.version + 1]
    BY <1>2 DEF Publish
  <2>2. authoritative.version \in Nat
    BY VersionNat DEF TypeInv, TypeOK
  <2>3. authoritative'.version = authoritative.version + 1
    BY <2>1, <2>2, Stamped
  <2> QED
    BY <1>2, <2>2, <2>3 DEF Publish, FreshInv, TypeInv, TypeOK, locals
<1>3. ASSUME NEW s \in Servers, Learn(s)
      PROVE  FreshInv'
  BY <1>3 DEF Learn, FreshInv, locals, history
<1> QED
  BY <1>1, <1>2, <1>3

LEMMA FreshStep == TypeInv /\ FreshInv /\ [Next]_vars => FreshInv'
<1> SUFFICES ASSUME TypeInv, FreshInv, [Next]_vars PROVE FreshInv'
  OBVIOUS
<1>1. ASSUME NEW t \in Tasks,
             \/ Call(t) \/ ClientStep(t)
             \/ Cancel(t) \/ ServeEstablish(t)
      PROVE  FreshInv'
  BY <1>1, FreshCall, FreshFetch, FreshHops DEF ClientStep
<1>2. CASE ServerStep \/ Publish \/ \E s \in Servers : Learn(s)
  BY <1>2, FreshWorld
<1>3. CASE UNCHANGED vars
  BY <1>3 DEF vars, world, locals, history, FreshInv
<1> QED
  BY <1>1, <1>2, <1>3 DEF Next, WorldStep

(* A hop after a bounce never uses a document older than the one in force  *)
(* when the bounce was received.                                           *)
THEOREM HopsAreFresh == Spec => []FreshHop
<1>1. TypeInv /\ FreshInv => FreshHop
  BY DEF FreshInv, FreshHop
<1> QED
  BY <1>1, TypeInit, TypeStep, FreshInit, FreshStep, PTL DEF Spec
-----------------------------------------------------------------------------
(***************************************************************************)
(* At most once.  With transport retries off a task has at most one        *)
(* request on the wire; the invariant says, for every control point, what  *)
(* has been carried out and what may still be.                             *)
(***************************************************************************)
Silent(t) == \A m \in wire : m.task # t

OnceInv ==
  \A t \in Tasks :
    /\ \A m, n \in wire : m.task = t /\ n.task = t => m = n
    /\ \A m \in wire : m.task = t => m.serial = serial[t]
    /\ pc[t] # "done" => result[t] = "none"
    /\ pc[t] \in {"idle", "fetch", "route"} => ran[t] = 0 /\ Silent(t)
    /\ pc[t] = "post" =>
         \/ reply[t] = "none" /\ ran[t] = 0
         \/ reply[t] = "ok" /\ ran[t] = 1 /\ Silent(t)
         \/ reply[t] \in {"wrongMachine"} \cup AppErrors
              /\ ran[t] = 0 /\ Silent(t)
    /\ pc[t] = "done" =>
         \/ /\ result[t] \in {"transport", "cancelled"}
            /\ \/ ran[t] = 0
               \/ ran[t] = 1 /\ Silent(t)
         \/ result[t] = "ok" /\ ran[t] = 1 /\ Silent(t)
         \/ result[t] \in Refusals \cup {"established"}
              /\ ran[t] = 0 /\ Silent(t)

LEMMA OnceInit == Init => OnceInv
BY DEF Init, OnceInv, Silent

LEMMA OnceCall ==
  ASSUME TypeInv, OnceInv, NEW t \in Tasks, Call(t)
  PROVE  OnceInv'
<1>1. PICK j \in Jobs : Begin(t, j)
  BY DEF Call
<1> QED
  BY <1>1 DEF Call, Begin, OnceInv, Silent, Refusals, AppErrors, TypeInv,
              TypeOK

LEMMA OnceFetch ==
  ASSUME TypeInv, OnceInv, NEW t \in Tasks,
         ServeEstablish(t) \/ InstallEstablishment(t)
           \/ RejectCatalog(t) \/ EstablishFails(t)
  PROVE  OnceInv'
<1>1. CASE ServeEstablish(t)
  BY <1>1 DEF ServeEstablish, OnceInv, Silent, network, history
<1>2. CASE InstallEstablishment(t)
  BY <1>2 DEF InstallEstablishment, Resume, Finish, OnceInv, Silent, Refusals,
              AppErrors, TypeInv, TypeOK, network, history
<1>3. CASE RejectCatalog(t) \/ EstablishFails(t)
  BY <1>3 DEF RejectCatalog, EstablishFails, Finish, OnceInv, Silent,
              Refusals, AppErrors, TypeInv, TypeOK, network, history
<1> QED
  BY <1>1, <1>2, <1>3

LEMMA OnceSelectHop ==
  ASSUME TypeInv, OnceInv, NEW t \in Tasks, SelectHop(t)
  PROVE  OnceInv'
<1>1. PICK u : Post(t, u)
  BY DEF SelectHop
<1>2. wire' = wire \cup {Request(t, u)}
  BY <1>1 DEF Post
<1>3. serial' = [serial EXCEPT ![t] = serial[t] + 1]
  BY <1>1 DEF Post
<1>4. Silent(t)
  BY DEF SelectHop, OnceInv
<1>5. Request(t, u).task = t /\ Request(t, u).serial = serial'[t]
  BY <1>3 DEF Request, TypeInv, TypeOK
<1>6. ASSUME NEW m \in wire', m.task = t
      PROVE  m = Request(t, u)
  BY <1>2, <1>4, <1>6 DEF Silent
<1>7. ASSUME NEW m \in wire', m.task # t
      PROVE  m \in wire /\ serial'[m.task] = serial[m.task]
  BY <1>2, <1>3, <1>5, <1>7 DEF TypeInv, TypeOK, Requests
<1>8. reply' = [reply EXCEPT ![t] = "none"]
  BY <1>1 DEF Post
<1>9. ASSUME NEW k \in Tasks, k # t, Silent(k)
      PROVE  Silent(k)'
  BY <1>5, <1>7, <1>9, <1>2 DEF Silent
<1>10. ASSUME NEW k \in Tasks
       PROVE  /\ \A m, n \in wire' : m.task = k /\ n.task = k => m = n
              /\ \A m \in wire' : m.task = k => m.serial = serial'[k]
  BY <1>5, <1>6, <1>7, <1>10 DEF OnceInv
<1> QED
  BY <1>8, <1>9, <1>10 DEF SelectHop, OnceInv, TypeInv, TypeOK, history

LEMMA OnceReceive ==
  ASSUME TypeInv, OnceInv, TransportRetries = 0, NEW t \in Tasks,
         GiveUp(t) \/ ReceiveFinal(t) \/ ReceiveBounce(t)
           \/ TransportRetry(t) \/ TransportFail(t) \/ Cancel(t)
  PROVE  OnceInv'
<1>1. CASE GiveUp(t)
  BY <1>1 DEF GiveUp, Finish, OnceInv, Silent, Refusals, AppErrors, TypeInv,
              TypeOK, network, history
<1>2. CASE ReceiveFinal(t)
  BY <1>2 DEF ReceiveFinal, Finish, OnceInv, Silent, Refusals, AppErrors,
              TypeInv, TypeOK, network, history
<1>3. CASE ReceiveBounce(t)
  BY <1>3 DEF ReceiveBounce, Refetch, OnceInv, Silent, TypeInv, TypeOK, network
<1>4. CASE TransportRetry(t)
  BY <1>4 DEF TransportRetry, Repost, TypeInv, TypeOK
<1>5. CASE TransportFail(t) \/ Cancel(t)
  BY <1>5 DEF TransportFail, Cancel, Finish, OnceInv, Silent, TypeInv,
              TypeOK, network, history
<1> QED
  BY <1>1, <1>2, <1>3, <1>4, <1>5

LEMMA OnceServer ==
  ASSUME TypeInv, OnceInv, ServerStep
  PROVE  OnceInv'
<1>1. PICK m \in wire : ServerExecutes(m) \/ ServerDeclines(m)
                          \/ ServerStale(m) \/ ServerBounces(m)
  BY DEF ServerStep
<1> DEFINE t == m.task
<1>2. t \in Tasks
  BY DEF TypeInv, TypeOK, Requests
<1>3. PICK r \in {"ok", "wrongMachine"} \cup AppErrors :
        /\ ServerActs(m, r)
        /\ ran' = IF r = "ok" THEN [ran EXCEPT ![t] = @ + 1] ELSE ran
  BY <1>1 DEF ServerExecutes, ServerDeclines, ServerStale, ServerBounces,
              AppErrors
<1>4. wire' = wire \ {m} /\ UNCHANGED <<pc, serial, result>>
  BY <1>3 DEF ServerActs
<1>5. Silent(t)'
  BY <1>2, <1>4 DEF OnceInv, Silent
<1>6. ~Silent(t)
  BY DEF Silent
<1>7. m.serial = serial[t]
  BY <1>2 DEF OnceInv
<1>8. reply' = IF pc[t] = "post" THEN [reply EXCEPT ![t] = r] ELSE reply
  BY <1>3, <1>7 DEF ServerActs, Deliver
<1>9. ASSUME NEW k \in Tasks, Silent(k)
      PROVE  Silent(k)'
  BY <1>4, <1>9 DEF Silent
<1>10. pc[t] = "post" => ran[t] = 0
  BY <1>2, <1>6 DEF OnceInv
<1>11. pc[t] = "done"
         => result[t] \in {"transport", "cancelled"} /\ ran[t] = 0
  BY <1>2, <1>6 DEF OnceInv
<1>12. pc[t] \notin {"idle", "fetch", "route"}
  BY <1>2, <1>6 DEF OnceInv
<1>13. ASSUME NEW k \in Tasks
       PROVE  /\ \A a, b \in wire' : a.task = k /\ b.task = k => a = b
              /\ \A a \in wire' : a.task = k => a.serial = serial'[k]
  BY <1>4 DEF OnceInv
<1>14. ASSUME NEW k \in Tasks, k # t
       PROVE  ran'[k] = ran[k] /\ reply'[k] = reply[k]
  BY <1>3, <1>8, <1>14 DEF TypeInv, TypeOK
<1>15. ran'[t] = (IF r = "ok" THEN ran[t] + 1 ELSE ran[t])
  BY <1>2, <1>3 DEF TypeInv, TypeOK
<1>16. pc[t] = "post" => reply'[t] = r
  BY <1>2, <1>8 DEF TypeInv, TypeOK
<1>17. ASSUME NEW k \in Tasks, k = t
       PROVE  /\ pc'[k] \in {"idle", "fetch", "route"}
                   => ran'[k] = 0 /\ Silent(k)'
              /\ pc'[k] = "post" =>
                   \/ reply'[k] = "none" /\ ran'[k] = 0
                   \/ reply'[k] = "ok" /\ ran'[k] = 1 /\ Silent(k)'
                   \/ reply'[k] \in {"wrongMachine"} \cup AppErrors
                        /\ ran'[k] = 0 /\ Silent(k)'
              /\ pc'[k] = "done" =>
                   result'[k] \in {"transport", "cancelled"}
                     /\ (ran'[k] = 0 \/ (ran'[k] = 1 /\ Silent(k)'))
  BY <1>4, <1>5, <1>10, <1>11, <1>12, <1>15, <1>16, <1>17
<1> QED
  BY <1>4, <1>9, <1>13, <1>14, <1>17 DEF OnceInv

LEMMA OnceStep ==
  ASSUME TransportRetries = 0
  PROVE  TypeInv /\ OnceInv /\ [Next]_vars => OnceInv'
<1> SUFFICES ASSUME TypeInv, OnceInv, [Next]_vars PROVE OnceInv'
  OBVIOUS
<1>1. ASSUME NEW t \in Tasks,
             \/ Call(t) \/ ClientStep(t)
             \/ Cancel(t) \/ ServeEstablish(t)
      PROVE  OnceInv'
  BY <1>1, OnceCall, OnceFetch, OnceSelectHop, OnceReceive DEF ClientStep
<1>2. CASE ServerStep
  BY <1>2, OnceServer
<1>3. CASE Publish \/ \E s \in Servers : Learn(s)
  BY <1>3 DEF Publish, Learn, OnceInv, Silent, network, history
<1>4. CASE UNCHANGED vars
  BY <1>4 DEF vars, network, history, OnceInv, Silent
<1> QED
  BY <1>1, <1>2, <1>3, <1>4 DEF Next, WorldStep

(* Without transport retries a refused command was not carried out and     *)
(* never will be.                                                          *)
THEOREM RefusalsAreCertain == Spec => []RefusedNeverRan
<1>1. CASE TransportRetries = 0
  <2>1. TypeInv /\ OnceInv => RefusedNeverRan
    BY DEF OnceInv, Silent, RefusedNeverRan, Refusals, AppErrors
  <2>2. TypeInv /\ OnceInv /\ [Next]_vars => OnceInv'
    BY <1>1, OnceStep
  <2> QED
    BY <2>1, <2>2, TypeInit, TypeStep, OnceInit, PTL DEF Spec
<1>2. CASE TransportRetries # 0
  <2>1. RefusedNeverRan
    BY <1>2 DEF RefusedNeverRan
  <2> QED
    BY <2>1, PTL
<1> QED
  BY <1>1, <1>2
-----------------------------------------------------------------------------
(***************************************************************************)
(* Refinement.  Without transport retries the engine implements            *)
(* OnceCommand with Limit = 1.  A step of the engine that the caller cannot*)
(* see is a stutter; the step that ends a call closes the command, and a   *)
(* server that carries a request out executes it.                          *)
(***************************************************************************)
Phase(t) == IF pc[t] = "idle" THEN "idle"
            ELSE IF pc[t] = "done" THEN "closed" ELSE "open"

PhaseMap == [t \in Tasks |-> Phase(t)]

(* A step that moves pc of one task, and nothing the caller can see of the *)
(* others, moves the phase of that task only.                              *)
LEMMA PhaseMoves ==
  ASSUME TypeOK, NEW t \in Tasks, NEW p \in Pcs, pc' = [pc EXCEPT ![t] = p]
  PROVE  PhaseMap' = [PhaseMap EXCEPT ![t] =
           IF p = "idle" THEN "idle"
           ELSE IF p = "done" THEN "closed" ELSE "open"]
BY DEF TypeOK, PhaseMap, Phase

LEMMA PhaseStays ==
  ASSUME UNCHANGED pc PROVE UNCHANGED PhaseMap
BY DEF PhaseMap, Phase

LEMMA OnceSame ==
  /\ Once!vars = <<PhaseMap, ran, result>>
  /\ Once!vars' = <<PhaseMap', ran', result'>>
BY DEF Once!vars, PhaseMap, Phase

(* A call that ends is closed with its outcome.                            *)
LEMMA OnceCloses ==
  ASSUME TransportRetries = 0, TypeOK, NEW t \in Tasks,
         NEW r \in Results \ {"none"},
         pc[t] \in Pcs \ {"idle", "done"},
         Finish(t, r), UNCHANGED ran,
         r = "ok" => ran[t] = 1,
         r \in Refusals \cup {"established"} => ran[t] = 0
  PROVE  Once!Close(t, r)
<1>1. pc' = [pc EXCEPT ![t] = "done"] /\ result' = [result EXCEPT ![t] = r]
  BY DEF Finish
<1>2. PhaseMap' = [PhaseMap EXCEPT ![t] = "closed"]
  BY <1>1, PhaseMoves DEF Pcs
<1>3. PhaseMap[t] = "open"
  BY DEF PhaseMap, Phase
<1> QED
  BY <1>1, <1>2, <1>3
     DEF Once!Close, Results, Refusals, AppErrors, PhaseMap, Phase

LEMMA OnceRefineCall ==
  ASSUME TypeInv, NEW t \in Tasks, Call(t), ran[t] = 0, result[t] = "none"
  PROVE  Once!Open(t) \/ Once!Answer(t)
<1>1. PICK j \in Jobs : Begin(t, j)
  BY DEF Call
<1>2. pc[t] = "idle" /\ PhaseMap[t] = "idle"
  BY DEF Call, PhaseMap, Phase
<1>3. UNCHANGED ran
  BY <1>1 DEF Begin, TypeInv, TypeOK
<1>4. PICK p \in {"fetch", "route", "done"}, r \in Results :
        /\ pc' = [pc EXCEPT ![t] = p]
        /\ result' = [result EXCEPT ![t] = r]
        /\ p = "done" => r \in {"established", "catalog"}
        /\ p # "done" => r = "none"
  BY <1>1 DEF Begin, Results, AppErrors
<1>5. CASE p = "done"
  <2>1. PhaseMap' = [PhaseMap EXCEPT ![t] = "closed"]
    BY <1>4, <1>5, PhaseMoves DEF Pcs, TypeInv
  <2> QED
    BY <1>2, <1>3, <1>4, <1>5, <2>1 DEF Once!Answer, PhaseMap, Phase
<1>6. CASE p # "done"
  <2>1. PhaseMap' = [PhaseMap EXCEPT ![t] = "open"]
    BY <1>4, <1>6, PhaseMoves DEF Pcs, TypeInv
  <2> QED
    BY <1>2, <1>3, <1>4, <1>6, <2>1
       DEF Once!Open, PhaseMap, Phase, TypeInv, TypeOK
<1> QED
  BY <1>5, <1>6

(* The steps of a caller that do not end its call are invisible.           *)
LEMMA OnceRefineQuiet ==
  ASSUME TypeInv, NEW t \in Tasks,
         \/ ServeEstablish(t) \/ SelectHop(t) \/ ReceiveBounce(t)
         \/ TransportRetry(t)
         \/ InstallEstablishment(t) /\ pc'[t] = "route"
  PROVE  UNCHANGED Once!vars
<1>1. UNCHANGED <<result, ran>>
  BY DEF ServeEstablish, SelectHop, ReceiveBounce, Refetch, TransportRetry,
         Repost, InstallEstablishment, Resume, Finish, history, TypeInv, TypeOK
<1>2. PICK p \in {"fetch", "route", "post"} :
        /\ pc[t] \in {"fetch", "route", "post"}
        /\ pc' = [pc EXCEPT ![t] = p]
  BY DEF ServeEstablish, SelectHop, ReceiveBounce, Refetch, TransportRetry,
         Repost, InstallEstablishment, Resume, Finish, TypeInv, TypeOK
<1>3. PhaseMap' = [PhaseMap EXCEPT ![t] = "open"]
  BY <1>2, PhaseMoves DEF Pcs, TypeInv
<1>4. PhaseMap' = PhaseMap
  BY <1>2, <1>3 DEF PhaseMap, Phase
<1> QED
  BY <1>1, <1>4, OnceSame

(* The steps that end a call close the command.                            *)
LEMMA OnceRefineEnd ==
  ASSUME TransportRetries = 0, TypeInv, OnceInv, NEW t \in Tasks,
         \/ RejectCatalog(t) \/ EstablishFails(t) \/ GiveUp(t)
         \/ ReceiveFinal(t) \/ TransportFail(t) \/ Cancel(t)
         \/ InstallEstablishment(t) /\ pc'[t] # "route"
  PROVE  \E r \in Once!Outcomes : Once!Close(t, r)
<1>1. UNCHANGED ran
  BY DEF RejectCatalog, EstablishFails, GiveUp, ReceiveFinal, TransportFail,
         Cancel, InstallEstablishment, Resume, history
<1>2. ASSUME NEW r \in {"catalog", "transport", "refused", "wrongMachine",
                        "established"},
             pc[t] \in {"fetch", "route"}, Finish(t, r)
      PROVE  Once!Close(t, r)
  <2>1. ran[t] = 0
    BY <1>2 DEF OnceInv
  <2> QED
    BY <1>1, <1>2, <2>1, OnceCloses DEF TypeInv, Pcs, Results, AppErrors
<1>3. CASE RejectCatalog(t) \/ EstablishFails(t) \/ GiveUp(t)
  BY <1>2, <1>3 DEF RejectCatalog, EstablishFails, GiveUp, Once!Outcomes,
                    AppErrors
<1>4. CASE InstallEstablishment(t) /\ pc'[t] # "route"
  <2>1. Finish(t, "established") /\ pc[t] = "fetch"
    BY <1>4 DEF InstallEstablishment, Resume, TypeInv, TypeOK
  <2> QED
    BY <1>2, <2>1 DEF Once!Outcomes
<1>5. CASE ReceiveFinal(t)
  <2>1. /\ pc[t] = "post"
        /\ reply[t] \in {"ok"} \cup AppErrors
        /\ Finish(t, reply[t])
    BY <1>5 DEF ReceiveFinal
  <2>2. /\ reply[t] = "ok" => ran[t] = 1
        /\ reply[t] # "ok" => ran[t] = 0
    BY <2>1 DEF OnceInv, AppErrors
  <2>3. ASSUME NEW r \in {"ok"} \cup AppErrors, r = reply[t]
        PROVE  Once!Close(t, r)
    BY <1>1, <2>1, <2>2, <2>3, OnceCloses
       DEF TypeInv, Pcs, Results, Refusals, AppErrors
  <2> QED
    BY <2>1, <2>3 DEF Once!Outcomes, AppErrors
<1>6. CASE TransportFail(t)
  <2>1. pc[t] = "post" /\ Finish(t, "transport")
    BY <1>6 DEF TransportFail
  <2>2. Once!Close(t, "transport")
    BY <1>1, <2>1, OnceCloses DEF TypeInv, Pcs, Results, Refusals, AppErrors
  <2> QED
    BY <2>2 DEF Once!Outcomes
<1>7. CASE Cancel(t)
  <2>1. pc[t] \in {"fetch", "post"} /\ Finish(t, "cancelled")
    BY <1>7 DEF Cancel
  <2>2. Once!Close(t, "cancelled")
    BY <1>1, <2>1, OnceCloses DEF TypeInv, Pcs, Results, Refusals, AppErrors
  <2> QED
    BY <2>2 DEF Once!Outcomes
<1> QED
  BY <1>3, <1>4, <1>5, <1>6, <1>7

(* A server step executes a command that is open, or whose outcome is      *)
(* "transport" or "cancelled"; any other server step is invisible.         *)
LEMMA OnceRefineServer ==
  ASSUME TransportRetries = 0, TypeInv, OnceInv, ServerStep
  PROVE  UNCHANGED Once!vars \/ \E t \in Tasks : Once!Execute(t)
<1>1. PICK m \in wire : ServerExecutes(m) \/ ServerDeclines(m)
                          \/ ServerStale(m) \/ ServerBounces(m)
  BY DEF ServerStep
<1> DEFINE t == m.task
<1>2. t \in Tasks
  BY DEF TypeInv, TypeOK, Requests
<1>3. UNCHANGED <<pc, result>>
  BY <1>1 DEF ServerExecutes, ServerDeclines, ServerStale, ServerBounces,
              ServerActs
<1>4. CASE UNCHANGED ran
  BY <1>3, <1>4, PhaseStays, OnceSame
<1>5. CASE ran' = [ran EXCEPT ![t] = @ + 1]
  <2>1. ~Silent(t)
    BY DEF Silent
  <2>2. /\ ran[t] = 0
        /\ \/ pc[t] = "post"
           \/ pc[t] = "done" /\ result[t] \in {"transport", "cancelled"}
    BY <1>2, <2>1 DEF OnceInv, TypeInv, TypeOK, Pcs
  <2>3. Once!Execute(t)
    BY <1>2, <1>3, <1>5, <2>2, PhaseStays
       DEF Once!Execute, PhaseMap, Phase
  <2> QED
    BY <1>2, <2>3
<1> QED
  BY <1>1, <1>4, <1>5 DEF ServerExecutes, ServerDeclines, ServerStale,
                          ServerBounces

(* Without transport retries the engine implements OnceCommand: a command  *)
(* is carried out at most once, "ok" means exactly once, and every outcome *)
(* but a transport failure or a cancellation is certain.                   *)
THEOREM EngineImplementsOnce ==
  ASSUME TransportRetries = 0
  PROVE  Spec => ImplementsOnce
<1>1. Init => Once!Init
  BY DEF Init, Once!Init
<1>2. TypeInv /\ OnceInv /\ [Next]_vars => [Once!Next]_(Once!vars)
  <2> SUFFICES ASSUME TypeInv, OnceInv, [Next]_vars
               PROVE  Once!Next \/ UNCHANGED Once!vars
    OBVIOUS
  <2>1. ASSUME NEW t \in Tasks, Call(t) PROVE Once!Next
    BY <2>1, OnceRefineCall DEF Call, OnceInv, Once!Next
  <2>2. ASSUME NEW t \in Tasks,
               ClientStep(t) \/ Cancel(t) \/ ServeEstablish(t)
        PROVE  Once!Next \/ UNCHANGED Once!vars
    BY <2>2, OnceRefineQuiet, OnceRefineEnd DEF ClientStep, Once!Next
  <2>3. CASE ServerStep
    BY <2>3, OnceRefineServer DEF Once!Next
  <2>4. CASE Publish \/ \E s \in Servers : Learn(s)
    <3>1. UNCHANGED <<pc, ran, result>>
      BY <2>4 DEF Publish, Learn, history
    <3> QED
      BY <3>1, PhaseStays, OnceSame
  <2>5. CASE UNCHANGED vars
    <3>1. UNCHANGED <<pc, ran, result>>
      BY <2>5 DEF vars, history
    <3> QED
      BY <3>1, PhaseStays, OnceSame
  <2> QED
    BY <2>1, <2>2, <2>3, <2>4, <2>5 DEF Next, WorldStep
<1>3. TypeInv /\ OnceInv /\ [Next]_vars => OnceInv'
  BY OnceStep
<1> QED
  BY <1>1, <1>2, <1>3, TypeInit, TypeStep, OnceInit, PTL
     DEF Spec, ImplementsOnce, Once!Spec
=============================================================================
