--------------------------- MODULE RoutedCommand ---------------------------
(***************************************************************************)
(* The smart-routing engine of the client: Client._execute_routed with the *)
(* establishment cache it shares between threads (or asyncio tasks), the   *)
(* establish() refresh it makes on every wrongMachine bounce, and the      *)
(* transport retry loop of Client._request under it.                       *)
(*                                                                         *)
(* A task is one caller of one Client.  The steps of a task are the points *)
(* where another task can run in between: the HTTP exchanges.  What the    *)
(* code does between two exchanges touches only locals and the cache       *)
(* (under its lock), so it is one action.                                  *)
(*                                                                         *)
(* The deployment around the client is external: an administrator who      *)
(* publishes new establishment documents, servers that learn of them late, *)
(* and a network that may lose a request, lose a reply, or deliver a       *)
(* request after the caller has given up on it.                            *)
(***************************************************************************)
EXTENDS Routing, Integers, FiniteSets

CONSTANTS
  Tasks,            (* callers of the client                                *)
  NoEst,            (* an empty establishment cache                         *)
  Async,            (* AsyncClient rather than Client                       *)
  ConfigWmRetries,  (* Config.wrong_machine_retries                         *)
  TransportRetries, (* Config.transport_retries                             *)
  CfgCatalog,       (* Config.collections: <<collection, version>> pairs    *)
  Host,             (* which server answers at a URL, if any                *)
  Topologies,       (* the documents the administrator may publish          *)
  MaxVersion,       (* bound on the number of published documents           *)
  Jobs              (* the calls the tasks may make                         *)

Kinds == {"write", "read", "readSot", "search", "establish", "bind"}

(***************************************************************************)
(* A call: slot is the slot the client routes by (NoSlot when it has none),*)
(* home the slot the data really lives in; primary is the candidate a read *)
(* insists on trying first; catalog the pairs passed to establish or bind. *)
(***************************************************************************)
JobType ==
  [kind    : Kinds,
   slot    : Slots \cup {NoSlot},
   home    : Slots,
   primary : Candidates,
   catalog : SUBSET (Collections \X Nat)]

ASSUME NoEstAssumption      == NoEst \notin Establishments
ASSUME AsyncAssumption      == Async \in BOOLEAN
ASSUME WmRetriesAssumption  == ConfigWmRetries \in Int
ASSUME RetriesAssumption    == TransportRetries \in Nat
ASSUME HostAssumption       == Host \in [Urls -> Servers \cup {NoMember}]
ASSUME TopologiesAssumption == Topologies \subseteq Establishments
ASSUME MaxVersionAssumption == MaxVersion \in Nat \ {0}
ASSUME JobsAssumption       == Jobs \subseteq JobType /\ Jobs # {}

(* Client.__init__: a limit that is not positive selects the default.      *)
WmRetries == IF ConfigWmRetries > 0 THEN ConfigWmRetries ELSE 3

Attempts == WmRetries + 1

VARIABLES
  authoritative, (* the document the establishment server serves            *)
  known,         (* the document each server acts on, possibly an older one *)
  cache,         (* EstablishmentCache._value                               *)
  pc,            (* where each task is                                      *)
  job,           (* the call it is making                                   *)
  est,           (* the local est of _execute_routed                        *)
  tried,         (* its local set tried                                     *)
  attempt,       (* how many hops it has made                               *)
  hop,           (* its local next_url                                      *)
  tries,         (* failed attempts at the current hop, _request's i        *)
  serial,        (* number of POSTs it has sent                             *)
  fetched,       (* the establish reply it has received, if any             *)
  wire,          (* POSTs a server may still act on                         *)
  reply,         (* the outcome waiting in the caller's connection          *)
  result,        (* how the call ended                                      *)
  ran,           (* history: how often a server carried the command out     *)
  floor,         (* history: authoritative version at the last bounce       *)
  calm           (* history: no configuration change since the call began   *)

world   == <<authoritative, known>>
locals  == <<job, est, tried, attempt, hop, tries, fetched>>
network == <<serial, wire, reply>>
history == <<ran, floor, calm>>
vars    == <<world, cache, pc, locals, network, result, history>>

Pcs == {"idle", "fetch", "route", "post", "done"}

(* Application error codes: readMemberStale or documentStale,              *)
(* documentExists, documentNotFound, versionMismatch, and any other but    *)
(* wrongMachine.                                                           *)
AppErrors == {"stale", "exists", "missing", "mismatch", "appError"}

Replies == {"none", "ok", "wrongMachine"} \cup AppErrors
Results == {"none", "ok", "established", "wrongMachine", "transport",
            "catalog", "refused", "cancelled"} \cup AppErrors

Requests == [task : Tasks, serial : Nat, url : Urls, job : Jobs]

TypeOK ==
  /\ authoritative \in Establishments
  /\ known \in [Servers -> Establishments]
  /\ cache \in Establishments \cup {NoEst}
  /\ pc \in [Tasks -> Pcs]
  /\ job \in [Tasks -> Jobs]
  /\ est \in [Tasks -> Establishments \cup {NoEst}]
  /\ tried \in [Tasks -> SUBSET Urls]
  /\ attempt \in [Tasks -> 0..Attempts]
  /\ hop \in [Tasks -> Urls \cup {NoUrl}]
  /\ tries \in [Tasks -> 0..TransportRetries]
  /\ serial \in [Tasks -> Nat]
  /\ fetched \in [Tasks -> Establishments \cup {NoEst}]
  /\ wire \subseteq Requests
  /\ reply \in [Tasks -> Replies]
  /\ result \in [Tasks -> Results]
  /\ ran \in [Tasks -> Nat]
  /\ floor \in [Tasks -> Nat]
  /\ calm \in [Tasks -> BOOLEAN]

Init ==
  /\ authoritative \in {[d EXCEPT !.version = 1] : d \in Topologies}
  /\ known = [s \in Servers |-> authoritative]
  /\ cache = NoEst
  /\ pc = [t \in Tasks |-> "idle"]
  /\ job = [t \in Tasks |-> CHOOSE j \in Jobs : TRUE]
  /\ est = [t \in Tasks |-> NoEst]
  /\ tried = [t \in Tasks |-> {}]
  /\ attempt = [t \in Tasks |-> 0]
  /\ hop = [t \in Tasks |-> NoUrl]
  /\ tries = [t \in Tasks |-> 0]
  /\ serial = [t \in Tasks |-> 0]
  /\ fetched = [t \in Tasks |-> NoEst]
  /\ wire = {}
  /\ reply = [t \in Tasks |-> "none"]
  /\ result = [t \in Tasks |-> "none"]
  /\ ran = [t \in Tasks |-> 0]
  /\ floor = [t \in Tasks |-> 0]
  /\ calm = [t \in Tasks |-> FALSE]
-----------------------------------------------------------------------------
(***************************************************************************)
(* Starting a call.  _ensure_established uses the cached document when     *)
(* there is one; an explicit establish() always fetches; bind() stops at   *)
(* the cached document when there is one.                                  *)
(***************************************************************************)
Settled == \A s \in Servers : known[s] = authoritative

Begin(t, j) ==
  /\ job' = [job EXCEPT ![t] = j]
  /\ est' = [est EXCEPT ![t] = cache]
  /\ tried' = [tried EXCEPT ![t] = {}]
  /\ attempt' = [attempt EXCEPT ![t] = 0]
  /\ hop' = [hop EXCEPT ![t] = NoUrl]
  /\ tries' = [tries EXCEPT ![t] = 0]
  /\ fetched' = [fetched EXCEPT ![t] = NoEst]
  /\ reply' = [reply EXCEPT ![t] = "none"]
  /\ ran' = [ran EXCEPT ![t] = 0]
  /\ floor' = [floor EXCEPT ![t] = 0]
  /\ calm' = [calm EXCEPT ![t] = Settled]
  /\ \/ /\ cache = NoEst \/ j.kind = "establish"
        /\ pc' = [pc EXCEPT ![t] = "fetch"]
        /\ result' = [result EXCEPT ![t] = "none"]
     \/ /\ cache # NoEst
        /\ j.kind \notin {"establish", "bind"}
        /\ pc' = [pc EXCEPT ![t] = "route"]
        /\ result' = [result EXCEPT ![t] = "none"]
     \/ /\ cache # NoEst
        /\ j.kind = "bind"
        /\ pc' = [pc EXCEPT ![t] = "done"]
        /\ result' = [result EXCEPT ![t] =
             IF CatalogHolds(cache, j.catalog)
             THEN "established" ELSE "catalog"]
  /\ UNCHANGED <<world, cache, serial, wire>>

Call(t) ==
  /\ pc[t] = "idle"
  /\ \E j \in Jobs : Begin(t, j)
-----------------------------------------------------------------------------
(***************************************************************************)
(* Client.establish.  The GET is a step of the server and a step of the    *)
(* caller; between the two the document may be superseded and other tasks  *)
(* may refresh the cache.  A call keeps the last writer's document.        *)
(***************************************************************************)
Finish(t, r) ==
  /\ pc' = [pc EXCEPT ![t] = "done"]
  /\ result' = [result EXCEPT ![t] = r]

Catalog(j) == IF j.catalog # {} THEN j.catalog ELSE CfgCatalog

ServeEstablish(t) ==
  /\ pc[t] = "fetch"
  /\ fetched[t] = NoEst
  /\ fetched' = [fetched EXCEPT ![t] = authoritative]
  /\ UNCHANGED <<world, cache, pc, job, est, tried, attempt, hop, tries,
                 network, result, history>>

(* With the document in hand, establish() returns to its caller: the       *)
(* application, or the loop of _execute_routed.                            *)
Resume(t) ==
  /\ fetched' = [fetched EXCEPT ![t] = NoEst]
  /\ \/ /\ job[t].kind \in {"establish", "bind"}
        /\ Finish(t, "established")
     \/ /\ job[t].kind \notin {"establish", "bind"}
        /\ pc' = [pc EXCEPT ![t] = "route"]
        /\ UNCHANGED result
  /\ UNCHANGED <<world, job, tried, attempt, hop, tries, network, history>>

(* Slips that InstallEstablishment must not make: the catalog is not       *)
(* checked before the cache is replaced; the loop keeps its old document.  *)
InstallUnchecked(t) ==
  /\ pc[t] = "fetch" /\ fetched[t] # NoEst
  /\ cache' = fetched[t]
  /\ est' = [est EXCEPT ![t] = fetched[t]]
  /\ Resume(t)

InstallKeepsEst(t) ==
  /\ pc[t] = "fetch" /\ fetched[t] # NoEst
  /\ CatalogHolds(fetched[t], Catalog(job[t]))
  /\ cache' = fetched[t]
  /\ est' = [est EXCEPT ![t] = IF @ = NoEst THEN fetched[t] ELSE @]
  /\ Resume(t)

(* Receive the document, validate the catalog, replace the cache, go on to *)
(* route by the new document.                                              *)
InstallEstablishment(t) ==
  /\ pc[t] = "fetch"
  /\ fetched[t] # NoEst
  /\ CatalogHolds(fetched[t], Catalog(job[t]))
  /\ cache' = fetched[t]
  /\ est' = [est EXCEPT ![t] = fetched[t]]
  /\ Resume(t)

(* validate_catalog raises before the cache is replaced.                   *)
RejectCatalog(t) ==
  /\ pc[t] = "fetch"
  /\ fetched[t] # NoEst
  /\ ~CatalogHolds(fetched[t], Catalog(job[t]))
  /\ Finish(t, "catalog")
  /\ UNCHANGED <<world, cache, locals, network, history>>

(* The GET fails for good (after the transport retries, which a GET cannot *)
(* be told apart by), or the reply is an error envelope or no acceptable   *)
(* document.                                                               *)
EstablishFails(t) ==
  /\ pc[t] = "fetch"
  /\ \E r \in {"transport", "refused"} : Finish(t, r)
  /\ UNCHANGED <<world, cache, locals, network, history>>
-----------------------------------------------------------------------------
(***************************************************************************)
(* Choosing a hop.  Each offer is a list resolve_candidates may return for *)
(* the document: one candidate for a write, one random choice for a        *)
(* search, and for a read its primary followed by the other read members   *)
(* in random order.                                                        *)
(***************************************************************************)
Offers(e, j) ==
  CASE j.kind = "read"   -> {RouteDocumentReadCandidates(e, j.slot)
                               \cup ({j.primary} \ {NoCandidate})}
    [] j.kind = "search" -> {{c} : c \in RouteSearchChoices(e, j.slot)}
    [] OTHER             -> {{RouteDocumentWrite(e, j.slot)}}

(* Slips that Hops must not make: a URL is tried again; the primary has no *)
(* precedence.                                                             *)
HopsAgain(offer, primary, seen) ==
  LET free == {Rewrite(c) : c \in offer} \ {NoUrl}
  IN  IF primary \in offer /\ Rewrite(primary) \in free
      THEN {Rewrite(primary)} ELSE free

HopsAnyOrder(offer, primary, seen) ==
  {Rewrite(c) : c \in offer} \ ({NoUrl} \cup seen)

(* The URLs the loop over the list may settle on: the first one that is    *)
(* not empty and not tried, the primary first.                             *)
Hops(offer, primary, seen) ==
  LET free == {Rewrite(c) : c \in offer} \ ({NoUrl} \cup seen)
  IN  IF primary \in offer /\ Rewrite(primary) \in free
      THEN {Rewrite(primary)} ELSE free

Request(t, u) ==
  [task |-> t, serial |-> serial[t] + 1, url |-> u, job |-> job[t]]

Post(t, u) ==
  /\ serial' = [serial EXCEPT ![t] = @ + 1]
  /\ wire' = wire \cup {Request(t, u)}
  /\ reply' = [reply EXCEPT ![t] = "none"]

SelectHop(t) ==
  /\ pc[t] = "route"
  /\ attempt[t] < Attempts
  /\ \E offer \in Offers(est[t], job[t]) :
       \E u \in Hops(offer, job[t].primary, tried[t]) :
         /\ hop' = [hop EXCEPT ![t] = u]
         /\ tried' = [tried EXCEPT ![t] = @ \cup {u}]
         /\ Post(t, u)
  /\ attempt' = [attempt EXCEPT ![t] = @ + 1]
  /\ tries' = [tries EXCEPT ![t] = 0]
  /\ pc' = [pc EXCEPT ![t] = "post"]
  /\ UNCHANGED <<world, cache, job, est, fetched, result, history>>

(* No attempts left, or no URL left to try: raise wrongMachine.            *)
GiveUp(t) ==
  /\ pc[t] = "route"
  /\ \/ attempt[t] = Attempts
     \/ \E offer \in Offers(est[t], job[t]) :
          Hops(offer, job[t].primary, tried[t]) = {}
  /\ Finish(t, "wrongMachine")
  /\ UNCHANGED <<world, cache, locals, network, history>>
-----------------------------------------------------------------------------
(***************************************************************************)
(* The exchange with the server.                                           *)
(***************************************************************************)
(* External: a server acts on a command when the document it knows makes   *)
(* it a member for the data, and refuses it with wrongMachine otherwise.   *)
Serves(e, s, j) ==
  IF j.kind = "write"
  THEN s = WriteMember(e, j.home)
  ELSE s \in ReadMembers(e, j.home) \cup {WriteMember(e, j.home)}

(* The reply reaches the caller only if it still waits for this POST.      *)
Deliver(m, r) ==
  IF pc[m.task] = "post" /\ serial[m.task] = m.serial
  THEN [reply EXCEPT ![m.task] = r] ELSE reply

ServerActs(m, r) ==
  /\ m \in wire
  /\ Host[m.url] \in Servers
  /\ wire' = wire \ {m}
  /\ reply' = Deliver(m, r)
  /\ UNCHANGED <<world, cache, pc, locals, serial, result, floor, calm>>

(* The server carries the command out and says so.                         *)
ServerExecutes(m) ==
  /\ Serves(known[Host[m.url]], Host[m.url], m.job)
  /\ ServerActs(m, "ok")
  /\ ran' = [ran EXCEPT ![m.task] = @ + 1]

(* A business refusal: the command is not carried out.                     *)
ServerDeclines(m) ==
  /\ Serves(known[Host[m.url]], Host[m.url], m.job)
  /\ ServerActs(m, "appError")
  /\ UNCHANGED ran

(* A read member that lost contact with the shard's SOT member, or has not *)
(* applied a replicated write yet.                                         *)
ServerStale(m) ==
  /\ m.job.kind \in {"read", "readSot"}
  /\ Host[m.url] # WriteMember(known[Host[m.url]], m.job.home)
  /\ Serves(known[Host[m.url]], Host[m.url], m.job)
  /\ ServerActs(m, "stale")
  /\ UNCHANGED ran

ServerBounces(m) ==
  /\ Host[m.url] \in Servers
  /\ ~Serves(known[Host[m.url]], Host[m.url], m.job)
  /\ ServerActs(m, "wrongMachine")
  /\ UNCHANGED ran

(* A slip: the ok flag of the envelope is not looked at.                   *)
ReceiveAnything(t) ==
  /\ pc[t] = "post"
  /\ reply[t] \in {"ok"} \cup AppErrors
  /\ Finish(t, "ok")
  /\ UNCHANGED <<world, cache, locals, network, history>>

(* res.ok, or an application error other than wrongMachine.                *)
ReceiveFinal(t) ==
  /\ pc[t] = "post"
  /\ reply[t] \in {"ok"} \cup AppErrors
  /\ Finish(t, reply[t])
  /\ UNCHANGED <<world, cache, locals, network, history>>

Refetch(t) ==
  /\ pc' = [pc EXCEPT ![t] = "fetch"]
  /\ fetched' = [fetched EXCEPT ![t] = NoEst]
  /\ floor' = [floor EXCEPT ![t] = authoritative.version]
  /\ UNCHANGED <<world, cache, job, est, tried, attempt, hop, tries, network,
                 result, ran, calm>>

(* A slip: route by what is in the cache instead of fetching.              *)
BounceToCache(t) ==
  /\ pc[t] = "post" /\ reply[t] = "wrongMachine"
  /\ pc' = [pc EXCEPT ![t] = "route"]
  /\ est' = [est EXCEPT ![t] = cache]
  /\ floor' = [floor EXCEPT ![t] = authoritative.version]
  /\ UNCHANGED <<world, cache, job, tried, attempt, hop, tries, fetched,
                 network, result, ran, calm>>

(* wrongMachine: always fetch the establishment document again.            *)
ReceiveBounce(t) ==
  /\ pc[t] = "post"
  /\ reply[t] = "wrongMachine"
  /\ Refetch(t)

(***************************************************************************)
(* No usable reply: a timeout, a dropped connection, a non-2xx status, an  *)
(* oversized body.  The request itself may be lost, carried out already,   *)
(* or still on its way.                                                    *)
(***************************************************************************)
Repost(t) ==
  /\ tries' = [tries EXCEPT ![t] = @ + 1]
  /\ Post(t, hop[t])
  /\ UNCHANGED <<world, cache, pc, job, est, tried, attempt, hop, fetched,
                 result, history>>

(* A slip: one retry too many.                                             *)
RetryOffByOne(t) ==
  /\ pc[t] = "post"
  /\ tries[t] <= TransportRetries
  /\ Repost(t)

TransportRetry(t) ==
  /\ pc[t] = "post"
  /\ tries[t] < TransportRetries
  /\ Repost(t)

(* Slips: a failed post is rerouted like a bounce; the wait for a reply    *)
(* has no timeout.                                                         *)
RerouteOnFailure(t) ==
  /\ pc[t] = "post"
  /\ tries[t] = TransportRetries
  /\ Refetch(t)

FailOnReplyOnly(t) ==
  /\ pc[t] = "post" /\ reply[t] # "none"
  /\ tries[t] = TransportRetries
  /\ Finish(t, "transport")
  /\ UNCHANGED <<world, cache, locals, network, history>>

TransportFail(t) ==
  /\ pc[t] = "post"
  /\ tries[t] = TransportRetries
  /\ Finish(t, "transport")
  /\ UNCHANGED <<world, cache, locals, network, history>>

(* AsyncClient: the task is cancelled at an await, which is in an exchange *)
(* or in the pause before a retry.  Nothing catches the cancellation, and a*)
(* request that was sent is not called back.                               *)
Cancel(t) ==
  /\ Async
  /\ pc[t] \in {"fetch", "post"}
  /\ Finish(t, "cancelled")
  /\ UNCHANGED <<world, cache, locals, network, history>>
-----------------------------------------------------------------------------
(***************************************************************************)
(* External: the administrator publishes a document, a server learns of    *)
(* the current one.                                                        *)
(***************************************************************************)
Publish ==
  /\ authoritative.version < MaxVersion
  /\ \E d \in Topologies :
       authoritative' = [d EXCEPT !.version = authoritative.version + 1]
  /\ calm' = [t \in Tasks |-> FALSE]
  /\ UNCHANGED <<known, cache, pc, locals, network, result, ran, floor>>

Learn(s) ==
  /\ known[s] # authoritative
  /\ known' = [known EXCEPT ![s] = authoritative]
  /\ UNCHANGED <<authoritative, cache, pc, locals, network, result, history>>
-----------------------------------------------------------------------------
(* What the code of one caller does on its own, once it has begun.         *)
ClientStep(t) ==
  \/ InstallEstablishment(t)
  \/ RejectCatalog(t)
  \/ EstablishFails(t)
  \/ SelectHop(t)
  \/ GiveUp(t)
  \/ ReceiveFinal(t)
  \/ ReceiveBounce(t)
  \/ TransportRetry(t)
  \/ TransportFail(t)

ServerStep ==
  \E m \in wire : \/ ServerExecutes(m)
                  \/ ServerDeclines(m)
                  \/ ServerStale(m)
                  \/ ServerBounces(m)

WorldStep ==
  \/ \E t \in Tasks : ServeEstablish(t)
  \/ ServerStep
  \/ Publish
  \/ \E s \in Servers : Learn(s)

Next ==
  \/ \E t \in Tasks : Call(t) \/ Cancel(t) \/ ClientStep(t)
  \/ WorldStep

Spec == Init /\ [][Next]_vars

(***************************************************************************)
(* A caller that has begun keeps taking steps: its thread is scheduled, and*)
(* httpx bounds every wait with Config.timeout, so an exchange that gets no*)
(* answer ends in a transport failure.  Nothing is assumed of the servers, *)
(* the administrator or the network.                                       *)
(***************************************************************************)
FairSpec == Spec /\ \A t \in Tasks : WF_vars(ClientStep(t))
-----------------------------------------------------------------------------
(***************************************************************************)
(* Properties                                                              *)
(***************************************************************************)
(* A hop made after a bounce is routed by a document at least as new as    *)
(* the one in force when the bounce was received, however the tasks that   *)
(* share the cache interleave (_execute_routed: "always re-fetch").        *)
FreshHop ==
  \A t \in Tasks :
    (pc[t] = "post" /\ attempt[t] > 1) => est[t].version >= floor[t]

(* A document whose members have no base URL ends a call at the first hop; *)
(* the loop does not refresh the cache then (client.py:346).  Theorems that*)
(* need every published document to route the calls say so.                *)
Fetches(j) == j.kind \in {"establish", "bind"}

EveryDocumentRoutes ==
  \A d \in Topologies, j \in Jobs :
    ~Fetches(j) => \A offer \in Offers(d, j) : Hops(offer, j.primary, {}) # {}

(* Once nothing changes any more, a stale cache costs at most one bounce:  *)
(* if every server knows the published document when the call begins and   *)
(* nothing is published until it ends, a command the client can route never*)
(* ends in wrongMachine and takes at most two hops.                        *)
Reaches(c) == Rewrite(c) # NoUrl /\ Host[Rewrite(c)] = c.name

Routable(e, j) ==
  /\ j.slot = j.home
  /\ \A offer \in Offers(e, [j EXCEPT !.primary = NoCandidate]) :
       \A c \in offer : Reaches(c)

SettledRoutes ==
  \A t \in Tasks :
    (calm[t] /\ pc[t] = "done" /\ Routable(authoritative, job[t]))
      => result[t] # "wrongMachine" /\ attempt[t] <= 2

(* docs/search.md: a search without path segments may bounce, "which the   *)
(* client handles automatically".                                          *)
SearchBounceHandled ==
  \A t \in Tasks :
    (calm[t] /\ pc[t] = "done" /\ job[t].kind = "search")
      => result[t] # "wrongMachine"

(* The bounce loop and the retry loop under it stay within their budgets   *)
(* together, and no URL is offered the same command by two hops.           *)
WithinBudget ==
  \A t \in Tasks :
    /\ attempt[t] = Cardinality(tried[t])
    /\ serial[t] <= Attempts * (TransportRetries + 1)
    /\ (pc[t] = "post" /\ reply[t] = "none")
         => serial[t] <= attempt[t] * (TransportRetries + 1)

(* Whatever the caller is told other than a transport failure or a         *)
(* cancellation is certain when transport retries are off: after a refusal *)
(* the command was never carried out and no request is left that could     *)
(* still carry it out.                                                     *)
Refusals == {"wrongMachine", "catalog", "refused"} \cup AppErrors

RefusedNeverRan ==
  TransportRetries = 0 =>
    \A t \in Tasks :
      (pc[t] = "done" /\ result[t] \in Refusals)
        => /\ ran[t] = 0
           /\ \A m \in wire : m.task # t

(* A call that succeeds was carried out, and without transport retries     *)
(* exactly once with nothing left in flight.                               *)
AckedRan ==
  \A t \in Tasks :
    (pc[t] = "done" /\ result[t] = "ok")
      => /\ ran[t] >= 1
         /\ TransportRetries = 0 =>
              ran[t] = 1 /\ \A m \in wire : m.task # t

(* The engine implements OnceCommand: every behaviour of hops, bounces,    *)
(* refreshes, retries and late requests looks to the caller like a command *)
(* carried out at most once, whose outcome is certain unless it is a       *)
(* transport failure or a cancellation.  With transport retries it may be  *)
(* carried out as often as it is posted, and no outcome is certain.        *)
Once == INSTANCE OnceCommand WITH
          Limit <- IF TransportRetries = 0 THEN 1
                   ELSE Attempts * (TransportRetries + 1),
          Doubtful <- IF TransportRetries = 0 THEN {"transport", "cancelled"}
                      ELSE Results,
          phase <- [t \in Tasks |-> IF pc[t] = "idle" THEN "idle"
                                    ELSE IF pc[t] = "done" THEN "closed"
                                    ELSE "open"]

ImplementsOnce == Once!Spec

(* Config.collections guards every route: nothing is cached or routed by a *)
(* document that fails the catalog check.                                  *)
CheckedCatalog ==
  /\ cache # NoEst => CatalogHolds(cache, CfgCatalog)
  /\ \A t \in Tasks :
       pc[t] \in {"route", "post"} => CatalogHolds(est[t], CfgCatalog)

(* Every call ends, whatever the network and the servers do.               *)
Termination == \A t \in Tasks : (pc[t] # "idle") ~> (pc[t] = "done")
=============================================================================
