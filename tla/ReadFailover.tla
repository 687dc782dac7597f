---------------------------- MODULE ReadFailover ----------------------------
(***************************************************************************)
(* Client.read: the loop over read members, the stale-read policy and the  *)
(* fallback to the SOT member, on top of the routing engine.  Each turn of *)
(* the loop is a whole run of _execute_routed, with its own bounces and    *)
(* refreshes, while the list of primaries stays the one computed from the  *)
(* document the read began with.                                           *)
(*                                                                         *)
(* A task is a caller that may first refresh the cache with establish()    *)
(* and then reads one document, whose slot is ReadSlot.                    *)
(***************************************************************************)
EXTENDS RoutedCommand

CONSTANTS
  Policies, (* the values of Config.stale_read_policy to consider           *)
  ReadSlot, (* the slot of the document                                     *)
  Readers   (* the tasks that read; the others only refresh the cache       *)

ASSUME PolicyAssumption ==
  /\ Policies \subseteq {"surface", "failover", "preferSot"}
  /\ ReadSlot \in Slots
  /\ Readers \subseteq Tasks

ReadJob(kind, primary) ==
  [kind |-> kind, slot |-> ReadSlot, home |-> ReadSlot,
   primary |-> primary, catalog |-> {}]

(* _ensure_established is the cached document or, failing that, a fetch:   *)
(* what a bind without a catalog of its own does.                          *)
Ensure  == ReadJob("bind", NoCandidate)
Refresh == ReadJob("establish", NoCandidate)

ReadJobs == {Ensure, Refresh, ReadJob("readSot", NoCandidate)}
              \cup {ReadJob("read", c) : c \in Candidates}

ASSUME ReadJobsAssumption == ReadJobs \subseteq Jobs

VARIABLES
  policy,    (* Config.stale_read_policy, fixed for the life of the client  *)
  stage,     (* where each read is                                          *)
  left,      (* primaries the for loop has not reached                      *)
  lastErr,   (* last_err is not None                                        *)
  outcome,   (* how the read ended                                          *)
  begunWith, (* history: version of the document the primaries came from    *)
  refusedBy, (* history: servers that answered this read with stale         *)
  steady     (* history: no configuration change since the read began       *)

loop     == <<stage, left, lastErr, outcome, begunWith, refusedBy>>
readVars == <<vars, policy, loop, steady>>

Stages == {"idle", "ensure", "loop", "member", "sot", "done"}

ReadTypeOK ==
  /\ TypeOK
  /\ policy \in Policies
  /\ stage \in [Tasks -> Stages]
  /\ left \in [Tasks -> SUBSET Candidates]
  /\ lastErr \in [Tasks -> BOOLEAN]
  /\ outcome \in [Tasks -> Results]
  /\ begunWith \in [Tasks -> Nat]
  /\ refusedBy \in [Tasks -> SUBSET Servers]
  /\ steady \in [Tasks -> BOOLEAN]

ReadInit ==
  /\ Init
  /\ policy \in Policies
  /\ stage = [t \in Tasks |-> "idle"]
  /\ left = [t \in Tasks |-> {}]
  /\ lastErr = [t \in Tasks |-> FALSE]
  /\ outcome = [t \in Tasks |-> "none"]
  /\ begunWith = [t \in Tasks |-> 0]
  /\ refusedBy = [t \in Tasks |-> {}]
  /\ steady = [t \in Tasks |-> FALSE]

Goto(t, st) == stage' = [stage EXCEPT ![t] = st]

Return(t, r) ==
  /\ Goto(t, "done")
  /\ outcome' = [outcome EXCEPT ![t] = r]
-----------------------------------------------------------------------------
(* The caller refreshes the cache before it reads.                         *)
RefreshFirst(t) ==
  /\ stage[t] = "idle"
  /\ pc[t] = "idle"
  /\ Begin(t, Refresh)
  /\ UNCHANGED <<loop, steady>>

StartRead(t) ==
  /\ t \in Readers
  /\ stage[t] = "idle"
  /\ pc[t] \in {"idle", "done"}
  /\ Begin(t, Ensure)
  /\ Goto(t, "ensure")
  /\ steady' = [steady EXCEPT ![t] = Settled]
  /\ UNCHANGED <<left, lastErr, outcome, begunWith, refusedBy>>

(* for primary in route_document_read_candidates(est, doc_id)              *)
ListPrimaries(t) ==
  /\ stage[t] = "ensure"
  /\ pc[t] = "done"
  /\ \/ /\ result[t] = "established"
        /\ left' = [left EXCEPT ![t] =
                      RouteDocumentReadCandidates(est[t], ReadSlot)]
        /\ begunWith' = [begunWith EXCEPT ![t] = est[t].version]
        /\ Goto(t, "loop")
        /\ UNCHANGED outcome
     \/ /\ result[t] # "established"
        /\ Return(t, result[t])
        /\ UNCHANGED <<left, begunWith>>
  /\ UNCHANGED <<vars, lastErr, refusedBy, steady>>

TryMember(t) ==
  /\ stage[t] = "loop"
  /\ \E c \in left[t] :
       /\ left' = [left EXCEPT ![t] = @ \ {c}]
       /\ Begin(t, ReadJob("read", c))
  /\ Goto(t, "member")
  /\ UNCHANGED <<lastErr, outcome, begunWith, refusedBy, steady>>

(* readMemberStale or documentStale: remember the error and go on, unless  *)
(* the policy is SURFACE.  Any other error, wrongMachine and transport     *)
(* failures included, ends the read.                                       *)
MemberAnswers(t) ==
  /\ stage[t] = "member"
  /\ pc[t] = "done"
  /\ \/ /\ result[t] = "stale"
        /\ lastErr' = [lastErr EXCEPT ![t] = TRUE]
        /\ refusedBy' = [refusedBy EXCEPT ![t] = @ \cup {Host[hop[t]]}]
        /\ \/ /\ policy = "surface"
              /\ Return(t, "stale")
           \/ /\ policy # "surface"
              /\ Goto(t, "loop")
              /\ UNCHANGED outcome
     \/ /\ result[t] # "stale"
        /\ Return(t, result[t])
        /\ UNCHANGED <<lastErr, refusedBy>>
  /\ UNCHANGED <<vars, left, begunWith, steady>>

(* A slip: the last attempt goes to the read members once more.            *)
AskMemberAgain(t) ==
  /\ stage[t] = "loop" /\ left[t] = {}
  /\ policy = "preferSot" /\ lastErr[t]
  /\ Begin(t, ReadJob("read", NoCandidate))
  /\ Goto(t, "sot")
  /\ UNCHANGED <<left, lastErr, outcome, begunWith, refusedBy, steady>>

(* After the loop: PREFER_SOT asks the SOT member once, otherwise the last *)
(* error is raised.  The list of primaries is never empty, so the loop is  *)
(* left only with last_err set and the final fallback of the method        *)
(* (client.py:225) is dead code.                                           *)
AskSot(t) ==
  /\ stage[t] = "loop"
  /\ left[t] = {}
  /\ policy = "preferSot" /\ lastErr[t]
  /\ Begin(t, ReadJob("readSot", NoCandidate))
  /\ Goto(t, "sot")
  /\ UNCHANGED <<left, lastErr, outcome, begunWith, refusedBy, steady>>

SotAnswers(t) ==
  /\ stage[t] = "sot"
  /\ pc[t] = "done"
  /\ Return(t, result[t])
  /\ UNCHANGED <<vars, left, lastErr, begunWith, refusedBy, steady>>

RaiseLast(t) ==
  /\ stage[t] = "loop"
  /\ left[t] = {}
  /\ policy # "preferSot" /\ lastErr[t]
  /\ Return(t, "stale")
  /\ UNCHANGED <<vars, left, lastErr, begunWith, refusedBy, steady>>
-----------------------------------------------------------------------------
EngineStep(t) == ClientStep(t) /\ UNCHANGED <<loop, steady>>

ReadStep(t) ==
  \/ EngineStep(t)
  \/ ListPrimaries(t)
  \/ TryMember(t)
  \/ MemberAnswers(t)
  \/ AskSot(t)
  \/ SotAnswers(t)
  \/ RaiseLast(t)

(* AsyncClient: a cancellation passes through every except clause.         *)
Interrupt(t) == Cancel(t) /\ UNCHANGED <<loop, steady>>

Outside ==
  /\ WorldStep
  /\ steady' = IF authoritative' = authoritative THEN steady
               ELSE [t \in Tasks |-> FALSE]
  /\ UNCHANGED loop

ReadNext ==
  /\ \/ \E t \in Tasks : \/ RefreshFirst(t)
                         \/ StartRead(t)
                         \/ ReadStep(t)
                         \/ Interrupt(t)
     \/ Outside
  /\ UNCHANGED policy

ReadSpec == ReadInit /\ [][ReadNext]_readVars
-----------------------------------------------------------------------------
(* The reads that every candidate of the current document can serve, under *)
(* the rewriting of base URLs that is configured.                          *)
ReadRoutable == Routable(authoritative, ReadJob("read", NoCandidate))
SotRoutable  == Routable(authoritative, ReadJob("readSot", NoCandidate))

(* docs/client.md, failover: "Try other SHARD_READ_MEMBER servers for that *)
(* shard; if all fail the same way, raise the last error".  When nothing   *)
(* changes during the read and the read began with the current document,   *)
(* raising the stale error means that every read member was asked and      *)
(* answered stale.  (A read that began with an older document keeps the    *)
(* members of that one after a bounce, client.py:197.)                     *)
Failing(t) ==
  /\ stage[t] = "done"
  /\ outcome[t] = "stale"
  /\ steady[t]
  /\ policy # "surface"

AllMembersAsked ==
  \A t \in Tasks :
    (Failing(t) /\ ReadRoutable /\ begunWith[t] = authoritative.version)
      => ReadMembers(authoritative, ReadSlot) \subseteq refusedBy[t]

(* With PREFER_SOT a read of a settled deployment whose last turn was      *)
(* routed by the current document never ends stale: the SOT member has the *)
(* last word, however stale the document was that the members came from.   *)
(* (A last turn routed by an older document asks the SOT member of that    *)
(* one, which may be a mere read member by now and answer stale itself.)   *)
SotHasLastWord ==
  \A t \in Tasks :
    (stage[t] = "done" /\ steady[t] /\ SotRoutable
       /\ policy = "preferSot" /\ est[t] = authoritative)
      => outcome[t] # "stale"

(* A read of a settled deployment never ends in wrongMachine, whichever    *)
(* members are stale: every turn of the loop can still find its way.       *)
ReadsRoute ==
  \A t \in Tasks :
    (stage[t] = "done" /\ steady[t] /\ ReadRoutable /\ SotRoutable)
      => outcome[t] # "wrongMachine"
=============================================================================
