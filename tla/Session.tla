------------------------------ MODULE Session ------------------------------
(***************************************************************************)
(* One thread of a program that resolves references with a client whose    *)
(* establishment comes and goes: establish() is called by the user, or by  *)
(* a Client.read of the walk that has no document yet or was bounced, and  *)
(* then a map that the client refuses ends the walk.                       *)
(***************************************************************************)
EXTENDS ShardMap, ResolveRefs

CONSTANT MaxBounces (* wrong_machine_retries, of one read                   *)

ASSUME MaxBouncesAssumption == MaxBounces \in Nat

VARIABLES
  caller, (* who called establish(): "nobody", "user" or "read"             *)
  bounced (* how often the read of the walk was bounced                     *)

sessionVars == <<shardVars, resolveVars, caller, bounced>>

SessionInit ==
  /\ ShardInit
  /\ ResolveInit
  /\ caller = "nobody"
  /\ bounced = 0

UserEstablishes ==
  /\ walk # "walking"
  /\ Fetch
  /\ caller' = "user"
  /\ UNCHANGED <<resolveVars, bounced>>

(* The walk is at a document that it has to read.                          *)
AtRead ==
  walk = "walking" /\ ~AtEnd /\ IsDirect(Field) /\ out[KeyOf(Field)] = Unread

(* The first use of the client, or the refresh after a bounce.             *)
ReadEstablishes ==
  /\ AtRead
  /\ \/ ~cache.read /\ UNCHANGED bounced
     \/ cache.read /\ bounced < MaxBounces /\ bounced' = bounced + 1
  /\ Fetch
  /\ caller' = "read"
  /\ UNCHANGED resolveVars

(* The fetch fails, or the catalog check: the cache stays as it is, and    *)
(* the error comes out of the read.  (A read that fails although there is  *)
(* a document is a step of SessionWalk.)                                   *)
ReadCannotEstablish ==
  /\ stage = "idle"
  /\ ~cache.read
  /\ FollowFails
  /\ UNCHANGED <<shardVars, caller, bounced>>

EstablishStep == Establishing /\ UNCHANGED <<resolveVars, caller, bounced>>

(* The ValueError of a refused map comes out of the read, as any error of  *)
(* a read does.                                                            *)
EstablishReturns ==
  /\ EndEstablish
  /\ caller' = "nobody"
  /\ \/ /\ stage = "rejected" /\ caller = "read"
        /\ FollowFails
        /\ bounced' = 0
     \/ /\ stage = "accepted" \/ caller = "user"
        /\ UNCHANGED <<resolveVars, bounced>>

SessionStart ==
  stage = "idle" /\ StartWalk /\ UNCHANGED <<shardVars, caller, bounced>>

(* Slip: the read does not establish first.                                *)
SessionWalkUnrouted ==
  /\ stage = "idle"
  /\ WalkStep
  /\ bounced' = IF AtRead THEN 0 ELSE bounced
  /\ UNCHANGED <<shardVars, caller>>

(* A read needs a document to route by.                                    *)
SessionWalk ==
  /\ stage = "idle"
  /\ AtRead => cache.read
  /\ WalkStep
  /\ bounced' = IF AtRead THEN 0 ELSE bounced
  /\ UNCHANGED <<shardVars, caller>>

SessionEdits == SomebodyEdits /\ UNCHANGED <<shardVars, caller, bounced>>

ThreadStep ==
  \/ ReadEstablishes \/ ReadCannotEstablish
  \/ EstablishStep \/ EstablishReturns
  \/ SessionWalk

SessionNext == UserEstablishes \/ SessionStart \/ SessionEdits \/ ThreadStep

(* The thread goes on once a call was made.                                *)
SessionSpec ==
  /\ SessionInit
  /\ [][SessionNext]_sessionVars
  /\ WF_sessionVars(ThreadStep)
-----------------------------------------------------------------------------
(* A walk waits for establish() only while a read of it has called it, and *)
(* no document comes from a read that had nothing to route by.             *)
SessionTypeOK ==
  /\ caller \in {"nobody", "user", "read"}
  /\ bounced \in 0..MaxBounces
  /\ stage = "idle" <=> caller = "nobody"
  /\ caller = "read" => AtRead
  /\ caller = "user" => walk # "walking"
  /\ (\E k \in Keys : out[k] # Unread) => cache.read

(* A call of establish() or resolve_refs_in_sot ends, whatever maps the    *)
(* deployment sends, and circles of references and edits made meanwhile    *)
(* notwithstanding.                                                        *)
EstablishEnds == stage # "idle" ~> stage = "idle"
WalkEnds      == walk = "walking" ~> walk # "walking"
=============================================================================
