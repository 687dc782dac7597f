------------------------------ MODULE Routing ------------------------------
(***************************************************************************)
(* Where a command is sent: the establishment document the client caches   *)
(* (establishment.py) and the routing functions that read it (routing.py,  *)
(* Client._rewrite in client.py).  Everything here is a constant-level     *)
(* operator of a document; nothing in this module changes state.           *)
(*                                                                         *)
(* Document ids and search paths are abstracted to the shard slot they     *)
(* hash to; NoSlot stands for an absent id (or absent path segments), for  *)
(* which the code falls back to the establishment server.                  *)
(***************************************************************************)
EXTENDS Naturals

CONSTANTS
  Servers,      (* server names                                            *)
  NoMember,     (* the empty server name                                   *)
  Slots,        (* shard slots                                             *)
  NoSlot,       (* no document id, or a search without path segments       *)
  Urls,         (* base URLs                                               *)
  NoUrl,        (* the empty base URL                                      *)
  Collections,  (* collection names                                        *)
  NoVersion,    (* a collection the catalog does not have                  *)
  RewriteName,  (* Config.base_url_rewrite, entries keyed by server name   *)
  RewriteBase   (* Config.base_url_rewrite, entries keyed by base URL      *)

ASSUME NoMemberAssumption == NoMember \notin Servers
ASSUME NoSlotAssumption   == NoSlot \notin Slots
ASSUME NoUrlAssumption    == NoUrl \notin Urls
ASSUME RewriteAssumption  ==
  /\ RewriteName \in [Servers -> Urls \cup {NoUrl}]
  /\ RewriteBase \in [Urls -> Urls \cup {NoUrl}]

(***************************************************************************)
(* The documents parse_establishment accepts.  validate_full_coverage has  *)
(* given every slot exactly one assignment, so sot and readers are         *)
(* functions of the slot; a document without a shard map has no member for *)
(* any slot.  A member that the document does not list under "servers" has *)
(* no base URL.                                                            *)
(***************************************************************************)
Establishments ==
  [version             : Nat,
   establishmentServer : Servers \cup {NoMember},
   baseURL             : [Servers -> Urls \cup {NoUrl}],
   sot                 : [Slots -> Servers \cup {NoMember}],
   readers             : [Slots -> SUBSET Servers],
   schemas             : [Collections -> Nat \cup {NoVersion}]]

ServerBaseURL(e, s) == IF s \in Servers THEN e.baseURL[s] ELSE NoUrl

(* A candidate is the (server_name, base_url) pair the routing functions   *)
(* return.                                                                 *)
Candidate(e, s) == [name |-> s, base |-> ServerBaseURL(e, s)]

Candidates == [name : Servers \cup {NoMember}, base : Urls \cup {NoUrl}]

NoCandidate == [name |-> NoMember, base |-> NoUrl]

EstablishmentRoute(e) == Candidate(e, e.establishmentServer)

(* The server a write of this slot belongs to, and the servers its reads   *)
(* belong to, according to document e.                                     *)
WriteMember(e, slot) ==
  IF slot \in Slots /\ e.sot[slot] # NoMember
  THEN e.sot[slot] ELSE e.establishmentServer

ReadMembers(e, slot) ==
  IF slot \in Slots /\ e.readers[slot] # {}
  THEN e.readers[slot] ELSE {e.establishmentServer}

RouteDocumentWrite(e, slot) == Candidate(e, WriteMember(e, slot))

(* The list is shuffled on every call: only its set of members is fixed.   *)
RouteDocumentReadCandidates(e, slot) ==
  {Candidate(e, s) : s \in ReadMembers(e, slot)}

(* The candidates among which route_search makes its random choice.        *)
RouteSearchChoices(e, slot) ==
  IF slot \in Slots /\ e.readers[slot] # {}
  THEN {Candidate(e, s) : s \in e.readers[slot]}
  ELSE {RouteDocumentWrite(e, slot)}

(* Config.base_url_rewrite: the entry for the server name wins over the    *)
(* entry for the base URL; an empty entry counts as absent.                *)
Rewrite(c) ==
  LET byName == IF c.name \in Servers THEN RewriteName[c.name] ELSE NoUrl
      byBase == IF c.base \in Urls THEN RewriteBase[c.base] ELSE NoUrl
  IN  IF byName # NoUrl THEN byName
      ELSE IF byBase # NoUrl THEN byBase
      ELSE c.base

(* validate_catalog: every (collection, version) pair is in the document.  *)
CatalogHolds(e, catalog) == \A ref \in catalog : e.schemas[ref[1]] = ref[2]
=============================================================================
