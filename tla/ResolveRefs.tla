---------------------------- MODULE ResolveRefs ----------------------------
(***************************************************************************)
(* resolve_refs_in_sot (resolve.py): a walk, depth first and field by      *)
(* field, from one document to the documents that its direct references    *)
(* name (refs.py).  Every document is a Client.read of its own, so what    *)
(* one read returns may be older or newer than what the others did, and    *)
(* any of them may raise.                                                  *)
(*                                                                         *)
(* The recursion is an explicit stack of frames.  A document is a sequence *)
(* of fields; a field is a string, taken apart at its mark and at the "__" *)
(* between collection and id, or has the mark "" for all that is no        *)
(* reference.                                                              *)
(***************************************************************************)
EXTENDS Integers, Sequences

CONSTANTS
  Collections, (* collection names                                          *)
  DocIds,      (* document ids                                              *)
  NoText,      (* an empty collection name or id                            *)
  Unread,      (* no entry in the result                                    *)
  Missing,     (* a document that does not exist                            *)
  Root,        (* the document that the walk is given                       *)
  Roots,       (* what the caller may give                                  *)
  Versions,    (* what each document may be, one after the other            *)
  Depths,      (* what the caller may give as max_depth                     *)
  MaxEdits     (* bound of the model on the edits made meanwhile            *)

Keys   == Collections \X DocIds
Fields == [mark : {"", "@__", "@@__"}, collection : Collections \cup {NoText},
           id : DocIds \cup {NoText}]

ASSUME DepthsAssumption   == Depths \subseteq Int
ASSUME MaxEditsAssumption == MaxEdits \in Nat
ASSUME NoTextAssumption   == NoText \notin Collections \cup DocIds
ASSUME UnreadAssumption   ==
  Unread \notin Seq(Fields) /\ Missing \notin Seq(Fields)
ASSUME RootAssumption     == Root \notin Keys /\ Roots \subseteq Seq(Fields)
ASSUME VersionsAssumption ==
  Versions \in [Keys -> SUBSET (Seq(Fields) \cup {Missing})]

VARIABLES
  content, (* the documents on the servers                                  *)
  edits,   (* how often they changed                                        *)
  walk,    (* where the call is                                             *)
  given,   (* the document it was given                                     *)
  depth,   (* the max_depth it was given                                    *)
  frames,  (* the documents being looked through, the innermost last        *)
  out,     (* the result                                                    *)
  reads,   (* history: the reads made of each document                      *)
  level    (* history: the depth each document was met at                   *)

callVars    == <<walk, given, depth, frames, out, reads, level>>
resolveVars == <<content, edits, callVars>>
-----------------------------------------------------------------------------
(* parse_ref: a string with the mark of a reference and no collection or   *)
(* no id raises ValueError.                                                *)
IsReference(f)  == f.mark # ""
BadReference(f) ==
  IsReference(f) /\ (f.collection = NoText \/ f.id = NoText)
IsDirect(f)     == f.mark = "@__" /\ ~BadReference(f)
KeyOf(f)        == <<f.collection, f.id>>

Top      == frames[Len(frames)]
Data(d)  == IF d = Root THEN given ELSE out[d]
AtEnd    == Top.next > Len(Data(Top.doc))
Field    == Data(Top.doc)[Top.next]
Advanced == [frames EXCEPT ![Len(frames)].next = @ + 1]

ResolveInit ==
  /\ content \in [Keys -> UNION {Versions[k] : k \in Keys}]
  /\ \A k \in Keys : content[k] \in Versions[k]
  /\ edits = 0
  /\ walk = "idle"
  /\ given = <<>>
  /\ depth = 0
  /\ frames = <<>>
  /\ out = [k \in Keys |-> Unread]
  /\ reads = [k \in Keys |-> 0]
  /\ level = [k \in Keys |-> 0]

(* resolve_refs_in_sot is called; _resolve_level returns at once if the    *)
(* depth is used up already.                                               *)
StartWalk ==
  /\ walk \in {"idle", "resolved", "raised"}
  /\ given' \in Roots
  /\ depth' \in Depths
  /\ out' = [k \in Keys |-> Unread]
  /\ reads' = [k \in Keys |-> 0]
  /\ level' = [k \in Keys |-> 0]
  /\ \/ /\ depth' > 0
        /\ walk' = "walking"
        /\ frames' = <<[doc |-> Root, next |-> 1]>>
     \/ /\ depth' <= 0
        /\ walk' = "resolved"
        /\ frames' = <<>>
  /\ UNCHANGED <<content, edits>>

(* The exception takes all that was read with it.                          *)
RaiseFromWalk ==
  /\ walk' = "raised"
  /\ frames' = <<>>
  /\ out' = [k \in Keys |-> Unread]

RejectField ==
  /\ walk = "walking"
  /\ ~AtEnd /\ BadReference(Field)
  /\ RaiseFromWalk
  /\ UNCHANGED <<content, edits, given, depth, reads, level>>

(* Text, a cached reference, or a document that is in the result already.  *)
SkipField ==
  /\ walk = "walking"
  /\ ~AtEnd /\ ~BadReference(Field)
  /\ IsDirect(Field) => out[KeyOf(Field)] # Unread
  /\ frames' = Advanced
  /\ UNCHANGED <<content, edits, walk, given, depth, out, reads, level>>

(* The document is read and entered in the result before it is looked      *)
(* through, which bounded depth may leave undone.                          *)
Follow(k, deeper) ==
  /\ out' = [out EXCEPT ![k] = content[k]]
  /\ reads' = [reads EXCEPT ![k] = @ + 1]
  /\ level' = [level EXCEPT ![k] = Len(frames)]
  /\ frames' = IF deeper THEN Append(Advanced, [doc |-> k, next |-> 1])
               ELSE Advanced

(* Slips: the result is not asked for the document; a document that does   *)
(* not exist is entered; one level is missing, or too many.                *)
FollowAgain ==
  /\ walk = "walking"
  /\ ~AtEnd /\ IsDirect(Field)
  /\ LET k == KeyOf(Field)
     IN  /\ content[k] # Missing
         /\ Follow(k, Len(frames) < depth)
  /\ UNCHANGED <<content, edits, walk, given, depth>>

FollowMissing ==
  /\ walk = "walking"
  /\ ~AtEnd /\ IsDirect(Field)
  /\ LET k == KeyOf(Field)
     IN  out[k] = Unread /\ Follow(k, Len(frames) < depth)
  /\ UNCHANGED <<content, edits, walk, given, depth>>

FollowShallow ==
  /\ walk = "walking"
  /\ ~AtEnd /\ IsDirect(Field)
  /\ LET k == KeyOf(Field)
     IN  /\ out[k] = Unread
         /\ content[k] # Missing
         /\ Follow(k, Len(frames) + 1 < depth)
  /\ UNCHANGED <<content, edits, walk, given, depth>>

FollowDeep ==
  /\ walk = "walking"
  /\ ~AtEnd /\ IsDirect(Field)
  /\ LET k == KeyOf(Field)
     IN  /\ out[k] = Unread
         /\ content[k] # Missing
         /\ Follow(k, Len(frames) <= depth)
  /\ UNCHANGED <<content, edits, walk, given, depth>>

FollowField ==
  /\ walk = "walking"
  /\ ~AtEnd /\ IsDirect(Field)
  /\ LET k == KeyOf(Field)
     IN  /\ out[k] = Unread
         /\ content[k] # Missing
         /\ Follow(k, Len(frames) < depth)
  /\ UNCHANGED <<content, edits, walk, given, depth>>

(* Slip: a read that fails is made again.                                  *)
FollowRetries ==
  /\ walk = "walking"
  /\ ~AtEnd /\ IsDirect(Field)
  /\ out[KeyOf(Field)] = Unread
  /\ UNCHANGED resolveVars

(* documentNotFound, or any other error of Client.read (see ReadFailover). *)
FollowFails ==
  /\ walk = "walking"
  /\ ~AtEnd /\ IsDirect(Field)
  /\ out[KeyOf(Field)] = Unread
  /\ reads' = [reads EXCEPT ![KeyOf(Field)] = @ + 1]
  /\ RaiseFromWalk
  /\ UNCHANGED <<content, edits, given, depth, level>>

LeaveDocument ==
  /\ walk = "walking"
  /\ AtEnd
  /\ frames' = SubSeq(frames, 1, Len(frames) - 1)
  /\ walk' = IF Len(frames) = 1 THEN "resolved" ELSE "walking"
  /\ UNCHANGED <<content, edits, given, depth, out, reads, level>>

SomebodyEdits ==
  /\ edits < MaxEdits
  /\ \E k \in Keys : \E v \in Versions[k] \ {content[k]} :
       content' = [content EXCEPT ![k] = v]
  /\ edits' = edits + 1
  /\ UNCHANGED callVars

WalkStep == \/ RejectField \/ SkipField \/ FollowField \/ FollowFails
            \/ LeaveDocument

ResolveNext == StartWalk \/ WalkStep \/ SomebodyEdits

ResolveSpec == ResolveInit /\ [][ResolveNext]_resolveVars
-----------------------------------------------------------------------------
(* A document is in the result as some version of it, and while a call is  *)
(* out its frames are the documents of the result that it is inside of.    *)
ResolveTypeOK ==
  /\ \A k \in Keys : content[k] \in Versions[k]
  /\ edits \in 0..MaxEdits
  /\ walk \in {"idle", "walking", "resolved", "raised"}
  /\ given \in Roots \cup {<<>>} /\ depth \in Depths \cup {0}
  /\ \A k \in Keys : out[k] \in (Versions[k] \ {Missing}) \cup {Unread}
  /\ reads \in [Keys -> Nat] /\ level \in [Keys -> Nat]
  /\ frames \in Seq([doc : Keys \cup {Root}, next : Nat \ {0}])
  /\ frames # <<>> <=> walk = "walking"
  /\ \A i \in DOMAIN frames :
       /\ frames[i].doc = Root <=> i = 1
       /\ i > 1 => out[frames[i].doc] # Unread

(* However the references run in circles or meet again, one call reads no  *)
(* document twice: what it returns of each is one version.                 *)
ReadOnce == \A k \in Keys : reads[k] <= 1

Resolved(fields) ==
  \A i \in DOMAIN fields :
    /\ ~BadReference(fields[i])
    /\ IsDirect(fields[i]) => out[KeyOf(fields[i])] # Unread

(* A result is complete: it has every document that the given one refers   *)
(* to and every document that a document met above max_depth refers to.    *)
(* (A document met first at max_depth is not looked through, though it may *)
(* have a place nearer to the root as well.)                               *)
Closed ==
  walk = "resolved" /\ depth > 0 =>
    /\ Resolved(given)
    /\ \A k \in Keys :
         out[k] # Unread /\ level[k] < depth => Resolved(out[k])

Refers(fields, k) ==
  \E i \in DOMAIN fields : IsDirect(fields[i]) /\ KeyOf(fields[i]) = k

(* A result has nothing beside what was asked for: each document is named  *)
(* by the given one or by one of the result met one level before it, and   *)
(* none is further than max_depth away.                                    *)
Grounded ==
  \A k \in Keys :
    out[k] # Unread =>
      /\ level[k] <= depth
      /\ \/ level[k] = 1 /\ Refers(given, k)
         \/ \E j \in Keys : /\ out[j] # Unread
                            /\ level[j] + 1 = level[k]
                            /\ Refers(out[j], k)
=============================================================================
