--------------------------- MODULE MCReadFailover ---------------------------
(***************************************************************************)
(* Small instances of ReadFailover: one document, three servers, layouts   *)
(* that move its read members.                                             *)
(***************************************************************************)
EXTENDS ReadFailover, TLC

MCServers == {"s1", "s2", "s3"}
MCUrls    == {"u1", "u2", "u3"}

NoRewrite(d) == [k \in d |-> NoUrl]
MCRewriteName == NoRewrite(MCServers)
MCRewriteBase == NoRewrite(MCUrls)

UrlOf == ("s1" :> "u1") @@ ("s2" :> "u2") @@ ("s3" :> "u3")
MCHost == ("u1" :> "s1") @@ ("u2" :> "s2") @@ ("u3" :> "s3")

Layout(sot, readers) ==
  [version             |-> 0,
   establishmentServer |-> "s1",
   baseURL             |-> UrlOf,
   sot                 |-> ("x" :> sot),
   readers             |-> ("x" :> readers),
   schemas             |-> [c \in Collections |-> 1]]

(* The SOT member moves, and the readers shift by one or stay, so that the *)
(* former SOT member is no member at all or a mere read member.            *)
Before  == Layout("s1", {"s1", "s2"})
After   == Layout("s3", {"s2", "s3"})
Demoted == Layout("s3", {"s1", "s2"})

MCTopologies == {Before, After, Demoted}

MCJobs == ReadJobs

(* The hypothesis of the theorems about a deployment that stands still.    *)
ASSUME MCRoutes == EveryDocumentRoutes
=============================================================================
