-------------------------- MODULE MCRoutedCommand --------------------------
(***************************************************************************)
(* Small instances of RoutedCommand.  One shard slot, three servers, four  *)
(* layouts: the SOT member moves between s1 and s2, the readers change, a  *)
(* layout without members falls back to the establishment server, and one  *)
(* upgrades the schema of one of the two collections.  s3 is behind a      *)
(* Docker-internal URL that base_url_rewrite replaces.                     *)
(***************************************************************************)
EXTENDS RoutedCommand, TLC

MCServers == {"s1", "s2", "s3"}
MCUrls    == {"u1", "u2", "u3", "internal3"}

MCRewriteName == [s \in MCServers |-> IF s = "s3" THEN "u3" ELSE NoUrl]
MCRewriteBase == [u \in MCUrls |-> NoUrl]

MCHost == [u \in MCUrls |-> CASE u = "u1" -> "s1" [] u = "u2" -> "s2"
                              [] u = "u3" -> "s3" [] OTHER -> NoMember]

Layout(sot, readers, users) ==
  [version             |-> 0,
   establishmentServer |-> "s3",
   baseURL |-> [s \in MCServers |-> CASE s = "s1" -> "u1" [] s = "s2" -> "u2"
                                      [] OTHER -> "internal3"],
   sot     |-> ("x" :> sot),
   readers |-> ("x" :> readers),
   schemas |-> ("Todos" :> 1) @@ ("Users" :> users)]

OnS1     == Layout("s1", {"s2", "s3"}, 1)
OnS2     == Layout("s2", {"s1"}, 1)
Unowned  == Layout(NoMember, {}, 1)
Upgraded == Layout("s2", {"s1"}, 2)

MCTopologies    == {OnS1, OnS2, Unowned, Upgraded}
MovingTopologies == {OnS1, OnS2}

MCCatalog == {<<"Todos", 1>>, <<"Users", 1>>}

Routed(kind, slot, catalog) ==
  [kind |-> kind, slot |-> slot, home |-> "x", primary |-> NoCandidate,
   catalog |-> catalog]

Write      == Routed("write", "x", {})
Search     == Routed("search", "x", {})
Read       == Routed("read", "x", {})
FromReader == [Read EXCEPT !.primary = Candidate(OnS1, "s2")]
FromSot    == Routed("readSot", "x", {})
OpenSearch == Routed("search", NoSlot, {})
Refresh    == Routed("establish", NoSlot, {})
Bind       == Routed("bind", NoSlot, {<<"Todos", 1>>})

WriteJobs  == {Write, Refresh}
ReadJobs   == {Search, FromReader, FromSot}
SearchJobs == {OpenSearch, Write}
BindJobs   == {Write, Bind}
AllJobs    == {Write, Search, Read, FromReader, FromSot, Refresh}

(* The hypothesis of the theorems about a deployment that stands still.    *)
ASSUME MCRoutes == EveryDocumentRoutes
=============================================================================
