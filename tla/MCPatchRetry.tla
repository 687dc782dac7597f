---------------------------- MODULE MCPatchRetry ----------------------------
(***************************************************************************)
(* A small instance of PatchRetry: one document, a SOT member and a read   *)
(* member that may swap roles.                                             *)
(***************************************************************************)
EXTENDS PatchRetry, TLC

MCServers == {"s1", "s2"}
MCUrls    == {"u1", "u2"}

MCRewriteName == [s \in MCServers |-> NoUrl]
MCRewriteBase == [u \in MCUrls |-> NoUrl]

MCHost == ("u1" :> "s1") @@ ("u2" :> "s2")

Layout(sot, reader) ==
  [version             |-> 0,
   establishmentServer |-> "s1",
   baseURL             |-> ("s1" :> "u1") @@ ("s2" :> "u2"),
   sot                 |-> ("x" :> sot),
   readers             |-> ("x" :> {reader}),
   schemas             |-> [c \in Collections |-> 1]]

Before == Layout("s1", "s2")
After  == Layout("s2", "s1")

StaticTopology   == {Before}
MovingTopologies == {Before, After}

MCJobs == ReadJobs \cup {PatchJob}
=============================================================================
