--------------------------- MODULE MCCreateVerify ---------------------------
(***************************************************************************)
(* Small instances of CreateVerify: one document id, two servers that may  *)
(* swap the SOT member's and the read member's roles.                      *)
(***************************************************************************)
EXTENDS CreateVerify, TLC

MCServers == {"s1", "s2"}
MCUrls    == {"u1", "u2"}

MCRewriteName == [s \in MCServers |-> NoUrl]
MCRewriteBase == [u \in MCUrls |-> NoUrl]

MCHost == ("u1" :> "s1") @@ ("u2" :> "s2")

Layout(sot, reader) ==
  [version             |-> 0,
   establishmentServer |-> "s1",
   baseURL             |-> ("s1" :> "u1") @@ ("s2" :> "u2"),
   sot                 |-> ("x" :> sot),
   readers             |-> ("x" :> {reader}),
   schemas             |-> [c \in Collections |-> 1]]

Before == Layout("s1", "s2")
After  == Layout("s2", "s1")

StaticTopology  == {Before}
MovingTopologies == {Before, After}

MCJobs == ReadJobs \cup {CreateJob}
=============================================================================
