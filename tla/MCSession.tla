----------------------------- MODULE MCSession -----------------------------
(***************************************************************************)
(* Four slots, and maps of up to three ranges, good and bad ones;          *)
(* three documents that refer to each other and to themselves, in several  *)
(* versions each.                                                          *)
(***************************************************************************)
EXTENDS Session, TLC
LOCAL INSTANCE SequencesExt

Entry(raw, members) == [raw |-> raw, members |-> members]

MCRanges == {<<0, 1>>, <<2, 3>>, <<0, 3>>}
MCBad    == {<<3, 1>>, <<Malformed>>}
MCShardMaps ==
  {NoMap} \cup BoundedSeq({Entry(r, "g1") : r \in MCRanges}, 2)
    \cup {<<Entry(r, "g1")>> : r \in MCBad}
    \cup {<<Entry(<<0, 1>>, "g1"), Entry(r, "g1")>> : r \in MCBad}
    \cup {<<Entry(<<0>>, "g1"), Entry(r, "g2"), Entry(s, Malformed)>> :
            r \in {<<1, 2>>, <<0, 1, 2>>}, s \in {<<2, 3>>, <<3>>}}

MCIds  == {<<"a", "b">>, <<"a", "b", "c">>, <<"a", ".", "b">>,
           <<"a", "b", ".", "c">>, <<"a", "b", ".", "c", ".", "a">>,
           <<"a", ".", "b", ".", "c">>, <<"a", "b", "c", ".">>}
MCHash == [s \in UNION {Prefixes(id) : id \in MCIds} |->
             IF s = <<"a", "b">> THEN 0 ELSE 3 - (Len(s) % 2)]

Ref(mark, id) == [mark |-> mark, collection |-> "Todos", id |-> id]
Direct(id)    == Ref("@__", id)
Text          == [mark |-> "", collection |-> NoText, id |-> NoText]
Todo(id)      == <<"Todos", id>>

MCVersions ==
  (Todo("a") :> {<<Direct("b"), Direct("c")>>, <<Direct("a")>>})
    @@ (Todo("b") :> {<<Ref("@@__", "c"), Direct("c"), Direct("a")>>})
    @@ (Todo("c") :> {<<Direct("a"), Direct("b")>>, Missing,
                      <<Ref("@__", NoText)>>})
MCRoots == {<<Direct("a"), Direct("b")>>, <<Ref("@@__", "a"), Direct("c")>>}
=============================================================================
