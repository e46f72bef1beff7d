--------------------------- MODULE MCConfigServer ---------------------------
(***************************************************************************)
(* Instances of ConfigServer for TLC.                                      *)
(***************************************************************************)
EXTENDS ConfigServer

CONSTANTS t, u

MCTagLists == {<<>>, <<t>>, <<u>>, <<t, u>>}

\* With a list that repeats a tag.
MCTagListsRepeated == MCTagLists \cup {<<t, t>>}

Rec(tags, conn) == [tags |-> tags, conn |-> conn]

\* A record with a listener, one whose connection is inherited, an untagged one.
MCInputs == {Rec(<<t, u>>, "tcp"), Rec(<<u>>, "none")}

MCInputsRepeated == {Rec(<<t, t>>, "tcp"), Rec(<<u>>, "tcp")}

All == [all |-> TRUE, ids |-> <<>>, tags |-> <<>>]
ByIds(s) == [all |-> FALSE, ids |-> s, tags |-> <<>>]
ByTags(s) == [all |-> FALSE, ids |-> <<>>, tags |-> s]

\* One selector of each kind, the empty one, and one that may list a record twice.
MCSelectors == {All, ByIds(<<>>), ByTags(<<t>>), ByTags(<<t, u>>)}
               \cup {ByIds(<<id>>) : id \in Ids}

\* A payload that updates a record and adds one after it, and a payload that has
\* a record twice, without its connection the second time.
MCPayloads == {<<[id |-> id, rec |-> Rec(<<t>>, "none")],
                 [id |-> NoId, rec |-> Rec(<<>>, "udp")]>> : id \in Ids}
              \cup {<<[id |-> id, rec |-> Rec(<<t, u>>, "tcp")],
                      [id |-> id, rec |-> Rec(<<u>>, "none")]>> : id \in Ids}
=============================================================================
