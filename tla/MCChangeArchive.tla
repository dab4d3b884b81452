-------------------------- MODULE MCChangeArchive --------------------------
(* ChangeArchive with two changes.  One has two components, which add,     *)
(* modify and remove requirements of one another's capability and of one   *)
(* that has no registry file; the other touches the same files.  Two       *)
(* changes of the name of one of them are in the archive of the day.       *)
EXTENDS ChangeArchive

Block(n, t) == [name |-> n, text |-> t]
Delta(c, a, m, r) == [cap |-> c, added |-> a, modified |-> m, removed |-> r]

MCCapabilities == {"auth", "mail"}
MCBlocks == [name : {"login", "logout", "audit", "reset", "token", "send", "queue"},
             text : 0..2]
MCFirstFiles == [auth |-> <<Block("login", 1), Block("logout", 1),
                            Block("audit", 1)>>, mail |-> NoFile]

First == (0 :> <<>>)
      @@ (1 :> <<Delta("auth", <<>>, <<Block("reset", 2)>>,
                       <<Block("logout", 0)>>),
                 Delta("mail", <<Block("send", 1)>>, <<>>, <<>>)>>)
      @@ (2 :> <<Delta("auth", <<Block("reset", 1), Block("logout", 2), Block("token", 1)>>,
                       <<Block("login", 2)>>, <<>>)>>)
Second == (0 :> <<Delta("mail", <<Block("queue", 1)>>, <<Block("send", 2)>>,
                        <<>>),
                  Delta("auth", <<>>, <<>>, <<Block("token", 0)>>)>>)
MCDeltasOf == <<First, Second>>
\* Of a spoilt file nothing is said again: it is enough to go on while there
\* is another.
OneIsSound == spoilt # Capabilities
MCNameOf == <<"a", "b">>
MCTableOf == <<<<2, 3, 2>>, <<>>>>
MCFirstArchive == [a |-> <<>>, b |-> <<0, 0>>]
=============================================================================
