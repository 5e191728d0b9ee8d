----------------------------- MODULE MCCommands -----------------------------
(***************************************************************************)
(* Instance of Commands: two categories with one command each, an alias    *)
(* that would mask one of them, a name that is too long, a client with the *)
(* key of a service node to which we also connect, and a remote.           *)
(***************************************************************************)
EXTENDS Commands, TLC

CONSTANTS k1, c1, a, b, x, huge

MCKeyOf == c1 :> k1
MCMaxQueue == (a :> 0) @@ (b :> 1)
MCCategories == {<<a, [auth |-> basic, remote_sn |-> FALSE, local_sn |-> FALSE]>>,
                 <<b, [auth |-> none, remote_sn |-> TRUE, local_sn |-> FALSE]>>,
                 <<b, [auth |-> none, remote_sn |-> FALSE, local_sn |-> TRUE]>>}
MCCommandSet == {<< <<a, x>>, TRUE>>, << <<b, x>>, FALSE>>}
MCAliases == {<< <<a, x>>, <<b, x>> >>}
MCMessages == {<< <<a, x>>, TRUE>>, << <<a, x>>, FALSE>>, << <<b, x>>, FALSE>>, <<huge, TRUE>>}
=============================================================================
