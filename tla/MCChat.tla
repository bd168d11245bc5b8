-------------------------------- MODULE MCChat --------------------------------
(***************************************************************************)
(* An instance of Chat for TLC: a writes to b, then b to a, or a to        *)
(* himself, or a to c who has no chat document; b comes and goes; a        *)
(* archives the first room and takes it back, b takes it back.             *)
(***************************************************************************)
EXTENDS Chat, TLC

CONSTANTS a, b, c, m1, m2, s1

Talking == m1 :> {<<a, b>>} @@ m2 :> {<<b, a>>, <<a, a>>, <<a, c>>}
Owners == s1 :> b
Asks(kinds) == [kind: kinds, room: {m1}]
Tidying == a :> Asks({"archive", "unarchive"}) @@ b :> Asks({"unarchive"}) @@ c :> {}
===============================================================================
