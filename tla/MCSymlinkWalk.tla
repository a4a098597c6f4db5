---------------------------- MODULE MCSymlinkWalk ----------------------------
(* Two names; a host may have a link at each of four places, two of them   *)
(* inside a directory, to any path of up to two names.                     *)
EXTENDS SymlinkWalk

MCFileNames == STRING \ {""}
Names == {"a", "b"}
PathsUpTo(n) == UNION {[1..k -> Names] : k \in 0..n}

MCDeclaredPaths == {<<"a">>, <<"a", "b">>, <<"b", "a">>, <<"a", "b", "a">>, <<"b", "b", "b">>}
Places == {<<"a">>, <<"b">>, <<"a", "b">>, <<"b", "a">>}
MCLinkMaps == UNION {[S -> PathsUpTo(2)] : S \in SUBSET Places}
=============================================================================
