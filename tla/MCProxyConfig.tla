---------------------------- MODULE MCProxyConfig ----------------------------
(* Small instances of ProxyConfig for TLC: a domain and a subdomain of it, *)
(* a path below another, and keys written in two ways.                     *)
EXTENDS ProxyConfig

TwoDomains == {<<"github">>, <<"api", "github">>}
ThreePaths == {<<>>, <<"a">>, <<"a", "b">>}

=============================================================================
