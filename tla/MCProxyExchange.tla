--------------------------- MODULE MCProxyExchange ---------------------------
(* Small instances of ProxyExchange for TLC: a host that may be read, with *)
(* one path where everything is allowed, a host the harness redirects, and *)
(* one no policy names.                                                    *)
EXTENDS ProxyExchange

Api == <<"api">>
Local == <<"local">>
Other == <<"other">>
ThreeHosts == {Api, Local, Other}

All == [allowAll |-> TRUE, methods |-> {}]
Read == [allowAll |-> FALSE, methods |-> {"GET"}]

ReadMostly ==
  [d \in {Api, Local} |->
     IF d = Api THEN [base |-> Read, paths |-> [r \in {<<"w">>} |-> All]]
                ELSE [base |-> All, paths |-> << >>]]

LocalRedirect == [d \in {Local} |-> "loopback"]

Get == [host |-> Api, path |-> <<"a">>, method |-> "GET", long |-> FALSE,
        body |-> FALSE, key |-> FALSE, websocket |-> FALSE, close |-> FALSE]
Post == [Get EXCEPT !.method = "POST", !.body = TRUE]

(* Allowed: a read, a write and an upgrade where all is allowed, a read    *)
(* that asks for a close.  Refused: a write and an upgrade where only      *)
(* reading is, a body on a GET, another host.                              *)
Allowed ==
  {Get, [Post EXCEPT !.path = <<"w">>],
   [Get EXCEPT !.path = <<"w">>, !.websocket = TRUE],
   [Get EXCEPT !.close = TRUE]}
Mixed ==
  Allowed \cup
  {Post, [Get EXCEPT !.websocket = TRUE], [Get EXCEPT !.body = TRUE],
   [Get EXCEPT !.host = Local], [Get EXCEPT !.host = <<>>]}

=============================================================================
