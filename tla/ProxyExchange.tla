---------------------------- MODULE ProxyExchange ----------------------------
(***************************************************************************)
(* One client connection of the proxy from its first request to its end    *)
(* (handle and handleMITM, proxy/main.go): the gates, the filters each     *)
(* request passes, the upstream connection and how it is chosen, and the   *)
(* responses that come back over it.  handleMITM writes to a connection of *)
(* its own; the one plaintext request goes through directTransport, which  *)
(* may have a connection from an earlier request, and another try.         *)
(*                                                                         *)
(* The client may write ahead of the responses, so what it has written is  *)
(* a stream of request heads and bodies.  Each lookup of a name has an     *)
(* answer of its own.  The origin answers in order, with an interim        *)
(* response first if it likes, and may go away.                            *)
(***************************************************************************)
EXTENDS PolicyTable

CONSTANTS
  Cfg,          \* the table of policies
  Redirects,    \* SANDBOX_PROXY_REDIRECT
  Hosts,        \* the hosts a client may name
  Requests,     \* the requests it may send
  MaxRequests,  \* bounds how many it sends
  Addresses,    \* the addresses a resolver may answer with
  Blocked,      \* those isBlockedAddr refuses
  Interim,      \* the modes in which origins may send 100 Continue first
  MaxReused,    \* bounds the idle connections there are to use
  None

ASSUME MaxReusedAssumption == MaxReused \in Nat
ASSUME BlockedAssumption == Blocked \subseteq Addresses

VARIABLES
  pc,        \* where the handler is
  mode,      \* "mitm" after a CONNECT, "plain" otherwise
  host,      \* the host the connection was gated for
  sent,      \* the requests the client has sent
  stream,    \* what it has written and the proxy has not read
  current,   \* the request being served
  vetted,    \* the literal resolveVetted returned
  upstream,  \* the address of the upstream connection
  idle,      \* was it the transport's, idle since an earlier request?
  reused,    \* how many of these the request has used
  asked,     \* the requests forwarded, in order
  owed,      \* those the origin has not answered
  answers,   \* the responses on their way back
  delivered, \* the responses the client has been written
  gone       \* the peers that have gone away

pool == <<idle, reused>>
vars == <<pc, mode, host, sent, stream, current, vetted, upstream, pool,
          asked, owed, answers, delivered, gone>>
client == <<sent, stream>>
choice == <<vetted, upstream, pool>>
origin == <<asked, owed, answers>>

HeadOf(i) == [part |-> "head", of |-> i]
BodyOf(i) == [part |-> "body", of |-> i]
Response(i, kind, close) == [to |-> i, kind |-> kind, close |-> close]

Init ==
  /\ pc = "accepted"
  /\ mode = "none"
  /\ host = None
  /\ sent = <<>>
  /\ stream = <<>>
  /\ current = 0
  /\ vetted = None
  /\ upstream = None
  /\ idle = FALSE
  /\ reused = 0
  /\ asked = <<>>
  /\ owed = <<>>
  /\ answers = <<>>
  /\ delivered = <<>>
  /\ gone = {}

Goto(from, to) == pc = from /\ pc' = to
Deliver(response) == delivered' = Append(delivered, response)
Request == sent[current]

-----------------------------------------------------------------------------
(* The peers.                                                              *)

(* Nothing is written behind a CONNECT before its handshake is over.       *)
Send ==
  /\ pc \notin {"handshake", "tunnel", "closed"}
  /\ "client" \notin gone
  /\ Len(sent) < MaxRequests
  /\ \E r \in Requests :
       LET i == Len(sent) + 1
       IN  /\ sent' = Append(sent, r)
           /\ stream' = stream \o (IF r.body THEN <<HeadOf(i), BodyOf(i)>>
                                             ELSE <<HeadOf(i)>>)
  /\ UNCHANGED <<pc, mode, host, current, choice, origin, delivered, gone>>

Leave(peer) ==
  /\ pc # "closed"
  /\ peer \notin gone
  /\ peer = "origin" => upstream # None
  /\ gone' = gone \cup {peer}
  /\ UNCHANGED <<pc, mode, host, client, current, choice, origin, delivered>>

(* A final response may be 101 and may announce that the origin closes.    *)
Answer ==
  /\ owed # <<>>
  /\ "origin" \notin gone
  /\ \E kind \in {"final", "switch"}, close \in BOOLEAN :
       LET reply == Response(Head(owed), kind, close)
       IN  \/ answers' = answers \o <<reply>>
           \/ /\ mode \in Interim
              /\ answers' = answers \o <<Response(Head(owed), "interim", FALSE), reply>>
  /\ owed' = Tail(owed)
  /\ UNCHANGED <<pc, mode, host, client, current, choice, asked, delivered,
                 gone>>

-----------------------------------------------------------------------------
(* handle: the CONNECT, or the one plaintext request.                      *)

(* How a request's authority ends; it may also be none that can be read,   *)
(* with a character that is not ASCII or without a host.                   *)
Authorities == {"443", "80", "none", "unreadable"}

(* The port and the host gate come before the 200.                         *)
Connect ==
  /\ sent = <<>>
  /\ \E h \in Hosts, port \in Authorities :
       IF port = "443" /\ isDomainAllowed(h, Cfg)
         THEN /\ Goto("accepted", "handshake")
              /\ host' = h
         ELSE /\ Goto("accepted", "closed")
              /\ host' = host
  /\ mode' = "mitm"
  /\ UNCHANGED <<client, current, choice, origin, delivered, gone>>

(* Slip: the upstream dialled before any request is read.                  *)
HandshakeAndDial ==
  /\ \/ Goto("handshake", "resolving")
     \/ Goto("handshake", "closed")
  /\ UNCHANGED <<mode, host, client, current, choice, origin, delivered, gone>>

Handshake ==
  /\ \/ Goto("handshake", "waiting")
     \/ Goto("handshake", "closed")
  /\ UNCHANGED <<mode, host, client, current, choice, origin, delivered, gone>>

(* The head at the front of the stream is the next request.  What is there *)
(* instead of a head is read as one, and is none.                          *)
ReadHead == current' = Head(stream).of /\ stream' = Tail(stream)

(* Refused with a status, and the connection closed: whatever is left of   *)
(* the request is not read.                                                *)
Refuse(from, i) ==
  /\ Goto(from, "closed")
  /\ Deliver(Response(i, "refusal", TRUE))

(* The filters passed, the upstream is dialled unless it is there already. *)
Proceed(from, h) ==
  /\ pc = from
  /\ pc' = IF upstream # None THEN "forwarding"
           ELSE IF lookupRedirect(h, Redirects) # NoPolicy THEN "dialing"
           ELSE "resolving"
  /\ UNCHANGED delivered

ReadPlain ==
  /\ pc = "accepted"
  /\ stream # <<>>
  /\ ReadHead
  /\ mode' = "plain"
  /\ \E port \in Authorities :
       LET r == sent[current']
       IN  /\ host' = r.host
           /\ IF /\ port \notin {"443", "unreadable"}
                 /\ isDomainAllowed(r.host, Cfg)
                 /\ applyFilters(r, r.host, Cfg) = 0
                THEN Proceed("accepted", r.host)
                ELSE Refuse("accepted", current')
  /\ UNCHANGED <<sent, choice, origin, gone>>

-----------------------------------------------------------------------------
(* Slip: only the request that opens the upstream connection judged.       *)
ReadRequestOnce ==
  /\ pc = "waiting"
  /\ stream # <<>>
  /\ ReadHead
  /\ IF upstream # None \/ applyFilters(sent[current'], host, Cfg) = 0
       THEN Proceed("waiting", host)
       ELSE Refuse("waiting", current')
  /\ UNCHANGED <<mode, host, sent, choice, origin, gone>>

(* Slip: the connection kept open after a refusal.                         *)
ReadRequestRefusingOn ==
  /\ pc = "waiting"
  /\ stream # <<>>
  /\ ReadHead
  /\ IF applyFilters(sent[current'], host, Cfg) = 0
       THEN Proceed("waiting", host)
       ELSE /\ Deliver(Response(current', "refusal", FALSE))
            /\ UNCHANGED pc
  /\ UNCHANGED <<mode, host, sent, choice, origin, gone>>

(* handleMITM's loop: each request of the connection is judged by itself.  *)
ReadRequest ==
  /\ pc = "waiting"
  /\ stream # <<>>
  /\ ReadHead
  /\ IF applyFilters(sent[current'], host, Cfg) = 0
       THEN Proceed("waiting", host)
       ELSE Refuse("waiting", current')
  /\ UNCHANGED <<mode, host, sent, choice, origin, gone>>

(* The client has gone, or what it writes cannot be read.                  *)
EndOfRequests ==
  /\ "client" \in gone
  /\ Goto("waiting", "closed") \/ Goto("accepted", "closed")
  /\ UNCHANGED <<mode, host, client, current, choice, origin, delivered, gone>>

-----------------------------------------------------------------------------
(* Both halves: the address, the connection, the request, the response.    *)

(* One lookup, every address of which is judged; the first is the literal. *)
(* Another lookup of the name may have another answer.                     *)
Resolve ==
  /\ \E found \in SUBSET Addresses :
       IF found # {} /\ found \cap Blocked = {}
         THEN /\ Goto("resolving", "dialing")
              /\ vetted' \in found
              /\ UNCHANGED delivered
         ELSE /\ Refuse("resolving", current)
              /\ UNCHANGED vetted
  /\ UNCHANGED <<mode, host, client, current, upstream, pool, origin, gone>>

(* The transport takes an idle connection to the address where it has one, *)
(* or one that another request has given up meanwhile.                     *)
Connected ==
  /\ pc' = "forwarding"
  /\ \/ idle' = FALSE /\ UNCHANGED reused
     \/ /\ mode = "plain" /\ reused < MaxReused
        /\ idle' = TRUE
        /\ reused' = reused + 1
  /\ UNCHANGED delivered

(* Slip: the name dialled, and so looked up again.                         *)
DialByName ==
  /\ pc = "dialing"
  /\ \/ Connected /\ upstream' \in Addresses
     \/ Refuse("dialing", current) /\ UNCHANGED <<upstream, pool>>
  /\ UNCHANGED <<mode, host, client, current, vetted, origin, gone>>

(* The redirect of the harness where the host has one, else the literal.   *)
Dial ==
  LET redirect == lookupRedirect(host, Redirects)
  IN  /\ pc = "dialing"
      /\ \/ /\ Connected
            /\ upstream' = IF redirect # NoPolicy THEN redirect ELSE vetted
         \/ Refuse("dialing", current) /\ UNCHANGED <<upstream, pool>>
      /\ UNCHANGED <<mode, host, client, current, vetted, origin, gone>>

(* The body is at the front of the stream, and is read to its end.         *)
Write(copies) ==
  /\ Goto("forwarding", "answering")
  /\ IF Request.body THEN stream # <<>> /\ stream' = Tail(stream)
                     ELSE UNCHANGED stream
  /\ asked' = asked \o copies
  /\ owed' = owed \o copies
  /\ UNCHANGED delivered

(* Slip: the request written again after a write that failed half way.     *)
ForwardTwice ==
  /\ mode = "mitm"
  /\ Write(<<current, current>>)
  /\ UNCHANGED <<mode, host, sent, current, choice, answers, gone>>

(* handleMITM writes the request itself, once.                             *)
Forward ==
  /\ mode = "mitm"
  /\ \/ Write(<<current>>)
     \/ /\ gone # {} /\ Goto("forwarding", "closed")
        /\ UNCHANGED <<stream, asked, owed, delivered>>
  /\ UNCHANGED <<mode, host, sent, current, choice, answers, gone>>

(* directTransport.RoundTrip as far as the response: 502 if it fails.      *)
RoundTrip ==
  /\ mode = "plain"
  /\ \/ Write(<<current>>)
     \/ /\ gone # {} /\ Refuse("forwarding", current)
        /\ UNCHANGED <<stream, asked, owed>>
  /\ UNCHANGED <<mode, host, sent, current, choice, answers, gone>>

(* Requests that the transport may send twice: without a body, and of a    *)
(* method that changes nothing or with a key that tells copies apart.      *)
Replayable(r) ==
  /\ ~r.body
  /\ r.method \in {"GET", "HEAD", "OPTIONS", "TRACE"} \/ r.key

(* A connection from an earlier request that the origin has closed: the    *)
(* transport goes for another, to the same literal, when nothing was       *)
(* written yet or the request may be sent twice.                           *)
Retry ==
  /\ mode = "plain" /\ idle /\ "origin" \in gone
  /\ \/ Goto("forwarding", "dialing") /\ ~Request.body
     \/ Goto("answering", "dialing") /\ answers = <<>> /\ Replayable(Request)
  /\ gone' = gone \ {"origin"}
  /\ upstream' = None
  /\ owed' = <<>>
  /\ UNCHANGED <<mode, host, client, current, vetted, pool, asked, answers,
                 delivered>>

(* The transport of the plaintext half reads past interim responses;       *)
(* http.ReadResponse does not.  A response is read to its own end.         *)
Readable == {n \in 1..Len(answers) : mode # "plain" \/ answers[n].kind # "interim"}

ReadResponse ==
  /\ pc = "answering"
  /\ \E n \in Readable :
       LET response == answers[n]
       IN  /\ \A k \in Readable : n <= k
           /\ Deliver(response)
           /\ pc' = IF response.kind = "switch" /\ Request.websocket THEN "tunnel"
                    ELSE IF mode = "plain" \/ Request.close \/ response.close
                      THEN "closed" ELSE "waiting"
           /\ answers' = SubSeq(answers, n + 1, Len(answers))
  /\ UNCHANGED <<mode, host, client, current, choice, asked, owed, gone>>

(* Slip: the origin's end taken for a response still to come.              *)
EndOfResponsesForClient ==
  /\ pc = "answering"
  /\ "client" \in gone /\ Readable # {}
  /\ pc' = "closed"
  /\ UNCHANGED <<mode, host, client, current, choice, origin, delivered, gone>>

(* The origin has gone, or the client cannot be written to, or, on the     *)
(* plaintext half only, the wait for the response has timed out.           *)
EndOfResponses ==
  /\ pc = "answering"
  /\ \/ "origin" \in gone /\ Readable = {}
     \/ "client" \in gone /\ Readable # {}
     \/ mode = "plain" /\ Readable = {}
  /\ pc' = "closed"
  /\ IF mode = "plain" /\ Readable = {}
       THEN Deliver(Response(current, "refusal", TRUE))
       ELSE UNCHANGED delivered
  /\ UNCHANGED <<mode, host, client, current, choice, origin, gone>>

EndTunnel ==
  /\ gone # {}
  /\ Goto("tunnel", "closed")
  /\ UNCHANGED <<mode, host, client, current, choice, origin, delivered, gone>>

-----------------------------------------------------------------------------
PeerNext ==
  \/ Send \/ Answer
  \/ \E p \in {"client", "origin"} : Leave(p)

HandlerNext ==
  \/ Connect \/ Handshake \/ ReadPlain \/ ReadRequest \/ EndOfRequests
  \/ Resolve \/ Dial \/ Forward \/ RoundTrip \/ Retry
  \/ ReadResponse \/ EndOfResponses \/ EndTunnel

Next == PeerNext \/ HandlerNext

Spec == Init /\ [][Next]_vars

(* The handler runs whenever it is not waiting for a peer, and an origin   *)
(* that has not gone answers what it is asked.  The client owes nothing.   *)
FairSpec ==
  /\ Spec
  /\ WF_vars(Handshake) /\ WF_vars(ReadPlain) /\ WF_vars(ReadRequest)
  /\ WF_vars(EndOfRequests) /\ WF_vars(Resolve) /\ WF_vars(Dial)
  /\ WF_vars(Forward) /\ WF_vars(RoundTrip)
  /\ WF_vars(ReadResponse) /\ WF_vars(EndOfResponses)
  /\ WF_vars(EndTunnel) /\ WF_vars(Answer)

-----------------------------------------------------------------------------
(* The latest request that was written, whether the transport may write    *)
(* the one in hand again, and the interim responses that the client was    *)
(* given as answers.                                                       *)
Written == IF asked = <<>> THEN 0 ELSE Last(asked)
Repeatable == mode = "plain" /\ current # 0 /\ Replayable(Request)
Early == {n \in 1..Len(delivered) : delivered[n].kind = "interim"}

PolicyOf(i) == lookupPolicy(host, sent[i].path, Cfg)

(* However many requests a connection carries and whatever came before     *)
(* them, each that reaches the origin names the host that was gated, and   *)
(* keeps within the policy of its own path: a listed method, no upgrade    *)
(* unless the policy is "*", and no body where only reading is allowed     *)
(* (main.go:540-577, 972-985).                                             *)
ForwardedWithinPolicy ==
  \A i \in ToSet(asked) :
    /\ sent[i].host = host
    /\ PolicyOf(i) # NoPolicy
    /\ \/ PolicyOf(i).allowAll
       \/ /\ sent[i].method \in PolicyOf(i).methods
          /\ ~sent[i].websocket
          /\ sent[i].body => ~(PolicyOf(i).methods \subseteq {"GET", "HEAD"})

(* The address of the upstream connection is one that was judged, whatever *)
(* the resolver answers between the judgement and the dial, unless the     *)
(* harness redirected the host (main.go:672-689, 864-877, 946-954).        *)
DialledVetted ==
  upstream # None =>
    \/ upstream \in Addresses \ Blocked
    \/ upstream = lookupRedirect(host, Redirects)

(* No name is looked up and no connection made for a client all of whose   *)
(* requests so far were refused (main.go:927-928).                         *)
RefusedTouchNothing ==
  vetted # None \/ upstream # None =>
    \E i \in 1..current : applyFilters(sent[i], host, Cfg) = 0

(* A body is never read as the next request: one that was not forwarded is *)
(* left behind with the connection (main.go:980-984).                      *)
BodyNeverARequest ==
  pc \in {"accepted", "waiting"} /\ stream # <<>> => Head(stream).part = "head"

(* Requests are taken up, passed on and answered in turn, one at a time    *)
(* (TakeTurns; the loop main.go:972-1024): each is written once, but for   *)
(* the copies that the transport of the plaintext half makes of a request  *)
(* that bears them (main.go:880); the n-th answer is to the n-th request,  *)
(* or as many before it as interim responses were taken for answers        *)
(* (main.go:1002); and nothing follows a refusal.                          *)
Turns == INSTANCE TakeTurns WITH
  taken <- current,
  repeatable <- Repeatable,
  passed <- Written,
  again <- Len(asked) - Written,
  answered <- Len(delivered),
  early <- Cardinality(Early),
  latest <- IF delivered = <<>> THEN 0 ELSE Last(delivered).to,
  open <- pc # "closed"
KeepsTurns == Turns!Spec

Answered(i) ==
  \E n \in 1..Len(delivered) :
    delivered[n].to = i /\ delivered[n].kind # "interim"

(* A request that was forwarded is answered, or the connection ends and    *)
(* the client knows that it was not: the two never wait for one another    *)
(* (the loop main.go:972-1024, kept "to support keep-alive").              *)
RequestAnswered ==
  \A i \in 1..MaxRequests : i \in ToSet(asked) ~> pc = "closed" \/ Answered(i)

(* So it is for as long as no interim response has been taken for an       *)
(* answer, whoever goes away, however the resolver answers and however     *)
(* often the transport has to try (main.go:972-1024, 880).                 *)
RequestAnsweredUnlessInterim ==
  \A i \in 1..MaxRequests :
    i \in ToSet(asked) ~> pc = "closed" \/ Answered(i) \/ Early # {}

=============================================================================
