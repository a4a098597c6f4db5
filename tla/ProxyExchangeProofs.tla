------------------------- MODULE ProxyExchangeProofs -------------------------
(***************************************************************************)
(* What leaves the proxy and where it goes to, proved for every table,     *)
(* every set of hosts and requests, any number of requests on a            *)
(* connection, any answers of the resolver, and whichever origins send     *)
(* interim responses; and that the proxy and its peers take turns.         *)
(***************************************************************************)
EXTENDS ProxyExchange, FiniteSetTheorems, SequenceTheorems, TLAPS

Passed(i) == applyFilters(sent[i], host, Cfg) = 0

Serving == {"resolving", "dialing", "forwarding", "answering"}
Parts == [part : {"head", "body"}, of : Nat]

(* The parts of the stream are of requests sent, in order, none of one     *)
(* before the one being served.                                            *)
Ordered ==
  /\ sent \in Seq(Requests) /\ current \in 0..Len(sent)
  /\ stream \in Seq(Parts)
  /\ \A k \in 1..Len(stream) : stream[k].of \in current..Len(sent)
  /\ \A k \in 1..Len(stream) : stream[k].of # 0
  /\ \A j, k \in 1..Len(stream) : j <= k => stream[j].of <= stream[k].of

(* What was forwarded has passed the filters under the host that is        *)
(* gated, and so has the request being served.                             *)
Judged ==
  /\ asked \in Seq(Nat)
  /\ \A n \in 1..Len(asked) : asked[n] \in 1..current /\ Passed(asked[n])
  /\ pc \in Serving => current # 0 /\ Passed(current)

(* The host is chosen before anything else is.                             *)
Fresh == pc = "accepted" => asked = <<>> /\ vetted = None /\ upstream = None

(* The literal is judged when it is taken, and from then on it is there to *)
(* be dialled, again if need be, whenever the harness has no redirect.     *)
Vetting ==
  /\ vetted # None => vetted \in Addresses \ Blocked
  /\ pc \in {"dialing", "forwarding", "answering"} \/ upstream # None =>
       \/ vetted \in Addresses \ Blocked
       \/ lookupRedirect(host, Redirects) # NoPolicy

ExchangeInv ==
  /\ Ordered /\ Judged /\ Fresh /\ Vetting
  /\ DialledVetted /\ RefusedTouchNothing

-----------------------------------------------------------------------------
(* Taking the head off the stream serves a later request of those sent.    *)
LEMMA HeadTaken ==
  ASSUME Ordered, stream # <<>>, ReadHead, UNCHANGED sent
  PROVE  /\ Ordered' /\ current' # 0
         /\ current <= current' /\ current' \in 1..Len(sent)
<1> USE DEF Ordered, ReadHead, Parts
<1>1. /\ Len(stream) \in Nat \ {0} /\ Head(stream) = stream[1]
      /\ stream' \in Seq(Parts) /\ Len(stream') = Len(stream) - 1
      /\ \A k \in 1..Len(stream') : stream'[k] = stream[k + 1]
  OBVIOUS
<1>2. current' = stream[1].of /\ current' \in current..Len(sent)
      /\ current' # 0 /\ current <= current' /\ current' \in Nat
  BY <1>1
<1>3. \A k \in 1..Len(stream') :
        stream'[k].of \in current'..Len(sent) /\ stream'[k].of # 0
  <2> TAKE k \in 1..Len(stream')
  <2>1. k + 1 \in 1..Len(stream) /\ 1 \in 1..Len(stream) /\ 1 <= k + 1
    BY <1>1
  <2>2. stream[1].of <= stream[k + 1].of
    BY <2>1
  <2> QED BY <1>1, <1>2, <2>1, <2>2
<1>4. \A j, k \in 1..Len(stream') : j <= k => stream'[j].of <= stream'[k].of
  BY <1>1
<1> QED BY <1>1, <1>2, <1>3, <1>4

(* A step that leaves the client's requests, the host and the choice of    *)
(* the address alone keeps the invariant, whatever it delivers, when it    *)
(* forwards nothing and does not begin to serve.                           *)
LEMMA QuietStep ==
  ASSUME ExchangeInv, UNCHANGED <<host, sent, stream, current, vetted, upstream,
                                  asked>>,
         pc' = pc \/ pc' \notin Serving \cup {"accepted"}
  PROVE  ExchangeInv'
<1> USE DEF ExchangeInv
<1>1. Ordered'
  BY DEF Ordered
<1>2. Judged'
  BY DEF Judged, Passed, Serving
<1>3. Fresh' /\ Vetting'
  BY DEF Fresh, Vetting, Serving
<1>4. DialledVetted' /\ RefusedTouchNothing'
  BY DEF DialledVetted, RefusedTouchNothing
<1> QED BY <1>1, <1>2, <1>3, <1>4

(* What the client writes ahead comes behind what it wrote before.         *)
LEMMA SendStep ==
  ASSUME ExchangeInv, Send
  PROVE  ExchangeInv'
<1> USE DEF ExchangeInv
<1>1. PICK r \in Requests :
        /\ sent' = Append(sent, r)
        /\ stream' = stream \o (IF r.body
                                  THEN <<HeadOf(Len(sent) + 1), BodyOf(Len(sent) + 1)>>
                                  ELSE <<HeadOf(Len(sent) + 1)>>)
  BY DEF Send
<1>2. /\ sent \in Seq(Requests) /\ current \in Nat /\ current <= Len(sent)
      /\ sent' \in Seq(Requests) /\ Len(sent') = Len(sent) + 1
      /\ \A i \in 1..Len(sent) : sent'[i] = sent[i]
  BY <1>1 DEF Ordered
<1>3. UNCHANGED <<pc, mode, host, current, vetted, upstream, asked>>
  BY DEF Send, choice, origin
<1>4. Ordered'
  <2>1. PICK added \in Seq(Parts) :
          /\ stream' = stream \o added
          /\ \A k \in 1..Len(added) : added[k].of = Len(sent) + 1
    <3>1. CASE r.body
      <4> DEFINE two == <<HeadOf(Len(sent) + 1), BodyOf(Len(sent) + 1)>>
      <4>1. /\ two \in Seq(Parts) /\ Len(two) = 2
            /\ two[1].of = Len(sent) + 1 /\ two[2].of = Len(sent) + 1
        BY <1>2 DEF HeadOf, BodyOf, Parts
      <4> HIDE DEF two
      <4>2. \A k \in 1..Len(two) : k = 1 \/ k = 2
        BY <4>1
      <4>3. stream' = stream \o two
        BY <1>1, <3>1 DEF two
      <4> QED BY <4>1, <4>2, <4>3
    <3>2. CASE ~r.body
      <4> DEFINE one == <<HeadOf(Len(sent) + 1)>>
      <4>1. one \in Seq(Parts) /\ Len(one) = 1 /\ one[1].of = Len(sent) + 1
        BY <1>2 DEF HeadOf, Parts
      <4> HIDE DEF one
      <4>2. \A k \in 1..Len(one) : k = 1
        BY <4>1
      <4>3. stream' = stream \o one
        BY <1>1, <3>2 DEF one
      <4> QED BY <4>1, <4>2, <4>3
    <3> QED BY <3>1, <3>2
  <2>2. /\ stream \in Seq(Parts) /\ stream' \in Seq(Parts)
        /\ Len(stream') = Len(stream) + Len(added)
        /\ \A k \in 1..Len(stream) : stream'[k] = stream[k]
        /\ \A k \in (Len(stream) + 1)..Len(stream') :
             stream'[k] = added[k - Len(stream)]
    BY <2>1 DEF Ordered
  <2>3. \A k \in 1..Len(stream') :
          IF k <= Len(stream) THEN stream'[k].of = stream[k].of
                              ELSE stream'[k].of = Len(sent) + 1
    <3> TAKE k \in 1..Len(stream')
    <3>1. CASE k <= Len(stream)
      BY <2>2, <3>1
    <3>2. CASE ~(k <= Len(stream))
      <4>1. /\ k \in (Len(stream) + 1)..Len(stream')
            /\ k - Len(stream) \in 1..Len(added)
        BY <2>1, <2>2, <3>2
      <4> QED BY <2>1, <2>2, <3>2, <4>1
    <3> QED BY <3>1, <3>2
  <2>4. \A k \in 1..Len(stream) : stream[k].of \in current..Len(sent)
        /\ stream[k].of # 0
    BY DEF Ordered
  <2>5. \A k \in 1..Len(stream') :
          stream'[k].of \in current'..Len(sent') /\ stream'[k].of # 0
    <3> TAKE k \in 1..Len(stream')
    <3>1. CASE k <= Len(stream)
      <4>1. k \in 1..Len(stream)
        BY <2>2, <3>1
      <4>2. stream[k].of \in current..Len(sent) /\ stream[k].of # 0
        BY <2>4, <4>1
      <4>3. stream'[k].of = stream[k].of
        BY <2>3, <3>1
      <4> QED BY <1>2, <1>3, <4>2, <4>3
    <3>2. CASE ~(k <= Len(stream))
      <4>1. stream'[k].of = Len(sent) + 1
        BY <2>3, <3>2
      <4> QED BY <1>2, <1>3, <4>1
    <3> QED BY <3>1, <3>2
  <2>6. \A j, k \in 1..Len(stream') : j <= k => stream'[j].of <= stream'[k].of
    <3> SUFFICES ASSUME NEW j \in 1..Len(stream'), NEW k \in 1..Len(stream'),
                        j <= k
                 PROVE  stream'[j].of <= stream'[k].of
      OBVIOUS
    <3>1. CASE k <= Len(stream)
      <4>1. j \in 1..Len(stream) /\ k \in 1..Len(stream)
        BY <2>2, <3>1 DEF Ordered
      <4>2. stream'[j] = stream[j] /\ stream'[k] = stream[k]
        BY <2>2, <4>1
      <4> QED BY <4>1, <4>2 DEF Ordered
    <3>2. CASE ~(k <= Len(stream)) /\ j <= Len(stream)
      <4>1. j \in 1..Len(stream)
        BY <2>2, <3>2
      <4>2. stream[j].of \in current..Len(sent)
        BY <2>4, <4>1
      <4>3. stream'[j].of = stream[j].of /\ stream'[k].of = Len(sent) + 1
        BY <2>3, <3>2
      <4> QED BY <1>2, <4>2, <4>3
    <3>3. CASE ~(k <= Len(stream)) /\ ~(j <= Len(stream))
      <4>1. stream'[j].of = Len(sent) + 1 /\ stream'[k].of = Len(sent) + 1
        BY <2>3, <3>3
      <4> QED BY <1>2, <4>1
    <3> QED BY <3>1, <3>2, <3>3
  <2> QED BY <1>2, <1>3, <2>2, <2>5, <2>6 DEF Ordered
<1>5. \A i \in 1..current : Passed(i)' = Passed(i)
  BY <1>2, <1>3 DEF Passed
<1>6. Judged'
  BY <1>2, <1>3, <1>5 DEF Judged, Serving
<1>7. Fresh' /\ Vetting' /\ DialledVetted'
  BY <1>3 DEF Fresh, Vetting, DialledVetted
<1>8. RefusedTouchNothing'
  BY <1>2, <1>3, <1>5 DEF RefusedTouchNothing, Passed
<1> QED BY <1>4, <1>6, <1>7, <1>8

-----------------------------------------------------------------------------
(* Both halves read the next request and judge it before anything else.    *)
LEMMA PlainStep ==
  ASSUME ExchangeInv, ReadPlain
  PROVE  ExchangeInv'
<1> USE DEF ExchangeInv
<1>1. Ordered' /\ current' # 0
  BY HeadTaken DEF ReadPlain
<1>2. PICK port \in Authorities :
        /\ host' = sent[current'].host
        /\ IF /\ port \notin {"443", "unreadable"}
              /\ isDomainAllowed(sent[current'].host, Cfg)
              /\ applyFilters(sent[current'], sent[current'].host, Cfg) = 0
             THEN Proceed("accepted", sent[current'].host)
             ELSE Refuse("accepted", current')
  BY DEF ReadPlain
<1>3. /\ pc = "accepted" /\ asked = <<>> /\ vetted = None /\ upstream = None
      /\ UNCHANGED <<sent, vetted, upstream, asked>>
  BY DEF ReadPlain, Fresh, choice, origin
<1>4. \/ /\ applyFilters(sent[current'], host', Cfg) = 0
         /\ pc' = IF lookupRedirect(host', Redirects) # NoPolicy
                    THEN "dialing" ELSE "resolving"
      \/ pc' = "closed"
  BY <1>2, <1>3 DEF Proceed, Refuse, Goto, Passed
<1>5. Judged'
  BY <1>1, <1>3, <1>4 DEF Judged, Serving, Passed
<1>6. Fresh' /\ Vetting'
  BY <1>3, <1>4 DEF Fresh, Vetting
<1>7. DialledVetted' /\ RefusedTouchNothing'
  BY <1>3 DEF DialledVetted, RefusedTouchNothing
<1> QED BY <1>1, <1>5, <1>6, <1>7

LEMMA MITMStep ==
  ASSUME ExchangeInv, ReadRequest
  PROVE  ExchangeInv'
<1> USE DEF ExchangeInv
<1>1. Ordered' /\ current <= current' /\ current' \in 1..Len(sent)
      /\ current \in Nat
  BY HeadTaken DEF ReadRequest, Ordered
<1>2. /\ pc = "waiting"
      /\ UNCHANGED <<host, sent, vetted, upstream, asked>>
  BY DEF ReadRequest, choice, origin
<1>3. \/ /\ applyFilters(sent[current'], host, Cfg) = 0
         /\ pc' \in {"forwarding", "dialing", "resolving"}
         /\ pc' = "dialing" => lookupRedirect(host, Redirects) # NoPolicy
         /\ pc' = "forwarding" => upstream # None
      \/ pc' = "closed"
  BY <1>2 DEF ReadRequest, Proceed, Refuse, Goto
<1>4. Judged'
  BY <1>1, <1>2, <1>3 DEF Judged, Serving, Passed
<1>5. Fresh' /\ Vetting'
  BY <1>2, <1>3 DEF Fresh, Vetting
<1>6. DialledVetted'
  BY <1>2 DEF DialledVetted
<1>7. RefusedTouchNothing'
  BY <1>1, <1>2 DEF RefusedTouchNothing
<1> QED BY <1>1, <1>4, <1>5, <1>6, <1>7

(* The address is judged, and then dialled, for a request that passed.     *)
LEMMA ResolveStep ==
  ASSUME ExchangeInv, Resolve
  PROVE  ExchangeInv'
<1> USE DEF ExchangeInv
<1>1. /\ pc = "resolving"
      /\ UNCHANGED <<host, sent, stream, current, upstream, asked>>
      /\ \/ pc' = "dialing" /\ vetted' \in Addresses \ Blocked
         \/ pc' = "closed" /\ vetted' = vetted
  BY DEF Vetting, Resolve, Refuse, Goto, client, origin
<1>2. current \in 1..Len(sent) /\ Passed(current)
  BY <1>1 DEF Judged, Serving, Ordered
<1>3. Ordered' /\ Judged'
  BY <1>1 DEF Ordered, Judged, Serving, Passed
<1>4. Fresh' /\ Vetting' /\ DialledVetted'
  BY <1>1 DEF Fresh, Vetting, DialledVetted
<1>5. RefusedTouchNothing'
  BY <1>1, <1>2 DEF RefusedTouchNothing, Passed, Ordered
<1> QED BY <1>3, <1>4, <1>5

LEMMA DialStep ==
  ASSUME ExchangeInv, Dial
  PROVE  ExchangeInv'
<1> USE DEF ExchangeInv
<1>1. /\ pc = "dialing"
      /\ UNCHANGED <<host, sent, stream, current, vetted, asked>>
      /\ \/ /\ pc' = "forwarding"
            /\ upstream' = IF lookupRedirect(host, Redirects) # NoPolicy
                             THEN lookupRedirect(host, Redirects) ELSE vetted
         \/ pc' = "closed" /\ upstream' = upstream
  BY DEF Dial, Connected, Refuse, Goto, client, origin
<1>2. current \in 1..Len(sent) /\ Passed(current)
  BY <1>1 DEF Judged, Serving, Ordered
<1>3. Ordered' /\ Judged'
  BY <1>1 DEF Ordered, Judged, Serving, Passed
<1>4. Fresh' /\ Vetting' /\ DialledVetted'
  BY <1>1 DEF Fresh, Vetting, DialledVetted
<1>5. RefusedTouchNothing'
  BY <1>1, <1>2 DEF RefusedTouchNothing, Passed, Ordered
<1> QED BY <1>3, <1>4, <1>5

(* The body is taken off the stream with the request.                      *)
LEMMA ForwardStep ==
  ASSUME ExchangeInv, Forward \/ RoundTrip
  PROVE  ExchangeInv'
<1> USE DEF ExchangeInv
<1>1. /\ pc = "forwarding"
      /\ UNCHANGED <<host, sent, current, vetted, upstream>>
      /\ stream' = stream \/ (stream # <<>> /\ stream' = Tail(stream))
      /\ \/ pc' = "answering" /\ asked' = Append(asked, current)
         \/ pc' = "closed" /\ asked' = asked
  <2>1. Forward \/ RoundTrip =>
          \/ Write(<<current>>)
          \/ pc = "forwarding" /\ pc' = "closed" /\ UNCHANGED <<stream, asked>>
    BY DEF Forward, RoundTrip, Refuse, Goto
  <2>2. UNCHANGED <<host, sent, current, vetted, upstream>>
    BY DEF Forward, RoundTrip, choice
  <2>3. asked \o <<current>> = Append(asked, current)
    BY DEF Judged, Ordered
  <2> QED BY <2>1, <2>2, <2>3 DEF Write, Goto
<1>2. current \in 1..Len(sent) /\ Passed(current)
  BY <1>1 DEF Judged, Serving, Ordered
<1>3. Ordered'
  <2>1. CASE stream' = stream
    BY <1>1, <2>1 DEF Ordered
  <2>2. CASE stream # <<>> /\ stream' = Tail(stream)
    <3>1. /\ stream' \in Seq(Parts) /\ Len(stream') = Len(stream) - 1
          /\ Len(stream) \in Nat
          /\ \A k \in 1..Len(stream') : stream'[k] = stream[k + 1]
      BY <2>2 DEF Ordered
    <3>2. \A k \in 1..Len(stream') : k + 1 \in 1..Len(stream)
      BY <3>1
    <3>3. \A k \in 1..Len(stream') :
            stream'[k].of \in current..Len(sent) /\ stream'[k].of # 0
      BY <3>1, <3>2 DEF Ordered
    <3>4. \A j, k \in 1..Len(stream') :
            j <= k => stream'[j].of <= stream'[k].of
      <4> SUFFICES ASSUME NEW j \in 1..Len(stream'), NEW k \in 1..Len(stream'),
                          j <= k
                   PROVE  stream'[j].of <= stream'[k].of
        OBVIOUS
      <4>1. /\ j + 1 \in 1..Len(stream) /\ k + 1 \in 1..Len(stream)
            /\ j + 1 <= k + 1
        BY <3>2
      <4>2. stream[j + 1].of <= stream[k + 1].of
        BY <4>1 DEF Ordered
      <4> QED BY <3>1, <4>2
    <3> QED BY <1>1, <3>1, <3>3, <3>4 DEF Ordered
  <2> QED BY <1>1, <2>1, <2>2
<1>4. Judged'
  <2>1. CASE asked' = asked
    BY <1>1, <1>2, <2>1 DEF Judged, Passed
  <2>2. CASE asked' = Append(asked, current)
    <3>1. /\ asked' \in Seq(Nat) /\ Len(asked') = Len(asked) + 1
          /\ Len(asked) \in Nat
          /\ \A n \in 1..Len(asked) : asked'[n] = asked[n]
          /\ asked'[Len(asked) + 1] = current
      BY <1>2, <2>2 DEF Judged, Ordered
    <3>2. \A n \in 1..Len(asked') : asked'[n] \in 1..current /\ Passed(asked'[n])
      <4> TAKE n \in 1..Len(asked')
      <4>1. CASE n = Len(asked) + 1
        BY <1>2, <3>1, <4>1
      <4>2. CASE n # Len(asked) + 1
        BY <3>1, <4>2 DEF Judged
      <4> QED BY <4>1, <4>2
    <3> QED BY <1>1, <1>2, <3>1, <3>2 DEF Judged, Passed
  <2> QED BY <1>1, <2>1, <2>2
<1>5. Fresh' /\ Vetting' /\ DialledVetted' /\ RefusedTouchNothing'
  BY <1>1 DEF Fresh, Vetting, DialledVetted, RefusedTouchNothing
<1> QED BY <1>3, <1>4, <1>5

(* The transport tries again with the literal, or the redirect, it had.    *)
LEMMA RetryStep ==
  ASSUME ExchangeInv, Retry
  PROVE  ExchangeInv'
<1> USE DEF ExchangeInv
<1>1. /\ pc \in {"forwarding", "answering"} /\ pc' = "dialing"
      /\ UNCHANGED <<host, sent, stream, current, vetted, asked>>
      /\ upstream' = None
  BY DEF Retry, Goto, client
<1>2. Ordered' /\ Judged'
  BY <1>1 DEF Ordered, Judged, Serving, Passed
<1>3. Fresh' /\ Vetting' /\ DialledVetted'
  BY <1>1 DEF Fresh, Vetting, DialledVetted
<1>4. current \in 1..Len(sent) /\ Passed(current)
  BY <1>1 DEF Judged, Serving, Ordered
<1>5. RefusedTouchNothing'
  BY <1>1, <1>4 DEF RefusedTouchNothing, Passed, Ordered
<1> QED BY <1>2, <1>3, <1>5

-----------------------------------------------------------------------------
LEMMA StepKeepsExchangeInv ==
  ASSUME ExchangeInv, [Next]_vars
  PROVE  ExchangeInv'
<1>1. CASE Send
  BY <1>1, SendStep
<1>2. CASE Answer \/ \E p \in {"client", "origin"} : Leave(p)
  BY <1>2, QuietStep DEF Answer, Leave, client, choice, origin
<1>3. CASE Connect
  <2>1. /\ pc = "accepted" /\ asked = <<>> /\ vetted = None /\ upstream = None
        /\ pc' \in {"handshake", "closed"}
        /\ UNCHANGED <<sent, stream, current, vetted, upstream, asked>>
    BY <1>3 DEF Connect, Goto, ExchangeInv, Fresh, client, choice, origin
  <2> QED BY <2>1 DEF ExchangeInv, Ordered, Judged, Serving, Fresh, Vetting,
                      DialledVetted, RefusedTouchNothing
<1>4. CASE Handshake \/ EndOfRequests \/ EndTunnel
  BY <1>4, QuietStep DEF Handshake, EndOfRequests, EndTunnel, Goto, Serving,
                         client, choice, origin
<1>5. CASE ReadPlain
  BY <1>5, PlainStep
<1>6. CASE ReadRequest
  BY <1>6, MITMStep
<1>7. CASE Resolve
  BY <1>7, ResolveStep
<1>8. CASE Dial
  BY <1>8, DialStep
<1>9. CASE Forward \/ RoundTrip
  BY <1>9, ForwardStep
<1>10. CASE Retry
  BY <1>10, RetryStep
<1>11. CASE ReadResponse
  BY <1>11, QuietStep DEF ReadResponse, Serving, client, choice
<1>12. CASE EndOfResponses
  BY <1>12, QuietStep DEF EndOfResponses, Serving, client, choice, origin
<1>13. CASE UNCHANGED vars
  BY <1>13, QuietStep DEF vars, client, choice, origin
<1> QED BY <1>1, <1>2, <1>3, <1>4, <1>5, <1>6, <1>7, <1>8, <1>9, <1>10,
           <1>11, <1>12, <1>13 DEF Next, PeerNext, HandlerNext

LEMMA InitExchangeInv ==
  ASSUME Init
  PROVE  ExchangeInv
BY DEF Init, ExchangeInv, Ordered, Judged, Serving, Fresh, Vetting,
       DialledVetted, RefusedTouchNothing

LEMMA ExchangeAlways == Spec => []ExchangeInv
BY InitExchangeInv, StepKeepsExchangeInv, PTL DEF Spec

-----------------------------------------------------------------------------
(* What passes the filters keeps within the policy of its path.            *)
LEMMA FiltersKeepPolicy ==
  ASSUME NEW r, NEW h, applyFilters(r, h, Cfg) = 0
  PROVE  LET policy == lookupPolicy(h, r.path, Cfg)
         IN  /\ r.host = h
             /\ policy # NoPolicy
             /\ \/ policy.allowAll
                \/ /\ r.method \in policy.methods
                   /\ ~r.websocket
                   /\ r.body => ~(policy.methods \subseteq {"GET", "HEAD"})
<1> DEFINE policy == lookupPolicy(h, r.path, Cfg)
<1>1. /\ r.host # <<>>
      /\ r.host = h
      /\ policy # NoPolicy
      /\ policy.allowAll \/ r.method \in policy.methods
      /\ ~(r.method \in {"GET", "HEAD"} /\ r.body)
      /\ ~(r.websocket /\ ~policy.allowAll)
  BY DEF applyFilters
<1> QED BY <1>1

(* However many requests a connection carries, each that is forwarded      *)
(* keeps within the policy of its own path and names the host that was     *)
(* gated (main.go:540-577, 972-985).                                       *)
THEOREM AlwaysWithinPolicy == Spec => []ForwardedWithinPolicy
<1>1. ExchangeInv => ForwardedWithinPolicy
  <2> SUFFICES ASSUME ExchangeInv, NEW i \in ToSet(asked)
               PROVE  applyFilters(sent[i], host, Cfg) = 0
    BY FiltersKeepPolicy DEF ForwardedWithinPolicy, PolicyOf
  <2>1. PICK n \in 1..Len(asked) : i = asked[n]
    BY DEF ToSet, ExchangeInv, Judged
  <2> QED BY <2>1 DEF ExchangeInv, Judged, Passed
<1> QED BY <1>1, ExchangeAlways, PTL

(* Whatever the resolver answers and when, the upstream connection is to   *)
(* an address that was judged, or to the redirect (main.go:672-689).       *)
THEOREM AlwaysDialledVetted == Spec => []DialledVetted
<1>1. ExchangeInv => DialledVetted
  BY DEF ExchangeInv
<1> QED BY <1>1, ExchangeAlways, PTL

(* No lookup and no connection before a request has passed the filters     *)
(* (main.go:927-928).                                                      *)
THEOREM RefusedAlwaysTouchNothing == Spec => []RefusedTouchNothing
<1>1. ExchangeInv => RefusedTouchNothing
  BY DEF ExchangeInv
<1> QED BY <1>1, ExchangeAlways, PTL

-----------------------------------------------------------------------------
(* The stream, part by part: what is to be read next, and what follows it. *)

Pending == pc \in {"resolving", "dialing", "forwarding"} /\ sent[current].body
After(p, requests) ==
  IF p.part = "head" /\ requests[p.of].body THEN BodyOf(p.of) ELSE HeadOf(p.of + 1)

Shape ==
  pc # "closed" =>
    /\ stream # <<>> =>
         /\ stream[1] = IF Pending THEN BodyOf(current) ELSE HeadOf(current + 1)
         /\ After(stream[Len(stream)], sent) = HeadOf(Len(sent) + 1)
    /\ stream = <<>> => current = Len(sent) /\ ~Pending
    /\ \A k \in 1..(Len(stream) - 1) : stream[k + 1] = After(stream[k], sent)

(* A step that neither reads nor writes the stream.                        *)
LEMMA ShapeQuiet ==
  ASSUME Shape, UNCHANGED <<sent, stream, current>>,
         pc' = "closed" \/ (pc # "closed" /\ (Pending' <=> Pending))
  PROVE  Shape'
BY DEF Shape, After

LEMMA ShapeSend ==
  ASSUME ExchangeInv, Shape, Send
  PROVE  Shape'
<1> DEFINE n == Len(sent)
<1>1. PICK r \in Requests :
        /\ sent' = Append(sent, r)
        /\ stream' = stream \o (IF r.body THEN <<HeadOf(n + 1), BodyOf(n + 1)>>
                                          ELSE <<HeadOf(n + 1)>>)
  BY DEF Send
<1>2. /\ sent \in Seq(Requests) /\ n \in Nat /\ current \in 0..n
      /\ stream \in Seq(Parts) /\ Len(stream) \in Nat
      /\ \A k \in 1..Len(stream) : stream[k].of \in 1..n
      /\ pc' = pc /\ pc # "closed" /\ current' = current
      /\ pc \in Serving => current # 0
  BY DEF ExchangeInv, Ordered, Judged, Send
<1>3. Len(sent') = n + 1 /\ sent'[n + 1] = r
      /\ \A i \in 1..n : sent'[i] = sent[i]
  BY <1>1, <1>2
<1>4. Pending' <=> Pending
  BY <1>2, <1>3 DEF Pending, Serving
<1>5. PICK added :
        /\ stream' = stream \o added /\ added \in Seq(Parts) /\ Len(added) \in 1..2
        /\ added[1] = HeadOf(n + 1)
        /\ IF Len(added) = 2 THEN r.body /\ added[2] = BodyOf(n + 1) ELSE ~r.body
  <2>1. CASE r.body
    <3> DEFINE two == <<HeadOf(n + 1), BodyOf(n + 1)>>
    <3>1. /\ two \in Seq(Parts) /\ Len(two) = 2
          /\ two[1] = HeadOf(n + 1) /\ two[2] = BodyOf(n + 1)
      BY <1>2 DEF HeadOf, BodyOf, Parts
    <3>2. stream' = stream \o two
      BY <1>1, <2>1
    <3> HIDE DEF two
    <3> QED BY <2>1, <3>1, <3>2
  <2>2. CASE ~r.body
    <3> DEFINE one == <<HeadOf(n + 1)>>
    <3>1. one \in Seq(Parts) /\ Len(one) = 1 /\ one[1] = HeadOf(n + 1)
      BY <1>2 DEF HeadOf, Parts
    <3>2. stream' = stream \o one
      BY <1>1, <2>2
    <3> HIDE DEF one
    <3>3. IF Len(one) = 2 THEN r.body /\ one[2] = BodyOf(n + 1) ELSE ~r.body
      BY <2>2, <3>1
    <3>4. Len(one) \in 1..2
      BY <3>1
    <3> QED BY <3>1, <3>2, <3>3, <3>4
  <2> QED BY <2>1, <2>2
<1>6. /\ Len(stream') = Len(stream) + Len(added)
      /\ \A k \in 1..Len(stream) : stream'[k] = stream[k]
      /\ stream'[Len(stream) + 1] = HeadOf(n + 1)
      /\ Len(added) = 2 => stream'[Len(stream) + 2] = BodyOf(n + 1)
      /\ stream' # <<>>
  BY <1>2, <1>5
<1>7. \A k \in 1..Len(stream) : After(stream[k], sent') = After(stream[k], sent)
  <2> TAKE k \in 1..Len(stream)
  <2>1. stream'[k] = stream[k] /\ stream[k].of \in 1..n
    BY <1>2, <1>6
  <2>2. sent'[stream[k].of] = sent[stream[k].of]
    BY <1>3, <2>1
  <2> QED BY <2>1, <2>2 DEF After
<1>8. /\ HeadOf(n + 1).part = "head" /\ HeadOf(n + 1).of = n + 1
      /\ BodyOf(n + 1).part = "body" /\ BodyOf(n + 1).of = n + 1
  BY DEF HeadOf, BodyOf
<1>9. After(stream'[Len(stream')], sent') = HeadOf(Len(sent') + 1)
  <2>1. CASE Len(added) = 2
    <3>1. stream'[Len(stream')] = BodyOf(n + 1)
      BY <1>2, <1>6, <2>1
    <3> QED BY <1>3, <1>8, <3>1 DEF After
  <2>2. CASE Len(added) = 1
    <3>1. stream'[Len(stream')] = HeadOf(n + 1) /\ ~r.body
      BY <1>2, <1>5, <1>6, <2>2
    <3> QED BY <1>3, <1>8, <3>1 DEF After
  <2> QED BY <1>5, <2>1, <2>2
<1>10. \A k \in 1..(Len(stream') - 1) : stream'[k + 1] = After(stream'[k], sent')
  <2> TAKE k \in 1..(Len(stream') - 1)
  <2>1. CASE k < Len(stream)
    <3>1. k \in 1..(Len(stream) - 1) /\ k \in 1..Len(stream) /\ k + 1 \in 1..Len(stream)
      BY <1>2, <2>1
    <3>2. stream[k + 1] = After(stream[k], sent)
      BY <1>2, <3>1 DEF Shape
    <3> QED BY <1>6, <1>7, <3>1, <3>2
  <2>2. CASE k = Len(stream)
    <3>1. k \in 1..Len(stream) /\ stream # <<>>
      BY <1>2, <2>2
    <3>2. After(stream[k], sent) = HeadOf(n + 1)
      BY <1>2, <2>2, <3>1 DEF Shape
    <3> QED BY <1>6, <1>7, <2>2, <3>1, <3>2
  <2>3. CASE k = Len(stream) + 1
    <3>1. Len(added) = 2 /\ r.body
      BY <1>2, <1>5, <1>6, <2>3
    <3>2. stream'[k] = HeadOf(n + 1) /\ stream'[k + 1] = BodyOf(n + 1)
      BY <1>2, <1>6, <2>3, <3>1
    <3> QED BY <1>3, <1>8, <3>1, <3>2 DEF After
  <2>4. Len(added) = 1 \/ Len(added) = 2
    BY <1>5
  <2>5. k < Len(stream) \/ k = Len(stream) \/ k = Len(stream) + 1
    <3>1. CASE Len(added) = 1
      <4>1. Len(stream') - 1 = Len(stream)
        BY <1>2, <1>6, <3>1
      <4> QED BY <1>2, <4>1
    <3>2. CASE Len(added) = 2
      <4>1. Len(stream') - 1 = Len(stream) + 1
        BY <1>2, <1>6, <3>2
      <4> QED BY <1>2, <4>1
    <3> QED BY <2>4, <3>1, <3>2
  <2> QED BY <2>1, <2>2, <2>3, <2>5
<1>11. stream'[1] = IF Pending' THEN BodyOf(current') ELSE HeadOf(current' + 1)
  <2>1. CASE stream = <<>>
    <3>1. current = n /\ ~Pending /\ Len(stream) = 0
      BY <1>2, <2>1 DEF Shape
    <3> QED BY <1>2, <1>4, <1>6, <3>1
  <2>2. CASE stream # <<>>
    <3>1. 1 \in 1..Len(stream)
      BY <1>2, <2>2
    <3> QED BY <1>2, <1>4, <1>6, <2>2, <3>1 DEF Shape
  <2> QED BY <2>1, <2>2
<1> QED BY <1>2, <1>6, <1>9, <1>10, <1>11 DEF Shape

(* What is left of the stream once its first part is read.                 *)
LEMMA TailFacts ==
  ASSUME ExchangeInv, Shape, pc # "closed", stream # <<>>, NEW rest, rest = Tail(stream)
  PROVE  /\ rest # <<>> =>
              /\ rest[1] = After(stream[1], sent)
              /\ After(rest[Len(rest)], sent) = HeadOf(Len(sent) + 1)
         /\ rest = <<>> => After(stream[1], sent) = HeadOf(Len(sent) + 1)
         /\ \A k \in 1..(Len(rest) - 1) : rest[k + 1] = After(rest[k], sent)
<1>1. /\ stream \in Seq(Parts) /\ Len(stream) \in Nat \ {0}
      /\ rest \in Seq(Parts) /\ Len(rest) = Len(stream) - 1
      /\ \A k \in 1..Len(rest) : rest[k] = stream[k + 1]
  BY DEF ExchangeInv, Ordered
<1>3. CASE rest = <<>>
  <2>1. rest = <<>> => Len(rest) = 0
    OBVIOUS
  <2>2. Len(stream) = 1
    BY <1>1, <1>3, <2>1
  <2>3. After(stream[1], sent) = HeadOf(Len(sent) + 1)
    BY <2>2 DEF Shape
  <2>4. 1..(Len(rest) - 1) = {}
    BY <1>1, <2>2
  <2> QED BY <1>3, <2>3, <2>4
<1>4. CASE rest # <<>>
  <2>1. Len(rest) \in Nat \ {0} /\ 1 \in 1..Len(rest) /\ 1 \in 1..(Len(stream) - 1)
    BY <1>1, <1>4
  <2>2. rest[1] = stream[2] /\ stream[2] = After(stream[1], sent)
    BY <1>1, <2>1 DEF Shape
  <2>3. rest[Len(rest)] = stream[Len(stream)]
    BY <1>1, <2>1
  <2>4. After(rest[Len(rest)], sent) = HeadOf(Len(sent) + 1)
    BY <2>3 DEF Shape
  <2>5. \A k \in 1..(Len(rest) - 1) : rest[k + 1] = After(rest[k], sent)
    <3> TAKE k \in 1..(Len(rest) - 1)
    <3>1. k \in 1..Len(rest) /\ k + 1 \in 1..Len(rest) /\ k + 1 \in 1..(Len(stream) - 1)
      BY <1>1
    <3>2. rest[k] = stream[k + 1] /\ rest[k + 1] = stream[k + 1 + 1]
      BY <1>1, <3>1
    <3>3. stream[k + 1 + 1] = After(stream[k + 1], sent)
      BY <3>1 DEF Shape
    <3> QED BY <3>2, <3>3 DEF After
  <2> QED BY <1>4, <2>2, <2>4, <2>5
<1> QED BY <1>3, <1>4

(* The next request read is the one after the last.                        *)
LEMMA ShapeRead ==
  ASSUME ExchangeInv, Shape, pc \in {"accepted", "waiting"}, stream # <<>>, ReadHead,
         UNCHANGED sent,
         pc' \in {"resolving", "dialing", "forwarding", "closed"}
  PROVE  Shape' /\ current' = current + 1
<1>1. /\ stream[1] = HeadOf(current + 1) /\ current \in Nat /\ Len(sent) \in Nat
      /\ stream[1].part = "head" /\ stream[1].of = current + 1
      /\ Head(stream) = stream[1]
  BY DEF Shape, Pending, HeadOf, ExchangeInv, Ordered
<1>2. current' = current + 1 /\ stream' = Tail(stream)
  BY <1>1 DEF ReadHead
<1>3. After(stream[1], sent) = IF sent[current'].body THEN BodyOf(current')
                         ELSE HeadOf(current' + 1)
  BY <1>1, <1>2 DEF After
<1>4. pc' # "closed" => (Pending' <=> sent[current'].body)
  BY DEF Pending
<1>5. After(stream[1], sent) = HeadOf(Len(sent) + 1) => current' = Len(sent) /\ ~sent[current'].body
  <2>1. BodyOf(current').part = "body" /\ HeadOf(Len(sent) + 1).part = "head"
        /\ HeadOf(current' + 1).of = current' + 1 /\ HeadOf(Len(sent) + 1).of = Len(sent) + 1
    BY DEF BodyOf, HeadOf
  <2> QED BY <1>1, <1>2, <1>3, <2>1
<1>6. Shape'
  BY <1>2, <1>3, <1>4, <1>5, TailFacts DEF Shape
<1> QED BY <1>2, <1>6

(* A body is read with the request it follows.                             *)
LEMMA ShapeForward ==
  ASSUME ExchangeInv, Shape, Forward \/ RoundTrip
  PROVE  Shape'
<1>1. /\ pc = "forwarding" /\ pc' \in {"answering", "closed"}
      /\ UNCHANGED <<sent, current>>
      /\ pc' = "answering" =>
           IF sent[current].body THEN stream # <<>> /\ stream' = Tail(stream)
           ELSE stream' = stream
  BY DEF Forward, RoundTrip, Write, Refuse, Goto, Request
<1>2. ~Pending'
  BY <1>1 DEF Pending
<1>3. CASE pc' = "closed"
  BY <1>3 DEF Shape
<1>4. CASE pc' = "answering" /\ ~sent[current].body
  BY <1>1, <1>2, <1>4, ShapeQuiet DEF Pending
<1>5. CASE pc' = "answering" /\ sent[current].body
  <2>1. stream[1] = BodyOf(current) /\ current \in Nat /\ Len(sent) \in Nat
    BY <1>1, <1>5 DEF Shape, Pending, ExchangeInv, Ordered
  <2>2. After(stream[1], sent) = HeadOf(current + 1)
    BY <2>1 DEF After, BodyOf
  <2>3. HeadOf(current + 1) = HeadOf(Len(sent) + 1) => current = Len(sent)
    BY <2>1 DEF HeadOf
  <2> QED BY <1>1, <1>2, <1>5, <2>2, <2>3, TailFacts DEF Shape
<1> QED BY <1>1, <1>3, <1>4, <1>5

(* Only a request without a body is tried again.                           *)
LEMMA ShapeRetry ==
  ASSUME Shape, Retry
  PROVE  Shape'
<1>1. /\ UNCHANGED <<sent, stream, current>>
      /\ pc \in {"forwarding", "answering"} /\ pc' = "dialing"
      /\ ~sent[current].body
  BY DEF Retry, Goto, Replayable, Request, client
<1> QED BY <1>1, ShapeQuiet DEF Pending

LEMMA StepKeepsShape ==
  ASSUME ExchangeInv, Shape, [Next]_vars
  PROVE  Shape'
<1>1. CASE Send
  BY <1>1, ShapeSend
<1>2. CASE Answer
  <2>1. UNCHANGED <<pc, sent, stream, current>>
    BY <1>2 DEF Answer, client
  <2> QED BY <2>1 DEF Shape, Pending, After
<1>3. CASE \E p \in {"client", "origin"} : Leave(p)
  <2>1. UNCHANGED <<pc, sent, stream, current>>
    BY <1>3 DEF Leave, client
  <2> QED BY <2>1 DEF Shape, Pending, After
<1>4. CASE Connect \/ Handshake \/ EndOfRequests \/ EndTunnel
  <2>1. /\ UNCHANGED <<sent, stream, current>>
        /\ pc \in {"accepted", "handshake", "waiting", "tunnel"}
        /\ pc' \in {"handshake", "waiting", "closed"}
    BY <1>4 DEF Connect, Handshake, EndOfRequests, EndTunnel, Goto, client
  <2> QED BY <2>1, ShapeQuiet DEF Pending
<1>5. CASE ReadPlain
  <2>1. /\ pc = "accepted" /\ stream # <<>> /\ ReadHead /\ UNCHANGED sent
        /\ pc' \in {"resolving", "dialing", "forwarding", "closed"}
    BY <1>5 DEF ReadPlain, Proceed, Refuse, Goto
  <2> QED BY <2>1, ShapeRead
<1>6. CASE ReadRequest
  <2>1. /\ pc = "waiting" /\ stream # <<>> /\ ReadHead /\ UNCHANGED sent
        /\ pc' \in {"resolving", "dialing", "forwarding", "closed"}
    BY <1>6 DEF ReadRequest, Proceed, Refuse, Goto
  <2> QED BY <2>1, ShapeRead
<1>7. CASE Resolve \/ Dial
  <2>1. /\ UNCHANGED <<sent, stream, current>>
        /\ pc \in {"resolving", "dialing"} /\ pc' \in {"dialing", "forwarding", "closed"}
    BY <1>7 DEF Resolve, Dial, Connected, Refuse, Goto, client
  <2> QED BY <2>1, ShapeQuiet DEF Pending
<1>8. CASE Forward \/ RoundTrip
  BY <1>8, ShapeForward
<1>9. CASE ReadResponse \/ EndOfResponses
  <2>1. /\ UNCHANGED <<sent, stream, current>>
        /\ pc = "answering" /\ pc' \in {"tunnel", "waiting", "closed"}
    BY <1>9 DEF ReadResponse, EndOfResponses, client
  <2> QED BY <2>1, ShapeQuiet DEF Pending
<1>10. CASE Retry
  BY <1>10, ShapeRetry
<1>11. CASE UNCHANGED vars
  BY <1>11 DEF Shape, Pending, After, vars, client
<1> QED BY <1>1, <1>2, <1>3, <1>4, <1>5, <1>6, <1>7, <1>8, <1>9, <1>10,
           <1>11 DEF Next, PeerNext, HandlerNext

LEMMA ShapeAlways == Spec => [](ExchangeInv /\ Shape)
<1>1. Init => Shape
  BY DEF Init, Shape, Pending
<1> QED BY <1>1, InitExchangeInv, StepKeepsExchangeInv, StepKeepsShape, PTL DEF Spec

(* A body that was not forwarded is left behind with the connection, and   *)
(* never read as a request, whatever is written ahead (main.go:980-984).   *)
THEOREM BodyNeverRead == Spec => []BodyNeverARequest
<1>1. ExchangeInv /\ Shape => BodyNeverARequest
  <2> SUFFICES ASSUME ExchangeInv, Shape, pc \in {"accepted", "waiting"}, stream # <<>>
               PROVE  Head(stream).part = "head"
    BY DEF BodyNeverARequest
  <2>1. stream[1] = HeadOf(current + 1) /\ Head(stream) = stream[1]
    BY DEF Shape, Pending, ExchangeInv, Ordered
  <2> QED BY <2>1 DEF HeadOf
<1> QED BY <1>1, ShapeAlways, PTL

-----------------------------------------------------------------------------
(* The exchange implements TakeTurns, whatever the origins send.           *)

Kinds == {"interim", "final", "switch", "refusal"}
Replies == [to : Nat, kind : Kinds, close : BOOLEAN]

(* No request is in hand, or one is and has not been written to the        *)
(* connection there is.                                                    *)
AtRest == pc \in {"accepted", "handshake", "waiting", "tunnel"}
Underway == pc \in {"resolving", "dialing", "forwarding"}

Latest(replies) == IF replies = <<>> THEN 0 ELSE Last(replies).to
EarlyIn(replies) == {n \in 1..Len(replies) : replies[n].kind = "interim"}
Counted(replies) == Cardinality(EarlyIn(replies))

(* The final responses the client was given.                               *)
Done == Len(delivered) - Counted(delivered)

(* The responses on their way come in the order of the requests, from the  *)
(* first that has no final one: an interim response is to the same request *)
(* as the one behind it.                                                   *)
Advance(reply) == IF reply.kind = "interim" THEN 0 ELSE 1
Due(replies, done) ==
  IF replies = <<>> THEN done + 1 ELSE Last(replies).to + Advance(Last(replies))
Chained(replies, done) ==
  /\ replies # <<>> => replies[1].to = done + 1
  /\ \A n \in 1..(Len(replies) - 1) :
       replies[n + 1].to = replies[n].to + Advance(replies[n])

(* Behind a CONNECT every request is written once, in order, and every one *)
(* is either answered for good or owed.                                    *)
Flow ==
  /\ \A n \in 1..Len(asked) : asked[n] = n
  /\ Len(asked) + (IF Underway THEN 1 ELSE 0) = current
  /\ Chained(answers, Done)
  /\ Due(answers, Done) + Len(owed) = Len(asked) + 1
  /\ \A k \in 1..Len(owed) : owed[k] + 1 = Due(answers, Done) + k

(* On the plaintext half there is one request, and whatever is owed or     *)
(* comes back is to it; one that was written is to be written again only   *)
(* if it may be.                                                           *)
Single ==
  /\ current = 1
  /\ \A k \in 1..Len(owed) : owed[k] = 1
  /\ \A n \in 1..Len(answers) : answers[n].to = 1
  /\ pc = "answering" => asked # <<>>
  /\ Underway /\ asked # <<>> => Replayable(Request)

(* What was passed on and what was answered keep up with what was read.    *)
Lockstep ==
  /\ delivered \in Seq(Replies) /\ answers \in Seq(Replies) /\ owed \in Seq(Nat)
  /\ pc \in {"accepted", "handshake"} => current = 0
  /\ pc = "accepted" => owed = <<>> /\ answers = <<>>
  /\ pc \in {"accepted", "handshake", "waiting"} => mode # "plain"
  /\ pc # "closed" =>
       /\ AtRest \/ Underway \/ pc = "answering"
       /\ Len(delivered) + (IF AtRest THEN 0 ELSE 1) = current
       /\ IF mode = "plain" THEN Single ELSE Flow

(* What every step starts from.                                            *)
Before == ExchangeInv /\ Shape /\ Lockstep

Turn == [Turns!Next]_(Turns!vars)

-----------------------------------------------------------------------------
LEMMA Counts ==
  ASSUME Before
  PROVE  /\ current \in Nat /\ Len(sent) \in Nat /\ current <= Len(sent)
         /\ Len(asked) \in Nat /\ Len(delivered) \in Nat
         /\ Len(answers) \in Nat /\ Len(owed) \in Nat
         /\ asked \in Seq(Nat) /\ \A n \in 1..Len(asked) : asked[n] \in 1..current
BY DEF Before, ExchangeInv, Ordered, Judged, Lockstep

LEMMA Responses ==
  ASSUME NEW i \in Nat, NEW kind \in Kinds, NEW close \in BOOLEAN
  PROVE  /\ Response(i, kind, close) \in Replies
         /\ Response(i, kind, close).to = i /\ Response(i, kind, close).kind = kind
BY DEF Response, Replies

(* The early answers are counted one by one.                               *)
LEMMA CountedOneMore ==
  ASSUME NEW replies \in Seq(Replies), NEW reply \in Replies, NEW more,
         more = Append(replies, reply)
  PROVE  /\ Counted(replies) \in Nat /\ Counted(replies) <= Len(replies)
         /\ Counted(more) = IF reply.kind = "interim"
                              THEN Counted(replies) + 1 ELSE Counted(replies)
<1> DEFINE n == Len(replies)
<1>1. /\ n \in Nat /\ Len(more) = n + 1 /\ more[n + 1] = reply
      /\ \A k \in 1..n : more[k] = replies[k]
  OBVIOUS
<1>2. IsFiniteSet(1..n) /\ Cardinality(1..n) = n
  <2>1. n \in Int /\ 1 \in Int /\ (IF 1 > n THEN 0 ELSE n - 1 + 1) = n
    BY <1>1
  <2> QED BY <2>1, FS_Interval
<1>3. EarlyIn(replies) \subseteq 1..n
  BY DEF EarlyIn
<1>4. IsFiniteSet(EarlyIn(replies)) /\ Cardinality(EarlyIn(replies)) <= n
  BY <1>2, <1>3, FS_Subset
<1>5. Cardinality(EarlyIn(replies)) \in Nat
  BY <1>4, FS_CardinalityType
<1>6. CASE reply.kind = "interim"
  <2>1. EarlyIn(more) = EarlyIn(replies) \cup {n + 1} /\ n + 1 \notin EarlyIn(replies)
    BY <1>1, <1>6 DEF EarlyIn
  <2>2. Cardinality(EarlyIn(more)) = Cardinality(EarlyIn(replies)) + 1
    BY <1>4, <2>1, FS_AddElement
  <2> QED BY <1>4, <1>5, <1>6, <2>2 DEF Counted
<1>7. CASE reply.kind # "interim"
  <2>1. EarlyIn(more) = EarlyIn(replies)
    BY <1>1, <1>7 DEF EarlyIn
  <2> QED BY <1>4, <1>5, <1>7, <2>1 DEF Counted
<1> QED BY <1>6, <1>7

LEMMA DoneFacts ==
  ASSUME Before
  PROVE  Counted(delivered) \in Nat /\ Done \in Nat /\ Due(answers, Done) \in Int
<1>1. Response(0, "final", TRUE) \in Replies
  BY Responses DEF Kinds
<1>2. delivered \in Seq(Replies) /\ Len(delivered) \in Nat
  BY Counts DEF Before, Lockstep
<1>3. Counted(delivered) \in Nat /\ Counted(delivered) <= Len(delivered)
  BY <1>1, <1>2, CountedOneMore
<1>4. Done \in Nat
  BY <1>2, <1>3 DEF Done
<1>5. answers # <<>> => Last(answers) \in Replies
  BY DEF Last, Before, Lockstep
<1>6. answers # <<>> => Last(answers).to \in Nat /\ Advance(Last(answers)) \in Nat
  BY <1>5 DEF Replies, Advance
<1> QED BY <1>3, <1>4, <1>6 DEF Due

(* One more answer is one more, and the latest.                            *)
LEMMA OneMore ==
  ASSUME NEW replies \in Seq(Replies), NEW reply \in Replies, NEW more,
         more = Append(replies, reply)
  PROVE  /\ more \in Seq(Replies) /\ Len(more) = Len(replies) + 1
         /\ Latest(more) = reply.to
BY DEF Latest, Last

LEMMA OneRefusal ==
  ASSUME NEW replies \in Seq(Replies), NEW i \in Nat, NEW more,
         more = Append(replies, Response(i, "refusal", TRUE))
  PROVE  /\ more \in Seq(Replies) /\ Len(more) = Len(replies) + 1
         /\ Latest(more) = i /\ Counted(more) = Counted(replies)
<1> DEFINE refusal == Response(i, "refusal", TRUE)
<1>1. refusal \in Replies /\ refusal.to = i /\ refusal.kind # "interim"
  <2>1. "refusal" \in Kinds /\ TRUE \in BOOLEAN
    BY DEF Kinds
  <2>2. refusal \in Replies /\ refusal.to = i /\ refusal.kind = "refusal"
    BY <2>1, Responses, Zenon
  <2> HIDE DEF refusal
  <2> QED BY <2>2
<1> HIDE DEF refusal
<1>2. more = Append(replies, refusal)
  BY DEF refusal
<1>3. Counted(more) = Counted(replies)
  BY <1>1, <1>2, CountedOneMore
<1>4. /\ more \in Seq(Replies) /\ Len(more) = Len(replies) + 1
      /\ Latest(more) = refusal.to
  BY <1>1, <1>2, OneMore
<1> QED BY <1>1, <1>3, <1>4, Zenon

(* A response to the request that is due goes on from those on their way.  *)
LEMMA ChainGrows ==
  ASSUME NEW replies \in Seq(Replies), NEW done \in Nat, Chained(replies, done),
         NEW reply \in Replies, reply.to = Due(replies, done), NEW more,
         more = Append(replies, reply)
  PROVE  /\ more \in Seq(Replies) /\ Chained(more, done)
         /\ Due(more, done) = reply.to + Advance(reply)
<1> DEFINE n == Len(replies)
<1>1. /\ n \in Nat /\ more \in Seq(Replies) /\ Len(more) = n + 1
      /\ more[n + 1] = reply /\ more # <<>> /\ Last(more) = reply
      /\ \A k \in 1..n : more[k] = replies[k]
      /\ replies = <<>> <=> n = 0
  BY DEF Last
<1>2. more[1].to = done + 1
  BY <1>1 DEF Chained, Due
<1>3. \A k \in 1..(Len(more) - 1) : more[k + 1].to = more[k].to + Advance(more[k])
  <2> TAKE k \in 1..(Len(more) - 1)
  <2>1. CASE k < n
    <3>1. k \in 1..(n - 1) /\ k \in 1..n /\ k + 1 \in 1..n
      BY <1>1, <2>1
    <3> QED BY <1>1, <3>1 DEF Chained
  <2>2. CASE k = n
    <3>1. k \in 1..n /\ replies # <<>> /\ more[k] = Last(replies) /\ more[k + 1] = reply
      BY <1>1, <2>2 DEF Last
    <3> QED BY <3>1 DEF Due
  <2> QED BY <1>1, <2>1, <2>2
<1> QED BY <1>1, <1>2, <1>3 DEF Chained, Due

(* Those behind the first go on from it.                                   *)
LEMMA ChainShrinks ==
  ASSUME NEW replies \in Seq(Replies), replies # <<>>, NEW done \in Nat,
         Chained(replies, done),
         NEW rest \in Seq(Replies), Len(rest) = Len(replies) - 1,
         \A k \in 1..Len(rest) : rest[k] = replies[k + 1]
  PROVE  /\ Chained(rest, done + Advance(replies[1]))
         /\ Due(rest, done + Advance(replies[1])) = Due(replies, done)
<1>1. /\ Len(replies) \in Nat \ {0} /\ Len(rest) \in Nat
      /\ rest = <<>> <=> Len(rest) = 0
      /\ Advance(replies[1]) \in Nat /\ replies[1].to = done + 1
  BY DEF Advance, Chained
<1>2. CASE rest = <<>>
  <2>1. Len(rest) = 0 /\ Len(replies) = 1
    BY <1>1, <1>2
  <2>2. Last(replies) = replies[1]
    BY <2>1 DEF Last
  <2>3. 1..(Len(rest) - 1) = {}
    BY <2>1
  <2>4. Chained(rest, done + Advance(replies[1]))
    BY <1>2, <2>3 DEF Chained
  <2> QED BY <1>1, <1>2, <2>2, <2>4 DEF Due
<1>3. CASE rest # <<>>
  <2>1. /\ 1 \in 1..Len(rest) /\ 1 \in 1..(Len(replies) - 1)
        /\ Len(rest) \in 1..Len(rest) /\ Last(rest) = Last(replies)
    BY <1>1, <1>3 DEF Last
  <2>2. rest[1].to = done + Advance(replies[1]) + 1
    BY <1>1, <2>1 DEF Chained
  <2>3. \A k \in 1..(Len(rest) - 1) : rest[k + 1].to = rest[k].to + Advance(rest[k])
    <3> TAKE k \in 1..(Len(rest) - 1)
    <3>1. /\ k \in 1..Len(rest) /\ k + 1 \in 1..Len(rest)
          /\ k + 1 \in 1..(Len(replies) - 1)
      BY <1>1
    <3>2. rest[k] = replies[k + 1] /\ rest[k + 1] = replies[k + 1 + 1]
      BY <3>1
    <3>3. replies[k + 1 + 1].to = replies[k + 1].to + Advance(replies[k + 1])
      BY <3>1 DEF Chained
    <3> QED BY <3>2, <3>3
  <2> QED BY <1>3, <2>1, <2>2, <2>3 DEF Chained, Due
<1> QED BY <1>2, <1>3

LEMMA TwoMore ==
  ASSUME NEW S, NEW replies \in Seq(S), NEW a \in S, NEW b \in S
  PROVE  replies \o <<a, b>> = Append(Append(replies, a), b)
<1> DEFINE two == <<a, b>>
           left == replies \o two
           right == Append(Append(replies, a), b)
<1>1. two \in Seq(S) /\ Len(two) = 2 /\ two[1] = a /\ two[2] = b
  OBVIOUS
<1>2. /\ right \in Seq(S) /\ Len(right) = Len(replies) + 2
      /\ \A i \in 1..Len(replies) : right[i] = replies[i]
      /\ right[Len(replies) + 1] = a /\ right[Len(replies) + 2] = b
  OBVIOUS
<1> HIDE DEF two, right
<1>3. /\ left \in Seq(S) /\ Len(left) = Len(replies) + Len(two)
      /\ \A i \in 1..(Len(replies) + Len(two)) :
           left[i] = IF i <= Len(replies) THEN replies[i] ELSE two[i - Len(replies)]
  BY <1>1, ConcatProperties
<1> HIDE DEF left
<1>4. \A i \in 1..Len(left) : left[i] = right[i]
  <2> TAKE i \in 1..Len(left)
  <2>1. Len(replies) \in Nat
    OBVIOUS
  <2>2. i <= Len(replies) \/ i = Len(replies) + 1 \/ i = Len(replies) + 2
    BY <1>1, <1>3, <2>1
  <2> QED BY <1>1, <1>2, <1>3, <2>1, <2>2
<1>5. left = right
  BY <1>1, <1>2, <1>3, <1>4, SeqEqual
<1> QED BY <1>5 DEF left, right, two

-----------------------------------------------------------------------------
(* How many were written, and whether the one in hand may be written again.*)
LEMMA WrittenFacts ==
  ASSUME Before, pc # "closed"
  PROVE  IF mode = "plain" THEN Written = IF asked = <<>> THEN 0 ELSE 1
                           ELSE Written = Len(asked)
<1>1. /\ Len(asked) \in Nat /\ asked \in Seq(Nat)
      /\ \A n \in 1..Len(asked) : asked[n] \in 1..current
  BY Counts
<1>2. CASE asked = <<>>
  <2>1. asked = <<>> => Len(asked) = 0
    OBVIOUS
  <2> QED BY <1>2, <2>1 DEF Written
<1>3. CASE asked # <<>>
  <2>1. Len(asked) \in 1..Len(asked) /\ Written = asked[Len(asked)]
    BY <1>1, <1>3 DEF Written, Last
  <2>2. CASE mode = "plain"
    <3>1. current = 1
      BY <2>2 DEF Before, Lockstep, Single
    <3> QED BY <1>1, <1>3, <2>1, <2>2, <3>1
  <2>3. CASE mode # "plain"
    BY <2>1, <2>3 DEF Before, Lockstep, Flow
  <2> QED BY <2>2, <2>3
<1> QED BY <1>2, <1>3

(* A step that reads, passes and answers nothing, and leaves the           *)
(* connection as it was or closes it.                                      *)
LEMMA NoTurn ==
  ASSUME UNCHANGED <<current, asked, delivered>>, Repeatable' = Repeatable,
         pc' = "closed" \/ (pc # "closed" /\ pc' # "closed")
  PROVE  Turn
<1>1. Written' = Written /\ Early' = Early
  BY DEF Written, Early
<1>2. CASE pc = "closed" \/ pc' # "closed"
  BY <1>1, <1>2 DEF Turn, Turns!vars
<1>3. CASE pc # "closed" /\ pc' = "closed"
  <2>1. Turns!Close
    BY <1>1, <1>3 DEF Turns!Close
  <2> QED BY <2>1 DEF Turn, Turns!Next
<1> QED BY <1>2, <1>3

(* What the client has sent does not change.                               *)
LEMMA SameRequest ==
  ASSUME Before, UNCHANGED <<mode, current>>, sent' = sent \/ Send
  PROVE  Repeatable' = Repeatable
<1>1. CASE sent' = sent
  BY <1>1 DEF Repeatable, Request, Replayable
<1>2. CASE Send
  <2>1. PICK r \in Requests : sent' = Append(sent, r)
    BY <1>2 DEF Send
  <2>2. current # 0 => sent'[current] = sent[current]
    BY <2>1, Counts DEF Before, ExchangeInv, Ordered
  <2> QED BY <2>2 DEF Repeatable, Request, Replayable
<1> QED BY <1>1, <1>2

(* An origin answers what it owes in order.                                *)
LEMMA AnswerTurn ==
  ASSUME Before, Answer
  PROVE  Lockstep' /\ Turn
<1>1. /\ UNCHANGED <<pc, mode, sent, current, asked, delivered>>
      /\ owed # <<>> /\ owed' = Tail(owed)
  BY DEF Answer, client
<1>2. Turn
  BY <1>1, NoTurn, SameRequest DEF Turn, Turns!vars, Written, Early
<1>3. /\ owed \in Seq(Nat) /\ Len(owed) \in Nat \ {0} /\ Head(owed) = owed[1]
      /\ owed' \in Seq(Nat) /\ Len(owed') = Len(owed) - 1
      /\ \A k \in 1..Len(owed') : owed'[k] = owed[k + 1]
      /\ answers \in Seq(Replies) /\ owed[1] \in Nat
  BY <1>1 DEF Before, Lockstep
<1>4. PICK interim \in Replies, reply \in Replies :
        /\ interim.to = owed[1] /\ interim.kind = "interim"
        /\ reply.to = owed[1] /\ reply.kind # "interim"
        /\ \/ answers' = Append(answers, reply)
           \/ answers' = Append(Append(answers, interim), reply)
  <2>1. PICK kind \in {"final", "switch"}, close \in BOOLEAN :
          \/ answers' = answers \o <<Response(owed[1], kind, close)>>
          \/ answers' = answers \o <<Response(owed[1], "interim", FALSE),
                                     Response(owed[1], kind, close)>>
    BY <1>3 DEF Answer
  <2> DEFINE reply == Response(owed[1], kind, close)
             interim == Response(owed[1], "interim", FALSE)
  <2>2. /\ interim \in Replies /\ interim.to = owed[1] /\ interim.kind = "interim"
        /\ reply \in Replies /\ reply.to = owed[1] /\ reply.kind = kind
    <3>1. /\ kind \in Kinds /\ "interim" \in Kinds /\ owed[1] \in Nat
          /\ close \in BOOLEAN /\ FALSE \in BOOLEAN
      BY <1>3 DEF Kinds
    <3>2. interim \in Replies /\ interim.to = owed[1] /\ interim.kind = "interim"
      BY <3>1, Responses, Zenon
    <3>3. reply \in Replies /\ reply.to = owed[1] /\ reply.kind = kind
      BY <3>1, Responses
    <3> QED BY <3>2, <3>3
  <2>3. reply.kind # "interim"
    BY <2>2
  <2> HIDE DEF reply, interim
  <2>4. answers' = answers \o <<reply>> \/ answers' = answers \o <<interim, reply>>
    BY <2>1 DEF reply, interim
  <2>5. answers \o <<reply>> = Append(answers, reply)
    BY <1>3, <2>2
  <2>6. answers \o <<interim, reply>> = Append(Append(answers, interim), reply)
    BY <1>3, <2>2, TwoMore
  <2> QED BY <2>2, <2>3, <2>4, <2>5, <2>6
<1> DEFINE first == Append(answers, interim)
<1>5. first \in Seq(Replies) /\ answers' \in Seq(Replies)
  <2>1. first \in Seq(Replies) /\ Append(answers, reply) \in Seq(Replies)
    BY <1>3
  <2>2. Append(first, reply) \in Seq(Replies)
    <3> HIDE DEF first
    <3> QED BY <2>1
  <2> QED BY <1>4, <2>1, <2>2
<1>6. CASE mode = "plain" /\ pc # "closed"
  <2>1. Single /\ owed[1] = 1
    BY <1>3, <1>6 DEF Before, Lockstep, Single
  <2>2. \A k \in 1..Len(owed') : owed'[k] = 1
    <3> TAKE k \in 1..Len(owed')
    <3>1. k + 1 \in 1..Len(owed)
      BY <1>3
    <3> QED BY <1>3, <2>1, <3>1 DEF Single
  <2>3. \A n \in 1..Len(first) : first[n].to = 1
    BY <1>3, <1>4, <2>1 DEF Single
  <2>4. \A n \in 1..Len(answers') : answers'[n].to = 1
    <3>1. CASE answers' = Append(answers, reply)
      BY <1>3, <1>4, <2>1, <3>1 DEF Single
    <3>2. CASE answers' = Append(first, reply)
      <4> HIDE DEF first
      <4> QED BY <1>4, <1>5, <2>1, <2>3, <3>2
    <3> QED BY <1>4, <3>1, <3>2
  <2>5. Single'
    BY <1>1, <2>1, <2>2, <2>4 DEF Single, Underway, Replayable, Request
  <2>6. owed # <<>> => pc # "accepted"
    BY DEF Before, Lockstep
  <2> QED BY <1>1, <1>2, <1>3, <1>5, <1>6, <2>5, <2>6 DEF Before, Lockstep, AtRest, Underway
<1>7. CASE mode # "plain" /\ pc # "closed"
  <2>1. Flow /\ Done \in Nat /\ Done' = Done
    BY <1>1, <1>7, DoneFacts DEF Before, Lockstep, Done, Counted, EarlyIn
  <2>2. 1 \in 1..Len(owed) /\ owed[1] = Due(answers, Done)
    <3>1. 1 \in 1..Len(owed)
      BY <1>3
    <3>2. owed[1] + 1 = Due(answers, Done) + 1
      BY <2>1, <3>1 DEF Flow
    <3>3. Due(answers, Done) \in Int
      BY DoneFacts
    <3> QED BY <1>3, <3>1, <3>2, <3>3
  <2>3. Advance(interim) = 0 /\ Advance(reply) = 1
    BY <1>4 DEF Advance
  <2>4. Chained(answers', Done) /\ Due(answers', Done) = owed[1] + 1
    <3>3. Chained(answers, Done) /\ answers \in Seq(Replies) /\ Done \in Nat
      BY <1>3, <2>1 DEF Flow
    <3>1. CASE answers' = Append(answers, reply)
      <4>1. reply.to = Due(answers, Done)
        BY <1>4, <2>2
      <4>2. Chained(answers', Done) /\ Due(answers', Done) = reply.to + Advance(reply)
        BY <3>1, <3>3, <4>1, ChainGrows, Zenon
      <4> QED BY <1>4, <2>3, <4>2
    <3>2. CASE answers' = Append(first, reply)
      <4>1. interim.to = Due(answers, Done)
        BY <1>4, <2>2
      <4>2. Chained(first, Done) /\ Due(first, Done) = interim.to + Advance(interim)
        BY <3>3, <4>1, ChainGrows, Zenon
      <4>3. reply.to = Due(first, Done)
        BY <1>3, <1>4, <2>3, <4>2
      <4> HIDE DEF first
      <4>4. Chained(answers', Done) /\ Due(answers', Done) = reply.to + Advance(reply)
        BY <1>5, <3>2, <3>3, <4>2, <4>3, ChainGrows, Zenon
      <4> QED BY <1>4, <2>3, <4>4
    <3> QED BY <1>4, <3>1, <3>2
  <2>5. \A k \in 1..Len(owed') : owed'[k] + 1 = Due(answers', Done) + k
    <3> TAKE k \in 1..Len(owed')
    <3>1. k + 1 \in 1..Len(owed) /\ k \in Nat
      BY <1>3
    <3>2. owed[k + 1] + 1 = Due(answers, Done) + (k + 1)
      BY <2>1, <3>1 DEF Flow
    <3> QED BY <1>3, <2>2, <2>4, <3>1, <3>2
  <2>6. Due(answers', Done) + Len(owed') = Len(asked) + 1
    <3>1. Due(answers, Done) + Len(owed) = Len(asked) + 1
      BY <2>1 DEF Flow
    <3> QED BY <1>3, <2>2, <2>4, <3>1
  <2>7. Flow'
    BY <1>1, <2>1, <2>4, <2>5, <2>6 DEF Flow, Underway
  <2>8. owed # <<>> => pc # "accepted"
    BY DEF Before, Lockstep
  <2> QED BY <1>1, <1>2, <1>3, <1>5, <1>7, <2>7, <2>8 DEF Before, Lockstep, AtRest, Underway
<1>8. CASE pc = "closed"
  BY <1>1, <1>2, <1>3, <1>5, <1>8 DEF Before, Lockstep
<1> QED BY <1>6, <1>7, <1>8

(* The peers otherwise, the tunnel up, or the connection at its end.       *)
LEMMA QuietTurn ==
  ASSUME Before,
         \/ Send \/ \E p \in {"client", "origin"} : Leave(p)
         \/ Connect \/ Handshake \/ EndOfRequests \/ EndTunnel
  PROVE  Lockstep' /\ Turn
<1>1. /\ UNCHANGED <<current, asked, delivered, owed, answers>>
      /\ sent' = sent \/ Send
      /\ \/ UNCHANGED <<pc, mode>>
         \/ /\ pc = "accepted" /\ pc' \in {"handshake", "closed"} /\ mode' = "mitm"
            /\ sent' = sent
         \/ pc = "handshake" /\ pc' \in {"waiting", "closed"} /\ mode' = mode
         \/ pc \in {"waiting", "accepted", "tunnel"} /\ pc' = "closed" /\ mode' = mode
  BY DEF Send, Leave, Connect, Handshake, EndOfRequests, EndTunnel, Goto, client, origin
<1>2. Repeatable' = Repeatable
  <2>1. CASE mode' = mode
    BY <1>1, <2>1, SameRequest
  <2>2. CASE mode' # mode
    <3>1. current = 0 /\ current' = 0
      BY <1>1, <2>2 DEF Before, Lockstep
    <3> QED BY <3>1 DEF Repeatable
  <2> QED BY <2>1, <2>2
<1>3. Turn
  <2>1. CASE pc' = pc
    BY <1>1, <1>2, <2>1 DEF Turn, Turns!vars, Written, Early
  <2>2. CASE pc' # pc
    BY <1>1, <1>2, <2>2, NoTurn
  <2> QED BY <2>1, <2>2
<1>4. delivered' \in Seq(Replies) /\ answers' \in Seq(Replies) /\ owed' \in Seq(Nat)
  BY <1>1 DEF Before, Lockstep
<1>5. CASE pc' = "closed"
  BY <1>3, <1>4, <1>5 DEF Lockstep
<1>6. CASE pc' # "closed" /\ mode' = "plain"
  <2>1. mode = "plain" /\ pc' = pc /\ Single
    BY <1>1, <1>6 DEF Before, Lockstep
  <2>2. Replayable(Request) => Replayable(Request)'
    BY <1>2, <1>6, <2>1 DEF Repeatable, Single
  <2>3. Single'
    BY <1>1, <2>1, <2>2 DEF Single, Underway
  <2> QED BY <1>1, <1>3, <1>4, <1>6, <2>1, <2>3 DEF Before, Lockstep, AtRest, Underway
<1>7. CASE pc' # "closed" /\ mode' # "plain"
  <2>1. mode # "plain" /\ Flow /\ (Underway' <=> Underway) /\ (AtRest' <=> AtRest)
    BY <1>1, <1>7 DEF Before, Lockstep, Underway, AtRest
  <2>2. Done' = Done
    BY <1>1 DEF Done, Counted, EarlyIn
  <2>3. Flow'
    BY <1>1, <2>1, <2>2 DEF Flow
  <2> QED BY <1>1, <1>3, <1>4, <1>7, <2>1, <2>3 DEF Before, Lockstep, AtRest, Underway
<1> QED BY <1>3, <1>5, <1>6, <1>7

(* Read and let through, or read and refused.                              *)
LEMMA ReadTurn ==
  ASSUME Before, ReadPlain \/ ReadRequest
  PROVE  Lockstep' /\ Turn
<1>1. /\ pc \in {"accepted", "waiting"} /\ stream # <<>> /\ ReadHead
      /\ UNCHANGED <<sent, asked, owed, answers>>
      /\ pc = "accepted" => mode' = "plain"
      /\ pc = "waiting" => mode' = mode
      /\ \/ pc' \in {"resolving", "dialing", "forwarding"} /\ delivered' = delivered
         \/ /\ pc' = "closed"
            /\ delivered' = Append(delivered, Response(current', "refusal", TRUE))
  BY DEF ReadPlain, ReadRequest, Proceed, Refuse, Deliver, Goto, origin
<1>2. current' = current + 1 /\ current \in Nat
  BY <1>1, ShapeRead, Counts DEF Before
<1>3. /\ Len(delivered) = current /\ delivered \in Seq(Replies)
      /\ pc # "closed" /\ mode # "plain" /\ Flow
      /\ pc = "accepted" => owed = <<>> /\ answers = <<>> /\ current = 0
      /\ answers \in Seq(Replies) /\ owed \in Seq(Nat)
  BY <1>1 DEF Before, Lockstep, AtRest
<1>4. Len(asked) = current /\ Len(asked) \in Nat
  BY <1>1, <1>2, <1>3, Counts DEF Flow, Underway
<1>5. Written' = Written /\ asked' = asked
  BY <1>1 DEF Written
<1>6. CASE pc' # "closed"
  <2>1. Done' = Done /\ Early' = Early /\ Underway' /\ ~Underway
    BY <1>1, <1>6 DEF Done, Counted, EarlyIn, Early, Underway
  <2>2. ASSUME pc = "accepted" PROVE Lockstep'
    <3>1. current' = 1 /\ Len(asked) = 0
      BY <1>2, <1>3, <1>4, <2>2
    <3>2. Len(owed') = 0 /\ Len(answers') = 0 /\ asked' = <<>>
      BY <1>1, <1>3, <1>5, <2>2, <3>1, Counts
    <3>3. Single'
      <4>1. pc' # "answering" /\ asked' = <<>> /\ current' = 1
        BY <2>1, <3>1, <3>2 DEF Underway
      <4>2. 1..Len(owed') = {} /\ 1..Len(answers') = {}
        BY <3>2
      <4> QED BY <4>1, <4>2 DEF Single
    <3> QED BY <1>1, <1>2, <1>3, <1>6, <2>2, <3>3 DEF Lockstep, AtRest, Underway
  <2>3. ASSUME pc = "waiting" PROVE Lockstep'
    <3>1. Flow'
      BY <1>1, <1>2, <1>3, <1>4, <2>1 DEF Flow
    <3> QED BY <1>1, <1>2, <1>3, <1>6, <2>3, <3>1 DEF Lockstep, AtRest, Underway
  <2>4. Lockstep'
    BY <1>1, <2>2, <2>3
  <2>5. Repeatable' \in BOOLEAN
    BY DEF Repeatable
  <2>6. Turns!Take
    BY <1>1, <1>2, <1>3, <1>5, <1>6, <2>1, <2>5 DEF Turns!Take, Turns!Idle
  <2> QED BY <2>4, <2>6 DEF Turn, Turns!Next
<1>7. CASE pc' = "closed"
  <2>1. /\ delivered' \in Seq(Replies) /\ Len(delivered') = current + 1
        /\ Latest(delivered') = current + 1 /\ Counted(delivered') = Counted(delivered)
    <3>1. current' \in Nat /\ current' = current + 1
      BY <1>2
    <3>2. delivered' = Append(delivered, Response(current', "refusal", TRUE))
      BY <1>1, <1>7
    <3> QED BY <1>3, <3>1, <3>2, OneRefusal
  <2>2. Lockstep'
    BY <1>1, <1>3, <1>7, <2>1 DEF Lockstep
  <2>3. Repeatable' \in BOOLEAN
    BY DEF Repeatable
  <2>4. Cardinality(Early)' = Cardinality(Early)
    BY <2>1 DEF Counted, EarlyIn, Early
  <2>5. Turns!TurnAway
    BY <1>2, <1>3, <1>5, <1>7, <2>1, <2>3, <2>4
       DEF Turns!TurnAway, Turns!Idle, Turns!AnswerTo, Latest
  <2> QED BY <2>2, <2>5 DEF Turn, Turns!Next
<1> QED BY <1>6, <1>7

(* The request in hand is refused, and the connection closed with it.      *)
LEMMA GivenUp ==
  ASSUME Before, pc # "closed", Len(delivered) + 1 = current,
         UNCHANGED <<mode, sent, current, asked, owed, answers>>, pc' = "closed",
         delivered' = Append(delivered, Response(current, "refusal", TRUE))
  PROVE  Lockstep' /\ Turn
<1>1. /\ delivered' \in Seq(Replies) /\ Len(delivered') = Len(delivered) + 1
      /\ Latest(delivered') = current /\ Counted(delivered') = Counted(delivered)
  BY OneRefusal, Counts DEF Before, Lockstep
<1>2. Lockstep'
  BY <1>1 DEF Before, Lockstep
<1>3. Cardinality(Early)' = Cardinality(Early) /\ Written' = Written
  BY <1>1 DEF Counted, EarlyIn, Early, Written
<1>4. Repeatable' = Repeatable
  BY SameRequest
<1>5. Turns!GiveUp
  BY <1>1, <1>3, <1>4 DEF Turns!GiveUp, Turns!InHand, Turns!AnswerTo, Latest
<1> QED BY <1>2, <1>5 DEF Turn, Turns!Next

LEMMA OneAppended ==
  ASSUME NEW s \in Seq(Nat), NEW i \in Nat
  PROVE  s \o <<i>> = Append(s, i)
OBVIOUS

LEMMA UpstreamTurn ==
  ASSUME Before, Resolve \/ Dial
  PROVE  Lockstep' /\ Turn
<1>1. /\ Underway /\ pc # "closed"
      /\ UNCHANGED <<mode, sent, current, asked, owed, answers>>
      /\ \/ pc' \in {"dialing", "forwarding"} /\ delivered' = delivered
         \/ /\ pc' = "closed"
            /\ delivered' = Append(delivered, Response(current, "refusal", TRUE))
  BY DEF Resolve, Dial, Connected, Refuse, Deliver, Goto, client, origin, Underway
<1>2. Len(delivered) + 1 = current
  BY <1>1 DEF Before, Lockstep, Underway, AtRest
<1>3. CASE pc' # "closed"
  <2>1. Turn
    BY <1>1, <1>3, SameRequest, NoTurn
  <2>2. Underway' /\ Done' = Done
    BY <1>1, <1>3 DEF Underway, Done, Counted, EarlyIn
  <2>3. mode = "plain" => Single'
    BY <1>1, <2>2 DEF Before, Lockstep, Single, Underway, Replayable, Request
  <2>4. mode # "plain" => Flow'
    BY <1>1, <2>2 DEF Before, Lockstep, Flow
  <2> QED BY <1>1, <1>3, <2>1, <2>3, <2>4 DEF Before, Lockstep, AtRest, Underway
<1>4. CASE pc' = "closed"
  BY <1>1, <1>2, <1>4, GivenUp
<1> QED BY <1>3, <1>4

(* The end of a connection whose client is not told.                       *)
LEMMA ClosedTurn ==
  ASSUME Before, pc # "closed", pc' = "closed",
         UNCHANGED <<mode, sent, current, asked, owed, answers, delivered>>
  PROVE  Lockstep' /\ Turn
<1>1. Turn
  BY SameRequest, NoTurn
<1> QED BY <1>1 DEF Before, Lockstep

LEMMA ForwardTurn ==
  ASSUME Before, Forward
  PROVE  Lockstep' /\ Turn
<1>1. /\ pc = "forwarding" /\ mode # "plain"
      /\ UNCHANGED <<mode, sent, current, answers, delivered>>
      /\ \/ /\ pc' = "answering" /\ asked' = asked \o <<current>>
            /\ owed' = owed \o <<current>>
         \/ pc' = "closed" /\ UNCHANGED <<asked, owed>>
  BY DEF Forward, Write, Goto
<1>2. /\ Flow /\ Underway /\ Len(delivered) + 1 = current
      /\ Len(asked) + 1 = current /\ current \in Nat
      /\ asked \in Seq(Nat) /\ owed \in Seq(Nat) /\ answers \in Seq(Replies)
      /\ delivered \in Seq(Replies) /\ Written = Len(asked)
      /\ Len(asked) \in Nat /\ Len(owed) \in Nat
  BY <1>1, Counts, WrittenFacts DEF Before, Lockstep, Flow, Underway, AtRest
<1>3. CASE pc' = "answering"
  <2>1. /\ asked' \in Seq(Nat) /\ Len(asked') = Len(asked) + 1
        /\ asked' # <<>> /\ Last(asked') = current
        /\ \A n \in 1..Len(asked) : asked'[n] = asked[n]
        /\ asked'[Len(asked) + 1] = current
    <3>1. asked' = Append(asked, current)
      BY <1>1, <1>2, <1>3, OneAppended
    <3> QED BY <1>2, <3>1 DEF Last
  <2>2. /\ owed' \in Seq(Nat) /\ Len(owed') = Len(owed) + 1
        /\ \A n \in 1..Len(owed) : owed'[n] = owed[n]
        /\ owed'[Len(owed) + 1] = current
    <3>1. owed' = Append(owed, current)
      BY <1>1, <1>2, <1>3, OneAppended
    <3> QED BY <1>2, <3>1
  <2>3. Done' = Done /\ ~Underway' /\ ~AtRest'
    BY <1>1, <1>3 DEF Underway, AtRest, Done, Counted, EarlyIn
  <2>4. \A n \in 1..Len(asked') : asked'[n] = n
    <3> TAKE n \in 1..Len(asked')
    <3>1. n \in 1..Len(asked) \/ n = Len(asked) + 1
      BY <1>2, <2>1
    <3> QED BY <1>2, <2>1, <3>1 DEF Flow
  <2>5. Due(answers, Done) + Len(owed) = current
    BY <1>2 DEF Flow
  <2>6. \A k \in 1..Len(owed') : owed'[k] + 1 = Due(answers, Done) + k
    <3> TAKE k \in 1..Len(owed')
    <3>1. CASE k \in 1..Len(owed)
      BY <1>2, <2>2, <3>1 DEF Flow
    <3>2. CASE k = Len(owed) + 1
      <4>1. Due(answers, Done) \in Int
        BY DoneFacts
      <4> QED BY <1>2, <2>2, <2>5, <3>2, <4>1
    <3> QED BY <1>2, <2>2, <3>1, <3>2
  <2>7. Flow'
    <3>1. Chained(answers', Done') /\ Due(answers', Done') = Due(answers, Done)
      BY <1>1, <1>2, <2>3 DEF Flow
    <3>2. Len(asked') = current /\ Due(answers, Done) + Len(owed') = Len(asked') + 1
      <4>1. Due(answers, Done) \in Int
        BY DoneFacts
      <4> QED BY <1>2, <2>1, <2>2, <2>5, <4>1
    <3> QED BY <1>1, <1>2, <2>3, <2>4, <2>6, <3>1, <3>2 DEF Flow
  <2>8. Lockstep'
    BY <1>1, <1>2, <1>3, <2>2, <2>3, <2>7 DEF Lockstep
  <2>9. /\ Written' = current /\ Early' = Early
        /\ Len(asked') - Written' = 0 /\ Len(asked) - Written = 0
    BY <1>1, <1>2, <2>1 DEF Written, Early
  <2>10. Repeatable' = Repeatable
    BY <1>1, SameRequest
  <2>11. Turns!Pass
    BY <1>1, <1>2, <1>3, <2>9, <2>10 DEF Turns!Pass, Turns!InHand
  <2> QED BY <2>8, <2>11 DEF Turn, Turns!Next
<1>4. CASE pc' = "closed"
  BY <1>1, <1>4, ClosedTurn
<1> QED BY <1>1, <1>3, <1>4

(* The transport writes the request once, or once more.                    *)
LEMMA RoundTripTurn ==
  ASSUME Before, RoundTrip
  PROVE  Lockstep' /\ Turn
<1>1. /\ pc = "forwarding" /\ mode = "plain"
      /\ UNCHANGED <<mode, sent, current, answers>>
      /\ \/ /\ pc' = "answering" /\ asked' = asked \o <<current>>
            /\ owed' = owed \o <<current>> /\ delivered' = delivered
         \/ /\ pc' = "closed" /\ UNCHANGED <<asked, owed>>
            /\ delivered' = Append(delivered, Response(current, "refusal", TRUE))
  BY DEF RoundTrip, Write, Refuse, Deliver, Goto
<1>2. /\ Single /\ current = 1 /\ Underway /\ Len(delivered) + 1 = current
      /\ asked \in Seq(Nat) /\ owed \in Seq(Nat) /\ answers \in Seq(Replies)
      /\ delivered \in Seq(Replies) /\ Len(asked) \in Nat /\ Len(owed) \in Nat
      /\ Written = IF asked = <<>> THEN 0 ELSE 1
  BY <1>1, Counts, WrittenFacts DEF Before, Lockstep, Single, Underway, AtRest
<1>3. CASE pc' = "answering"
  <2>1. /\ Len(asked') = Len(asked) + 1 /\ asked' # <<>> /\ Last(asked') = 1
        /\ owed' \in Seq(Nat) /\ \A k \in 1..Len(owed') : owed'[k] = 1
    <3>1. /\ asked' \in Seq(Nat) /\ Len(asked') = Len(asked) + 1
          /\ asked'[Len(asked) + 1] = 1 /\ asked' # <<>>
      <4>1. asked' = Append(asked, current) /\ current \in Nat
        BY <1>1, <1>2, <1>3, OneAppended
      <4>2. /\ asked' \in Seq(Nat) /\ Len(asked') = Len(asked) + 1
            /\ asked'[Len(asked) + 1] = current
        BY <1>2, <4>1
      <4>3. asked' = <<>> => Len(asked') = 0
        OBVIOUS
      <4> QED BY <1>2, <4>2, <4>3
    <3>2. /\ owed' \in Seq(Nat) /\ Len(owed') = Len(owed) + 1
          /\ \A n \in 1..Len(owed) : owed'[n] = owed[n]
          /\ owed'[Len(owed) + 1] = 1
      <4>1. owed' = Append(owed, current) /\ current \in Nat
        BY <1>1, <1>2, <1>3, OneAppended
      <4> QED BY <1>2, <4>1
    <3>3. \A k \in 1..Len(owed') : owed'[k] = 1
      <4> TAKE k \in 1..Len(owed')
      <4>1. k \in 1..Len(owed) \/ k = Len(owed) + 1
        BY <1>2, <3>2
      <4> QED BY <1>2, <3>2, <4>1 DEF Single
    <3> QED BY <3>1, <3>2, <3>3 DEF Last
  <2>2. ~Underway' /\ ~AtRest'
    BY <1>1, <1>3 DEF Underway, AtRest
  <2>3. Single'
    BY <1>1, <1>2, <2>1, <2>2 DEF Single
  <2>4. Lockstep'
    BY <1>1, <1>2, <1>3, <2>1, <2>2, <2>3 DEF Lockstep
  <2>5. Written' = 1 /\ Early' = Early
    BY <1>1, <1>3, <2>1 DEF Written, Early
  <2>6. Repeatable' = Repeatable
    BY <1>1, SameRequest
  <2>7. CASE asked = <<>>
    <3>1. Written = 0 /\ Len(asked') - Written' = Len(asked) - Written
      <4>1. asked = <<>> => Len(asked) = 0
        OBVIOUS
      <4> QED BY <1>2, <2>1, <2>5, <2>7, <4>1
    <3>2. Turns!Pass
      BY <1>1, <1>2, <1>3, <2>5, <2>6, <3>1 DEF Turns!Pass, Turns!InHand
    <3> QED BY <2>4, <3>2 DEF Turn, Turns!Next
  <2>8. CASE asked # <<>>
    <3>1. Written = 1 /\ Repeatable
      BY <1>1, <1>2, <2>8 DEF Single, Repeatable
    <3>2. Len(asked') - Written' = Len(asked) - Written + 1
      BY <1>2, <2>1, <2>5, <3>1
    <3>3. Turns!Repeat
      BY <1>1, <1>2, <1>3, <2>5, <2>6, <3>1, <3>2 DEF Turns!Repeat, Turns!InHand
    <3> QED BY <2>4, <3>3 DEF Turn, Turns!Next
  <2> QED BY <2>7, <2>8
<1>4. CASE pc' = "closed"
  BY <1>1, <1>2, <1>4, GivenUp
<1> QED BY <1>1, <1>3, <1>4

(* It goes for another connection only with what bears another writing.    *)
LEMMA RetryTurn ==
  ASSUME Before, Retry
  PROVE  Lockstep' /\ Turn
<1>1. /\ pc' = "dialing" /\ mode = "plain" /\ pc \in {"forwarding", "answering"}
      /\ pc = "answering" => Replayable(Request)
      /\ owed' = <<>> /\ UNCHANGED <<mode, sent, current, asked, answers, delivered>>
  BY DEF Retry, Goto, client
<1>2. Turn
  BY <1>1, SameRequest, NoTurn
<1>3. /\ Single /\ Len(delivered) + 1 = current
      /\ answers \in Seq(Replies) /\ delivered \in Seq(Replies)
  BY <1>1 DEF Before, Lockstep, AtRest
<1>4. asked # <<>> => Replayable(Request)
  BY <1>1, <1>3 DEF Single, Underway
<1>5. Replayable(Request) => Replayable(Request)'
  BY <1>1 DEF Replayable, Request
<1>6. owed' \in Seq(Nat) /\ 1..Len(owed') = {}
  BY <1>1
<1>7. Single'
  BY <1>1, <1>3, <1>4, <1>5, <1>6 DEF Single
<1> QED BY <1>1, <1>2, <1>3, <1>6, <1>7 DEF Lockstep, AtRest, Underway

(* Behind a CONNECT the first response there is is read for the answer,    *)
(* whichever it is; on the plaintext half the first that is not interim.   *)
LEMMA ResponseTurn ==
  ASSUME Before, ReadResponse
  PROVE  Lockstep' /\ Turn
<1>1. PICK n \in Readable :
        /\ \A k \in Readable : n <= k
        /\ delivered' = Append(delivered, answers[n])
        /\ pc' \in {"tunnel", "waiting", "closed"}
        /\ mode = "plain" => pc' # "waiting"
        /\ answers' = SubSeq(answers, n + 1, Len(answers))
  BY DEF ReadResponse, Deliver
<1>2. /\ pc = "answering"
      /\ UNCHANGED <<mode, sent, current, asked, owed>>
      /\ Len(delivered) + 1 = current /\ current \in Nat
      /\ delivered \in Seq(Replies) /\ answers \in Seq(Replies) /\ owed \in Seq(Nat)
      /\ Len(answers) \in Nat /\ n \in 1..Len(answers) /\ answers[n] \in Replies
  BY <1>1, Counts DEF ReadResponse, client, Before, Lockstep, AtRest, Underway, Readable
<1>3. /\ delivered' \in Seq(Replies) /\ Len(delivered') = current
      /\ Latest(delivered') = answers[n].to
      /\ Counted(delivered) \in Nat /\ Counted(delivered) <= Len(delivered)
      /\ Counted(delivered') = IF answers[n].kind = "interim"
                                 THEN Counted(delivered) + 1 ELSE Counted(delivered)
  BY <1>1, <1>2, OneMore, CountedOneMore
<1>4. /\ answers' \in Seq(Replies) /\ Len(answers') = Len(answers) - n
      /\ \A k \in 1..Len(answers') : answers'[k] = answers[k + n]
  BY <1>1, <1>2
<1>5. Written' = Written /\ Repeatable' = Repeatable /\ Len(asked') = Len(asked)
  BY <1>2, SameRequest DEF Written
<1>6. Written = current /\ answers[n].to + Counted(delivered) = current
  <2>1. CASE mode = "plain"
    <3>1. Single /\ asked # <<>>
      BY <1>2, <2>1 DEF Before, Lockstep, Single
    <3>2. current = 1 /\ answers[n].to = 1 /\ Counted(delivered) = 0
      BY <1>2, <1>3, <3>1 DEF Single
    <3> QED BY <1>2, <2>1, <3>1, <3>2, WrittenFacts
  <2>2. CASE mode # "plain"
    <3>1. Flow /\ Len(asked) = current
      BY <1>2, <2>2, Counts DEF Before, Lockstep, Flow, Underway
    <3>2. Written = current
      BY <1>2, <2>2, <3>1, WrittenFacts
    <3>3. n = 1 /\ answers # <<>>
      <4>1. 1 \in Readable
        BY <1>2, <2>2 DEF Readable
      <4> QED BY <1>1, <1>2, <4>1
    <3>4. answers[1].to = Len(delivered) - Counted(delivered) + 1
      BY <3>1, <3>3 DEF Flow, Chained, Done
    <3>5. Len(delivered) \in Nat
      BY Counts
    <3> QED BY <1>2, <1>3, <3>2, <3>3, <3>4, <3>5
  <2> QED BY <2>1, <2>2
<1>7. Lockstep'
  <2>1. CASE pc' = "closed"
    BY <1>2, <1>3, <1>4, <2>1 DEF Lockstep
  <2>2. CASE pc' # "closed"
    <3>1. AtRest' /\ ~Underway /\ ~Underway' /\ pc' # "answering"
          /\ pc' \notin {"accepted", "handshake", "closed"}
      BY <1>1, <1>2, <2>2 DEF AtRest, Underway
    <3>2. CASE mode = "plain"
      <4>1. Single
        BY <1>2, <3>2 DEF Before, Lockstep
      <4>2. \A k \in 1..Len(answers') : answers'[k].to = 1
        <5> TAKE k \in 1..Len(answers')
        <5>1. k + n \in 1..Len(answers) /\ answers'[k] = answers[k + n]
          BY <1>2, <1>4
        <5> QED BY <4>1, <5>1 DEF Single
      <4>3. Single'
        BY <1>2, <3>1, <4>1, <4>2 DEF Single
      <4> QED BY <1>1, <1>2, <1>3, <1>4, <3>1, <3>2, <4>3 DEF Lockstep
    <3>3. CASE mode # "plain"
      <4>1. Flow /\ Len(asked) = current /\ Done \in Nat
        BY <1>2, <3>1, <3>3, Counts, DoneFacts DEF Before, Lockstep, Flow
      <4>2. n = 1 /\ answers # <<>>
        <5>1. 1 \in Readable
          BY <1>2, <3>3 DEF Readable
        <5> QED BY <1>1, <1>2, <5>1
      <4>3. Done' = Done + Advance(answers[1])
        <5>1. Len(delivered) \in Nat /\ Len(delivered') = Len(delivered) + 1
          BY <1>2, <1>3, Counts
        <5> QED BY <1>3, <4>2, <5>1 DEF Done, Advance
      <4>4. Chained(answers', Done') /\ Due(answers', Done') = Due(answers, Done)
        <5>1. Chained(answers, Done)
          BY <4>1 DEF Flow
        <5>2. /\ Len(answers') = Len(answers) - 1
              /\ \A k \in 1..Len(answers') : answers'[k] = answers[k + 1]
          BY <1>4, <4>2
        <5>3. /\ Chained(answers', Done + Advance(answers[1]))
              /\ Due(answers', Done + Advance(answers[1])) = Due(answers, Done)
          BY <1>2, <1>4, <4>1, <4>2, <5>1, <5>2, ChainShrinks
        <5> QED BY <4>3, <5>3
      <4>5. Flow'
        BY <1>2, <3>1, <4>1, <4>4 DEF Flow
      <4> QED BY <1>1, <1>2, <1>3, <1>4, <3>1, <3>3, <4>5 DEF Lockstep
    <3> QED BY <3>2, <3>3
  <2> QED BY <2>1, <2>2
<1>8. Turns!Respond
  <2>1. /\ Cardinality(Early) = Counted(delivered)
        /\ Cardinality(Early)' = Counted(delivered')
    BY DEF Counted, EarlyIn, Early
  <2>2. (pc' # "closed") \in BOOLEAN
    OBVIOUS
  <2>3. /\ Latest(delivered') = current - Counted(delivered)
        /\ Counted(delivered') \in {Counted(delivered), Counted(delivered) + 1}
    <3>1. answers[n].to \in Nat
      BY <1>2 DEF Replies
    <3> QED BY <1>2, <1>3, <1>6, <3>1
  <2>4. Len(delivered') = Len(delivered) + 1 /\ pc # "closed"
    BY <1>2, <1>3
  <2>5. UNCHANGED <<current, asked>> /\ Len(delivered) + 1 = current
    BY <1>2
  <2> QED BY <1>5, <1>6, <2>1, <2>2, <2>3, <2>4, <2>5
          DEF Turns!Respond, Turns!InHand, Turns!AnswerTo, Latest
<1> QED BY <1>7, <1>8 DEF Turn, Turns!Next

LEMMA EndTurn ==
  ASSUME Before, EndOfResponses
  PROVE  Lockstep' /\ Turn
<1>1. /\ pc = "answering" /\ pc' = "closed"
      /\ UNCHANGED <<mode, sent, current, asked, owed, answers>>
      /\ \/ delivered' = delivered
         \/ delivered' = Append(delivered, Response(current, "refusal", TRUE))
  BY DEF EndOfResponses, Deliver, client, origin
<1>2. Len(delivered) + 1 = current
  BY <1>1 DEF Before, Lockstep, AtRest
<1>3. CASE delivered' = delivered
  BY <1>1, <1>3, ClosedTurn
<1>4. CASE delivered' # delivered
  BY <1>1, <1>2, <1>4, GivenUp
<1> QED BY <1>3, <1>4

-----------------------------------------------------------------------------
LEMMA StepKeepsTurns ==
  ASSUME Before, [Next]_vars
  PROVE  Lockstep' /\ Turn
<1>1. CASE PeerNext
  BY <1>1, AnswerTurn, QuietTurn DEF PeerNext
<1>2. CASE HandlerNext
  BY <1>2, QuietTurn, ReadTurn, UpstreamTurn, ForwardTurn, RoundTripTurn,
     RetryTurn, ResponseTurn, EndTurn DEF HandlerNext
<1>3. CASE UNCHANGED vars
  <2>1. UNCHANGED <<pc, mode, sent, current, asked, owed, answers, delivered>>
    BY <1>3 DEF vars, client, origin
  <2>2. Done' = Done /\ Replayable(Request)' = Replayable(Request)
    BY <2>1 DEF Done, Counted, EarlyIn, Replayable, Request
  <2>3. Single' = Single /\ Flow' = Flow
    BY <2>1, <2>2 DEF Single, Flow, Underway
  <2>4. Repeatable' = Repeatable /\ Written' = Written /\ Early' = Early
    BY <2>1 DEF Repeatable, Replayable, Request, Written, Early
  <2>5. Lockstep'
    BY <2>1, <2>3 DEF Before, Lockstep, AtRest, Underway
  <2> QED BY <2>1, <2>4, <2>5 DEF Turn, Turns!vars
<1> QED BY <1>1, <1>2, <1>3 DEF Next

(* However far ahead the client writes, whatever the resolver answers,     *)
(* whatever the origins send and whoever goes away: requests are taken up  *)
(* in order, each is passed on once or, where it bears it, again, and each *)
(* answer is to the request in hand or to as many before it as interim     *)
(* responses were taken for answers (main.go:880, 972-1024).               *)
THEOREM ImplementsTurns == Spec => KeepsTurns
<1>1. Init => Lockstep /\ Turns!Init
  <2> SUFFICES ASSUME Init
               PROVE  Lockstep /\ Turns!Init
    OBVIOUS
  <2>1. EarlyIn(<<>>) = {} /\ Early = {}
    BY DEF Init, EarlyIn, Early
  <2>2. Cardinality({}) = 0
    BY FS_EmptySet
  <2>3. Done = 0 /\ Written = 0 /\ ~Repeatable
    BY <2>1, <2>2 DEF Init, Done, Counted, Written, Repeatable
  <2>4. Flow
    BY <2>3 DEF Init, Flow, Chained, Due, Underway
  <2>5. Lockstep
    BY <2>4 DEF Init, Lockstep, AtRest, Underway
  <2>6. Turns!Init
    BY <2>1, <2>2, <2>3 DEF Init, Turns!Init
  <2> QED BY <2>5, <2>6
<1>2. ExchangeInv /\ Shape /\ Lockstep /\ [Next]_vars => Lockstep' /\ [Turns!Next]_(Turns!vars)
  BY StepKeepsTurns DEF Before, Turn
<1>3. Spec => [](ExchangeInv /\ Shape)
  BY ShapeAlways
<1> QED BY <1>1, <1>2, <1>3, PTL DEF Spec, KeepsTurns, Turns!Spec

=============================================================================
