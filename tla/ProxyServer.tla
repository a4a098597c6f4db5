----------------------------- MODULE ProxyServer -----------------------------
(***************************************************************************)
(* The proxy's accept loop and its connection handlers (proxy/main.go):    *)
(* serve gives each accepted connection one of maxConns slots and a        *)
(* goroutine, or refuses it; handle and handleMITM then block on the       *)
(* client or on the upstream, some waits under a deadline and some not.    *)
(*                                                                         *)
(* A connection is where its handler stands.  A deadline is an action      *)
(* enabled for as long as the wait lasts: nothing says how soon it fires.  *)
(* What a request is allowed is ProxyExchange's subject; here a gate may   *)
(* go either way.                                                          *)
(*                                                                         *)
(* The two halves differ in whose the upstream connection is.  handleMITM  *)
(* dials its own.  The plain half borrows one from directTransport, whose  *)
(* pool outlives the handlers: a connection whose response was read to its *)
(* end goes to a request that is waiting for one to the same address, or   *)
(* is kept, and a request finds a kept one before it dials.                *)
(***************************************************************************)
EXTENDS Naturals, FiniteSets

CONSTANTS
  Conns,      \* the connections clients make, in any order
  MaxConns,   \* maxConns
  FirstDelay, \* the backoff's first delay, 5 ms
  MaxDelay,   \* and its ceiling, a second
  MaxErrors,  \* bounds the Accept calls that fail
  Tunnelled,  \* the connections that begin with a CONNECT
  Addrs,      \* the addresses that the others' requests lead to
  To,         \* which of them each does
  MaxIdle     \* http.DefaultMaxIdleConnsPerHost

ASSUME ConnsAssumption == IsFiniteSet(Conns)
ASSUME MaxConnsAssumption == MaxConns \in Nat
ASSUME DelaysAssumption ==
  FirstDelay \in Nat \ {0} /\ MaxDelay \in Nat /\ FirstDelay <= MaxDelay
ASSUME MaxErrorsAssumption == MaxErrors \in Nat
ASSUME TunnelledAssumption == Tunnelled \subseteq Conns
ASSUME ToAssumption == To \in [Conns -> Addrs]
ASSUME MaxIdleAssumption == MaxIdle \in Nat

VARIABLES
  phase,       \* where each connection's handler stands
  client,      \* is the client there, or its connection closed?
  upstream,    \* the handler's connection to the origin
  reused,      \* had that connection served another request before?
  idle,        \* directTransport's idle connections to each address
  late,        \* its dials whose request another connection has served
  slots,       \* len(conns): the slots taken
  acceptor,    \* the accept loop: in Accept, or asleep after an error
  retryDelay,  \* milliseconds
  errors,      \* Accept calls that have failed
  logged       \* "accept error, backing off" lines written

pool == <<reused, idle, late>>
vars == <<phase, client, upstream, pool, slots, acceptor, retryDelay, errors,
          logged>>
conn == <<client, upstream, pool>>
loop == <<acceptor, retryDelay, errors, logged>>

-----------------------------------------------------------------------------
(* The waits of handleMITM and of the plain-HTTP half of handle, in the    *)
(* order a request passes them.                                            *)
MITM  == {"handshake", "waiting", "dialing", "forwarding", "answering",
          "copying"}
Plain == {"resolving", "connecting", "sending", "fetching", "relaying"}
Working == {"reading", "tunnel"} \cup MITM \cup Plain

(* Both `defer`s of a handler run when it returns: handle's closes the     *)
(* connection, then the goroutine's gives the slot back.                   *)
Held == Working \cup {"closing", "releasing"}
Phases == {"none", "backlog", "refusing", "closed"} \cup Held

(* The waits under a deadline: clientHandshakeTimeout, dialTimeout         *)
(* (twice), responseHeaderTimeout, refusalWriteTimeout and, in resolving   *)
(* and at the beginning of dialing, the system resolver's own.             *)
Timed == {"handshake", "dialing", "resolving", "connecting", "fetching",
          "refusing"}

TypeOK ==
  /\ phase \in [Conns -> Phases]
  /\ client \in [Conns -> {"there", "gone"}]
  /\ upstream \in [Conns -> {"none", "there", "gone"}]
  /\ reused \in [Conns -> BOOLEAN]
  /\ idle \in [Addrs -> 0..MaxIdle]
  /\ late \in [Addrs -> Nat]
  /\ slots \in 0..MaxConns
  /\ acceptor \in {"accepting", "asleep"}
  /\ retryDelay \in 0..MaxDelay
  /\ errors \in 0..MaxErrors
  /\ logged \in Nat

Init ==
  /\ phase = [c \in Conns |-> "none"]
  /\ client = [c \in Conns |-> "there"]
  /\ upstream = [c \in Conns |-> "none"]
  /\ reused = [c \in Conns |-> FALSE]
  /\ idle = [a \in Addrs |-> 0]
  /\ late = [a \in Addrs |-> 0]
  /\ slots = 0
  /\ acceptor = "accepting"
  /\ retryDelay = 0
  /\ errors = 0
  /\ logged = 0

Goto(c, p) == phase' = [phase EXCEPT ![c] = p]

(* The handler moves on without touching what the connections share.       *)
Handler(c, from, to) ==
  /\ phase[c] = from
  /\ Goto(c, to)
  /\ UNCHANGED <<slots, loop>>

-----------------------------------------------------------------------------
(* The clients and the origins: each may go away at any time; once the     *)
(* handler is closing its connections nothing looks at them any more.      *)

Connect(c) ==
  /\ phase[c] = "none"
  /\ Goto(c, "backlog")
  /\ UNCHANGED <<conn, slots, loop>>

ClientLeaves(c) ==
  /\ phase[c] \notin {"none", "closing", "releasing", "closed"}
  /\ client' = [client EXCEPT ![c] = "gone"]
  /\ UNCHANGED <<phase, upstream, pool, slots, loop>>

UpstreamLeaves(c) ==
  /\ phase[c] # "closing"
  /\ upstream[c] = "there"
  /\ upstream' = [upstream EXCEPT ![c] = "gone"]
  /\ UNCHANGED <<phase, client, pool, slots, loop>>

(* An idle connection that the origin or upstreamIdleTimeout closes.       *)
IdleLeaves(a) ==
  /\ idle[a] > 0
  /\ idle' = [idle EXCEPT ![a] = @ - 1]
  /\ UNCHANGED <<phase, client, upstream, reused, late, slots, loop>>

-----------------------------------------------------------------------------
(* serve.                                                                  *)

(* The send on conns succeeds while there is a slot; otherwise the         *)
(* connection goes to a goroutine of its own that answers 503.             *)
Accept(c) ==
  /\ acceptor = "accepting"
  /\ phase[c] = "backlog"
  /\ retryDelay' = 0
  /\ \/ /\ slots < MaxConns
        /\ slots' = slots + 1
        /\ Goto(c, "reading")
     \/ /\ slots >= MaxConns
        /\ slots' = slots
        /\ Goto(c, "refusing")
  /\ UNCHANGED <<conn, acceptor, errors, logged>>

(* Doubling up to the ceiling; logged when the backoff begins.             *)
Backoff(d) ==
  IF d = 0 THEN FirstDelay ELSE IF 2 * d > MaxDelay THEN MaxDelay ELSE 2 * d

(* Slip: a line for every failure.                                         *)
AcceptFailsLoudly ==
  /\ acceptor = "accepting"
  /\ errors < MaxErrors
  /\ errors' = errors + 1
  /\ retryDelay' = Backoff(retryDelay)
  /\ logged' = logged + 1
  /\ acceptor' = "asleep"
  /\ UNCHANGED <<phase, conn, slots>>

AcceptFails ==
  /\ acceptor = "accepting"
  /\ errors < MaxErrors
  /\ errors' = errors + 1
  /\ retryDelay' = Backoff(retryDelay)
  /\ logged' = IF retryDelay = 0 THEN logged + 1 ELSE logged
  /\ acceptor' = "asleep"
  /\ UNCHANGED <<phase, conn, slots>>

(* Slip: the loop left at the first failure.                               *)
WakeOnce ==
  /\ acceptor = "asleep"
  /\ errors < 1
  /\ acceptor' = "accepting"
  /\ UNCHANGED <<phase, conn, slots, retryDelay, errors, logged>>

Wake ==
  /\ acceptor = "asleep"
  /\ acceptor' = "accepting"
  /\ UNCHANGED <<phase, conn, slots, retryDelay, errors, logged>>

(* Written, or given up on at the write deadline: the client need not read. *)
Refuse(c) ==
  /\ Handler(c, "refusing", "closed")
  /\ client' = [client EXCEPT ![c] = "gone"]
  /\ UNCHANGED <<upstream, pool>>

-----------------------------------------------------------------------------
(* handle: every return leads to "closing".                                *)

(* http.ReadRequest has no deadline: it ends with a request, good or bad,  *)
(* or with the client.  The gates answer 403; past them a CONNECT goes on  *)
(* to handleMITM and anything else is forwarded.                           *)
ReadRequest(c) ==
  /\ \/ Handler(c, "reading", "closing")
     \/ /\ client[c] = "there"
        /\ IF c \in Tunnelled THEN Handler(c, "reading", "handshake")
           ELSE Handler(c, "reading", "resolving")
  /\ UNCHANGED conn

(* directTransport has a connection for the handler's request: an idle one *)
(* to the address, or one that it begins to dial.                          *)
GetConn(c, from) ==
  \/ /\ idle[To[c]] > 0
     /\ Handler(c, from, "sending")
     /\ idle' = [idle EXCEPT ![To[c]] = @ - 1]
     /\ upstream' = [upstream EXCEPT ![c] = "there"]
     /\ reused' = [reused EXCEPT ![c] = TRUE]
     /\ UNCHANGED <<client, late>>
  \/ /\ idle[To[c]] = 0
     /\ Handler(c, from, "connecting")
     /\ upstream' = [upstream EXCEPT ![c] = "none"]
     /\ reused' = [reused EXCEPT ![c] = FALSE]
     /\ UNCHANGED <<client, idle, late>>

(* The requests that wait for a connection to a.                           *)
Waiting(a) == {w \in Conns : phase[w] = "connecting" /\ To[w] = a}

(* Another connection serves w, whose own dial goes on.                    *)
HandOver(w, a) ==
  /\ w \in Waiting(a)
  /\ reused' = [reused EXCEPT ![w] = TRUE]
  /\ UNCHANGED idle

(* None waits: kept up to MaxIdle, closed beyond.                          *)
Keep(a) ==
  /\ Waiting(a) = {}
  /\ idle' = [idle EXCEPT ![a] = IF @ < MaxIdle THEN @ + 1 ELSE @]
  /\ UNCHANGED reused

(* resolveVetted may fail, or refuse the addresses.                        *)
PlainLookup(c) ==
  \/ GetConn(c, "resolving")
  \/ Handler(c, "resolving", "closing") /\ UNCHANGED conn

PlainConnect(c) ==
  \/ /\ Handler(c, "connecting", "sending")
     /\ upstream' = [upstream EXCEPT ![c] = "there"]
     /\ UNCHANGED <<client, pool>>
  \/ Handler(c, "connecting", "closing") /\ UNCHANGED conn

(* A dial that ends after its request was served by another connection.    *)
LateDial(a) ==
  /\ late[a] > 0
  /\ \/ /\ late' = [late EXCEPT ![a] = @ - 1]
        /\ Keep(a) \/ UNCHANGED <<idle, reused>>
        /\ UNCHANGED <<phase, upstream>>
     \/ \E w \in Conns :
          /\ HandOver(w, a)
          /\ Goto(w, "sending")
          /\ upstream' = [upstream EXCEPT ![w] = "there"]
          /\ UNCHANGED late
  /\ UNCHANGED <<client, slots, loop>>

(* A connection that had served before and breaks before it answers:       *)
(* RoundTrip sends a request it may repeat again, on another one.          *)
PlainRetry(c) ==
  /\ reused[c] /\ upstream[c] = "gone"
  /\ GetConn(c, "sending") \/ GetConn(c, "fetching")

(* The transport writes the request, its body read from the client, and    *)
(* takes an answer that comes before it has finished.                      *)
PlainSend(c) ==
  /\ \/ /\ client[c] = "there" /\ upstream[c] = "there"
        /\ \/ Handler(c, "sending", "fetching")
           \/ Handler(c, "sending", "relaying")
     \/ /\ client[c] = "gone" \/ upstream[c] = "gone"
        /\ Handler(c, "sending", "closing")
  /\ UNCHANGED conn

PlainFetch(c) ==
  /\ \/ /\ upstream[c] = "there"
        /\ \E next \in {"relaying", "tunnel"} : Handler(c, "fetching", next)
     \/ Handler(c, "fetching", "closing")
  /\ UNCHANGED conn

(* The body is copied until either side fails, or to its end: then the     *)
(* transport has its connection back.                                      *)
PlainRelay(c) ==
  \/ Handler(c, "relaying", "closing") /\ UNCHANGED conn
  \/ /\ phase[c] = "relaying" /\ upstream[c] = "there"
     /\ \/ /\ Keep(To[c])
           /\ Goto(c, "closing")
           /\ upstream' = [upstream EXCEPT ![c] = "none"]
           /\ UNCHANGED late
        \/ \E w \in Conns :
             /\ HandOver(w, To[c])
             /\ phase' = [phase EXCEPT ![c] = "closing", ![w] = "sending"]
             /\ upstream' = [upstream EXCEPT ![c] = "none", ![w] = "there"]
             /\ late' = [late EXCEPT ![To[c]] = @ + 1]
     /\ UNCHANGED <<client, slots, loop>>

-----------------------------------------------------------------------------
(* handleMITM.                                                             *)

Handshake(c) ==
  /\ \/ client[c] = "there" /\ Handler(c, "handshake", "waiting")
     \/ Handler(c, "handshake", "closing")
  /\ UNCHANGED conn

(* The keep-alive wait has no deadline either.  A request past the filters *)
(* needs the upstream, dialled once for the connection.                    *)
NextRequest(c) ==
  /\ \/ /\ client[c] = "there"
        /\ \/ upstream[c] = "none" /\ Handler(c, "waiting", "dialing")
           \/ upstream[c] # "none" /\ Handler(c, "waiting", "forwarding")
     \/ Handler(c, "waiting", "closing")
  /\ UNCHANGED conn

DialUpstream(c) ==
  \/ /\ Handler(c, "dialing", "forwarding")
     /\ upstream' = [upstream EXCEPT ![c] = "there"]
     /\ UNCHANGED <<client, pool>>
  \/ /\ Handler(c, "dialing", "closing")
     /\ UNCHANGED conn

(* req.Write reads the body from the client; a write to an upstream that   *)
(* has gone may still succeed.                                             *)
Forward(c) ==
  /\ \/ /\ client[c] = "there" \/ upstream[c] = "gone"
        /\ Handler(c, "forwarding", "answering")
     \/ /\ client[c] = "gone" \/ upstream[c] = "gone"
        /\ Handler(c, "forwarding", "closing")
  /\ UNCHANGED conn

ReadResponse(c) ==
  /\ \/ /\ upstream[c] = "there"
        /\ \E next \in {"copying", "tunnel"} : Handler(c, "answering", next)
     \/ upstream[c] = "gone" /\ Handler(c, "answering", "closing")
  /\ UNCHANGED conn

(* Kept open for the next request unless either side asked for a close.    *)
CopyResponse(c) ==
  /\ \/ client[c] = "there" /\ Handler(c, "copying", "waiting")
     \/ Handler(c, "copying", "closing")
  /\ UNCHANGED conn

-----------------------------------------------------------------------------
(* The first direction to end ends the tunnel.                             *)
(* Slip: both directions waited for.                                       *)
EndTunnelOnceBothEnd(c) ==
  /\ client[c] = "gone" /\ upstream[c] = "gone"
  /\ Handler(c, "tunnel", "closing")
  /\ UNCHANGED conn

EndTunnel(c) ==
  /\ client[c] = "gone" \/ upstream[c] = "gone"
  /\ Handler(c, "tunnel", "closing")
  /\ UNCHANGED conn

(* Slip: the upstream connection left open.                                *)
CloseClientOnly(c) ==
  /\ Handler(c, "closing", "releasing")
  /\ client' = [client EXCEPT ![c] = "gone"]
  /\ UNCHANGED <<upstream, pool>>

(* The deferred closes: the client's, handleMITM's of its upstream, and    *)
(* resp.Body's of a plain one that the transport does not have back.       *)
Close(c) ==
  /\ Handler(c, "closing", "releasing")
  /\ client' = [client EXCEPT ![c] = "gone"]
  /\ upstream' = [upstream EXCEPT ![c] = "none"]
  /\ reused' = [reused EXCEPT ![c] = FALSE]
  /\ UNCHANGED <<idle, late>>

(* Slip: the slot not given back.                                          *)
ReleaseNothing(c) ==
  /\ Handler(c, "releasing", "closed")
  /\ UNCHANGED conn

Release(c) ==
  /\ phase[c] = "releasing"
  /\ Goto(c, "closed")
  /\ slots' = slots - 1
  /\ UNCHANGED <<conn, loop>>

-----------------------------------------------------------------------------
PeerNext(c) == Connect(c) \/ ClientLeaves(c) \/ UpstreamLeaves(c)

PlainNext(c) ==
  \/ PlainLookup(c) \/ PlainConnect(c) \/ PlainSend(c) \/ PlainRetry(c)
  \/ PlainFetch(c) \/ PlainRelay(c)

MITMNext(c) ==
  \/ Handshake(c) \/ NextRequest(c) \/ DialUpstream(c)
  \/ Forward(c) \/ ReadResponse(c) \/ CopyResponse(c)

HandlerNext(c) ==
  \/ ReadRequest(c) \/ PlainNext(c) \/ MITMNext(c)
  \/ EndTunnel(c) \/ Close(c) \/ Release(c)

Next ==
  \/ \E c \in Conns : Accept(c) \/ Refuse(c) \/ HandlerNext(c) \/ PeerNext(c)
  \/ \E a \in Addrs : IdleLeaves(a) \/ LateDial(a)
  \/ AcceptFails \/ Wake

Spec == Init /\ [][Next]_vars

(***************************************************************************)
(* Fairness.  The accept loop and the handlers are goroutines the runtime  *)
(* schedules, and a deadline fires.  A wait without a deadline ends, as    *)
(* far as the code goes, only when the peer it reads from has gone: a      *)
(* silent peer owes nothing.  Data is copied to a peer that is there.      *)
(***************************************************************************)
Gone(c) == client[c] = "gone"
UpstreamGone(c) == upstream[c] = "gone"

Fairness ==
  /\ WF_vars(Wake)
  /\ \A c \in Conns :
       /\ WF_vars(Accept(c)) /\ WF_vars(Refuse(c))
       /\ WF_vars(PlainLookup(c)) /\ WF_vars(PlainConnect(c))
       /\ WF_vars(PlainFetch(c))
       /\ WF_vars(Handshake(c)) /\ WF_vars(DialUpstream(c))
       /\ WF_vars(Gone(c) /\ ReadRequest(c))
       /\ WF_vars(Gone(c) /\ NextRequest(c))
       /\ WF_vars((Gone(c) \/ UpstreamGone(c)) /\ PlainSend(c))
       /\ WF_vars((Gone(c) \/ UpstreamGone(c)) /\ Forward(c))
       /\ WF_vars(UpstreamGone(c) /\ ReadResponse(c))
       /\ WF_vars(Gone(c) /\ UpstreamGone(c) /\ PlainRelay(c))
       /\ WF_vars(Gone(c) /\ UpstreamGone(c) /\ CopyResponse(c))
       /\ WF_vars(EndTunnel(c)) /\ WF_vars(Close(c)) /\ WF_vars(Release(c))

FairSpec == Spec /\ Fairness

-----------------------------------------------------------------------------
Holding == {c \in Conns : phase[c] \in Held}
Accepted == {c \in Conns : phase[c] \notin {"none", "backlog"}}
Dialled == {c \in Conns : upstream[c] # "none"}

(* Every slot taken is one handler's, and every handler has one: whichever *)
(* way handle returns, exactly one slot comes back (main.go:780-783).      *)
(* It follows from KeepsPool, and the proofs rest on it.                   *)
SlotsExact == slots = Cardinality(Holding)

(* The upstream connections open at once are at most one for each slot,    *)
(* and at most MaxIdle more to each address: a handler has closed its own  *)
(* or given it back before its slot is (main.go:963-967, 886), whatever    *)
(* requests wait, dial, retry and pass on.  The dials of `late` are open   *)
(* besides, each for dialTimeout at most, and the addresses as many as the *)
(* agent's requests lead to: MaxIdleConns is not set (main.go:168-174).    *)
DescriptorsBounded ==
  /\ Cardinality(Dialled) <= MaxConns
  /\ \A a \in Addrs : idle[a] <= MaxIdle

(* Seen from outside the loop is a pool of maxConns slots beside a pool of *)
(* connections: a client is answered 503 only while all slots are held, a  *)
(* slot is one handler's from the accept to the end of its goroutine, and  *)
(* a handler ends without its upstream connection, closed, passed to one   *)
(* other handler or kept within the limit (main.go:779-789, 880-886,       *)
(* 963-967).                                                               *)
Pool == INSTANCE SlotPool WITH
          Clients <- Conns, Slots <- MaxConns, Origins <- Addrs,
          Spares <- MaxIdle,
          waiting <- {c \in Conns : phase[c] = "backlog"},
          holders <- Holding, taken <- slots, dialled <- Dialled,
          spare <- idle

KeepsPool == Pool!Spec

(* A storm of accept errors is logged when it begins and not for every     *)
(* error: one line at most between two accepted connections, however the   *)
(* errors and the connections alternate (main.go:762-768).                 *)
StormLoggedOnce == logged <= Cardinality(Accepted) + 1

(* Every client that connects is taken or refused: neither failing Accepts *)
(* nor a refused client that never reads stops the loop (main.go:753-791). *)
AcceptProgress ==
  \A c \in Conns : phase[c] = "backlog" ~> phase[c] # "backlog"

(* A slot comes back: no handler stays for ever in a wait that has a       *)
(* deadline (main.go:104-129), in a tunnel one of whose peers has gone     *)
(* (main.go:605-616), or anywhere once the client has gone and the origin  *)
(* with it or never dialled.                                               *)
SlotComesBack ==
  \A c \in Conns :
    <>[](\/ phase[c] \in Timed
         \/ phase[c] = "tunnel" /\ (Gone(c) \/ UpstreamGone(c))
         \/ Gone(c) /\ upstream[c] # "there")
      => <>[](phase[c] = "closed")

=============================================================================
