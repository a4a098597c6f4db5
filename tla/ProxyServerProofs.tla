-------------------------- MODULE ProxyServerProofs --------------------------
(***************************************************************************)
(* What TLC checks of ProxyServer for three connections and two slots,     *)
(* proved for any finite number of connections, of either kind and to any  *)
(* addresses, any maxConns, any size of the transport's pool and any       *)
(* number of failing Accepts; and of the handlers' CertCache for three     *)
(* handlers, proved for any number of them.                                *)
(***************************************************************************)
EXTENDS ProxyServer, CertCache, FiniteSetTheorems, TLAPS

(* Only a handler that has not closed its connections has an upstream.     *)
UpstreamHeld ==
  \A c \in Conns : upstream[c] # "none" => phase[c] \in Working \cup {"closing"}

(* A line is owed to the connection accepted before the storm began, and   *)
(* one to the storm that is on.                                            *)
LinesPaid == logged <= Cardinality(Accepted) + (IF retryDelay = 0 THEN 0 ELSE 1)

(* A request that waits for a connection has none.                         *)
WaitsWithout == \A c \in Conns : phase[c] = "connecting" => upstream[c] = "none"

ServerInv == TypeOK /\ SlotsExact /\ UpstreamHeld /\ WaitsWithout /\ LinesPaid

(* What the pool's specification sees of the server.                       *)
Backlog == {c \in Conns : phase[c] = "backlog"}
PoolSame ==
  /\ Backlog' = Backlog /\ Holding' = Holding /\ slots' = slots
  /\ Dialled' = Dialled /\ idle' = idle

-----------------------------------------------------------------------------
(* The sets the invariant counts are finite.                               *)
LEMMA CountsFinite ==
  /\ IsFiniteSet(Holding) /\ Cardinality(Holding) \in Nat
  /\ IsFiniteSet(Accepted) /\ Cardinality(Accepted) \in Nat
<1>1. Holding \in SUBSET Conns /\ Accepted \in SUBSET Conns
  BY DEF Holding, Accepted
<1>2. IsFiniteSet(Holding) /\ IsFiniteSet(Accepted)
  BY <1>1, ConnsAssumption, FS_Subset
<1> QED BY <1>2, FS_CardinalityType

(* Handlers that move from one wait to another keep their slots.           *)
LEMMA HeldStep ==
  ASSUME TypeOK, SlotsExact, LinesPaid, phase' \in [Conns -> Phases],
         \A d \in Conns : \/ phase'[d] = phase[d]
                          \/ phase[d] \in Held /\ phase'[d] \in Held,
         UNCHANGED <<slots, loop>>
  PROVE  /\ Holding' = Holding /\ Accepted' = Accepted /\ Backlog' = Backlog
         /\ SlotsExact' /\ LinesPaid'
<1>1. Holding' = Holding
  BY DEF Holding
<1>2. "none" \notin Held /\ "backlog" \notin Held
  BY DEF Held, Working, MITM, Plain
<1>3. Accepted' = Accepted /\ Backlog' = Backlog
  BY <1>2 DEF Accepted, Backlog
<1> QED BY <1>1, <1>3 DEF SlotsExact, LinesPaid, loop

(* So does one alone.                                                      *)
LEMMA WaitStep ==
  ASSUME TypeOK, SlotsExact, LinesPaid,
         NEW c \in Conns, NEW from \in Held, NEW to \in Held,
         Handler(c, from, to)
  PROVE  /\ Holding' = Holding /\ Accepted' = Accepted /\ Backlog' = Backlog
         /\ SlotsExact' /\ LinesPaid'
         /\ phase' \in [Conns -> Phases]
         /\ phase[c] = from
         /\ phase' = [phase EXCEPT ![c] = to]
         /\ UNCHANGED <<slots, loop>>
<1>1. phase' = [phase EXCEPT ![c] = to] /\ phase[c] = from
      /\ UNCHANGED <<slots, loop>>
  BY DEF Handler, Goto
<1>2. phase' \in [Conns -> Phases]
  BY <1>1 DEF TypeOK, Phases
<1>3. \A d \in Conns : \/ phase'[d] = phase[d]
                       \/ phase[d] \in Held /\ phase'[d] \in Held
  <2>1. \A d \in Conns : phase'[d] = IF d = c THEN to ELSE phase[d]
    BY <1>1 DEF TypeOK
  <2>2. phase[c] \in Held /\ phase'[c] \in Held
    BY <1>1, <2>1
  <2> QED BY <2>1, <2>2
<1>4. UNCHANGED <<slots, loop>>
  BY <1>1
<1>5. /\ Holding' = Holding /\ Accepted' = Accepted /\ Backlog' = Backlog
      /\ SlotsExact' /\ LinesPaid'
  BY <1>2, <1>3, <1>4, HeldStep
<1> QED BY <1>1, <1>2, <1>5

(* Such a step keeps the invariant when it leaves the peers alone.         *)
LEMMA QuietWait ==
  ASSUME ServerInv, NEW c \in Conns,
         NEW from \in Working, NEW to \in (Working \ {"connecting"}) \cup {"closing"},
         Handler(c, from, to), UNCHANGED conn
  PROVE  ServerInv' /\ PoolSame
<1> USE DEF ServerInv
<1>1. from \in Held /\ to \in Held
  BY DEF Held
<1>2. /\ Holding' = Holding /\ Backlog' = Backlog
      /\ SlotsExact' /\ LinesPaid'
      /\ phase' \in [Conns -> Phases]
      /\ phase' = [phase EXCEPT ![c] = to]
      /\ phase[c] = from
      /\ UNCHANGED <<slots, loop>>
  BY <1>1, WaitStep
<1>3. TypeOK'
  BY <1>2 DEF TypeOK, conn, pool, loop
<1>4. UpstreamHeld' /\ WaitsWithout'
  <2>1. to # "connecting"
    BY DEF Working, MITM, Plain
  <2> QED BY <1>2, <2>1 DEF UpstreamHeld, WaitsWithout, TypeOK, conn
<1>5. PoolSame
  BY <1>2 DEF PoolSame, Dialled, conn, pool
<1> QED BY <1>2, <1>3, <1>4, <1>5

(* So does one that ends with the upstream dialled.                        *)
LEMMA DialledWait ==
  ASSUME ServerInv, NEW c \in Conns,
         NEW from \in Working, NEW to \in Working \ {"connecting"},
         Handler(c, from, to),
         upstream' = [upstream EXCEPT ![c] = "there"], UNCHANGED <<client, pool>>
  PROVE  ServerInv' /\ Pool!Dial(c)
<1> USE DEF ServerInv
<1>1. from \in Held /\ to \in Held
  BY DEF Held
<1>2. /\ Holding' = Holding /\ Backlog' = Backlog
      /\ SlotsExact' /\ LinesPaid'
      /\ phase' \in [Conns -> Phases]
      /\ phase' = [phase EXCEPT ![c] = to]
      /\ phase[c] = from
      /\ UNCHANGED <<slots, loop>>
  BY <1>1, WaitStep
<1>3. TypeOK'
  BY <1>2 DEF TypeOK, pool, loop
<1>4. UpstreamHeld' /\ WaitsWithout'
  BY <1>2 DEF UpstreamHeld, WaitsWithout, TypeOK
<1>5. Dialled' = Dialled \cup {c} /\ c \in Holding
  BY <1>1, <1>2 DEF Dialled, Holding, TypeOK
<1>6. Pool!Dial(c)
  BY <1>2, <1>5 DEF Pool!Dial, Backlog, pool
<1> QED BY <1>2, <1>3, <1>4, <1>6

(* A request that is to have a connection takes an idle one, or waits      *)
(* without any.                                                            *)
LEMMA GetConnStep ==
  ASSUME ServerInv, NEW c \in Conns,
         NEW from \in {"resolving", "sending", "fetching"}, GetConn(c, from)
  PROVE  ServerInv' /\ (Pool!Reuse(c, To[c]) \/ Pool!HangUp(c))
<1> USE DEF ServerInv
<1>1. from \in Held /\ "sending" \in Held /\ "connecting" \in Held
  BY DEF Held, Working, Plain
<1>2. To[c] \in Addrs
  BY ToAssumption
<1>3. PICK to \in {"sending", "connecting"} :
        /\ Handler(c, from, to)
        /\ to = "sending" =>
             /\ idle[To[c]] > 0
             /\ idle' = [idle EXCEPT ![To[c]] = @ - 1]
             /\ upstream' = [upstream EXCEPT ![c] = "there"]
        /\ to = "connecting" =>
             /\ idle' = idle
             /\ upstream' = [upstream EXCEPT ![c] = "none"]
        /\ reused' \in [Conns -> BOOLEAN]
        /\ UNCHANGED <<client, late>>
  BY DEF GetConn, TypeOK
<1>4. /\ Holding' = Holding /\ Backlog' = Backlog
      /\ SlotsExact' /\ LinesPaid'
      /\ phase' \in [Conns -> Phases]
      /\ phase' = [phase EXCEPT ![c] = to]
      /\ phase[c] = from
      /\ UNCHANGED <<slots, loop>>
  BY <1>1, <1>3, WaitStep
<1>5. idle' \in [Addrs -> 0..MaxIdle]
  BY <1>2, <1>3, MaxIdleAssumption DEF TypeOK
<1>6. upstream' \in [Conns -> {"none", "there", "gone"}]
  BY <1>3 DEF TypeOK
<1>7. TypeOK'
  BY <1>3, <1>4, <1>5, <1>6 DEF TypeOK, loop
<1>8. UpstreamHeld' /\ WaitsWithout'
  BY <1>3, <1>4 DEF UpstreamHeld, WaitsWithout, TypeOK, Working, Plain
<1>9. c \in Holding
  BY <1>1, <1>4 DEF Holding
<1>10. CASE to = "sending"
  <2>1. Dialled' = Dialled \cup {c}
    BY <1>3, <1>10 DEF Dialled, TypeOK
  <2> QED BY <1>3, <1>4, <1>7, <1>8, <1>9, <1>10, <2>1 DEF Pool!Reuse, Backlog
<1>11. CASE to = "connecting"
  <2>1. Dialled' = Dialled \ {c}
    BY <1>3, <1>11 DEF Dialled, TypeOK
  <2> QED BY <1>3, <1>4, <1>7, <1>8, <1>11, <2>1 DEF Pool!HangUp, Backlog
<1> QED BY <1>10, <1>11

(* A connection kept leaves the pool within its limit.                     *)
LEMMA KeepStep ==
  ASSUME TypeOK, NEW a \in Addrs, Keep(a)
  PROVE  /\ idle' \in [Addrs -> 0..MaxIdle]
         /\ reused' = reused
         /\ \/ idle[a] < MaxIdle /\ idle' = [idle EXCEPT ![a] = @ + 1]
            \/ idle' = idle
<1>1. idle[a] \in 0..MaxIdle
  BY DEF TypeOK
<1>2. CASE idle[a] < MaxIdle
  <2>1. idle' = [idle EXCEPT ![a] = @ + 1]
    BY <1>2 DEF Keep
  <2> QED BY <1>1, <1>2, <2>1, MaxIdleAssumption DEF Keep, TypeOK
<1>3. CASE ~(idle[a] < MaxIdle)
  <2>1. idle' = idle
    BY <1>3 DEF Keep, TypeOK
  <2> QED BY <2>1 DEF Keep, TypeOK
<1> QED BY <1>2, <1>3

(* The end of a response: the connection is the handler's to close still,  *)
(* or the transport keeps, drops or passes it on.                          *)
LEMMA RelayStep ==
  ASSUME ServerInv, NEW c \in Conns, phase[c] = "relaying", upstream[c] = "there",
         UNCHANGED <<client, slots, loop>>,
         \/ /\ Keep(To[c])
            /\ Goto(c, "closing")
            /\ upstream' = [upstream EXCEPT ![c] = "none"]
            /\ UNCHANGED late
         \/ \E w \in Conns :
              /\ HandOver(w, To[c])
              /\ phase' = [phase EXCEPT ![c] = "closing", ![w] = "sending"]
              /\ upstream' = [upstream EXCEPT ![c] = "none", ![w] = "there"]
              /\ late' = [late EXCEPT ![To[c]] = @ + 1]
  PROVE  ServerInv' /\ (\/ Pool!Keep(To[c]) \/ Pool!HangUp(c)
                        \/ \E w \in Conns : Pool!Pass(c, w))
<1> USE DEF ServerInv
<1>1. {"relaying", "connecting", "sending", "closing"} \subseteq Held
  BY DEF Held, Working, Plain
<1>2. To[c] \in Addrs /\ c \in Dialled
  BY ToAssumption DEF Dialled
<1>3. ASSUME Keep(To[c]), Goto(c, "closing"),
             upstream' = [upstream EXCEPT ![c] = "none"], UNCHANGED late
      PROVE  ServerInv' /\ (Pool!Keep(To[c]) \/ Pool!HangUp(c))
  <2>1. /\ phase' = [phase EXCEPT ![c] = "closing"]
        /\ phase' \in [Conns -> Phases]
    BY <1>3 DEF Goto, TypeOK, Phases, Held
  <2>2. /\ Holding' = Holding /\ Backlog' = Backlog /\ SlotsExact' /\ LinesPaid'
    BY <2>1, <1>1, HeldStep DEF TypeOK
  <2>3. /\ idle' \in [Addrs -> 0..MaxIdle] /\ reused' = reused
        /\ \/ idle[To[c]] < MaxIdle /\ idle' = [idle EXCEPT ![To[c]] = @ + 1]
           \/ idle' = idle
    BY <1>2, <1>3, KeepStep
  <2>4. TypeOK'
    BY <1>3, <2>1, <2>3 DEF TypeOK, loop
  <2>5. UpstreamHeld' /\ WaitsWithout'
    BY <1>3, <2>1 DEF UpstreamHeld, WaitsWithout, TypeOK
  <2>6. Dialled' = Dialled \ {c}
    BY <1>3 DEF Dialled, TypeOK
  <2>7. Pool!Keep(To[c]) \/ Pool!HangUp(c)
    BY <1>2, <2>2, <2>3, <2>6 DEF Pool!Keep, Pool!HangUp, Backlog
  <2> QED BY <2>2, <2>4, <2>5, <2>7
<1>4. ASSUME NEW w \in Conns, HandOver(w, To[c]),
             phase' = [phase EXCEPT ![c] = "closing", ![w] = "sending"],
             upstream' = [upstream EXCEPT ![c] = "none", ![w] = "there"],
             late' = [late EXCEPT ![To[c]] = @ + 1]
      PROVE  ServerInv' /\ Pool!Pass(c, w)
  <2>1. phase[w] = "connecting" /\ w # c /\ upstream[w] = "none"
    BY <1>4 DEF HandOver, Waiting, WaitsWithout
  <2>2. phase' \in [Conns -> Phases]
    BY <1>1, <1>4 DEF TypeOK, Phases
  <2>3. \A d \in Conns : phase'[d] = IF d = w THEN "sending"
                                     ELSE IF d = c THEN "closing" ELSE phase[d]
    BY <1>4 DEF TypeOK
  <2>4. \A d \in Conns : upstream'[d] = IF d = w THEN "there"
                                        ELSE IF d = c THEN "none" ELSE upstream[d]
    BY <1>4 DEF TypeOK
  <2>5. Holding' = Holding /\ Backlog' = Backlog /\ SlotsExact' /\ LinesPaid'
    BY <1>1, <2>1, <2>2, <2>3, HeldStep
  <2>6. TypeOK'
    <3>1. upstream' \in [Conns -> {"none", "there", "gone"}]
      BY <1>4 DEF TypeOK
    <3>2. /\ reused' \in [Conns -> BOOLEAN] /\ late' \in [Addrs -> Nat]
          /\ idle' = idle
      BY <1>4, <1>2 DEF HandOver, TypeOK
    <3> QED BY <2>2, <3>1, <3>2 DEF TypeOK, loop
  <2>7. UpstreamHeld' /\ WaitsWithout'
    BY <2>3, <2>4 DEF UpstreamHeld, WaitsWithout, Working, Plain
  <2>8. Dialled' = (Dialled \ {c}) \cup {w} /\ w \notin Dialled
    BY <2>1, <2>4 DEF Dialled
  <2>9. w \in Holding
    BY <1>1, <2>1 DEF Holding
  <2>10. idle' = idle
    BY <1>4 DEF HandOver
  <2> QED BY <1>2, <2>5, <2>6, <2>7, <2>8, <2>9, <2>10 DEF Pool!Pass, Backlog
<1> QED BY <1>3, <1>4

(* Outside the handlers the transport drops, keeps or hands over what has  *)
(* come to it.                                                             *)
LEMMA TransportStep ==
  ASSUME ServerInv, NEW a \in Addrs, IdleLeaves(a) \/ LateDial(a)
  PROVE  ServerInv' /\ (\/ Pool!Drop(a) \/ Pool!Keep(a) \/ PoolSame
                        \/ \E w \in Conns : Pool!Dial(w))
<1> USE DEF ServerInv
<1>1. ASSUME UNCHANGED <<phase, client, upstream, slots, loop>>,
             reused' = reused, idle' \in [Addrs -> 0..MaxIdle],
             late' \in [Addrs -> Nat]
      PROVE  /\ ServerInv' /\ Backlog' = Backlog /\ Holding' = Holding
             /\ Dialled' = Dialled
  <2>1. Holding' = Holding /\ Accepted' = Accepted /\ Dialled' = Dialled
        /\ Backlog' = Backlog
    BY <1>1 DEF Holding, Accepted, Dialled, Backlog
  <2>2. TypeOK'
    BY <1>1 DEF TypeOK, loop
  <2>3. SlotsExact' /\ LinesPaid' /\ UpstreamHeld' /\ WaitsWithout'
    BY <1>1, <2>1 DEF SlotsExact, LinesPaid, UpstreamHeld, WaitsWithout, loop
  <2> QED BY <2>1, <2>2, <2>3
<1>2. CASE IdleLeaves(a)
  <2>1. idle' \in [Addrs -> 0..MaxIdle]
    BY <1>2, MaxIdleAssumption DEF IdleLeaves, TypeOK
  <2>2. /\ ServerInv' /\ Backlog' = Backlog /\ Holding' = Holding
        /\ Dialled' = Dialled
    BY <1>1, <1>2, <2>1 DEF IdleLeaves, TypeOK
  <2> QED BY <1>2, <2>2 DEF IdleLeaves, Pool!Drop, Backlog
<1>3. CASE /\ late' = [late EXCEPT ![a] = @ - 1]
           /\ Keep(a) \/ UNCHANGED <<idle, reused>>
           /\ UNCHANGED <<phase, upstream>>
           /\ LateDial(a)
  <2>1. late' \in [Addrs -> Nat]
    BY <1>3 DEF LateDial, TypeOK
  <2>2. /\ idle' \in [Addrs -> 0..MaxIdle] /\ reused' = reused
        /\ \/ idle[a] < MaxIdle /\ idle' = [idle EXCEPT ![a] = @ + 1]
           \/ idle' = idle
    BY <1>3, KeepStep DEF TypeOK
  <2>3. UNCHANGED <<client, slots, loop>>
    BY <1>3 DEF LateDial
  <2>4. /\ ServerInv' /\ Backlog' = Backlog /\ Holding' = Holding
        /\ Dialled' = Dialled
    BY <1>1, <1>3, <2>1, <2>2, <2>3
  <2> QED BY <2>2, <2>3, <2>4 DEF Pool!Keep, PoolSame, Backlog
<1>4. ASSUME NEW w \in Conns, HandOver(w, a), Goto(w, "sending"),
             upstream' = [upstream EXCEPT ![w] = "there"],
             UNCHANGED <<client, late, slots, loop>>
      PROVE  ServerInv' /\ Pool!Dial(w)
  <2>1. phase[w] = "connecting" /\ phase' = [phase EXCEPT ![w] = "sending"]
    BY <1>4 DEF HandOver, Waiting, Goto
  <2>2. "connecting" \in Held /\ "sending" \in Held
    BY DEF Held, Working, Plain
  <2>3. phase' \in [Conns -> Phases]
    BY <2>1, <2>2 DEF TypeOK, Phases
  <2>4. Holding' = Holding /\ Backlog' = Backlog /\ SlotsExact' /\ LinesPaid'
    BY <1>4, <2>1, <2>2, <2>3, HeldStep DEF TypeOK
  <2>5. reused' \in [Conns -> BOOLEAN] /\ idle' = idle
    BY <1>4 DEF HandOver, TypeOK
  <2>6. TypeOK'
    BY <1>4, <2>3, <2>5 DEF TypeOK, loop
  <2>7. UpstreamHeld' /\ WaitsWithout'
    BY <1>4, <2>1 DEF UpstreamHeld, WaitsWithout, TypeOK, Working, Plain
  <2>8. Dialled' = Dialled \cup {w} /\ w \in Holding
    BY <1>4, <2>1, <2>2 DEF Dialled, Holding, TypeOK
  <2> QED BY <1>4, <2>4, <2>5, <2>6, <2>7, <2>8 DEF Pool!Dial, Backlog
<1> QED BY <1>2, <1>3, <1>4 DEF LateDial

(* Every wait of a handler, in either half of handle, is such a step.      *)
LEMMA WorkingStep ==
  ASSUME ServerInv, NEW c \in Conns,
         ReadRequest(c) \/ PlainNext(c) \/ MITMNext(c) \/ EndTunnel(c)
  PROVE  ServerInv' /\ (PoolSame \/ Pool!Next)
<1> USE DEF Working, MITM, Plain
<1>0. /\ Pool!Dial(c) \/ Pool!HangUp(c) => Pool!Next
      /\ Pool!Reuse(c, To[c]) \/ Pool!Keep(To[c]) => Pool!Next
      /\ (\E w \in Conns : Pool!Pass(c, w)) => Pool!Next
  BY ToAssumption DEF Pool!Next
<1>1. CASE ReadRequest(c)
  BY <1>1, QuietWait DEF ReadRequest
<1>2. CASE PlainLookup(c)
  <2>1. CASE GetConn(c, "resolving")
    BY <1>0, <2>1, GetConnStep
  <2>2. CASE Handler(c, "resolving", "closing") /\ UNCHANGED conn
    BY <2>2, QuietWait
  <2> QED BY <1>2, <2>1, <2>2 DEF PlainLookup
<1>3. CASE PlainConnect(c)
  BY <1>0, <1>3, QuietWait, DialledWait DEF PlainConnect
<1>4. CASE PlainSend(c)
  BY <1>4, QuietWait DEF PlainSend
<1>5. CASE PlainRetry(c)
  BY <1>0, <1>5, GetConnStep DEF PlainRetry
<1>6. CASE PlainFetch(c)
  BY <1>6, QuietWait DEF PlainFetch
<1>7. CASE PlainRelay(c)
  <2>1. CASE Handler(c, "relaying", "closing") /\ UNCHANGED conn
    BY <2>1, QuietWait
  <2>2. CASE ~(Handler(c, "relaying", "closing") /\ UNCHANGED conn)
    BY <1>0, <1>7, <2>2, RelayStep DEF PlainRelay
  <2> QED BY <2>1, <2>2
<1>8. CASE Handshake(c)
  BY <1>8, QuietWait DEF Handshake
<1>9. CASE NextRequest(c)
  BY <1>9, QuietWait DEF NextRequest
<1>10. CASE DialUpstream(c)
  BY <1>0, <1>10, QuietWait, DialledWait DEF DialUpstream
<1>11. CASE Forward(c)
  BY <1>11, QuietWait DEF Forward
<1>12. CASE ReadResponse(c)
  BY <1>12, QuietWait DEF ReadResponse
<1>13. CASE CopyResponse(c)
  BY <1>13, QuietWait DEF CopyResponse
<1>14. CASE EndTunnel(c)
  BY <1>14, QuietWait DEF EndTunnel
<1> QED BY <1>1, <1>2, <1>3, <1>4, <1>5, <1>6, <1>7, <1>8, <1>9, <1>10,
           <1>11, <1>12, <1>13, <1>14 DEF PlainNext, MITMNext

(* Accept takes a slot for the handler it starts, or starts none.          *)
LEMMA AcceptStep ==
  ASSUME ServerInv, NEW c \in Conns, Accept(c)
  PROVE  ServerInv'
<1> USE DEF ServerInv
<1>1. /\ phase[c] = "backlog"
      /\ c \notin Holding /\ c \notin Accepted
  BY DEF Accept, Holding, Accepted, Held, Working, MITM, Plain
<1>2. PICK to \in {"reading", "refusing"} :
        /\ Goto(c, to)
        /\ to = "reading" => slots < MaxConns /\ slots' = slots + 1
        /\ to = "refusing" => slots' = slots
  BY DEF Accept
<1>3. phase' = [phase EXCEPT ![c] = to]
  BY <1>2 DEF Goto
<1>4. \A d \in Conns : phase'[d] = IF d = c THEN to ELSE phase[d]
  BY <1>3 DEF TypeOK
<1>5. Accepted' = Accepted \cup {c}
  BY <1>4 DEF Accepted
<1>6. Cardinality(Accepted') = Cardinality(Accepted) + 1
  BY <1>1, <1>5, CountsFinite, FS_AddElement
<1>7. TypeOK'
  BY <1>2, <1>3, MaxConnsAssumption, DelaysAssumption
     DEF Accept, TypeOK, Phases, Held, Working, conn, pool
<1>8. LinesPaid'
  <2>1. retryDelay' = 0 /\ logged' = logged
    BY DEF Accept
  <2> QED BY <2>1, <1>6, CountsFinite DEF LinesPaid, TypeOK
<1>9. UpstreamHeld' /\ WaitsWithout'
  BY <1>1, <1>3 DEF Accept, UpstreamHeld, WaitsWithout, TypeOK, conn, Working,
                    MITM, Plain
<1>10. SlotsExact'
  <2>1. CASE to = "reading"
    <3>1. Holding' = Holding \cup {c}
      BY <2>1, <1>4 DEF Holding, Held, Working
    <3>2. Cardinality(Holding') = Cardinality(Holding) + 1
      BY <3>1, <1>1, CountsFinite, FS_AddElement
    <3> QED BY <3>2, <2>1, <1>2 DEF SlotsExact
  <2>2. CASE to = "refusing"
    <3>1. Holding' = Holding
      BY <2>2, <1>1, <1>4 DEF Holding, Held, Working, MITM, Plain
    <3> QED BY <3>1, <2>2, <1>2 DEF SlotsExact
  <2> QED BY <1>2, <2>1, <2>2
<1> QED BY <1>7, <1>8, <1>9, <1>10

(* The handler's end: the connections closed, then the slot given back.    *)
LEMMA EndStep ==
  ASSUME ServerInv, NEW c \in Conns, Close(c) \/ Release(c)
  PROVE  ServerInv'
<1> USE DEF ServerInv
<1>1. CASE Close(c)
  <2>1. /\ SlotsExact' /\ LinesPaid'
        /\ phase' \in [Conns -> Phases]
        /\ phase' = [phase EXCEPT ![c] = "releasing"]
        /\ UNCHANGED <<slots, loop>>
    BY <1>1, WaitStep DEF Close, Held
  <2>2. TypeOK'
    BY <1>1, <2>1 DEF Close, TypeOK, loop
  <2>3. UpstreamHeld' /\ WaitsWithout'
    BY <1>1, <2>1 DEF Close, UpstreamHeld, WaitsWithout, TypeOK
  <2> QED BY <2>1, <2>2, <2>3
<1>2. CASE Release(c)
  <2>1. /\ phase[c] = "releasing"
        /\ phase' = [phase EXCEPT ![c] = "closed"]
        /\ slots' = slots - 1
        /\ UNCHANGED <<conn, loop>>
    BY <1>2 DEF Release, Goto
  <2>2. Holding' = Holding \ {c} /\ c \in Holding
    BY <2>1 DEF Holding, Held, Working, MITM, Plain, TypeOK
  <2>3. Cardinality(Holding') = Cardinality(Holding) - 1
    BY <2>2, CountsFinite, FS_RemoveElement
  <2>4. Cardinality(Holding') \in Nat
    <3>1. IsFiniteSet(Holding')
      BY <2>2, CountsFinite, FS_Subset
    <3> QED BY <3>1, FS_CardinalityType
  <2>5. SlotsExact'
    BY <2>1, <2>3 DEF SlotsExact
  <2>6. TypeOK'
    <3>1. slots' \in 0..MaxConns
      BY <2>1, <2>3, <2>4, MaxConnsAssumption DEF SlotsExact, TypeOK
    <3> QED BY <2>1, <3>1 DEF TypeOK, Phases, Held, Working, conn, pool, loop
  <2>7. Accepted' = Accepted
    BY <2>1 DEF Accepted, TypeOK
  <2>8. LinesPaid'
    BY <2>1, <2>7 DEF LinesPaid, loop
  <2>9. UpstreamHeld' /\ WaitsWithout'
    BY <2>1 DEF UpstreamHeld, WaitsWithout, TypeOK, conn, Working, MITM, Plain
  <2> QED BY <2>5, <2>6, <2>8, <2>9
<1> QED BY <1>1, <1>2

(* What happens outside the handlers takes and gives back no slot.         *)
LEMMA OutsideStep ==
  ASSUME ServerInv, NEW c \in Conns, Refuse(c) \/ PeerNext(c)
  PROVE  ServerInv'
<1> USE DEF ServerInv
<1>1. CASE Refuse(c) \/ Connect(c)
  <2>1. PICK from \in {"refusing", "none"}, to \in {"closed", "backlog"} :
          /\ from = "refusing" <=> to = "closed"
          /\ phase[c] = from
          /\ phase' = [phase EXCEPT ![c] = to]
          /\ client' \in [Conns -> {"there", "gone"}]
          /\ UNCHANGED <<upstream, pool, slots, loop>>
    BY <1>1 DEF TypeOK, conn, Refuse, Connect, Handler, Goto
  <2>2. \A d \in Conns : phase'[d] = IF d = c THEN to ELSE phase[d]
    BY <2>1 DEF TypeOK
  <2>3. Holding' = Holding
    BY <2>1, <2>2 DEF Holding, Held, Working, MITM, Plain
  <2>4. Accepted' = Accepted
    BY <2>1, <2>2 DEF Accepted
  <2>5. TypeOK'
    BY <2>1 DEF TypeOK, Phases, pool, loop
  <2>6. SlotsExact' /\ LinesPaid'
    BY <2>1, <2>3, <2>4 DEF SlotsExact, LinesPaid, loop
  <2>7. UpstreamHeld' /\ WaitsWithout'
    BY <2>1, <2>2 DEF UpstreamHeld, WaitsWithout, Working, MITM, Plain
  <2> QED BY <2>5, <2>6, <2>7
<1>2. CASE ClientLeaves(c) \/ UpstreamLeaves(c)
  <2>1. Holding' = Holding /\ Accepted' = Accepted /\ UNCHANGED <<phase, pool, slots, loop>>
    BY <1>2 DEF ClientLeaves, UpstreamLeaves, Holding, Accepted
  <2>2. TypeOK'
    <3>1. client' \in [Conns -> {"there", "gone"}]
      BY <1>2 DEF ClientLeaves, UpstreamLeaves, TypeOK
    <3>2. upstream' \in [Conns -> {"none", "there", "gone"}]
      BY <1>2 DEF ClientLeaves, UpstreamLeaves, TypeOK
    <3> QED BY <2>1, <3>1, <3>2 DEF TypeOK, pool, loop
  <2>3. SlotsExact' /\ LinesPaid'
    BY <2>1 DEF SlotsExact, LinesPaid, loop
  <2>4. UpstreamHeld' /\ WaitsWithout'
    BY <1>2, <2>1 DEF ClientLeaves, UpstreamLeaves, UpstreamHeld, WaitsWithout,
                      TypeOK
  <2> QED BY <2>2, <2>3, <2>4
<1> QED BY <1>1, <1>2 DEF PeerNext

(* A failing Accept and the sleep after it.                                *)
LEMMA LoopStep ==
  ASSUME ServerInv, AcceptFails \/ Wake
  PROVE  ServerInv'
<1> USE DEF ServerInv
<1>1. Holding' = Holding /\ Accepted' = Accepted /\ UNCHANGED <<phase, conn, slots>>
  BY DEF AcceptFails, Wake, Holding, Accepted
<1>2. TypeOK'
  BY <1>1, MaxErrorsAssumption, DelaysAssumption DEF AcceptFails, Wake, TypeOK, Backoff, conn, pool
<1>3. SlotsExact'
  BY <1>1 DEF SlotsExact
<1>4. LinesPaid'
  <2>1. CASE AcceptFails
    <3>1. retryDelay' # 0
      BY <2>1, DelaysAssumption DEF AcceptFails, Backoff, TypeOK
    <3> QED BY <1>1, <2>1, <3>1, CountsFinite DEF AcceptFails, LinesPaid, TypeOK
  <2>2. CASE Wake
    BY <1>1, <2>2 DEF Wake, LinesPaid
  <2> QED BY <2>1, <2>2
<1>5. UpstreamHeld' /\ WaitsWithout'
  BY <1>1 DEF UpstreamHeld, WaitsWithout, conn
<1> QED BY <1>2, <1>3, <1>4, <1>5

(* The inductive invariant of the accept loop and its handlers.            *)
LEMMA ServerInvariant == Spec => []ServerInv
<1>1. Init => ServerInv
  <2> SUFFICES ASSUME Init PROVE ServerInv
    OBVIOUS
  <2>1. Holding = {} /\ Accepted = {}
    BY DEF Init, Holding, Accepted, Held, Working, MITM, Plain
  <2>2. SlotsExact /\ LinesPaid
    BY <2>1, FS_EmptySet DEF SlotsExact, LinesPaid, Init
  <2>3. TypeOK /\ UpstreamHeld /\ WaitsWithout
    BY MaxConnsAssumption, MaxErrorsAssumption, MaxIdleAssumption, DelaysAssumption
       DEF Init, TypeOK, UpstreamHeld, WaitsWithout, Phases
  <2> QED BY <2>2, <2>3 DEF ServerInv
<1>2. ServerInv /\ [Next]_vars => ServerInv'
  <2> SUFFICES ASSUME ServerInv, [Next]_vars PROVE ServerInv'
    OBVIOUS
  <2>1. CASE UNCHANGED vars
    BY <2>1 DEF vars, pool, ServerInv, TypeOK, SlotsExact, UpstreamHeld,
                WaitsWithout, LinesPaid, Holding, Accepted
  <2>2. CASE Next
    BY <2>2, AcceptStep, OutsideStep, WorkingStep, EndStep, TransportStep,
       LoopStep DEF Next, HandlerNext
  <2> QED BY <2>1, <2>2
<1> QED BY <1>1, <1>2, PTL DEF Spec

-----------------------------------------------------------------------------
(* Every variable keeps its type: the slots taken stay within maxConns and *)
(* the delay within a second.                                              *)
THEOREM ServerTypeCorrect == Spec => []TypeOK
<1>1. ServerInv => TypeOK
  BY DEF ServerInv
<1> QED BY <1>1, ServerInvariant, PTL

(* Every handler holds exactly one slot until it has ended.                *)
THEOREM SlotsAlwaysExact == Spec => []SlotsExact
<1>1. ServerInv => SlotsExact
  BY DEF ServerInv
<1> QED BY <1>1, ServerInvariant, PTL

(* No more handlers have an upstream connection than there are slots, and  *)
(* no more are kept for later requests than the transport's limit.         *)
THEOREM DescriptorsAlwaysBounded == Spec => []DescriptorsBounded
<1>1. ServerInv => DescriptorsBounded
  <2> SUFFICES ASSUME ServerInv PROVE DescriptorsBounded
    OBVIOUS
  <2>1. Dialled \in SUBSET Holding
    BY DEF ServerInv, UpstreamHeld, Dialled, Holding, Held
  <2>2. Cardinality(Dialled) <= Cardinality(Holding)
    BY <2>1, CountsFinite, FS_Subset
  <2>3. IsFiniteSet(Dialled)
    BY <2>1, CountsFinite, FS_Subset
  <2>4. Cardinality(Dialled) \in Nat
    BY <2>3, FS_CardinalityType
  <2>5. Cardinality(Holding) <= MaxConns
    BY MaxConnsAssumption DEF ServerInv, SlotsExact, TypeOK
  <2>6. \A a \in Addrs : idle[a] <= MaxIdle
    BY MaxIdleAssumption DEF ServerInv, TypeOK
  <2> QED BY <2>2, <2>4, <2>5, <2>6, CountsFinite, MaxConnsAssumption
          DEF DescriptorsBounded
<1> QED BY <1>1, ServerInvariant, PTL

(***************************************************************************)
(* The refinement: every step of the server is one of the pool, or leaves  *)
(* the pool alone.                                                         *)
(***************************************************************************)

LEMMA SamePoolStutters ==
  ASSUME PoolSame
  PROVE  UNCHANGED Pool!vars
BY DEF PoolSame, Backlog, Pool!vars

(* The accept loop admits while there is a slot, and else turns away.      *)
LEMMA AcceptPool ==
  ASSUME ServerInv, NEW c \in Conns, Accept(c)
  PROVE  Pool!Admit(c) \/ Pool!TurnAway(c)
<1> USE DEF ServerInv
<1>1. /\ phase[c] = "backlog" /\ c \notin Holding
      /\ Dialled' = Dialled /\ idle' = idle
  BY DEF Accept, Holding, Dialled, conn, pool, Held, Working, MITM, Plain
<1>2. PICK to \in {"reading", "refusing"} :
        /\ Goto(c, to)
        /\ to = "reading" => slots < MaxConns /\ slots' = slots + 1
        /\ to = "refusing" => slots >= MaxConns /\ slots' = slots
  BY MaxConnsAssumption DEF Accept, TypeOK
<1>3. \A d \in Conns : phase'[d] = IF d = c THEN to ELSE phase[d]
  BY <1>2 DEF Goto, TypeOK
<1>4. c \in Backlog /\ Backlog' = Backlog \ {c}
  BY <1>1, <1>3 DEF Backlog
<1>5. slots \in 0..MaxConns
  BY DEF TypeOK
<1>6. CASE to = "reading"
  <2>1. Holding' = Holding \cup {c}
    BY <1>6, <1>3 DEF Holding, Held, Working
  <2>2. slots < MaxConns /\ slots' = slots + 1
    BY <1>2, <1>6
  <2>3. Pool!Admit(c)
    BY <1>1, <1>4, <1>5, <2>1, <2>2 DEF Pool!Admit, Backlog
  <2> QED BY <2>3
<1>7. CASE to = "refusing"
  <2>1. Holding' = Holding
    BY <1>7, <1>1, <1>3 DEF Holding, Held, Working, MITM, Plain
  <2>2. slots = MaxConns /\ slots' = slots
    BY <1>2, <1>5, <1>7, MaxConnsAssumption
  <2>3. Pool!TurnAway(c)
    BY <1>1, <1>4, <1>5, <2>1, <2>2 DEF Pool!TurnAway, Backlog
  <2> QED BY <2>3
<1> QED BY <1>2, <1>6, <1>7

(* The upstream is hung up before the slot is given back.                  *)
LEMMA EndPool ==
  ASSUME ServerInv, NEW c \in Conns, Close(c) \/ Release(c)
  PROVE  Pool!HangUp(c) \/ Pool!Leave(c)
<1> USE DEF ServerInv
<1>1. CASE Close(c)
  <2>1. /\ Holding' = Holding /\ slots' = slots
        /\ phase[c] = "closing" /\ phase' = [phase EXCEPT ![c] = "releasing"]
    BY <1>1, WaitStep DEF Close, Held, loop
  <2>2. \A d \in Conns : phase'[d] = IF d = c THEN "releasing" ELSE phase[d]
    BY <2>1 DEF TypeOK
  <2>3. Backlog' = Backlog
    BY <2>1, <2>2 DEF Backlog
  <2>4. \A d \in Conns : upstream'[d] = IF d = c THEN "none" ELSE upstream[d]
    BY <1>1 DEF Close, TypeOK
  <2>5. Dialled' = Dialled \ {c}
    BY <2>4 DEF Dialled
  <2> QED BY <1>1, <2>1, <2>3, <2>5 DEF Close, Pool!HangUp, Backlog
<1>2. CASE Release(c)
  <2>1. /\ phase[c] = "releasing" /\ phase' = [phase EXCEPT ![c] = "closed"]
        /\ slots' = slots - 1 /\ Dialled' = Dialled /\ idle' = idle
    BY <1>2 DEF Release, Goto, conn, pool, Dialled
  <2>2. \A d \in Conns : phase'[d] = IF d = c THEN "closed" ELSE phase[d]
    BY <2>1 DEF TypeOK
  <2>3. "releasing" \in Held /\ "closed" \notin Held
    BY DEF Held, Working, MITM, Plain
  <2>4. c \in Holding /\ Holding' = Holding \ {c}
    BY <2>1, <2>2, <2>3 DEF Holding
  <2>5. Backlog' = Backlog
    BY <2>1, <2>2 DEF Backlog
  <2>6. c \notin Dialled
    BY <2>1 DEF Dialled, UpstreamHeld, Working, MITM, Plain
  <2> QED BY <2>1, <2>4, <2>5, <2>6 DEF Pool!Leave, Backlog
<1> QED BY <1>1, <1>2

LEMMA OutsidePool ==
  ASSUME TypeOK, NEW c \in Conns, Refuse(c) \/ PeerNext(c)
  PROVE  PoolSame \/ Pool!Arrive(c)
<1>1. CASE Refuse(c)
  <2>1. /\ phase[c] = "refusing" /\ phase' = [phase EXCEPT ![c] = "closed"]
        /\ UNCHANGED <<upstream, idle, slots>>
    BY <1>1 DEF Refuse, Handler, Goto, pool
  <2>2. Holding' = Holding /\ Backlog' = Backlog /\ Dialled' = Dialled
    BY <2>1 DEF Holding, Backlog, Dialled, Held, Working, MITM, Plain, TypeOK
  <2> QED BY <2>1, <2>2 DEF PoolSame
<1>2. CASE Connect(c)
  <2>1. /\ phase[c] = "none" /\ phase' = [phase EXCEPT ![c] = "backlog"]
        /\ UNCHANGED <<upstream, idle, slots>>
    BY <1>2 DEF Connect, Goto, conn, pool
  <2>2. /\ Holding' = Holding /\ Backlog' = Backlog \cup {c} /\ Dialled' = Dialled
        /\ c \notin Backlog \cup Holding
    BY <2>1 DEF Holding, Backlog, Dialled, Held, Working, MITM, Plain, TypeOK
  <2> QED BY <2>1, <2>2 DEF Pool!Arrive, Backlog
<1>3. CASE ClientLeaves(c)
  BY <1>3 DEF ClientLeaves, pool, PoolSame, Backlog, Holding, Dialled
<1>4. CASE UpstreamLeaves(c)
  BY <1>4 DEF UpstreamLeaves, pool, PoolSame, Backlog, Holding, Dialled, TypeOK
<1> QED BY <1>1, <1>2, <1>3, <1>4 DEF PeerNext

LEMMA PoolStep ==
  ASSUME ServerInv, [Next]_vars
  PROVE  [Pool!Next]_(Pool!vars)
<1>0. TypeOK
  BY DEF ServerInv
<1>1. ASSUME NEW c \in Conns, Accept(c) PROVE Pool!Next
  BY <1>1, AcceptPool DEF Pool!Next
<1>2. ASSUME NEW c \in Conns, Refuse(c) \/ PeerNext(c)
      PROVE  PoolSame \/ Pool!Next
  BY <1>0, <1>2, OutsidePool DEF Pool!Next
<1>3. ASSUME NEW c \in Conns, HandlerNext(c) PROVE PoolSame \/ Pool!Next
  BY <1>3, WorkingStep, EndPool DEF HandlerNext, Pool!Next
<1>4. ASSUME UNCHANGED <<phase, upstream, idle, slots>> PROVE PoolSame
  BY <1>4 DEF PoolSame, Backlog, Holding, Dialled
<1>5. CASE AcceptFails \/ Wake
  <2>1. UNCHANGED <<phase, upstream, idle, slots>>
    BY <1>5 DEF AcceptFails, Wake, conn, pool
  <2> QED BY <1>4, <2>1, SamePoolStutters
<1>6. CASE UNCHANGED vars
  <2>1. UNCHANGED <<phase, upstream, idle, slots>>
    BY <1>6 DEF vars, pool
  <2> QED BY <1>4, <2>1, SamePoolStutters
<1>7. ASSUME NEW a \in Addrs, IdleLeaves(a) \/ LateDial(a)
      PROVE  PoolSame \/ Pool!Next
  BY <1>7, TransportStep DEF Pool!Next
<1> QED BY <1>1, <1>2, <1>3, <1>5, <1>6, <1>7, SamePoolStutters DEF Next

(* The server implements the pool of maxConns slots: no client is turned   *)
(* away while there is a slot, and none leaves before its upstream is      *)
(* closed, passed to one other holder or kept within the limit.            *)
THEOREM ImplementsPool == Spec => KeepsPool
<1>1. Init => Pool!Init
  <2> SUFFICES ASSUME Init PROVE Pool!Init
    OBVIOUS
  <2>1. /\ Holding = {} /\ Backlog = {} /\ Dialled = {} /\ slots = 0
        /\ idle = [a \in Addrs |-> 0]
    BY DEF Init, Holding, Backlog, Dialled, Held, Working, MITM, Plain
  <2> QED BY <2>1 DEF Pool!Init, Backlog
<1>2. ServerInv /\ [Next]_vars => [Pool!Next]_(Pool!vars)
  BY PoolStep
<1> QED BY <1>1, <1>2, ServerInvariant, PTL DEF Spec, KeepsPool, Pool!Spec

(* One line at most for each storm of accept errors.                       *)
THEOREM StormsLoggedOnce == Spec => []StormLoggedOnce
<1>1. ServerInv => StormLoggedOnce
  BY CountsFinite DEF ServerInv, TypeOK, LinesPaid, StormLoggedOnce
<1> QED BY <1>1, ServerInvariant, PTL

-----------------------------------------------------------------------------
(* The maps that the handlers share (CertCache).                           *)

(* A handler about to store has a certificate to store.                    *)
HasLeaf == \A p \in Handlers : pc[p] \in {"checking", "storing"} => leaf[p] \in Certs

(* What the bound rests on: the handlers past the test of the counter are  *)
(* counted with what it holds, as if they had all stored already.          *)
Room ==
  cacheSize + Cardinality(At("counting")) + Cardinality(At("storing"))
    <= CacheLimit

BoundInv == CacheTypeOK /\ HasLeaf /\ SizeTrails /\ Room

-----------------------------------------------------------------------------
(* The handlers at a point are finitely many.                              *)
LEMMA AtFinite ==
  ASSUME NEW q
  PROVE  /\ IsFiniteSet(At(q))
         /\ Cardinality(At(q)) \in Nat
<1>1. At(q) \in SUBSET Handlers
  BY DEF At
<1>2. IsFiniteSet(At(q))
  BY <1>1, HandlersAssumption, FS_Subset
<1> QED BY <1>2, FS_CardinalityType

(* The limit is a number, and at least maxCachedCerts.                     *)
LEMMA LimitNat == CacheLimit \in Nat /\ MaxCachedCerts <= CacheLimit
<1>1. Cardinality(Handlers) \in Nat \ {0}
  BY HandlersAssumption, FS_CardinalityType, FS_EmptySet
<1> QED BY <1>1, MaxAssumption DEF CacheLimit

(* A handler that moves leaves one point for another and passes by none.   *)
LEMMA GotoMoves ==
  ASSUME CacheTypeOK, NEW p \in Handlers, NEW from, NEW to, from # to,
         Move(p, from, to)
  PROVE  /\ Cardinality(At(from)') = Cardinality(At(from)) - 1
         /\ Cardinality(At(to)') = Cardinality(At(to)) + 1
         /\ \A q : q # from /\ q # to => At(q)' = At(q)
<1>1. /\ pc[p] = from
      /\ pc'[p] = to
      /\ \A r \in Handlers \ {p} : pc'[r] = pc[r]
  BY DEF Move, CacheTypeOK
<1>2. At(from)' = At(from) \ {p} /\ p \in At(from)
  BY <1>1 DEF At
<1>3. At(to)' = At(to) \cup {p} /\ p \notin At(to)
  BY <1>1 DEF At
<1>4. Cardinality(At(from)') = Cardinality(At(from)) - 1
  BY <1>2, AtFinite, FS_RemoveElement
<1>5. Cardinality(At(to)') = Cardinality(At(to)) + 1
  BY <1>3, AtFinite, FS_AddElement
<1>6. \A q : q # from /\ q # to => At(q)' = At(q)
  BY <1>1 DEF At
<1> QED BY <1>4, <1>5, <1>6

(* A step that moves no handler to or from the two points the bound counts *)
(* and leaves the maps alone keeps it.                                     *)
LEMMA Elsewhere ==
  ASSUME BoundInv, NEW p \in Handlers, NEW from, NEW to,
         from # to, Move(p, from, to),
         {from, to} \cap {"counting", "storing"} = {},
         UNCHANGED <<cache, cacheSize>>
  PROVE  SizeTrails' /\ Room'
<1>1. At("counting")' = At("counting") /\ At("storing")' = At("storing")
  <2>1. \A q : q # from /\ q # to => At(q)' = At(q)
    BY GotoMoves DEF BoundInv
  <2>2. /\ "counting" # from /\ "counting" # to
        /\ "storing" # from /\ "storing" # to
    OBVIOUS
  <2> QED BY <2>1, <2>2
<1>2. Cached' = Cached
  BY DEF Cached
<1> QED BY <1>1, <1>2 DEF BoundInv, SizeTrails, Room, CacheLimit

(* Every step of mintCert keeps the bound, whatever the other handlers     *)
(* have done since the step before it.                                     *)
LEMMA MintCertKeepsBound ==
  ASSUME BoundInv, NEW p \in Handlers, MintCert(p)
  PROVE  BoundInv'
<1> USE DEF BoundInv
<1>1. CASE Begin(p)
  <2>1. CacheTypeOK' /\ HasLeaf'
    BY <1>1 DEF Begin, Move, CacheTypeOK, HasLeaf, Points, CacheLimit
  <2> QED BY <1>1, <2>1, Elsewhere DEF Begin
<1>2. CASE Load(p)
  <2>1. host[p] \in Hosts
    BY <1>2 DEF Load, Move, CacheTypeOK
  <2>2. CacheTypeOK' /\ HasLeaf'
    BY <1>2, <2>1 DEF Load, Move, CacheTypeOK, HasLeaf, Points, CacheLimit
  <2>3. SizeTrails' /\ Room'
    BY <1>2, Elsewhere DEF Load
  <2> QED BY <2>2, <2>3
<1>3. CASE Mint(p)
  <2>1. host[p] \in Hosts
    BY <1>3 DEF Mint, Move, Finish, CacheTypeOK
  <2>2. CacheTypeOK' /\ HasLeaf'
    <3>1. CASE Move(p, "minting", "checking")
      <4>1. [by |-> p, for |-> host[p]] \in Certs
        BY <2>1 DEF Certs
      <4>2. /\ leaf' = [leaf EXCEPT ![p] = [by |-> p, for |-> host[p]]]
            /\ UNCHANGED <<host, cache, cacheSize, allowed, lines>>
        BY <1>3, <3>1 DEF Mint, Finish, Move, CacheTypeOK
      <4> QED BY <3>1, <4>1, <4>2 DEF Move, CacheTypeOK, HasLeaf, Points, CacheLimit
    <3>2. CASE Finish(p, "minting")
      BY <1>3, <3>2 DEF Mint, Finish, Move, CacheTypeOK, HasLeaf, Points, CacheLimit
    <3> QED BY <1>3, <3>1, <3>2 DEF Mint
  <2>3. SizeTrails' /\ Room'
    BY <1>3, Elsewhere DEF Mint, Finish
  <2> QED BY <2>2, <2>3
<1>4. CASE CheckSize(p)
  <2>1. CacheTypeOK' /\ HasLeaf'
    BY <1>4 DEF CheckSize, Move, CacheTypeOK, HasLeaf, Points, CacheLimit
  <2>2. CASE Move(p, "checking", "storing")
    <3>1. /\ cacheSize < MaxCachedCerts
          /\ UNCHANGED <<cache, cacheSize>>
      BY <1>4, <2>2 DEF CheckSize, Move, CacheTypeOK
    <3>2. /\ Cardinality(At("storing")') = Cardinality(At("storing")) + 1
          /\ At("counting")' = At("counting")
      BY <2>2, GotoMoves
    <3>3. Cardinality(At("counting")) + Cardinality(At("storing"))
            <= Cardinality(Handlers) - 1
      <4> DEFINE Past == At("counting") \cup At("storing")
      <4>1. Past \in SUBSET (Handlers \ {p})
        BY <2>2 DEF At, Move, CacheTypeOK
      <4>2. IsFiniteSet(Handlers \ {p})
            /\ Cardinality(Handlers \ {p}) = Cardinality(Handlers) - 1
        BY HandlersAssumption, FS_RemoveElement
      <4>3. Cardinality(Past) <= Cardinality(Handlers) - 1
        BY <4>1, <4>2, FS_Subset
      <4>4. At("counting") \cap At("storing") = {}
        BY DEF At
      <4>5. Cardinality(Past)
              = Cardinality(At("counting")) + Cardinality(At("storing"))
        <5>1. Cardinality(At("counting") \cap At("storing")) = 0
          BY <4>4, FS_EmptySet
        <5>2. Cardinality(Past)
                = Cardinality(At("counting")) + Cardinality(At("storing"))
                    - Cardinality(At("counting") \cap At("storing"))
          BY AtFinite, FS_Union
        <5> HIDE DEF Past
        <5> QED BY <5>1, <5>2, AtFinite
      <4> QED BY <4>3, <4>5
    <3>4. Cached' = Cached
      BY <3>1 DEF Cached
    <3>5. Cardinality(Handlers) \in Nat
      BY HandlersAssumption, FS_CardinalityType
    <3>6. Room'
      BY <3>1, <3>2, <3>3, <3>5, AtFinite, MaxAssumption
         DEF Room, CacheLimit, CacheTypeOK
    <3> QED BY <2>1, <3>1, <3>2, <3>4, <3>6 DEF SizeTrails
  <2>3. CASE Move(p, "checking", "serving")
    BY <1>4, <2>1, <2>3, Elsewhere DEF CheckSize
  <2> QED BY <1>4, <2>2, <2>3 DEF CheckSize
<1>5. CASE Store(p)
  <2>1. host[p] \in Hosts /\ leaf[p] \in Certs /\ leaf[p] # None
    BY <1>5, NoneAssumption DEF Store, Move, CacheTypeOK, HasLeaf
  <2>2. CacheTypeOK' /\ HasLeaf'
    BY <1>5, <2>1 DEF Store, Move, CacheTypeOK, HasLeaf, Points, CacheLimit
  <2>3. CASE Move(p, "storing", "counting")
    <3>1. /\ cache[host[p]] = None
          /\ cache' = [cache EXCEPT ![host[p]] = leaf[p]]
          /\ cacheSize' = cacheSize
      BY <1>5, <2>3 DEF Store, Move, CacheTypeOK
    <3>2. Cached' = Cached \cup {host[p]} /\ host[p] \notin Cached
      BY <2>1, <3>1 DEF Cached, CacheTypeOK
    <3>3. IsFiniteSet(Cached)
      BY HostsAssumption, FS_Subset DEF Cached
    <3>4. Cardinality(Cached') = Cardinality(Cached) + 1
      BY <3>2, <3>3, FS_AddElement
    <3>5. /\ Cardinality(At("storing")') = Cardinality(At("storing")) - 1
          /\ Cardinality(At("counting")') = Cardinality(At("counting")) + 1
      BY <2>3, GotoMoves
    <3>6. SizeTrails' /\ Room'
      BY <3>1, <3>4, <3>5, AtFinite, LimitNat DEF SizeTrails, Room, CacheTypeOK, CacheLimit
    <3> QED BY <2>2, <3>6
  <2>4. CASE Move(p, "storing", "serving")
    <3>1. UNCHANGED <<cache, cacheSize>>
      BY <1>5, <2>4 DEF Store, Move, CacheTypeOK
    <3>2. /\ Cardinality(At("storing")') = Cardinality(At("storing")) - 1
          /\ At("counting")' = At("counting")
      BY <2>4, GotoMoves
    <3>3. Cached' = Cached
      BY <3>1 DEF Cached
    <3>4. Room'
      BY <3>1, <3>2, AtFinite, LimitNat DEF Room, CacheTypeOK, CacheLimit
    <3> QED BY <2>2, <3>1, <3>2, <3>3, <3>4 DEF SizeTrails
  <2> QED BY <1>5, <2>3, <2>4 DEF Store
<1>6. CASE Count(p)
  <2>1. /\ Cardinality(At("counting")') = Cardinality(At("counting")) - 1
        /\ At("storing")' = At("storing")
    BY <1>6, GotoMoves DEF Count
  <2>2. Cardinality(At("counting")') \in Nat
    <3>1. IsFiniteSet(At("counting")')
      BY HandlersAssumption, FS_Subset DEF At
    <3> QED BY <3>1, FS_CardinalityType
  <2>3. Cached' = Cached /\ cacheSize' = cacheSize + 1
    BY <1>6 DEF Count, Cached
  <2>4. SizeTrails' /\ Room'
    BY <2>1, <2>2, <2>3, AtFinite, LimitNat DEF SizeTrails, Room, CacheTypeOK, CacheLimit
  <2>5. cacheSize' \in 0..CacheLimit
    BY <2>1, <2>2, <2>3, AtFinite, LimitNat DEF Room, CacheTypeOK
  <2>6. CacheTypeOK' /\ HasLeaf'
    BY <1>6, <2>5 DEF Count, Move, CacheTypeOK, HasLeaf, Points, CacheLimit
  <2> QED BY <2>4, <2>6
<1> QED BY <1>1, <1>2, <1>3, <1>4, <1>5, <1>6 DEF MintCert

(* The steps between mintCert and the end of a connection touch no cache.  *)
LEMMA RequestKeepsBound ==
  ASSUME BoundInv, NEW p \in Handlers,
         FirstContact(p) \/ RefuseRequest(p) \/ LogAllowed(p)
  PROVE  BoundInv'
<1> USE DEF BoundInv
<1>1. CASE FirstContact(p)
  <2>1. host[p] \in Hosts
    BY <1>1 DEF FirstContact, Finish, Move, CacheTypeOK
  <2>2. CacheTypeOK' /\ HasLeaf'
    BY <1>1, <2>1
       DEF FirstContact, Finish, Move, CacheTypeOK, HasLeaf, Points, CacheLimit
  <2>3. SizeTrails' /\ Room'
    BY <1>1, Elsewhere DEF FirstContact, Finish
  <2> QED BY <2>2, <2>3
<1>2. CASE RefuseRequest(p)
  <2>1. CacheTypeOK' /\ HasLeaf'
    BY <1>2 DEF RefuseRequest, Finish, Move, CacheTypeOK, HasLeaf, Points, CacheLimit
  <2>2. SizeTrails' /\ Room'
    BY <1>2, Elsewhere DEF RefuseRequest, Finish
  <2> QED BY <2>1, <2>2
<1>3. CASE LogAllowed(p)
  <2>1. CacheTypeOK' /\ HasLeaf'
    BY <1>3 DEF LogAllowed, Finish, Move, CacheTypeOK, HasLeaf, Points, CacheLimit
  <2>2. SizeTrails' /\ Room'
    BY <1>3, Elsewhere DEF LogAllowed, Finish
  <2> QED BY <2>1, <2>2
<1> QED BY <1>1, <1>2, <1>3

(* The inductive invariant of the cache.                                   *)
LEMMA BoundInvariant == CacheSpec => []BoundInv
<1>1. CacheInit => BoundInv
  <2> SUFFICES ASSUME CacheInit PROVE BoundInv
    OBVIOUS
  <2>1. Cached = {} /\ At("counting") = {} /\ At("storing") = {}
    BY DEF CacheInit, Cached, At
  <2>2. SizeTrails /\ Room
    BY <2>1, FS_EmptySet, LimitNat DEF SizeTrails, Room, CacheInit
  <2>3. CacheTypeOK /\ HasLeaf
    BY LimitNat DEF CacheInit, CacheTypeOK, HasLeaf, Points
  <2> QED BY <2>2, <2>3 DEF BoundInv
<1>2. BoundInv /\ [CacheNext]_cacheVars => BoundInv'
  <2> SUFFICES ASSUME BoundInv, [CacheNext]_cacheVars PROVE BoundInv'
    OBVIOUS
  <2>1. CASE UNCHANGED cacheVars
    BY <2>1 DEF cacheVars, BoundInv, CacheTypeOK, HasLeaf, SizeTrails, Room, At, Cached,
                CacheLimit
  <2>2. CASE CacheNext
    BY <2>2, MintCertKeepsBound, RequestKeepsBound DEF CacheNext
  <2> QED BY <2>1, <2>2
<1> QED BY <1>1, <1>2, PTL DEF CacheSpec

(* Every variable keeps its type, the counter its bound.                   *)
THEOREM CacheTypeCorrect == CacheSpec => []CacheTypeOK
<1>1. BoundInv => CacheTypeOK
  BY DEF BoundInv
<1> QED BY <1>1, BoundInvariant, PTL

(* The counter trails the map by the handlers that have stored and not     *)
(* yet counted, under any interleaving of any number of them.              *)
THEOREM SizeAlwaysTrails == CacheSpec => []SizeTrails
<1>1. BoundInv => SizeTrails
  BY DEF BoundInv
<1> QED BY <1>1, BoundInvariant, PTL

(* The cache outgrows maxCachedCerts by less than the number of handlers.  *)
THEOREM CacheAlwaysBounded == CacheSpec => []CacheBounded
<1>1. BoundInv => CacheBounded
  BY AtFinite, LimitNat DEF BoundInv, SizeTrails, Room, CacheBounded, CacheTypeOK
<1> QED BY <1>1, BoundInvariant, PTL

(* A cached certificate is never replaced.                                 *)
THEOREM CacheAlwaysStable == CacheSpec => CacheStable
<1>1. BoundInv /\ [CacheNext]_cacheVars
        => [\A h \in Hosts : cache[h] # None => cache'[h] = cache[h]]_cacheVars
  <2> SUFFICES ASSUME BoundInv, CacheNext, NEW h \in Hosts, cache[h] # None
               PROVE  cache'[h] = cache[h]
    BY DEF cacheVars
  <2>1. PICK p \in Handlers :
          MintCert(p) \/ FirstContact(p) \/ RefuseRequest(p) \/ LogAllowed(p)
    BY DEF CacheNext
  <2>2. CASE Store(p)
    BY <2>2 DEF Store, Move, BoundInv, CacheTypeOK
  <2>3. CASE ~Store(p)
    BY <2>1, <2>3 DEF MintCert, Begin, Load, Mint, CheckSize, Count,
                      FirstContact, RefuseRequest, LogAllowed
  <2> QED BY <2>2, <2>3
<1> QED BY <1>1, BoundInvariant, PTL DEF CacheSpec, CacheStable

-----------------------------------------------------------------------------
(* The handlers that are to write a line for a host.                       *)
Writing(h) == {p \in At("logging") : host[p] = h}

(* They are finitely many.                                                 *)
LEMMA WritingFinite ==
  ASSUME NEW h
  PROVE  /\ IsFiniteSet(Writing(h))
         /\ Cardinality(Writing(h)) \in Nat
<1>1. Writing(h) \in SUBSET Handlers
  BY DEF Writing, At
<1>2. IsFiniteSet(Writing(h))
  BY <1>1, HandlersAssumption, FS_Subset
<1> QED BY <1>2, FS_CardinalityType

(* LoggedOnce is inductive: the mark and the duty to write pass together.  *)
LEMMA LoggedStep ==
  ASSUME CacheTypeOK, LoggedOnce, [CacheNext]_cacheVars
  PROVE  LoggedOnce'
<1> SUFFICES ASSUME NEW h \in Hosts
             PROVE  lines'[h] + Cardinality(Writing(h)')
                      = IF h \in allowed' THEN 1 ELSE 0
  BY DEF LoggedOnce, Writing
<1>1. lines[h] + Cardinality(Writing(h)) = IF h \in allowed THEN 1 ELSE 0
  BY DEF LoggedOnce, Writing
<1>2. lines[h] \in Nat
  BY DEF CacheTypeOK
<1>3. CASE /\ Writing(h)' = Writing(h)
           /\ lines'[h] = lines[h]
           /\ h \in allowed' <=> h \in allowed
  BY <1>1, <1>3
<1>4. CASE UNCHANGED cacheVars
  <2>1. Writing(h)' = Writing(h)
    BY <1>4 DEF cacheVars, Writing, At
  <2> QED BY <1>4, <2>1, <1>3 DEF cacheVars
<1>5. ASSUME NEW p \in Handlers, MintCert(p)
      PROVE  /\ Writing(h)' = Writing(h)
             /\ lines'[h] = lines[h]
             /\ h \in allowed' <=> h \in allowed
  <2>1. lines' = lines /\ allowed' = allowed
    BY <1>5 DEF MintCert, Begin, Load, Mint, CheckSize, Store, Count
  <2>2. /\ pc[p] # "logging"
        /\ pc'[p] # "logging"
        /\ \A r \in Handlers \ {p} : pc'[r] = pc[r] /\ host'[r] = host[r]
    BY <1>5 DEF MintCert, Begin, Load, Mint, CheckSize, Store, Count, Finish,
                Move, CacheTypeOK
  <2>3. Writing(h)' = Writing(h)
    BY <2>2 DEF Writing, At
  <2> QED BY <2>1, <2>3
<1>6. ASSUME NEW p \in Handlers, FirstContact(p)
      PROVE  lines'[h] + Cardinality(Writing(h)')
               = IF h \in allowed' THEN 1 ELSE 0
  <2>1. /\ pc[p] = "serving"
        /\ \A r \in Handlers \ {p} : pc'[r] = pc[r] /\ host'[r] = host[r]
        /\ lines' = lines
        /\ allowed' = allowed \cup {host[p]}
    BY <1>6 DEF FirstContact, Finish, Move, CacheTypeOK
  <2>2. CASE host[p] = h /\ h \notin allowed
    <3>1. pc'[p] = "logging" /\ host'[p] = h
      BY <1>6, <2>2 DEF FirstContact, Move, CacheTypeOK
    <3>2. Writing(h)' = Writing(h) \cup {p} /\ p \notin Writing(h)
      BY <2>1, <3>1 DEF Writing, At
    <3>3. Cardinality(Writing(h)') = Cardinality(Writing(h)) + 1
      BY <3>2, WritingFinite, FS_AddElement
    <3> QED BY <1>1, <1>2, <2>1, <2>2, <3>3, WritingFinite
  <2>3. CASE host[p] = h /\ h \in allowed
    <3>1. pc'[p] = "idle"
      BY <1>6, <2>3 DEF FirstContact, Finish, Move, CacheTypeOK
    <3>2. Writing(h)' = Writing(h)
      BY <2>1, <3>1 DEF Writing, At
    <3> QED BY <1>1, <2>1, <2>3, <3>2
  <2>4. CASE host[p] # h
    <3>1. host'[p] # h \/ pc'[p] # "logging"
      BY <1>6, <2>4 DEF FirstContact, Finish, Move, CacheTypeOK
    <3>2. Writing(h)' = Writing(h)
      BY <2>1, <2>4, <3>1 DEF Writing, At
    <3> QED BY <1>1, <2>1, <2>4, <3>2
  <2> QED BY <2>2, <2>3, <2>4
<1>7. ASSUME NEW p \in Handlers, RefuseRequest(p)
      PROVE  /\ Writing(h)' = Writing(h)
             /\ lines'[h] = lines[h]
             /\ h \in allowed' <=> h \in allowed
  BY <1>7 DEF RefuseRequest, Finish, Move, CacheTypeOK, Writing, At
<1>8. ASSUME NEW p \in Handlers, LogAllowed(p)
      PROVE  lines'[h] + Cardinality(Writing(h)')
               = IF h \in allowed' THEN 1 ELSE 0
  <2>1. /\ pc[p] = "logging"
        /\ pc'[p] = "idle"
        /\ \A r \in Handlers \ {p} : pc'[r] = pc[r] /\ host'[r] = host[r]
        /\ lines' = [lines EXCEPT ![host[p]] = @ + 1]
        /\ allowed' = allowed
    BY <1>8 DEF LogAllowed, Finish, Move, CacheTypeOK
  <2>2. CASE host[p] = h
    <3>1. Writing(h)' = Writing(h) \ {p} /\ p \in Writing(h)
      BY <2>1, <2>2 DEF Writing, At
    <3>2. Cardinality(Writing(h)') = Cardinality(Writing(h)) - 1
      BY <3>1, WritingFinite, FS_RemoveElement
    <3>3. lines'[h] = lines[h] + 1
      BY <2>1, <2>2 DEF CacheTypeOK
    <3> QED BY <1>1, <1>2, <2>1, <3>2, <3>3, WritingFinite
  <2>3. CASE host[p] # h
    <3>1. Writing(h)' = Writing(h)
      BY <2>1, <2>3 DEF Writing, At
    <3>2. lines'[h] = lines[h]
      BY <2>1, <2>3 DEF CacheTypeOK
    <3> QED BY <1>1, <2>1, <3>1, <3>2
  <2> QED BY <2>2, <2>3
<1> QED BY <1>3, <1>4, <1>5, <1>6, <1>7, <1>8 DEF CacheNext

(* Each host has one line in the log, or is one step from it, from its     *)
(* first allowed request on, however many handlers it reaches at once.     *)
THEOREM AlwaysLoggedOnce == CacheSpec => []LoggedOnce
<1>1. CacheInit => LoggedOnce
  <2> SUFFICES ASSUME CacheInit, NEW h \in Hosts
               PROVE  lines[h] + Cardinality(Writing(h))
                        = IF h \in allowed THEN 1 ELSE 0
    BY DEF LoggedOnce, Writing
  <2>1. Writing(h) = {}
    BY DEF CacheInit, Writing, At
  <2> QED BY <2>1, FS_EmptySet DEF CacheInit
<1> QED BY <1>1, LoggedStep, CacheTypeCorrect, PTL DEF CacheSpec

=============================================================================
