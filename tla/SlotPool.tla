------------------------------ MODULE SlotPool -------------------------------
(***************************************************************************)
(* What serve promises of maxConns (proxy/main.go): every client that      *)
(* arrives is admitted while there is a slot, and turned away only when    *)
(* there is none; a client that was admitted holds exactly one slot until  *)
(* it leaves, and leaves only once its upstream connection is closed, kept *)
(* among a bounded number of spare ones, or another holder's.              *)
(* ProxyServer implements it.                                              *)
(***************************************************************************)
EXTENDS Naturals

CONSTANTS
  Clients, Slots,
  Origins,  \* where upstream connections lead
  Spares    \* how many may be kept to each

VARIABLES
  waiting,  \* the clients that have arrived
  holders,  \* those that were admitted and have not left
  taken,    \* the slots taken
  dialled,  \* the holders that have an upstream connection
  spare     \* the connections kept to each origin

vars == <<waiting, holders, taken, dialled, spare>>

Init ==
  /\ waiting = {} /\ holders = {} /\ taken = 0 /\ dialled = {}
  /\ spare = [a \in Origins |-> 0]

Arrive(c) ==
  /\ c \notin waiting \cup holders
  /\ waiting' = waiting \cup {c}
  /\ UNCHANGED <<holders, taken, dialled, spare>>

Admit(c) ==
  /\ c \in waiting
  /\ taken < Slots
  /\ waiting' = waiting \ {c}
  /\ holders' = holders \cup {c}
  /\ taken' = taken + 1
  /\ UNCHANGED <<dialled, spare>>

TurnAway(c) ==
  /\ c \in waiting
  /\ taken = Slots
  /\ waiting' = waiting \ {c}
  /\ UNCHANGED <<holders, taken, dialled, spare>>

Dial(c) ==
  /\ c \in holders
  /\ dialled' = dialled \cup {c}
  /\ UNCHANGED <<waiting, holders, taken, spare>>

(* One kept before, or that a late dial has brought.                       *)
Reuse(c, a) ==
  /\ c \in holders
  /\ spare[a] > 0
  /\ dialled' = dialled \cup {c}
  /\ spare' = [spare EXCEPT ![a] = @ - 1]
  /\ UNCHANGED <<waiting, holders, taken>>

HangUp(c) ==
  /\ dialled' = dialled \ {c}
  /\ UNCHANGED <<waiting, holders, taken, spare>>

Pass(c, d) ==
  /\ c \in dialled /\ d \in holders \ dialled
  /\ dialled' = (dialled \ {c}) \cup {d}
  /\ UNCHANGED <<waiting, holders, taken, spare>>

(* A holder's, or a late dial's.                                           *)
Keep(a) ==
  /\ spare[a] < Spares
  /\ spare' = [spare EXCEPT ![a] = @ + 1]
  /\ \/ UNCHANGED dialled
     \/ \E c \in dialled : dialled' = dialled \ {c}
  /\ UNCHANGED <<waiting, holders, taken>>

Drop(a) ==
  /\ spare[a] > 0
  /\ spare' = [spare EXCEPT ![a] = @ - 1]
  /\ UNCHANGED <<waiting, holders, taken, dialled>>

Leave(c) ==
  /\ c \in holders \ dialled
  /\ holders' = holders \ {c}
  /\ taken' = taken - 1
  /\ UNCHANGED <<waiting, dialled, spare>>

Next ==
  \/ \E c \in Clients :
       \/ Arrive(c) \/ Admit(c) \/ TurnAway(c) \/ Dial(c) \/ HangUp(c) \/ Leave(c)
       \/ \E d \in Clients : Pass(c, d)
       \/ \E a \in Origins : Reuse(c, a)
  \/ \E a \in Origins : Keep(a) \/ Drop(a)

Spec == Init /\ [][Next]_vars
=============================================================================
