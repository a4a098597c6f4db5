------------------------------ MODULE TakeTurns ------------------------------
(***************************************************************************)
(* What a connection of the proxy promises, however many requests a client *)
(* writes ahead on it: they are taken up one at a time and in order; each  *)
(* is passed on once, or again if it bears repeating; each gets one        *)
(* answer, to the request in hand unless an early answer has put the       *)
(* connection out of step; and one that was turned away is the last.       *)
(* ProxyExchange implements it.                                            *)
(***************************************************************************)
EXTENDS Naturals

VARIABLES
  taken,       \* the requests taken up
  repeatable,  \* may the one in hand be passed on again?
  passed,      \* how many were passed on to the origin
  again,       \* how often one was passed on again
  answered,    \* how many were answered
  early,       \* how many of these answers were not the final ones
  latest,      \* the request the latest answer is to, 0 before the first
  open

vars == <<taken, repeatable, passed, again, answered, early, latest, open>>

Init ==
  /\ taken = 0 /\ passed = 0 /\ again = 0
  /\ answered = 0 /\ early = 0 /\ latest = 0
  /\ repeatable = FALSE /\ open = TRUE

Idle == open /\ answered = taken
InHand == open /\ answered + 1 = taken

AnswerTo(i) == answered' = answered + 1 /\ latest' = i

Take ==
  /\ Idle
  /\ taken' = taken + 1
  /\ repeatable' \in BOOLEAN
  /\ UNCHANGED <<passed, again, answered, early, latest, open>>

(* Refused on sight.                                                       *)
TurnAway ==
  /\ Idle
  /\ taken' = taken + 1
  /\ repeatable' \in BOOLEAN
  /\ AnswerTo(taken + 1)
  /\ open' = FALSE
  /\ UNCHANGED <<passed, again, early>>

Pass ==
  /\ InHand /\ passed + 1 = taken
  /\ passed' = taken
  /\ UNCHANGED <<taken, repeatable, again, answered, early, latest, open>>

Repeat ==
  /\ InHand /\ passed = taken /\ repeatable
  /\ again' = again + 1
  /\ UNCHANGED <<taken, repeatable, passed, answered, early, latest, open>>

(* Only after an answer of the origin may the next request be taken.  Each *)
(* early answer puts the ones behind it one request back.                  *)
Respond ==
  /\ InHand /\ passed = taken
  /\ AnswerTo(taken - early)
  /\ early' \in {early, early + 1}
  /\ open' \in BOOLEAN
  /\ UNCHANGED <<taken, repeatable, passed, again>>

(* Refused later, for its address or for the origin's silence.             *)
GiveUp ==
  /\ InHand
  /\ AnswerTo(taken)
  /\ open' = FALSE
  /\ UNCHANGED <<taken, repeatable, passed, again, early>>

Close ==
  /\ open
  /\ open' = FALSE
  /\ UNCHANGED <<taken, repeatable, passed, again, answered, early, latest>>

Next ==
  Take \/ TurnAway \/ Pass \/ Repeat \/ Respond \/ GiveUp \/ Close

Spec == Init /\ [][Next]_vars
=============================================================================
