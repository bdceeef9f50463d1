------------------------------ MODULE GameFeed ------------------------------
(***************************************************************************)
(* What NornSockets promises a webapp about the game: one game at most is  *)
(* open at a time; a subscriber knows on arrival which one; every later    *)
(* change reaches every subscriber before the next change is made, so a    *)
(* subscriber is never more than one announcement behind and never skips   *)
(* one.  How the announcements are carried is of no concern here.          *)
(***************************************************************************)
EXTENDS Naturals

CONSTANT Subscribers

VARIABLES
    current,    \* number of the game that is open, 0 when none is
    last,       \* number of the last game that was opened
    subs,       \* who is subscribed
    view        \* what each subscriber was last told

feedVars == <<current, last, subs, view>>

Init ==
    /\ current = 0
    /\ last = 0
    /\ subs = {}
    /\ view = [s \in Subscribers |-> 0]

UpToDate == \A s \in subs : view[s] = current

OpenGame ==
    /\ current = 0
    /\ UpToDate
    /\ current' = last + 1
    /\ last' = last + 1
    /\ UNCHANGED <<subs, view>>

CloseGame ==
    /\ current # 0
    /\ UpToDate
    /\ current' = 0
    /\ UNCHANGED <<last, subs, view>>

Tell(s) ==
    /\ s \in subs
    /\ view[s] # current
    /\ view' = [view EXCEPT ![s] = current]
    /\ UNCHANGED <<current, last, subs>>

Subscribe(s) ==
    /\ s \notin subs
    /\ subs' = subs \cup {s}
    /\ view' = [view EXCEPT ![s] = current]
    /\ UNCHANGED <<current, last>>

Unsubscribe(s) ==
    /\ s \in subs
    /\ subs' = subs \ {s}
    /\ UNCHANGED <<current, last, view>>

Next ==
    \/ OpenGame
    \/ CloseGame
    \/ \E s \in Subscribers : Tell(s) \/ Subscribe(s) \/ Unsubscribe(s)

Spec == Init /\ [][Next]_feedVars
=============================================================================
