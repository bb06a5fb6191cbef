-------------------------- MODULE ViewportOwnership --------------------------
(***************************************************************************)
(* What resize-on-watch promises of the PTYs, whatever subscriptions,      *)
(* watches, timers and catalog entries it takes to get there: a phone      *)
(* holds at most one viewport, every other running PTY has exactly the     *)
(* size its desktop pane wants, and a phone never changes what the desktop *)
(* wants.                                                                  *)
(***************************************************************************)
EXTENDS Naturals

CONSTANTS Terms,
          Absent  \* no size: not a number

VARIABLES owner,  \* owner[t]: who decides the size of t
          want,   \* want[t]: the size the desktop pane of t wants
          got     \* got[t]: the size of the PTY of t

vars == <<owner, want, got>>

Init ==
    /\ owner = [t \in Terms |-> "nobody"]
    /\ want = [t \in Terms |-> Absent]
    /\ got = [t \in Terms |-> Absent]

Alive(t) == owner[t] # "nobody"

Start(t) ==
    /\ ~Alive(t)
    /\ want'[t] \in Nat
    /\ owner' = [owner EXCEPT ![t] = "desktop"]
    /\ want' = [want EXCEPT ![t] = want'[t]]
    /\ got' = [got EXCEPT ![t] = want'[t]]

End(t) ==
    /\ Alive(t)
    /\ owner' = [owner EXCEPT ![t] = "nobody"]
    /\ want' = [want EXCEPT ![t] = Absent]
    /\ got' = [got EXCEPT ![t] = Absent]

\* The desktop pane of t is fitted: recorded, and applied unless a phone owns t.
Fit(t) ==
    /\ Alive(t)
    /\ want'[t] \in Nat
    /\ want' = [want EXCEPT ![t] = want'[t]]
    /\ got' = IF owner[t] = "phone" THEN got ELSE [got EXCEPT ![t] = want'[t]]
    /\ UNCHANGED owner

\* Ownership or the phone's size changes: after the step the phone holds the
\* viewports in held, and every other PTY is as its desktop pane wants it.
HandOver(held) ==
    /\ \A t \in held : Alive(t) /\ got'[t] \in Nat
    /\ \A t, u \in held : t = u
    /\ owner' = [t \in Terms |-> IF t \in held THEN "phone"
                                 ELSE IF Alive(t) THEN "desktop" ELSE "nobody"]
    /\ got' = [t \in Terms |-> IF t \in held THEN got'[t] ELSE want[t]]
    /\ UNCHANGED want

Next ==
    \/ \E t \in Terms : Start(t) \/ End(t) \/ Fit(t)
    \/ \E held \in SUBSET Terms : HandOver(held)

Spec == Init /\ [][Next]_vars
=============================================================================
