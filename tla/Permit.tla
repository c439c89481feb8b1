------------------------------- MODULE Permit -------------------------------
(***************************************************************************)
(* What park() and unpark() promise: a binary permit of one thread.        *)
(* unpark() makes the permit available, however often it is called; park() *)
(* waits for the permit and takes it; a timed park() may give up, and then *)
(* leaves no permit behind.                                                *)
(***************************************************************************)
VARIABLES permit,   \* 1 if the permit is available, else 0
          parked,   \* the thread is inside park()
          timed,    \* it may give up
          result    \* what the last park() returned

permitVars == <<permit, parked, timed, result>>

PermitInit == permit = 0 /\ parked = FALSE /\ timed = FALSE /\ result = "OK"

MakeAvailable == permit' = 1 /\ UNCHANGED <<parked, timed, result>>

Enter ==
  /\ ~parked /\ permit = 0
  /\ parked' = TRUE /\ timed' \in BOOLEAN
  /\ UNCHANGED <<permit, result>>

Take ==
  /\ permit = 1
  /\ permit' = 0 /\ parked' = FALSE /\ timed' = FALSE /\ result' = "OK"

GiveUp ==
  /\ parked /\ timed
  /\ permit' = 0 /\ parked' = FALSE /\ timed' = FALSE /\ result' = "TIMEOUT"

\* reset() and TryPark() of the thread itself.
Clear == ~parked /\ permit' = 0 /\ UNCHANGED <<parked, timed, result>>

PermitNext == MakeAvailable \/ Enter \/ Take \/ GiveUp \/ Clear

PermitSpec == PermitInit /\ [][PermitNext]_permitVars

=============================================================================
