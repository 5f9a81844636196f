------------------------------ MODULE MCThread ------------------------------
(***************************************************************************)
(* Thread for TLC: three objects, the fewest whose threads can join each   *)
(* other in a circle that pthread_join() does not find.                    *)
(***************************************************************************)
EXTENDS Thread, TLC

CONSTANTS t1, t2, t3, unknow, other

\* One is made with a name, two without; one with and one without a name of its
\* own change it.
MCGiven == (t1 :> {other}) @@ (t2 :> {EmptyName}) @@ (t3 :> {EmptyName})
MCRenamers == {t1, t2}
=============================================================================
