------------------------------- MODULE Worker -------------------------------
(***************************************************************************)
(* A background thread that waits to be kicked                             *)
(* (db/silkworm/common/worker.cpp).                                        *)
(*                                                                         *)
(* A worker is a record: the atomics state_ and kicked_, and the place its *)
(* thread has reached.  An operator is what happens between two accesses   *)
(* to the atomics.  The condition variable only shortens the sleep between *)
(* two looks at kicked_, so a thread that waits is one whose next step     *)
(* needs kicked.  The derived class is a loop around wait_for_kick.        *)
(*                                                                         *)
(*   state   kStopped, kStarting, kStarted, kStopping                      *)
(*   kicked  kicked_                                                       *)
(*   thread  none, new, entered, waiting, working, exited                  *)
(***************************************************************************)

-----------------------------------------------------------------------------
(* Calls of the owner. *)

Start(w) == IF w.state = "kStopped" THEN [w EXCEPT !.state = "kStarting", !.thread = "new"] ELSE w

Kick(w) == [w EXCEPT !.kicked = TRUE]

Stop(w) == IF w.state = "kStarted" THEN Kick([w EXCEPT !.state = "kStopping"]) ELSE w

\* The destructor, up to its join.
Destroy(w) == IF w.state # "kStopped" THEN [w EXCEPT !.state = "kStopping"] ELSE w

\* join returns.
Joined(w) == w.thread = "exited"

-----------------------------------------------------------------------------
(* Steps of its thread. *)

Leave(w) == [w EXCEPT !.state = "kStopped", !.thread = "exited"]

Enter(w) == IF w.state = "kStarting" THEN [w EXCEPT !.state = "kStarted", !.thread = "entered"]
            ELSE Leave(w)

\* kicked_ is cleared once the state is kStarted, before work() is called.
ForgetKicks(w) == [w EXCEPT !.kicked = FALSE, !.thread = "waiting"]

\* wait_for_kick returns true, or it returns false and work() returns.
CanWake(w) == w.thread = "waiting" /\ w.kicked
Wake(w) == LET awake == [w EXCEPT !.kicked = FALSE, !.thread = "working"]
           IN IF w.state = "kStopping" THEN Leave(awake) ELSE awake

WaitAgain(w) == [w EXCEPT !.thread = "waiting"]

=============================================================================
