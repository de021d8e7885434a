------------------------------- MODULE Mutex -------------------------------
(***************************************************************************)
(* What every lock of zsim promises its callers (src/zsim/src/mutex.h,     *)
(* class mutex): at most one owner, and a lock that stays free while       *)
(* somebody wants it is eventually taken by somebody.  Nothing is promised *)
(* about which thread gets it: locks.h calls its futex lock "quite unfair".*)
(***************************************************************************)

CONSTANTS Threads,  \* the threads that share the lock
          NoThread  \* the owner of a free lock

VARIABLES owner,    \* the thread inside lock() .. unlock(), or NoThread
          wants     \* the threads inside a lock() or trylock() call

vars == <<owner, wants>>

Init == owner = NoThread /\ wants = {}

Request(t) == /\ t \notin wants /\ owner # t
              /\ wants' = wants \cup {t}
              /\ UNCHANGED owner

Acquire(t) == /\ t \in wants /\ owner = NoThread
              /\ owner' = t
              /\ wants' = wants \ {t}

\* A trylock with a timeout may return empty-handed.
GiveUp(t) == /\ t \in wants
             /\ wants' = wants \ {t}
             /\ UNCHANGED owner

Release(t) == /\ owner = t
              /\ owner' = NoThread
              /\ UNCHANGED wants

Next == \E t \in Threads : Request(t) \/ Acquire(t) \/ GiveUp(t) \/ Release(t)

Safety == Init /\ [][Next]_vars

Spec == Safety /\ WF_vars(\E t \in Threads : Acquire(t))
=============================================================================
