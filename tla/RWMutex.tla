------------------------------ MODULE RWMutex ------------------------------
(***************************************************************************)
(* The read-write mutex of src/zsim/src/mutex.h (class rwmutex): two       *)
(* mutexes and a count of readers.  rb orders the arrivals, wq belongs to  *)
(* the writer or to the group of readers, and is unlocked by whoever       *)
(* leaves last, not by who locked it.  The mutexes are the abstract ones   *)
(* the futex lock implements (FutexLock, ImplementsMutex); each atomic     *)
(* instruction on the count is an action.                                  *)
(***************************************************************************)
EXTENDS Naturals, FiniteSets

CONSTANTS RWThreads

VARIABLES readers,   \* the count, xadd'ed
          wq, rb,    \* is the mutex locked?
          at,        \* where each thread is: "rd_" in rdLock, "wr_" in wrLock;
                     \* a "reader" or the "writer" holds the lock
          upgrading  \* threads whose wrLock() was called by upgrade()

rwVars == <<readers, wq, rb, at, upgrading>>

RWInit ==
    /\ readers = 0 /\ wq = FALSE /\ rb = FALSE
    /\ at = [t \in RWThreads |-> "idle"]
    /\ upgrading = {}

Move(t, from, to) == at[t] = from /\ at' = [at EXCEPT ![t] = to]

----------------------------------------------------------------------------
(* rdLock: rb is released when the function returns, after wq is taken. *)

RdCall(t) == Move(t, "idle", "rd_rb") /\ UNCHANGED <<readers, wq, rb, upgrading>>

RdRb(t) == /\ Move(t, "rd_rb", "rd_xadd")
           /\ ~rb /\ rb' = TRUE
           /\ UNCHANGED <<readers, wq, upgrading>>

RdXadd(t) == /\ Move(t, "rd_xadd", IF readers = 0 THEN "rd_wq" ELSE "rd_ret")
             /\ readers' = readers + 1
             /\ UNCHANGED <<wq, rb, upgrading>>

RdWq(t) == /\ Move(t, "rd_wq", "rd_ret")
           /\ ~wq /\ wq' = TRUE
           /\ UNCHANGED <<readers, rb, upgrading>>

RdReturn(t) == /\ Move(t, "rd_ret", "reader")
               /\ rb' = FALSE
               /\ UNCHANGED <<readers, wq, upgrading>>

\* rdUnlock: the last reader opens wq; upgrade() goes on to wrLock.
AfterRdUnlock(up) == IF up THEN "wr_rb" ELSE "idle"

RdUnlock(t, up) ==
    /\ Move(t, "reader", IF readers = 1 THEN "ru_unlock" ELSE AfterRdUnlock(up))
    /\ readers' = readers - 1
    /\ upgrading' = IF up THEN upgrading \cup {t} ELSE upgrading
    /\ UNCHANGED <<wq, rb>>

\* Mutant: the last reader leaves wq locked.
RdUnlockWqForgets(t) == /\ Move(t, "ru_unlock", AfterRdUnlock(t \in upgrading))
                        /\ UNCHANGED <<readers, wq, rb, upgrading>>

RdUnlockWq(t) == /\ Move(t, "ru_unlock", AfterRdUnlock(t \in upgrading))
                 /\ wq' = FALSE
                 /\ UNCHANGED <<readers, rb, upgrading>>

----------------------------------------------------------------------------
(* wrLock and wrUnlock. *)

WrCall(t) == Move(t, "idle", "wr_rb") /\ UNCHANGED <<readers, wq, rb, upgrading>>

WrRb(t) == /\ Move(t, "wr_rb", "wr_wq")
           /\ ~rb /\ rb' = TRUE
           /\ upgrading' = upgrading \ {t}
           /\ UNCHANGED <<readers, wq>>

WrWq(t) == /\ Move(t, "wr_wq", "wr_ret")
           /\ ~wq /\ wq' = TRUE
           /\ UNCHANGED <<readers, rb, upgrading>>

WrReturn(t) == /\ Move(t, "wr_ret", "writer")
               /\ rb' = FALSE
               /\ UNCHANGED <<readers, wq, upgrading>>

WrUnlock(t) == /\ Move(t, "writer", "idle")
               /\ wq' = FALSE
               /\ UNCHANGED <<readers, rb, upgrading>>

----------------------------------------------------------------------------
(* downgrade: become a reader without letting another writer in. *)

\* Mutant: always hand wq over, as if a reader were always waiting for it.
DowngradeUnlocks(t) == /\ Move(t, "writer", "dg_unlock")
                       /\ readers' = readers + 1
                       /\ UNCHANGED <<wq, rb, upgrading>>

Downgrade(t) == /\ Move(t, "writer", IF readers = 0 THEN "reader"
                                     ELSE IF readers = 1 THEN "dg_unlock" ELSE "panic")
                /\ readers' = readers + 1
                /\ UNCHANGED <<wq, rb, upgrading>>

DgUnlock(t) == /\ Move(t, "dg_unlock", "reader")
               /\ wq' = FALSE
               /\ UNCHANGED <<readers, rb, upgrading>>

----------------------------------------------------------------------------
RWRelease(t) == (\E up \in BOOLEAN : RdUnlock(t, up)) \/ WrUnlock(t)

RWStep(t) == \/ RdRb(t) \/ RdXadd(t) \/ RdWq(t) \/ RdReturn(t) \/ RdUnlockWq(t)
             \/ WrRb(t) \/ WrWq(t) \/ WrReturn(t) \/ DgUnlock(t)

RWNext == \E t \in RWThreads : RdCall(t) \/ WrCall(t) \/ RWStep(t) \/ RWRelease(t) \/ Downgrade(t)

RWSafety == RWInit /\ [][RWNext]_rwVars

\* Threads inside the mutex keep running and every owner eventually unlocks.
RWSpec == RWSafety /\ \A t \in RWThreads : WF_rwVars(RWStep(t)) /\ WF_rwVars(RWRelease(t))

----------------------------------------------------------------------------
(* Properties. *)

Readers == {t \in RWThreads : at[t] \in {"reader", "dg_unlock"}}
Writers == {t \in RWThreads : at[t] = "writer"}

\* A writer is alone, although wq changes hands between readers, between a writer
\* and the reader that waits for it, and through upgrades and downgrades; and the assertion
\* of downgrade(): with wq held, at most the one reader that waits for wq can have counted
\* itself in ("panic" is where it fails).
WriterIsAlone ==
    /\ Writers # {} => Readers = {} /\ Cardinality(Writers) = 1
    /\ \A t \in RWThreads : at[t] # "panic"

\* Somebody that wants the lock gets it: no combination of handovers leaves wq or
\* rb locked with no owner.
Progress == (\E t \in RWThreads : at[t] \in {"rd_rb", "wr_rb"})
               ~> (\E t \in RWThreads : t \in Readers \cup Writers)
=============================================================================
