------------------------------ MODULE RRIPRepl ------------------------------
(***************************************************************************)
(* Re-reference interval prediction over one set: SRRIP (rrip_repl.h) and  *)
(* SHiP (ship_repl.h), whose table of counters by signature, a hash of the *)
(* pc of the access, chooses where a new line begins.                      *)
(***************************************************************************)
EXTENDS Naturals, FiniteSets, FiniteSetsExt

CONSTANTS
    Addrs, NoLine,
    Lines,          \* 0 .. numLines - 1, the candidates in their order
    Signatures,     \* of the pcs
    rpvmax,         \* RRPV::MAX for SHiP, whose MID is one below
    SatMax,         \* SHCT_SAT_COUNTER_MAX
    MaxOps          \* bound: accesses

VARIABLES
    policy, tag, rrpv,
    SHCT, signature, is_rereferenced,
    ops, inserted, far, reused      \* history: when each line came in, whether far from its
                                    \* next use, and when it was last hit

vars == <<policy, tag, rrpv, SHCT, signature, is_rereferenced, ops, inserted, far, reused>>

Init ==
    /\ policy \in {"SRRIP", "SHiP"}
    /\ tag = [l \in Lines |-> NoLine] /\ rrpv = [l \in Lines |-> rpvmax]
    /\ SHCT = [s \in Signatures |-> 0]
    /\ signature = [l \in Lines |-> CHOOSE s \in Signatures : TRUE]
    /\ is_rereferenced = [l \in Lines |-> FALSE]
    /\ ops = 0 /\ inserted = [l \in Lines |-> 0] /\ far = [l \in Lines |-> TRUE]
    /\ reused = [l \in Lines |-> 0]

Inc(table, s) == [table EXCEPT ![s] = IF @ = SatMax THEN @ ELSE @ + 1]
Dec(table, s) == [table EXCEPT ![s] = IF @ = 0 THEN @ ELSE @ - 1]

\* update(): v is the RRPV of the line.
Promoted(v) ==
    IF policy = "SRRIP" THEN (IF v = rpvmax + 1 THEN v - 2 ELSE 0)
                        ELSE (IF v = rpvmax THEN rpvmax - 1 ELSE 0)

Trained(s) == SHCT' = IF policy = "SHiP" THEN Inc(SHCT, s) ELSE SHCT

Hit(addr, s) ==
    \E id \in Lines :
        /\ tag[id] = addr
        /\ rrpv' = [rrpv EXCEPT ![id] = Promoted(@)]
        /\ Trained(s)
        /\ signature' = [signature EXCEPT ![id] = s]
        /\ is_rereferenced' = [is_rereferenced EXCEPT ![id] = TRUE]
        /\ reused' = [reused EXCEPT ![id] = ops + 1]
        /\ UNCHANGED <<tag, inserted, far>>

\* The RRPV the array gives a new line by replaced().
First(table, s) ==
    CASE policy = "SRRIP" -> rpvmax + 1
      [] policy = "SHiP" -> IF table[s] = 0 THEN rpvmax ELSE rpvmax - 1

\* All candidates age together until one of them, the first, is distant.
rank ==
    LET oldest == Max({rrpv[l] : l \in Lines})
    IN  [victim |-> Min({l \in Lines : rrpv[l] = oldest}),
         aged |-> [l \in Lines |-> rrpv[l] + (rpvmax - oldest)]]

\* preinsert (rank), the eviction, and postinsert: replaced() and update().
Miss(addr, s) ==
    /\ \A l \in Lines : tag[l] # addr
    /\ LET id == rank.victim
           table == IF policy = "SHiP" /\ ~is_rereferenced[id] THEN Dec(SHCT, signature[id]) ELSE SHCT
           v == Promoted(First(table, s))
       IN  /\ rrpv' = [rank.aged EXCEPT ![id] = v]
           /\ SHCT' = IF policy = "SHiP" THEN Inc(table, s) ELSE table
           /\ tag' = [tag EXCEPT ![id] = addr]
           /\ signature' = [signature EXCEPT ![id] = s]
           /\ is_rereferenced' = [is_rereferenced EXCEPT ![id] = TRUE]
           /\ inserted' = [inserted EXCEPT ![id] = ops + 1]
           /\ far' = [far EXCEPT ![id] = policy = "SRRIP" \/ table[s] = 0]
           /\ reused' = [reused EXCEPT ![id] = 0]

\* Addresses that miss differ in nothing but their names: one of them stands for all.
Absent == CHOOSE addr \in Addrs : \A l \in Lines : tag[l] # addr

Next ==
    /\ ops < MaxOps /\ ops' = ops + 1
    /\ UNCHANGED policy
    /\ \E s \in Signatures : Miss(Absent, s) \/ \E addr \in Addrs : Hit(addr, s)

Spec == Init /\ [][Next]_vars

-----------------------------------------------------------------------------
\* rank() ends, as no candidate is past the distant value; and what RRIP is for: a line that
\* was hit is never evicted while another is there that came in before that hit, with a
\* distant prediction, and was not used since.
ScanResistant ==
    [][/\ \A l \in Lines : rrpv[l] <= rpvmax
       /\ \A l, m \in Lines :
              tag'[l] # tag[l] /\ reused[l] > inserted[m] => reused[m] > 0 \/ ~far[m]]_vars
=============================================================================
