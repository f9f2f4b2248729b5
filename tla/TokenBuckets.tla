---------------------------- MODULE TokenBuckets ----------------------------
(***************************************************************************)
(* What the rate limiter promises: every key has a bucket of Cap units     *)
(* that fills by Rate at every instant and is never forgotten; a request   *)
(* is admitted if the bucket holds a token (One units), and takes it.      *)
(* The window of a key is opened at any moment; its quota is what the      *)
(* promise allows in it: a full bucket and what has flowed in since.       *)
(***************************************************************************)
EXTENDS Integers

CONSTANTS Key, Rate, Cap, One, NoKey

VARIABLES level,     \* units in each bucket
          verdict,   \* the last decision: its key and whether it admitted
          admitted,  \* requests admitted in the window of each key
          quota      \* units allowed in it

tbVars == <<level, verdict, admitted, quota>>

Fill(n) == IF n + Rate > Cap THEN Cap ELSE n + Rate

Init ==
  /\ level = [k \in Key |-> Cap]
  /\ verdict = [key |-> NoKey, ok |-> TRUE]
  /\ admitted = [k \in Key |-> 0]
  /\ quota = [k \in Key |-> Cap]

Tick ==
  /\ level' = [k \in Key |-> Fill(level[k])]
  /\ quota' = [k \in Key |-> quota[k] + Rate]
  /\ UNCHANGED <<verdict, admitted>>

Admit(k) ==
  /\ level[k] >= One
  /\ level' = [level EXCEPT ![k] = @ - One]
  /\ verdict' = [key |-> k, ok |-> TRUE]
  /\ admitted' = [admitted EXCEPT ![k] = @ + 1]
  /\ UNCHANGED quota

Refuse(k) ==
  /\ level[k] < One
  /\ verdict' = [key |-> k, ok |-> FALSE]
  /\ UNCHANGED <<level, admitted, quota>>

OpenWindow(k) ==
  /\ admitted' = [admitted EXCEPT ![k] = 0]
  /\ quota' = [quota EXCEPT ![k] = Cap]
  /\ UNCHANGED <<level, verdict>>

Next == Tick \/ \E k \in Key : Admit(k) \/ Refuse(k) \/ OpenWindow(k)

Spec == Init /\ [][Next]_tbVars
=============================================================================
