---------------------------- MODULE OneShotSets ----------------------------
(***************************************************************************)
(* What the international test promises about its market sets: the plan is *)
(* fixed before the first set is used; sets are used in its order, once    *)
(* each, and under that plan, on terms written down at that moment; and    *)
(* the only verdict a set can ever have is the one those terms give.       *)
(***************************************************************************)
EXTENDS Naturals, Sequences

CONSTANT None

VARIABLES
  plan,     \* the plan with its sequence of sets, or None until it is fixed
  terms,    \* per set, what it was used for, or None
  verdict   \* per set, the terms its verdict was computed from, or None

vars == <<plan, terms, verdict>>

Init ==
  /\ plan = None
  /\ \A s \in DOMAIN terms : terms[s] = None
  /\ verdict = terms

Fix ==
  /\ plan = None
  /\ plan' # None
  /\ UNCHANGED <<terms, verdict>>

Use(s) ==
  /\ plan # None
  /\ terms[s] = None
  /\ \E i \in DOMAIN plan.sets :
       plan.sets[i] = s /\ \A j \in 1..(i - 1) : terms[plan.sets[j]] # None
  /\ \E t \in {terms'[s]} :
       /\ t # None
       /\ t.config = plan
       /\ terms' = [terms EXCEPT ![s] = t]
  /\ UNCHANGED <<plan, verdict>>

Decide(s) ==
  /\ terms[s] # None
  /\ verdict[s] = None
  /\ verdict' = [verdict EXCEPT ![s] = terms[s]]
  /\ UNCHANGED <<plan, terms>>

Next == Fix \/ \E s \in DOMAIN terms : Use(s) \/ Decide(s)

Spec == Init /\ [][Next]_vars
=============================================================================
