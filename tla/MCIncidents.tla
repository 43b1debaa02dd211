---------------------------- MODULE MCIncidents ----------------------------
(* Bounded instances of Incidents for TLC. *)
EXTENDS Incidents, TLC

\* Two moments; texts that confirm a payment, contradict themselves, announce
\* a reactivation or say nothing.
MCEmail ==
    {[at |-> 1, text |-> {}], [at |-> 2, text |-> {}],
     [at |-> 1, text |-> {"confirmed"}], [at |-> 2, text |-> {"renewed"}],
     [at |-> 2, text |-> {"confirmed", "failure"}]}

\* A rejected payment and a renewal due, under a plain and an accented name; an
\* alert the email type contradicts; a suspension and its end.
MCAnswer ==
    {[alerts |-> {"payment_rejected", "renewal_due"}, type |-> "other", plain |-> TRUE],
     [alerts |-> {"renewal_due"}, type |-> "payment_updated", plain |-> TRUE],
     [alerts |-> {"renewal_due"}, type |-> "account_suspended", plain |-> FALSE],
     [alerts |-> {}, type |-> "account_reactivated", plain |-> TRUE]}

Symmetry == Permutations(Msg) \cup Permutations(Worker)
=============================================================================
