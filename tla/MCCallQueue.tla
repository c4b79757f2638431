---------------------------- MODULE MCCallQueue ----------------------------
(***************************************************************************)
(* Small instances of CallQueue for TLC.  A configuration chooses leads,    *)
(* workers, calls and limits; the definitions below give the constants that *)
(* a configuration cannot write down.                                       *)
(***************************************************************************)
EXTENDS CallQueue, TLC

CONSTANTS c1, p1

(* One campaign; every lead has the same phone number.                      *)
OneCampaign == [l \in Leads |-> c1]
SharedPhone == [l \in Leads |-> p1]

(* Every lead has a phone of its own.                                       *)
OwnPhone == CHOOSE f \in [Leads -> Phones] : \A l, m \in Leads : f[l] = f[m] => l = m

Symmetric == Permutations(Leads) \cup Permutations(Workers) \cup Permutations(Calls)

Reply(status, content) == [status |-> status, content |-> content]

TwoReplies == {Reply("completed", "transcript"), Reply("no_answer", "none")}
MixedReplies == TwoReplies \cup {Reply("failed", "suppress"), Reply("canceled", "none"),
                                 Reply("completed", "none")}
=============================================================================
