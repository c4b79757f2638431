----------------------------- MODULE MCFollowUp -----------------------------
(* Instances of FollowUp for TLC: days of two instants of which the second   *)
(* is inside the window; callbacks with and without a time, trusted at once,  *)
(* and a do-not-call.  The result stored when the model fails is the one that *)
(* is held, and reviewers may put any of the four in its place.               *)
EXTENDS FollowUp

MCWindow == WindowOf(2, 1, 2, 0..6, Zone(0, 0, 0))

Plain == [intent |-> "interested", dnc |-> FALSE, wrong |-> FALSE, interested |-> FALSE,
          followup |-> FALSE, timeline |-> "3-12_months", budget |-> TRUE, product |-> FALSE,
          callback |-> "none", confidence |-> 95]

MCAnswers ==
    {[Plain EXCEPT !.callback = "timed"],
     [Plain EXCEPT !.callback = "untimed"],
     [Plain EXCEPT !.intent = "do_not_call", !.dnc = TRUE]}
=============================================================================
