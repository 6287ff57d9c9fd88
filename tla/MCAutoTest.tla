----------------------------- MODULE MCAutoTest -----------------------------
(* A budget of three variants, up to three specs a run, two runs; four years  *)
(* of data, which is one window and none with a holdout, and two more that  *)
(* may come.  What a spec gains a year is good throughout, good but for the *)
(* first test year or the last years, just above the threshold, good only   *)
(* late, or bad; it trades enough every year, or at first too little.       *)
EXTENDS AutoTest

MCQualities ==
    {[valid |-> TRUE, trades |-> <<8, 8, 8, 8, 8, 8>>, gains |-> g] :
     g \in {<<1, 1, 1, 1, 1, 1>>, <<1, 0, 0, 1, 1, 0>>, <<1, 1, 1, 0, 2, 1>>,
            <<0, 0, 0, 1, 1, 1>>}}
    \cup {[valid |-> FALSE, trades |-> <<8, 8, 8, 8, 8, 8>>, gains |-> <<1, 1, 1, 1, 1, 1>>],
          [valid |-> TRUE, trades |-> <<6, 6, 6, 6, 6, 6>>, gains |-> <<1, 1, 1, 1, -1, 1>>]}

(* 2 ln 2 and 2 ln 3 are 1.386 and 2.197. *)
MCTwoLog == <<0, 4991, 7910>>

Alike == Permutations(SpecIds) \cup Permutations(Content)
=============================================================================
