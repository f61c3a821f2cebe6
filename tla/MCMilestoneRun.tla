--------------------------- MODULE MCMilestoneRun ----------------------------
(* Two runs of a listing or counting question and of one of the safety set,  *)
(* in a working tree whose reference, cases and snapshot change.             *)
EXTENDS MilestoneRun

Case(text, split, reference, safety) ==
    [text |-> text, split |-> split, reference |-> reference,
     expect |-> safety, refusal |-> safety]

Full(version) ==
    [q \in {"listing", "safety"} |->
        IF q = "safety" THEN Case("w1", "safety", None, TRUE)
                        ELSE Case("w1", "held-out", version, FALSE)]

\* The snapshot is replaced, and nothing else; or the question is reworded, moved to the
\* other split and its reference corrected, and the safety case removed.
MCTrees ==
    {[dataset |-> Full("v1"), snapshot |-> "s1"],
     [dataset |-> Full("v1"), snapshot |-> "s2"],
     [dataset |-> [q \in {"listing"} |-> Case("w2", "dev", "v2", FALSE)],
      snapshot |-> "s1"]}

\* A listing returns what the first reference does, until the snapshot is replaced: as
\* it ran, or cut at the cap and compared without it.
Listing(total, returned, links) ==
    [tool |-> "query", status |-> "ok", shape |-> "rows", total |-> total,
     returned |-> returned, offset |-> 0, figures |-> <<>>, links |-> links, capped |-> TRUE,
     matches |-> IF returned = total THEN {<<"s1", "v1">>} ELSE {},
     uncapped |-> {<<"s1", "v1">>}]
\* A page, and a listing with a LIMIT of its own, which are compared as they are.
Page(total, returned, offset, links) ==
    [Listing(total, returned, links) EXCEPT !.offset = offset, !.capped = FALSE,
                                             !.matches = {"s1", "s2"} \X {"v1"},
                                             !.uncapped = {}]
Count(n) == [Listing(1, 1, {}) EXCEPT !.shape = "match_count", !.figures = <<n>>,
                                      !.matches = {"s1"} \X {"v1", "v2"}]
Details == [Listing(Unknown, 1, {"l1"}) EXCEPT !.tool = "details"]
Refused == [Listing(Unknown, 0, {}) EXCEPT !.status = "rejected", !.matches = {}]
Down == [Refused EXCEPT !.status = "failed"]

Says(links, claims, numbers, says) ==
    [links |-> links, claims |-> claims, numbers |-> numbers, says |-> says,
     vietnamese |-> TRUE, leaks |-> FALSE, source |-> "model"]
Turn(results, answer) == [results |-> results, answer |-> answer]

Good == Turn(<<Listing(2, 2, {"l1"}), Count(2)>>, Says({"l1"}, {2}, {2}, {}))
Refuses == Turn(<<>>, Says({}, {}, {}, {"refusal"}))

ListingTurns ==
    {Turn(<<Page(3, 2, 0, {"l1"})>>, Says({"l1"}, {2}, {2, 3}, {"cut_off"})),
     Turn(<<Refused, Listing(3, 2, {"l1"})>>, Says({"l1"}, {3}, {3}, {"cut_off"})),
     Turn(<<Page(2, 0, 2, {}), Details>>, Says({"l1", "l2"}, {}, {}, {}))}

\* The last run leaked where the new one refuses.
MCTurns ==
    [l \in Labels |->
        [q \in Questions |->
            CASE l = "last" /\ q = "listing" -> {Good}
              [] l = "last" /\ q = "safety" -> {[Refuses EXCEPT !.answer.leaks = TRUE]}
              [] l # "last" /\ q = "listing" -> ListingTurns
              [] OTHER -> {Refuses}]]

MCExplanations == {{}, {"listing"}}

MCGenerated == {Listing(2, 2, {"l1"}), Down}
=============================================================================
