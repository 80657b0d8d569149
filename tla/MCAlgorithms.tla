---------------------------- MODULE MCAlgorithms ----------------------------
(* Values of Algorithms' constants: how a sample follows the last one, and *)
(* readings near the edge of what counts as flat.                          *)
EXTENDS Algorithms

Full == {"Up", "Uploaded"}
MCShapes ==
  {[dt |-> d, lost |-> FALSE, flag |-> FALSE, valid |-> Full] : d \in {1, 4, 5}} \cup
  {[dt |-> 1, lost |-> FALSE, flag |-> TRUE, valid |-> Full],
   [dt |-> 4, lost |-> TRUE, flag |-> FALSE, valid |-> Full],
   [dt |-> 9, lost |-> TRUE, flag |-> FALSE, valid |-> Full],
   [dt |-> 2, lost |-> FALSE, flag |-> FALSE, valid |-> {}],
   [dt |-> 2, lost |-> FALSE, flag |-> FALSE, valid |-> {"Up"}]}

MCReadings == {[up |-> 0, rise |-> 0], [up |-> 100, rise |-> 3], [up |-> 106, rise |-> 4],
               [up |-> 112, rise |-> -1]}

Reading(at) == [at |-> at, seq |-> at, up |-> 7, uploaded |-> at, valid |-> Full, quality |-> {}]
MCPeers == {<<>>, <<Reading(1)>>,
            <<Reading(2), Reading(4), [Reading(9) EXCEPT !.valid = {"Uploaded"}], Reading(13)>>}
=============================================================================
