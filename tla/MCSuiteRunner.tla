--------------------------- MODULE MCSuiteRunner ---------------------------
(* Small suites for SuiteRunner.                                             *)
EXTENDS SuiteRunner

MCTasks   == {"t1", "t2"}
MCTaskPos == [t1 |-> 1, t2 |-> 2]

\* Two local rows and a cloud row.
MCRows      == {"l1", "c1", "l2"}
MCRowPos    == [l1 |-> 1, c1 |-> 2, l2 |-> 3]
MCRowName   == [l1 |-> "l1", c1 |-> "c1", l2 |-> "l2"]
MCLocalRows == {"l1", "l2"}

\* One of each.
MCSmallRows   == {"l1", "c1"}
MCSmallRowPos == [l1 |-> 1, c1 |-> 2]
MCSmallName   == [l1 |-> "l1", c1 |-> "c1"]
MCSmallLocal  == {"l1"}

\* One task, and three local rows, two of them with one name, beside two cloud rows.
MCOneTask    == {"t1"}
MCOnePos     == [t1 |-> 1]
MCNamesRows  == {"l1", "c1", "l2", "c2", "l3"}
MCNamesPos   == [l1 |-> 1, c1 |-> 2, l2 |-> 3, c2 |-> 4, l3 |-> 5]
MCNamesakes  == [l1 |-> "l1", c1 |-> "c1", l2 |-> "l1", c2 |-> "c2", l3 |-> "l3"]
MCNamesLocal == {"l1", "l2", "l3"}
=============================================================================
