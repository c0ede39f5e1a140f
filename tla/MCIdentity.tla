------------------------------ MODULE MCIdentity ------------------------------
(* An instance of Identity for TLC. *)
EXTENDS Identity

CONSTANTS o1, o2,       \* o2 has no member document
          ana, anabel,
          e1, e2, e3, e4,
          name, ci,
          nAna, nAnabel, c12

MCOwners == {o1, o2}
MCPersons == {ana, anabel}
MCEnrollments == {e1, e2, e3, e4}

MCPaper == [p \in MCPersons |-> IF p = ana THEN {nAna, c12} ELSE {nAnabel}]

Row(o, p, cells) == [owner |-> o, person |-> p, cells |-> cells]

\* In o1 the name of ana is found in that of anabel, who has no number, and ana
\* may be enrolled twice, once without that column; o2 has a row of hers too.
MCRows == [e \in MCEnrollments |->
    CASE e = e1 -> Row(o1, ana, [f \in {name, ci} |-> IF f = name THEN nAna ELSE c12])
      [] e = e2 -> Row(o1, anabel, [f \in {name, ci} |-> IF f = name THEN nAnabel ELSE None])
      [] e = e4 -> Row(o1, ana, [f \in {name} |-> nAna])
      [] e = e3 -> Row(o2, ana, [f \in {name} |-> nAna])]

MCCalls == {[person |-> ana, owner |-> o1],
            [person |-> ana, owner |-> o2]}

MCOccurs == {<<v, v>> : v \in {nAna, nAnabel, c12}} \cup {<<nAna, nAnabel>>}
=============================================================================
