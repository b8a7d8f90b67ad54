---- MODULE MCEnrollment ----
(***************************************************************************)
(* An instance of Enrollment for TLC: anything may happen to repository 1; *)
(* repository 2 is in order.                                               *)
(***************************************************************************)
EXTENDS Enrollment

Declared(fleet) ==
  [locator |-> "declared", fleet |-> fleet, programs |-> {"tend"}, ceiling |-> {"read"}]

MCCatalogs ==
  [both |-> [r \in {1, 2} |-> Declared("enabled")],
   paused |-> [r \in {1} |-> Declared("paused")]]

Found(id, locator, archived, branch) ==
  [status |-> 200, id |-> id, locator |-> locator, archived |-> archived, branch |-> branch]
Declares(r) == Found(r, "declared", FALSE, "main")
MCAnswers ==
  << {Declares(1), Found(1, "declared", FALSE, "next"), Found(1, "declared", TRUE, "main"),
      Found(1, "elsewhere", FALSE, "main"), Found(2, "declared", FALSE, "main"),
      Found(1, "declared", FALSE, "foreign"), [status |-> 503]},
     {Declares(2)} >>

Shown(commit, at) == [status |-> 200, commit |-> commit, at |-> at]
AllPresent == <<"present", "present", "present", "present">>
MCContents ==
  << {Shown("c1", AllPresent), Shown("c2", AllPresent), [status |-> 503],
      Shown("c2", <<"present", "invalid", "present", "absent">>),
      Shown("c2", <<"present", "present", "wrong-type", "absent">>)},
     {Shown("c1", AllPresent)} >>
MCFirstWorld == [r \in {1, 2} |-> [answer |-> Declares(r), content |-> Shown("c1", AllPresent)]]
MCInspections == {[access |-> "active", installation |-> 1], [access |-> "unavailable"]}
====
