------------------------------- MODULE MCTraffic -------------------------------
(***************************************************************************)
(* Nine cells of ground: turf on top, a rock in the middle, and a nest     *)
(* with one cell to dig.  Digging it opens a second way to the forage      *)
(* site, tipping the grain closes the first.  Before any walk the searches *)
(* themselves are compared, on every ground of two rows of three.          *)
(***************************************************************************)
EXTENDS Traffic, TLC

Ground == << <<"Sky", "Sky", "Sky">>,
             <<"Air", "Rock", "Air">>,
             <<"Air", "Soil", "Air">> >>
MCTerrain == [c \in Cells |-> Ground[c[2] + 1][c[1] + 1]]
MCHome == <<0, 1>>
MCSite == <<2, 0>>
MCHeap == <<0, 2>>
MCPost == <<2, 2>>
MCOutlet == <<0, 0>>
MCFace == <<1, 2>>
MCDump == <<1, 0>>
MCFounded == 2 :> <<0, 0>> @@ 3 :> <<0, 2>>

\* Even ids prefer cells from the left and top, odd ids from the right and bottom.
MCRank == [a \in Ants |-> [c \in Cells |-> IF a % 2 = 0 THEN c[2] * Width + c[1]
                                          ELSE Width * Height - c[2] * Width - c[1]]]

-----------------------------------------------------------------------------
Small == INSTANCE Navigation WITH Width <- 3, Height <- 2

Rows == [c \in Small!Cells |-> 3 * c[2] + c[1]]
Backwards == [c \in Small!Cells |-> 9 - Rows[c]]

\* Whatever the ground and the ant's ranking, the search finds a way exactly where the home
\* field has one, as short as the field says, and so is the walk down the field.
RoutesAgree ==
  \A at \in [Small!Cells -> {"Soil", "Air"}] :
    LET g == [at |-> at, revision |-> 1]
    IN  \A home \in {c \in Small!Cells : Small!Walkable(g, c)} :
          LET f == Small!Field(g, home)
          IN  \A c \in {d \in Small!Cells : Small!Walkable(g, d)}, rank \in {Rows, Backwards} :
                LET way == Small!Find(g, c, home, 6, rank)
                IN  IF f.steps[c] < 0 THEN way.status = "Unreachable"
                    ELSE /\ way.status = "Complete" /\ Len(way.cells) = f.steps[c]
                         /\ Len(Small!PathHome(f, g, c, rank)) = f.steps[c]
ASSUME RoutesAgree

===============================================================================
