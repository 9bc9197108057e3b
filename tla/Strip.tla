-------------------------------- MODULE Strip --------------------------------
(* What the viewer promises about its tiles, whatever it caches: a place of   *)
(* the frame is blank or shows the page the viewer is on, and what is ready   *)
(* to be shown stays ready until the page is turned or the tiles are lost as  *)
(* a whole.                                                                   *)
EXTENDS Integers
CONSTANTS Places,  \* the places of the tile grid
          Pages    \* the pages of the document

VARIABLES page,    \* the page whose tiles are kept, NoPage before the first
          ready,   \* the places whose tile can be drawn
          frame    \* what each place of the frame shows
vars == <<page, ready, frame>>

NoPage == -1
Wiped == [x \in Places |-> NoPage]

Init == page = NoPage /\ ready = {} /\ frame = Wiped

Turn(p) == page' = p /\ ready' = {} /\ UNCHANGED frame
Lose == ready' = {} /\ UNCHANGED <<page, frame>>
Fill(x) == /\ page # NoPage
           /\ ready' = ready \cup {x}
           /\ UNCHANGED <<page, frame>>
Show(x) == /\ x \in ready
           /\ frame' = [frame EXCEPT ![x] = page]
           /\ UNCHANGED <<page, ready>>
Wipe == frame' = Wiped /\ UNCHANGED <<page, ready>>

Next == \/ \E p \in Pages : Turn(p)
        \/ Lose
        \/ \E x \in Places : Fill(x) \/ Show(x)
        \/ Wipe

Spec == Init /\ [][Next]_vars
=============================================================================
