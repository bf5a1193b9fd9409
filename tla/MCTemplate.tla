----------------------------- MODULE MCTemplate -----------------------------
(* Presses and stored data for Egis0575Template: five ridge patterns, four of   *)
(* one finger and one of another, and the presses that decide something.       *)
EXTENDS Egis0575Template

MCDesc == 1..5
(* 1..4 are far from each other, 5 is a worn 4: within the budget of it.        *)
MCDist == [c \in MCDesc |-> [d \in MCDesc |->
  CASE c = d -> 0 [] {c, d} = {4, 5} -> 100 [] {c, d} = {1, 5} -> 512 [] OTHER -> 260]]

F(x, y, orient, desc) == [x |-> x, y |-> y, orient |-> orient, desc |-> desc]
Moved(press, dx, dy, turn) ==
  [i \in DOMAIN press |-> F(press[i].x + dx, press[i].y + dy, press[i].orient + turn, press[i].desc)]

Finger == <<F(20, 20, 1, 1), F(32, 28, 2, 2), F(25, 41, 1, 3)>>

MCPresses ==
  { Finger,
    Moved(Finger, -7, 5, 1),                          \* elsewhere and turned
    SubSeq(Finger, 2, 3),                             \* its edge
    Moved(SubSeq(Finger, 1, 2), 9, -15, 0),
    <<F(20, 20, 1, 1), F(60, 28, 2, 2)>>,             \* parts that lie apart
    <<F(20, 20, 1, 1), F(32, 28, 0, 2)>>,             \* parts that turn apart
    <<F(20, 20, 1, 4), F(32, 28, 2, 5)>>,             \* another finger
    <<F(25, 41, 1, 3)>> }                             \* too few features

Stored(press, len) == [i \in DOMAIN press |-> [f |-> press[i], len |-> len]]

MCForeign ==
  { Template("aa(qqay)", 0, <<>>),
    Template("(yaa(qqyay))", 2, <<Stored(Finger, 64), Stored(Finger, 64)>>),
    Template("(yaa(qqyay))", 1, <<>>),
    Template("(yaa(qqyay))", 1, <<Stored(Finger, 64)>>),
    Template("(yaa(qqyay))", 1, [s \in 1..MaxStored+1 |-> Stored(Finger, 64)]),
    Template("(yaa(qqyay))", 1, <<Stored(Finger, 64), Stored(Finger, 32)>>),
    Template("(yaa(qqyay))", 1, <<Stored(Finger, 64), Stored(Moved(Finger, 0, 0, 9), 64)>>),
    Template("(yaa(qqyay))", 1, <<Stored(Finger \o <<F(1, 1, 0, 5)>>, 64), Stored(Finger, 64)>>) }
=============================================================================
