----------------------------- MODULE MCBroker -----------------------------
(* Small instances of the broker and its clients for TLC.                   *)
EXTENDS Broker, TLC

CONSTANTS p1, p2, p3, s1, c1, c2, c3, c4, c5, d1, d2, l1, f, g, empty, x, y

\* the box each client asks for: p3, c3 and c4 use g, c5 a name that
\* valid_pathname refuses, all others f
AsksFor == [c \in Clients |-> CASE c \in {p3, c3, c4} -> g
                                [] c = c5 -> empty
                                [] OTHER -> f]

\* the messages of the publishers
OneMessage == (p1 :> <<<<x>>>>)
\* the third does not fit in a block of five bytes
ThreeMessages == (p1 :> <<<<x>>, <<y>>, <<x, y>>>>)
\* two publishers that compete for the box f, one that ends an empty message in g
Competing == (p1 :> <<<<x>>>>) @@ (p2 :> <<<<y, x>>>>) @@ (p3 :> <<<<>>>>)
NoMessages == <<>>

NoBoxes == <<>>
BoxF == <<f>>
BoxesFG == <<f, g>>

WorkerSymmetry == Permutations(Workers)
=============================================================================
