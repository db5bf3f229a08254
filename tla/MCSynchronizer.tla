--------------------------- MODULE MCSynchronizer ---------------------------
(* The certificates of two authors over three rounds.  That of a in round  *)
(* 1, which everybody has, is left out.  Nothing of a needs b1, so         *)
(* consensus can pass it by while b2 and b3 wait for it in a chain.        *)
EXTENDS Synchronizer

CONSTANTS b1, a2, b2, a3, b3

MCRoundOf == [c \in Certificate |->
    CASE c = b1 -> 1
      [] c \in {a2, b2} -> 2
      [] c \in {a3, b3} -> 3]

MCParents == [c \in Certificate |->
    CASE c = b2 -> {b1}
      [] c = a3 -> {a2}
      [] c = b3 -> {a2, b2}
      [] OTHER  -> {}]
=============================================================================
