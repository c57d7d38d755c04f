------------------------------ MODULE MCBuilder ------------------------------
(* Two processes, two docker contexts, and what may be found there.        *)
EXTENDS Builder

Good(i, priv, c, run) ==
  [id |-> 1, image |-> i, privileged |-> priv, config |-> c, running |-> run]

Found ==
  {NoCtr} \cup {Good(Target, priv, NoConfig, run) : priv, run \in BOOLEAN}
  \cup {Good(i, TRUE, c, TRUE) : i \in Images, c \in Configs}

MCLeft == {[c \in Contexts |-> IF c = d THEN r ELSE NoCtr] : d \in Contexts, r \in Found}
=============================================================================
