------------------------------- MODULE MCDriver -------------------------------
(***************************************************************************)
(* Driver with at most two options on a command line.                      *)
(***************************************************************************)
EXTENDS Driver

SmallCommands ==
  {c \in [opts : {<<>>} \cup {<<o>> : o \in Options} \cup {<<o, p>> : o, p \in Options},
          names : 0 .. 3, input : Extensions] :
     c.input = "stdin" <=> c.names = 0}
=============================================================================
