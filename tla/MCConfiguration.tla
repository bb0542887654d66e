--------------------------- MODULE MCConfiguration ---------------------------
(* Small instances of Configuration. *)
EXTENDS Configuration

\* Every file there is says 1
StartWith(existing, path, port, blk, env) ==
  [files |-> [p \in Places |-> IF p \in existing THEN Good([s \in Settings |-> 1]) ELSE Missing],
   over  |-> [path |-> path, port |-> port, blk |-> blk, env |-> env]]

PlainStart == {StartWith({"user"}, FALSE, 0, 0, 0)}

SomeStarts == {StartWith({"user", "system"}, FALSE, 0, 0, 0),
               StartWith({"system"}, FALSE, 0, 3, 4),
               StartWith({"given", "user"}, TRUE, 3, 0, 4)}
=============================================================================
