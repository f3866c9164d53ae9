------------------------------ MODULE MCShell ------------------------------
(* Lines with one to three stages, in the foreground and the background.   *)
EXTENDS Shell

Program == [kind |-> "program", redirected |-> {}]
Builtin == [kind |-> "builtin", redirected |-> {}]
FromFile == [kind |-> "program", redirected |-> {"in"}]
ToFile == [kind |-> "program", redirected |-> {"out"}]
Unset == [kind |-> "unset", redirected |-> {}]

Foreground(stages) == [stages |-> stages, background |-> FALSE]
Background(stages) == [stages |-> stages, background |-> TRUE]

MCLines == {Foreground(<<Program>>),
               Foreground(<<Builtin, Program, Program>>),
               Foreground(<<ToFile, FromFile>>),
               Background(<<Program>>),
               Background(<<Unset>>)}
=============================================================================
