--------------------------- MODULE MCFdTable ---------------------------
(* Instances of FdTable for TLC *)
EXTENDS FdTable

\* A pipe shared by fork; every way to open, with tables that fill up; dup and the
\* controlling terminal; programs executed by a child.
MCLoads ==
  {[calls |-> {"pipe", "close", "fork", "exit", "kill", "io"}, fds |-> 3, refs |-> 5],
   [calls |-> {"open", "fb", "pipe", "pty", "eventfd", "close", "exec"}, fds |-> 4, refs |-> 4],
   [calls |-> {"tty", "pty", "dup", "fork", "exit"}, fds |-> 2, refs |-> 3],
   [calls |-> {"pipe", "fork", "exec"}, fds |-> 2, refs |-> 4]}
========================================================================
