------------------------------ MODULE MCDrive -------------------------------
EXTENDS Drive, TLC

CONSTANTS c1, c2, n1, n2, f1

Put(n, f) == [cmd |-> "put", dst |-> n, file |-> f]
Rm(n) == [cmd |-> "rm", src |-> n]
Cp(n, m) == [cmd |-> "cp", src |-> n, dst |-> m]
Mv(n, m) == [cmd |-> "mv", src |-> n, dst |-> m]
Cmd(x) == [cmd |-> x]

Mkdir(n, f) == [cmd |-> "mkdir", dst |-> n, file |-> f]
CpWhen(n, m) == [cmd |-> "cpwhen", src |-> n, dst |-> m]

\* One writer against one collector that clears the history.
WriterAndCollector ==
  (c1 :> {Put(n1, f1), Rm(n1)}) @@ (c2 :> {Cmd("gc"), Cmd("cancel")})

\* Two collectors: one keeps the history, one clears it and also writes.
TwoCollectors == (c1 :> {Cmd("gckeep")}) @@ (c2 :> {Put(n1, f1), Cmd("gc")})

\* Two writers with all commands between them.
TwoWriters ==
  (c1 :> {Put(n1, f1), Cp(n1, n2), Cmd("revert")})
    @@ (c2 :> {Mkdir(n1, f1), Mv(n1, n2), CpWhen(n1, n2), Rm(n1)})

\* A collector that clears the history, beside a client that also reverts, and
\* beside another collector.
RevertAndClear == (c1 :> {Put(n1, f1), Cmd("revert")}) @@ (c2 :> {Cmd("gc")})
ClearAndClear == (c1 :> {Cmd("gc")}) @@ (c2 :> {Cmd("gc")})

\* One client alone: a revert, a copy from the past.
OneReverter == (c1 :> {Cmd("revert")})
CopyFromThePast == (c1 :> {Put(n1, f1), Rm(n1), CpWhen(n1, n2)})
=============================================================================
