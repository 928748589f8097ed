---- MODULE MCContracts ----
EXTENDS Contracts

M(says, long, asks) == [says |-> says, long |-> long, asks |-> asks]
Script(says, want, outages, changes, moves) ==
    [says |-> says, want |-> want, failures |-> outages, toggles |-> changes, switches |-> moves]

\* A turn that asks while the summary's range is being compiled, and the
\* language changes; long messages
\* with the words in either piece; an outage past the last depth; the feature
\* switched off and on; a preference started again.
MCScripts ==
    {Script(<<M("start", 0, TRUE), M("end", 0, TRUE)>>, 2, 2, 0, 2),
     Script(<<M("start", 1, FALSE), M("end", 2, FALSE)>>, 2, 4, 0, 0),
     Script(<<M("start", 0, FALSE), M("end", 0, FALSE)>>, 2, 4, 0, 0),
     Script(<<M("start", 2, FALSE), M("end", 0, FALSE)>>, 2, 1, 2, 0),
     Script(<<M("start", 0, FALSE), M("end", 0, TRUE), M("start", 0, FALSE)>>, 3, 1, 0, 0)}
====
