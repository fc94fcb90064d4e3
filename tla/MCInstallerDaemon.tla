------------------------- MODULE MCInstallerDaemon -------------------------
(* Small instances of InstallerDaemon for TLC. *)
EXTENDS InstallerDaemon, TLC

CONSTANTS c1, c2, c3, c4, t1

Req(kind, transid, count) == [kind |-> kind, transid |-> transid, count |-> count]

\* One request of each kind that the code treats differently: with and without
\* transaction, with and without count, status, check and no operation.
MCRequests ==
    {Req("Add", t1, 2), Req("Remove", t1, 0), Req("Add", None, 0),
     Req("GetStatus", t1, 0), Req("CheckAdd", None, 0), Req("Unset", None, 0)}

\* Those that differ for the transactions and for the answers.
MCTransRequests ==
    {Req("Add", t1, 2), Req("Remove", t1, 0), Req("GetStatus", t1, 0), Req("Unset", None, 0)}

MCSymmetry == Permutations(RootClients)
=============================================================================
