--------------------------- MODULE MCFtpSessions ---------------------------
(* Instances of FtpSessions for TLC.                                       *)
EXTENDS FtpSessions, TLC

CONSTANTS cam, eve

MCLimit == [global : 1..3, perAccount : {2, NoCap}]

(* The accounts and the caps of two files: cam alone with a cap of its     *)
(* own, and cam with a viewer eve who must use TLS.                        *)
MCConfig ==
    {[accounts |-> {cam}, requireTls |-> {}, limit |-> [global |-> 3, perAccount |-> 2]],
     [accounts |-> {cam, eve}, requireTls |-> {eve},
      limit |-> [global |-> 3, perAccount |-> NoCap]]}

(* The same accounts, but reloading the first file lowers the global cap   *)
(* below what may be in use.                                               *)
MCShrinkingConfig ==
    {[accounts |-> {cam}, requireTls |-> {}, limit |-> [global |-> 1, perAccount |-> NoCap]],
     [accounts |-> {cam, eve}, requireTls |-> {eve},
      limit |-> [global |-> 2, perAccount |-> 2]]}

Symmetry == Permutations(Session)
=============================================================================
