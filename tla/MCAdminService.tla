--------------------------- MODULE MCAdminService ---------------------------
(* Model values for checking AdminService: two requests over two tokens,   *)
(* the first of which has a row, and a batch over both.                    *)
EXTENDS AdminService

CONSTANTS t1, t2, r1, r2, s1

MCRow == [pool |-> "basic", status |-> "active", windows |-> {"fast", "console"},
          deleted |-> FALSE, rev |-> 1]

MCEndpoints ==
    [r \in {r1, r2} |-> IF r = r1 THEN {"edit", "toggle", "save"}
                        ELSE {"delete", "replace"}]

MCFirstRows == {[t \in {t1, t2} |-> IF t = t1 THEN MCRow ELSE NoRow]}
=============================================================================
