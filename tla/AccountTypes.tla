---------------------------- MODULE AccountTypes ----------------------------
(***************************************************************************)
(* The vocabulary of the account plane: pools, quota modes, statuses and   *)
(* the part of an account row that the runtime table is built from         *)
(* (app/control/account/enums.py, models.py and quota_defaults.py).        *)
(***************************************************************************)
EXTENDS Naturals, FiniteSets

CONSTANTS Tokens,  \* the account tokens (primary keys)
          NoRow    \* the value of a token that has no row

Pools    == {"basic", "super", "heavy"}
Modes    == {"auto", "fast", "expert", "heavy", "grok_4_3", "console"}
Statuses == {"active", "expired", "disabled"}

\* The modes for which a pool has a quota window.
SupportedModes(pool) ==
    CASE pool = "heavy" -> Modes
      [] pool = "super" -> Modes \ {"heavy"}
      [] OTHER          -> {"fast", "console"}

\* windows: the modes whose stored quota window has a positive length.
Row == [pool : Pools, status : Statuses, windows : SUBSET Modes,
        deleted : BOOLEAN, rev : Nat]

ASSUME TypesAssumption ==
    /\ NoRow \notin Row
    /\ IsFiniteSet(Tokens)
=============================================================================
