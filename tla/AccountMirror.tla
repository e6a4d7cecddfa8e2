---------------------------- MODULE AccountMirror ---------------------------
(***************************************************************************)
(* What the account plane promises about replication, without revisions    *)
(* scans, pages or indexes: the repository holds a version of every        *)
(* account, and every running worker holds a copy of each account that is  *)
(* one of the versions the repository has held, that is never newer than   *)
(* the repository's and that only ever moves forward.                      *)
(***************************************************************************)
EXTENDS Naturals

CONSTANTS Tokens, Workers

VARIABLES version,  \* the repository's version of each account; 0 is none
          running,  \* the workers that serve from a copy
          copy      \* the version each worker holds of each account

mvars == <<version, running, copy>>

MirrorTypeOK ==
    /\ version \in [Tokens -> Nat]
    /\ running \in SUBSET Workers
    /\ copy \in [Workers -> [Tokens -> Nat]]

MirrorInit ==
    /\ version = [t \in Tokens |-> 0]
    /\ running = {}
    /\ copy = [w \in Workers |-> [t \in Tokens |-> 0]]

\* One commit: the accounts it touches get versions above every version that
\* any account had before.
Commit ==
    /\ version' \in [Tokens -> Nat]
    /\ \A t \in Tokens :
          version'[t] # version[t] =>
             \A u \in Tokens : version'[t] > version[u]
    /\ UNCHANGED <<running, copy>>

\* A worker starts, or restarts, from the accounts as they are.
Start(w) ==
    /\ w \notin running
    /\ running' = running \cup {w}
    /\ copy' = [copy EXCEPT ![w] = version]
    /\ UNCHANGED version

\* A worker moves some of its copies forward, none past the repository.
CatchUp(w) ==
    /\ w \in running
    /\ copy' \in [Workers -> [Tokens -> Nat]]
    /\ \A v \in Workers, t \in Tokens :
          IF v = w THEN copy[v][t] <= copy'[v][t] /\ copy'[v][t] <= version[t]
                   ELSE copy'[v][t] = copy[v][t]
    /\ UNCHANGED <<version, running>>

\* A worker process dies and its copy with it.
Stop(w) ==
    /\ w \in running
    /\ running' = running \ {w}
    /\ copy' = [copy EXCEPT ![w] = [t \in Tokens |-> 0]]
    /\ UNCHANGED version

MirrorNext ==
    \/ Commit
    \/ \E w \in Workers : Start(w) \/ CatchUp(w) \/ Stop(w)

MirrorSpec == MirrorInit /\ [][MirrorNext]_mvars
=============================================================================
