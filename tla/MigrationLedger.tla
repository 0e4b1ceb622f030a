--------------------------- MODULE MigrationLedger ---------------------------
(***************************************************************************)
(* What state.json promises about the migrations of one installation,       *)
(* migrations/README.md "Applied once, in order": no file, save or process  *)
(* is mentioned.  Migrate implements it as long as one CLI runs at a time.  *)
(***************************************************************************)
EXTENDS Naturals

CONSTANT N      \* migrations 1 .. N, in their order

VARIABLES
    done,       \* migrations that ran to their end
    faked,      \* migrations the operator declared done
    recorded    \* migrations the ledger says were applied

LedgerInit ==
    /\ done = {}
    /\ faked = {}
    /\ recorded = {}

(* A migration runs to its end after every earlier one *)
Complete(m) ==
    /\ 1..(m - 1) \subseteq done \cup faked
    /\ done' = done \cup {m}
    /\ UNCHANGED <<faked, recorded>>

(* migrate --fake *)
Declare(m) ==
    /\ m \notin recorded
    /\ faked' = faked \cup {m}
    /\ UNCHANGED <<done, recorded>>

(* One more line, of a migration that ran or was declared; no line is lost *)
Enter(m) ==
    /\ m \in (done \cup faked) \ recorded
    /\ recorded' = recorded \cup {m}
    /\ UNCHANGED <<done, faked>>

LedgerNext == \E m \in 1..N : Complete(m) \/ Declare(m) \/ Enter(m)

LedgerSpec == LedgerInit /\ [][LedgerNext]_<<done, faked, recorded>>
=============================================================================
