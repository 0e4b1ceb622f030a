-------------------------- MODULE EngineTokenProofs --------------------------
(***************************************************************************)
(* What module EngineToken promises for any commands and any bounds on      *)
(* rotations, rows and faults: about revocation for any set of CLI          *)
(* processes; about how a command ends, and about the keys that             *)
(* interruptions leave behind, with one CLI at a time.                      *)
(***************************************************************************)
EXTENDS EngineToken, FiniteSetTheorems, TLAPS

(* Types hold before the first start *)
LEMMA InitType == Init => TypeOK
BY TokenAssumption DEF Init, TypeOK, Token, NoToken, Places, ComposeSteps

(* ... and whatever the commands do and wherever they are cut off *)
LEMMA NextType == TypeOK /\ [Next]_vars => TypeOK'
<1> SUFFICES ASSUME TypeOK, [Next]_vars PROVE TypeOK'
  OBVIOUS
<1> USE DEF TypeOK, Places, ComposeSteps, Goto
<1>t. NoToken \in Token
  BY DEF Token, NoToken
<1>u. envKey' = envKey =>
      /\ UpCms => cmsKey' \in 0..envKey' /\ engine' \in Token
      /\ UpAll => cmsKey' \in 0..envKey' /\ engine' \in Token
      /\ UpPartly => cmsKey' \in 0..envKey' /\ engine' \in Token
  BY <1>t DEF UpCms, UpAll, UpPartly
<1>1. ASSUME NEW p \in Procs, NEW c \in Commands, Run(p, c) PROVE TypeOK'
  <2>1. c \in {"token", "rotate", "secret", "up"}
    BY <1>1, TokenAssumption DEF Run
  <2>2. FirstStep(c) \in Places
    BY <2>1 DEF FirstStep
  <2>3. rotations' \in 0..MaxRotations
    BY <1>1, TokenAssumption DEF Run
  <2> QED
    BY <1>1, <1>t, <2>2, <2>3 DEF Run
<1>2. ASSUME NEW p \in Procs, Down(p) PROVE TypeOK'
  BY <1>2, <1>t DEF Down
<1>3. ASSUME NEW p \in Procs, SetKey(p) PROVE TypeOK'
  BY <1>3 DEF SetKey
<1>4. ASSUME NEW p \in Procs, RecreateCore(p) \/ Start(p) PROVE TypeOK'
  BY <1>4, <1>u DEF RecreateCore, Start
<1>5. ASSUME NEW p \in Procs, ReadOld(p) \/ Check(p) \/ CmsDown(p) PROVE TypeOK'
  BY <1>5 DEF ReadOld, AfterRead, Check, CmsDown
<1>6. ASSUME NEW p \in Procs, Mint(p) PROVE TypeOK'
  BY <1>6 DEF Mint, CreateRow, Token
<1>7. ASSUME NEW p \in Procs, Truncate(p) \/ Write(p) PROVE TypeOK'
  <2>1. engineEnv' \in Token
    BY <1>7, <1>t DEF Truncate, Write
  <2>2. CASE Truncate(p)
    BY <2>1, <2>2 DEF Truncate
  <2>3. CASE Write(p)
    BY <2>1, <2>3 DEF Write
  <2> QED
    BY <1>7, <2>2, <2>3
<1>8. ASSUME NEW p \in Procs, RecreateEngine(p) \/ UpAgain(p) PROVE TypeOK'
  <2>1. AfterInstall(p) \in {"upAgain", "revoke", "done"}
    BY DEF AfterInstall
  <2> QED
    BY <1>8, <1>u, <2>1 DEF RecreateEngine, UpAgain
<1>9. ASSUME NEW p \in Procs, Revoke(p) \/ NoTokenToStart(p) PROVE TypeOK'
  BY <1>9, <1>u DEF Revoke, NoTokenToStart
<1>10. ASSUME NEW p \in Procs, Fault(p) PROVE TypeOK'
  <2>1. faults' \in 0..MaxFaults
    BY <1>10, TokenAssumption DEF Fault, CheckGlitch, RevokeFails, Abort
  <2>2. CASE CheckGlitch(p) \/ RevokeFails(p)
    BY <2>1, <2>2 DEF CheckGlitch, RevokeFails
  <2>3. CASE Abort(p)
    <3>1. cmsKey' \in 0..envKey' /\ engine' \in Token
      <4>1. UpPartly \/ (cmsKey' = cmsKey /\ engine' = engine)
        BY <2>3 DEF Abort
      <4>2. envKey' = envKey
        BY <2>3 DEF Abort
      <4> QED
        BY <1>u, <4>1, <4>2
    <3>2. minted' \in Nat /\ rows' \subseteq 1..minted'
      <4>1. UNCHANGED <<rows, minted>> \/ CreateRow
            \/ (rows' = rows \ {old[p].id} /\ minted' = minted)
        BY <2>3 DEF Abort
      <4>2. CASE CreateRow
        BY <4>2 DEF CreateRow
      <4>3. CASE minted' = minted /\ rows' \subseteq rows
        BY <4>3
      <4> QED
        BY <4>1, <4>2, <4>3
    <3>3. /\ UNCHANGED <<envKey, engineEnv, cmd, old, new, rotations>>
          /\ pc' = [pc EXCEPT ![p] = "idle"]
      BY <2>3 DEF Abort
    <3>4. pc' \in [Procs -> Places]
      BY <3>3
    <3> QED
      BY <2>1, <3>1, <3>2, <3>3, <3>4
  <2> QED
    BY <1>10, <2>2, <2>3 DEF Fault
<1>11. CASE UNCHANGED vars
  BY <1>11 DEF vars
<1> QED
  BY <1>1, <1>2, <1>3, <1>4, <1>5, <1>6, <1>7, <1>8, <1>9, <1>10, <1>11 DEF Next, Progress

(* Every variable keeps its type; the CMS has no row it did not create, and *)
(* runs with no secret key .env did not have.                               *)
THEOREM TypeCorrect == Spec => []TypeOK
BY InitType, NextType, PTL DEF Spec
-----------------------------------------------------------------------------
(* A token is none, or names a row that was created once *)
Known(t) == t = NoToken \/ t.id \in 1..minted

TokensKnown ==
    /\ Known(engineEnv) /\ Known(engine)
    /\ \A p \in Procs : Known(old[p])

(* p has minted a token and not yet put it into engine.env *)
Carries(p) == pc[p] \in {"truncate", "write"}

(* The token in a process's hands is one that nothing else refers to, and   *)
(* that no process is going to revoke                                       *)
CarriedIsNew ==
    \A p \in Procs : Carries(p) =>
        /\ new[p].id \in rows
        /\ new[p].id # engineEnv.id
        /\ new[p].id # engine.id
        /\ \A q \in Procs : new[p].id # old[q].id
        /\ \A q \in Procs \ {p} : Carries(q) => new[q].id # new[p].id

(* A process that wrote engine.env has put its old token out of use there,  *)
(* for good: whatever is written later is new                               *)
OldOverwritten ==
    \A p \in Procs : pc[p] \in {"engine", "revoke"} /\ old[p] # NoToken =>
        old[p].id # engineEnv.id

(* When it is about to revoke it, no engine runs with it either *)
OldReplaced ==
    \A p \in Procs : pc[p] = "revoke" => old[p] # NoToken /\ old[p].id # engine.id

(* The inductive invariant: that both tokens in use are live says nothing   *)
(* about what the revocations and writes under way are going to do.         *)
IInv ==
    /\ TypeOK
    /\ TokenOnDiskIsLive
    /\ EngineKeyNotRevoked
    /\ TokensKnown
    /\ CarriedIsNew
    /\ OldOverwritten
    /\ OldReplaced

(* Before the first start there are no keys and nothing is under way *)
LEMMA InitInv == Init => IInv
BY InitType
DEF Init, IInv, TokenOnDiskIsLive, EngineKeyNotRevoked, TokensKnown, Known, CarriedIsNew,
    Carries, OldOverwritten, OldReplaced

(* No step of a command, a container or a fault breaks the invariant *)
LEMMA NextInv == IInv /\ [Next]_vars => IInv'
<1> SUFFICES ASSUME IInv, [Next]_vars PROVE IInv'
  OBVIOUS
<1> USE DEF TokenOnDiskIsLive, EngineKeyNotRevoked, TokensKnown, Known, CarriedIsNew,
            Carries, OldOverwritten, OldReplaced, Goto
<1>1. TypeOK /\ TypeOK'
  BY NextType DEF IInv
<1>t. /\ pc \in [Procs -> Places]
      /\ old \in [Procs -> Token] /\ new \in [Procs -> Token]
      /\ rows \subseteq 1..minted /\ minted \in Nat
      /\ engineEnv \in Token /\ engine \in Token
  BY <1>1 DEF TypeOK
<1>2. ASSUME NEW p \in Procs, NEW c \in Commands, Run(p, c) PROVE IInv'
  <2>1. FirstStep(c) \in {"readOld", "setKey", "start"}
    BY <1>2, TokenAssumption DEF Run, FirstStep
  <2> QED
    BY <1>1, <1>t, <1>2, <2>1 DEF Run, IInv, NoToken, Token
<1>3. ASSUME NEW p \in Procs, Down(p) \/ SetKey(p) PROVE IInv'
  BY <1>1, <1>t, <1>3 DEF Down, SetKey, IInv, NoToken, Token
<1>4. ASSUME NEW p \in Procs, RecreateCore(p) \/ Start(p) PROVE IInv'
  BY <1>1, <1>t, <1>4 DEF RecreateCore, Start, UpCms, UpAll, IInv, NoToken, Token
<1>5. ASSUME NEW p \in Procs, ReadOld(p) \/ Check(p) \/ CmsDown(p) PROVE IInv'
  <2>1. CASE ReadOld(p)
    <3>0. AfterRead(p) \in {"mint", "check"}
      BY DEF AfterRead
    <3>1. old' = [old EXCEPT ![p] = engineEnv] /\ pc' = [pc EXCEPT ![p] = AfterRead(p)]
      BY <2>1 DEF ReadOld
    <3>2. UNCHANGED <<rows, minted, engineEnv, engine, new>>
      BY <2>1 DEF ReadOld
    <3>3. \A q \in Procs : old'[q] = IF q = p THEN engineEnv ELSE old[q]
      BY <1>t, <3>1
    <3>4. \A q \in Procs : pc'[q] = IF q = p THEN AfterRead(p) ELSE pc[q]
      BY <1>t, <3>1
    <3>5. CarriedIsNew' /\ TokensKnown'
      BY <3>0, <3>2, <3>3, <3>4 DEF IInv
    <3>6. OldOverwritten' /\ OldReplaced'
      BY <3>0, <3>2, <3>3, <3>4 DEF IInv
    <3> QED
      BY <1>1, <3>2, <3>5, <3>6 DEF IInv
  <2>2. CASE Check(p) \/ CmsDown(p)
    BY <1>1, <1>t, <2>2 DEF Check, CmsDown, IInv
  <2> QED
    BY <1>5, <2>1, <2>2
<1>6. ASSUME NEW p \in Procs, Mint(p) PROVE IInv'
  BY <1>1, <1>t, <1>6 DEF Mint, CreateRow, IInv, NoToken, Token
<1>7. ASSUME NEW p \in Procs, Truncate(p) PROVE IInv'
  BY <1>1, <1>t, <1>7 DEF Truncate, IInv, NoToken, Token
<1>8. ASSUME NEW p \in Procs, Write(p) PROVE IInv'
  BY <1>1, <1>t, <1>8 DEF Write, IInv, NoToken, Token
<1>9. ASSUME NEW p \in Procs, RecreateEngine(p) \/ UpAgain(p) PROVE IInv'
  <2>1. /\ AfterInstall(p) \in {"upAgain", "revoke", "done"}
        /\ AfterInstall(p) = "revoke" => old[p] # NoToken
    BY DEF AfterInstall
  <2> QED
    BY <1>1, <1>t, <1>9, <2>1 DEF RecreateEngine, UpAgain, UpAll, IInv, NoToken, Token
<1>10. ASSUME NEW p \in Procs, Revoke(p) PROVE IInv'
  BY <1>1, <1>t, <1>10 DEF Revoke, IInv, NoToken, Token
<1>11. ASSUME NEW p \in Procs, NoTokenToStart(p) PROVE IInv'
  BY <1>1, <1>t, <1>11 DEF NoTokenToStart, UpPartly, IInv, NoToken, Token
<1>12. ASSUME NEW p \in Procs, CheckGlitch(p) \/ RevokeFails(p) PROVE IInv'
  BY <1>1, <1>t, <1>12 DEF CheckGlitch, RevokeFails, IInv, NoToken, Token
<1>13. ASSUME NEW p \in Procs, Abort(p) PROVE IInv'
  BY <1>1, <1>t, <1>13 DEF Abort, UpPartly, CreateRow, IInv, NoToken, Token
<1>14. CASE UNCHANGED vars
  BY <1>1, <1>14 DEF vars, IInv
<1> QED
  BY <1>2, <1>3, <1>4, <1>5, <1>6, <1>7, <1>8, <1>9, <1>10, <1>11, <1>12, <1>13, <1>14
  DEF Next, Progress, Fault

(* The invariant from which DiskTokenLive and EngineKeyLive follow *)
THEOREM Inductive == Spec => []IInv
BY InitInv, NextInv, PTL DEF Spec

(* No rotation, crash or pair of rotations leaves in engine.env a token     *)
(* whose row has been revoked, so the next start never picks one up.        *)
THEOREM DiskTokenLive == Spec => []TokenOnDiskIsLive
<1>1. IInv => TokenOnDiskIsLive
  BY DEF IInv
<1> QED
  BY <1>1, Inductive, PTL

(* No CLI revokes the key the engine container is running with.             *)
THEOREM EngineKeyLive == Spec => []EngineKeyNotRevoked
<1>1. IInv => EngineKeyNotRevoked
  BY DEF IInv
<1> QED
  BY <1>1, Inductive, PTL
-----------------------------------------------------------------------------
(* With one CLI at a time nothing comes between what a command reads and    *)
(* what it writes.                                                          *)
OneCli == \E c : Procs = {c}

(* Which commands come to a place *)
PlaceOf ==
    \A p \in Procs :
        /\ pc[p] \in {"start", "upAgain"} => cmd[p] = "up"
        /\ pc[p] \in {"setKey", "recreateCore"} => cmd[p] = "secret"
        /\ pc[p] = "check" => ~Rotates(cmd[p])
        /\ pc[p] = "revoke" => Rotates(cmd[p])

(* Where the two tokens of a command are while it installs the new one *)
InHand ==
    \A p \in Procs :
        /\ pc[p] \in {"start", "setKey", "recreateCore", "readOld", "check", "mint"} =>
               new[p] = NoToken
        /\ pc[p] \in {"check", "mint", "truncate"} => old[p] = engineEnv
        /\ pc[p] = "write" => engineEnv = NoToken
        /\ pc[p] \in {"truncate", "write", "engine"} => new[p].key = cmsKey
        /\ pc[p] \in {"engine", "upAgain", "revoke"} =>
               engineEnv = new[p] /\ new[p] # NoToken /\ new[p].id \in rows
        /\ pc[p] \in {"upAgain", "revoke"} => engine = new[p] /\ cmsKey = envKey

(* `up` and `rotate secret-key` go on with a CMS that has the key of .env *)
CoreCurrent ==
    \A p \in Procs : cmd[p] \in {"up", "secret"} =>
        /\ pc[p] \in {"readOld", "check", "mint", "truncate", "write", "engine"} => cmsKey = envKey
        /\ pc[p] \in {"readOld", "check"} /\ cmd[p] = "up" /\ engineEnv # NoToken =>
               engine = engineEnv
        /\ pc[p] \in {"upAgain", "revoke"} => new[p].key = envKey
        /\ pc[p] = "done" => engine = engineEnv /\ Valid(engine)

RotateEnds ==
    \A p \in Procs : pc[p] = "done" /\ cmd[p] = "rotate" =>
        /\ engine = engineEnv /\ engineEnv = new[p]
        /\ engineEnv.id \in rows /\ cmsKey = envKey

Single == PlaceOf /\ InHand /\ CoreCurrent /\ RotateEnds

Orphans == Cardinality(rows \ {engineEnv.id})

(* The rows besides the two tokens a command has in hand *)
Spare(p) == Cardinality(rows \ {old[p].id, new[p].id})

Bit(b) == IF b THEN 1 ELSE 0

(* Orphans to come: a token that was not signed with the key of .env will be *)
(* replaced, and perhaps by one that a CMS with yet another key signs        *)
Debt ==
    Bit(cmsKey \notin {0, envKey} \/ (engineEnv # NoToken /\ engineEnv.key # envKey))
      + Bit(engineEnv # NoToken /\ cmsKey \notin {0, envKey, engineEnv.key})

(* Each interruption pays for two, at rest and at each place of a command *)
Paid(p) ==
    /\ \/ pc[p] \in {"idle", "done", "start", "setKey", "check"}
       \/ pc[p] = "readOld" /\ cmd[p] # "secret"
       \/ pc[p] = "mint" /\ cmd[p] = "rotate"
       => Orphans + Debt <= 2 * faults
    /\ pc[p] \in {"recreateCore", "readOld", "mint"} /\ cmd[p] = "secret" =>
           Orphans <= 2 * faults
    /\ pc[p] = "mint" /\ ~Rotates(cmd[p]) =>
           /\ Orphans + Bit(old[p] # NoToken) + Bit(cmsKey \notin {0, envKey}) <= 2 * faults
           /\ old[p] # NoToken => cmsKey # 0
    /\ pc[p] \in {"truncate", "write", "engine", "upAgain", "revoke"} =>
           Spare(p) + Bit(old[p] # NoToken /\ ~Rotates(cmd[p])) + Bit(new[p].key # envKey)
             <= 2 * faults

Budget == \A p \in Procs : Paid(p)

(* Nothing but the one CLI moves what its steps rely on *)
LEMMA SingleStep ==
    ASSUME OneCli, IInv, Single, [Next]_vars
    PROVE  Single'
<1>1. ASSUME NEW p \in Procs, NEW q \in Procs PROVE p = q
  BY DEF OneCli
<1>2. TypeOK /\ TypeOK'
  BY NextType DEF IInv
<1>t. /\ pc \in [Procs -> Places] /\ cmd \in [Procs -> Commands \cup {"none"}]
      /\ old \in [Procs -> Token] /\ new \in [Procs -> Token]
      /\ engineEnv \in Token /\ minted \in Nat /\ rows \subseteq 1..minted
  BY <1>2 DEF TypeOK
<1> USE DEF PlaceOf, InHand, CoreCurrent, RotateEnds, Valid, Goto, Rotates
<1>3. ASSUME NEW p \in Procs, NEW c \in Commands, Run(p, c) PROVE Single'
  <2>1. /\ cmd' = [cmd EXCEPT ![p] = c]
        /\ new' = [new EXCEPT ![p] = NoToken]
        /\ pc' = [pc EXCEPT ![p] = FirstStep(c)]
    BY <1>3 DEF Run
  <2>2. /\ FirstStep(c) \in {"readOld", "setKey", "start"}
        /\ FirstStep(c) = "start" => c = "up"
        /\ FirstStep(c) = "setKey" => c = "secret"
        /\ c = "up" => FirstStep(c) = "start"
        /\ c = "secret" => FirstStep(c) = "setKey"
    BY <1>3, TokenAssumption DEF Run, FirstStep
  <2>3. \A q \in Procs : cmd'[q] = c /\ new'[q] = NoToken /\ pc'[q] = FirstStep(c)
    BY <1>1, <1>t, <2>1
  <2> QED
    BY <2>2, <2>3 DEF Single
<1>4. ASSUME NEW p \in Procs, Down(p) PROVE Single'
  BY <1>1, <1>4, <1>t DEF Down, Single
<1>5. ASSUME NEW p \in Procs, SetKey(p) \/ RecreateCore(p) \/ Start(p) PROVE Single'
  BY <1>1, <1>5, <1>t DEF SetKey, RecreateCore, Start, UpCms, UpAll, Single
<1>6. ASSUME NEW p \in Procs, ReadOld(p) PROVE Single'
  <2>1. /\ AfterRead(p) \in {"mint", "check"}
        /\ AfterRead(p) = "check" => ~Rotates(cmd[p])
    BY DEF AfterRead
  <2> QED
    BY <1>1, <1>6, <1>t, <2>1 DEF ReadOld, Single
<1>7. ASSUME NEW p \in Procs, Check(p) \/ CmsDown(p) PROVE Single'
  BY <1>1, <1>7, <1>t DEF Check, CmsDown, Single
<1>8. ASSUME NEW p \in Procs, Mint(p) PROVE Single'
  BY <1>1, <1>8, <1>t DEF Mint, Single
<1>9. ASSUME NEW p \in Procs, Truncate(p) \/ Write(p) PROVE Single'
  <2>1. pc[p] \in {"truncate", "write"} => new[p].id \in rows /\ new[p] # NoToken
    BY <1>t DEF IInv, CarriedIsNew, Carries, NoToken
  <2> QED
    BY <1>1, <1>9, <1>t, <2>1 DEF Truncate, Write, Single
<1>10. ASSUME NEW p \in Procs, RecreateEngine(p) \/ UpAgain(p) PROVE Single'
  <2>1. /\ AfterInstall(p) = "upAgain" <=> cmd[p] = "up"
        /\ AfterInstall(p) = "revoke" => Rotates(cmd[p])
        /\ AfterInstall(p) \in {"upAgain", "revoke", "done"}
    BY DEF AfterInstall
  <2>2. /\ UNCHANGED <<rows, engineEnv, envKey, cmd, new, old>>
        /\ engine' = engineEnv /\ cmsKey' = envKey /\ engineEnv = new[p]
    BY <1>10 DEF RecreateEngine, UpAgain, UpAll, Single
  <2>3. pc[p] = "engine" => new[p].key = cmsKey /\ (cmd[p] = "secret" => cmsKey = envKey)
    BY DEF Single
  <2> QED
    BY <1>1, <1>10, <1>t, <2>1, <2>2, <2>3 DEF RecreateEngine, UpAgain, Single
<1>11. ASSUME NEW p \in Procs, Revoke(p) \/ RevokeFails(p) PROVE Single'
  <2>1. new[p].id # old[p].id
    BY <1>11 DEF Revoke, RevokeFails, Single, IInv, OldOverwritten, OldReplaced
  <2>2. /\ UNCHANGED <<engineEnv, engine, envKey, cmsKey, cmd, new, old>>
        /\ pc[p] = "revoke" /\ pc' = [pc EXCEPT ![p] = "done"]
    BY <1>11 DEF Revoke, RevokeFails
  <2>3. new[p].id \in rows /\ rows \ {old[p].id} \subseteq rows'
    BY <1>11 DEF Revoke, RevokeFails, Single
  <2>4. new[p].id \in rows'
    BY <2>1, <2>3
  <2> QED
    BY <1>1, <1>t, <2>2, <2>4 DEF Single
<1>12. ASSUME NEW p \in Procs, NoTokenToStart(p) PROVE FALSE
  BY <1>12, <1>t DEF NoTokenToStart, Single
<1>13. ASSUME NEW p \in Procs, CheckGlitch(p) PROVE Single'
  BY <1>1, <1>13, <1>t DEF CheckGlitch, Single
<1>14. ASSUME NEW p \in Procs, Abort(p) PROVE Single'
  <2>1. \A q \in Procs : pc'[q] = "idle"
    BY <1>1, <1>14, <1>t DEF Abort
  <2> QED
    BY <2>1 DEF Single
<1>15. CASE UNCHANGED vars
  BY <1>15 DEF vars, Single
<1> QED
  BY <1>3, <1>4, <1>5, <1>6, <1>7, <1>8, <1>9, <1>10, <1>11, <1>12, <1>13, <1>14, <1>15
  DEF Next, Progress, Fault

(* Rows are finitely many, so that the counts below are numbers *)
LEMMA RowsFinite ==
    ASSUME TypeOK, NEW S, S \subseteq rows
    PROVE  IsFiniteSet(S) /\ Cardinality(S) \in Nat
<1>1. IsFiniteSet(1..minted)
  BY FS_Interval DEF TypeOK
<1>2. IsFiniteSet(S)
  BY <1>1, FS_Subset DEF TypeOK
<1> QED
  BY <1>2, FS_CardinalityType

(* A set has at most one element more than what is left of it without x *)
LEMMA OneMore ==
    ASSUME NEW S, NEW T, NEW x, IsFiniteSet(S), T \subseteq S \cup {x}
    PROVE  IsFiniteSet(T) /\ Cardinality(T) \in Nat /\ Cardinality(T) <= Cardinality(S) + 1
<1>1. /\ IsFiniteSet(S \cup {x}) /\ Cardinality(S) \in Nat
      /\ Cardinality(S \cup {x}) \in {Cardinality(S), Cardinality(S) + 1}
  BY FS_AddElement, FS_CardinalityType
<1>2. IsFiniteSet(T) /\ Cardinality(T) <= Cardinality(S \cup {x})
  BY <1>1, FS_Subset
<1>3. Cardinality(T) \in Nat
  BY <1>2, FS_CardinalityType
<1> QED
  BY <1>1, <1>2, <1>3

(* An `up`, whole or in part, or a `down` leaves no more to come *)
LEMMA DebtFalls ==
    ASSUME TypeOK, UNCHANGED <<envKey, engineEnv>>, cmsKey' \in {cmsKey, envKey, 0}
    PROVE  Debt \in 0..2 /\ Debt' \in 0..2 /\ Debt' <= Debt
BY DEF Debt, Bit, TypeOK

(* The rows besides engine.env's, counted from those besides a command's two *)
LEMMA OrphansFromSpare ==
    ASSUME IInv, NEW p \in Procs, engineEnv \in {old[p], new[p], NoToken}
    PROVE  /\ Orphans \in Nat /\ Spare(p) \in Nat
           /\ Orphans <= Spare(p) + Bit(old[p] # NoToken) + 1
           /\ engineEnv = new[p] => Orphans <= Spare(p) + Bit(old[p] # NoToken)
<1> DEFINE S == rows \ {old[p].id, new[p].id}
           T == rows \ {new[p].id}
           U == rows \ {engineEnv.id}
<1>1. TypeOK
  BY DEF IInv
<1>2. IsFiniteSet(S) /\ IsFiniteSet(T) /\ IsFiniteSet(U)
  BY <1>1, RowsFinite, S \subseteq rows, T \subseteq rows, U \subseteq rows
<1>3. Cardinality(S) \in Nat /\ Cardinality(T) \in Nat /\ Cardinality(U) \in Nat
  BY <1>2, FS_CardinalityType
<1>4. Cardinality(T) <= Cardinality(S) + Bit(old[p] # NoToken)
  <2>1. CASE old[p] = NoToken
    <3>1. T = S
      BY <1>1, <2>1 DEF TypeOK, NoToken
    <3> QED
      BY <1>3, <2>1, <3>1 DEF Bit
  <2>2. CASE old[p] # NoToken
    <3>1. T \subseteq S \cup {old[p].id}
      OBVIOUS
    <3>2. Cardinality(T) <= Cardinality(S) + 1
      BY ONLY <1>2, <3>1, OneMore
    <3> QED
      BY <2>2, <3>2 DEF Bit
  <2> QED
    BY <2>1, <2>2
<1>5. U \subseteq T \cup {new[p].id}
  OBVIOUS
<1>6. Cardinality(U) <= Cardinality(T) + 1
  BY ONLY <1>2, <1>5, OneMore
<1>7. engineEnv = new[p] => U = T
  OBVIOUS
<1>8. Orphans = Cardinality(U) /\ Spare(p) = Cardinality(S)
  BY DEF Orphans, Spare
<1>9. Bit(old[p] # NoToken) \in Nat
  BY DEF Bit
<1> HIDE DEF S, T, U
<1> QED
  BY <1>3, <1>4, <1>6, <1>7, <1>8, <1>9

(* While an install is under way: what an interruption could leave to come *)
LEMMA DebtInHand ==
    ASSUME IInv, Single, NEW p \in Procs
    PROVE  /\ pc[p] = "truncate" => Debt <= 1 + Bit(new[p].key # envKey)
           /\ pc[p] \in {"write", "engine", "upAgain", "revoke"} =>
                  Debt <= Bit(new[p].key # envKey)
<1>1. TypeOK
  BY DEF IInv
<1>2. /\ pc[p] = "truncate" => new[p].key = cmsKey
      /\ pc[p] = "write" => engineEnv = NoToken /\ new[p].key = cmsKey
      /\ pc[p] = "engine" => engineEnv = new[p] /\ new[p].key = cmsKey
      /\ pc[p] \in {"upAgain", "revoke"} => engineEnv = new[p] /\ cmsKey = envKey
  BY DEF Single, InHand
<1> QED
  BY <1>1, <1>2 DEF Debt, Bit, TypeOK

(* Only an interruption adds to what a command at rest may leave behind, and *)
(* it adds two at most                                                      *)
LEMMA BudgetStep ==
    ASSUME OneCli, IInv, Single, Budget, [Next]_vars
    PROVE  Budget'
<1>0. TypeOK /\ TypeOK'
  BY NextType DEF IInv
<1>1. PICK p \in Procs : Procs = {p}
  BY DEF OneCli
<1>2. SUFFICES Paid(p)'
  BY <1>1 DEF Budget
<1>3. Paid(p)
  BY DEF Budget
<1>4. /\ pc \in [Procs -> Places] /\ cmd \in [Procs -> Commands \cup {"none"}]
      /\ old \in [Procs -> Token] /\ new \in [Procs -> Token]
      /\ envKey \in Nat \ {0} /\ faults \in Nat /\ engineEnv \in Token
      /\ rows \subseteq 1..minted /\ minted \in Nat
  BY <1>0, TokenAssumption DEF TypeOK
<1>5. Orphans \in Nat /\ Spare(p) \in Nat /\ Debt \in 0..2
  <2>1. rows \ {engineEnv.id} \subseteq rows /\ rows \ {old[p].id, new[p].id} \subseteq rows
    OBVIOUS
  <2>2. Orphans \in Nat /\ Spare(p) \in Nat
    BY <1>0, <2>1, RowsFinite DEF Orphans, Spare
  <2> QED
    BY <2>2 DEF Debt, Bit
<1>6. UNCHANGED <<rows, engineEnv>> => Orphans' = Orphans
  BY DEF Orphans
<1>7. UNCHANGED <<rows, old, new>> => Spare(p)' = Spare(p)
  BY DEF Spare
<1>8. UNCHANGED <<envKey, engineEnv>> /\ cmsKey' \in {cmsKey, envKey, 0} =>
        Debt' \in 0..2 /\ Debt' <= Debt
  BY <1>0, DebtFalls
<1>9. PlaceOf /\ InHand /\ CoreCurrent
  BY DEF Single
<1>10. engineEnv # NoToken => engineEnv.id \in rows
  BY DEF IInv, TokenOnDiskIsLive
<1> USE DEF Goto
<1>11. ASSUME NEW c \in Commands, Run(p, c) PROVE Paid(p)'
  <2>1. FirstStep(c) \in {"readOld", "setKey", "start"} /\ (FirstStep(c) = "readOld" => c # "secret")
    BY <1>11, TokenAssumption DEF Run, FirstStep
  <2>2. /\ pc'[p] = FirstStep(c) /\ cmd'[p] = c /\ pc[p] \in {"idle", "done"}
        /\ UNCHANGED <<rows, engineEnv, envKey, cmsKey, faults>>
    BY <1>4, <1>11 DEF Run
  <2>3. Orphans' + Debt' <= 2 * faults'
    BY <1>3, <1>4, <1>5, <1>6, <1>8, <2>2 DEF Paid
  <2> QED
    BY <2>1, <2>2, <2>3 DEF Paid
<1>12. ASSUME Down(p) PROVE Paid(p)'
  BY <1>3, <1>4, <1>5, <1>6, <1>8, <1>12 DEF Down, Paid
<1>13. ASSUME SetKey(p) PROVE Paid(p)'
  BY <1>3, <1>4, <1>5, <1>6, <1>9, <1>13 DEF SetKey, Paid, PlaceOf
<1>14. ASSUME RecreateCore(p) PROVE Paid(p)'
  BY <1>3, <1>4, <1>5, <1>6, <1>9, <1>14 DEF RecreateCore, Paid, PlaceOf
<1>15. ASSUME Start(p) PROVE Paid(p)'
  BY <1>3, <1>4, <1>5, <1>6, <1>8, <1>9, <1>15 DEF Start, UpCms, UpAll, Paid, PlaceOf
<1>16. ASSUME ReadOld(p) PROVE Paid(p)'
  BY <1>3, <1>4, <1>5, <1>6, <1>8, <1>16 DEF ReadOld, AfterRead, Rotates, Paid
<1>17. ASSUME Check(p) PROVE Paid(p)'
  <2>1. /\ UNCHANGED <<rows, engineEnv, envKey, cmsKey, cmd, old, faults>>
        /\ pc[p] = "check" /\ pc'[p] \in {"done", "mint"}
        /\ old[p] = engineEnv /\ ~Rotates(cmd[p])
        /\ old[p] # NoToken => cmsKey # 0
        /\ pc'[p] = "mint" /\ old[p] # NoToken => engineEnv.key # cmsKey
    BY <1>4, <1>9, <1>10, <1>17 DEF Check, Valid, PlaceOf, InHand
  <2>2. Orphans + Debt <= 2 * faults
    BY <1>3, <2>1 DEF Paid
  <2>3. CASE pc'[p] = "done"
    BY <1>4, <1>5, <1>6, <1>8, <2>1, <2>2, <2>3 DEF Paid
  <2>4. CASE pc'[p] = "mint"
    <3>1. Bit(old[p] # NoToken) + Bit(cmsKey \notin {0, envKey}) <= Debt
      BY <2>1, <2>4 DEF Debt, Bit
    <3>2. Orphans + Bit(old[p] # NoToken) + Bit(cmsKey \notin {0, envKey}) <= 2 * faults
      BY <1>4, <1>5, <2>2, <3>1 DEF Bit
    <3> QED
      BY <1>6, <2>1, <2>4, <3>2 DEF Paid, Rotates
  <2> QED
    BY <2>1, <2>3, <2>4
<1>18. ASSUME CheckGlitch(p) PROVE Paid(p)'
  <2>1. /\ UNCHANGED <<rows, engineEnv, envKey, cmsKey, cmd, old>>
        /\ pc[p] = "check" /\ pc'[p] = "mint" /\ faults' = faults + 1
        /\ ~Rotates(cmd[p]) /\ cmsKey # 0
    BY <1>4, <1>9, <1>18 DEF CheckGlitch, PlaceOf
  <2>2. Orphans <= 2 * faults
    BY <1>3, <1>4, <1>5, <2>1 DEF Paid
  <2>3. Orphans + Bit(old[p] # NoToken) + Bit(cmsKey \notin {0, envKey}) <= 2 * (faults + 1)
    BY <1>4, <1>5, <2>2 DEF Bit
  <2> QED
    BY <1>6, <2>1, <2>3 DEF Paid, Rotates
<1>19. ASSUME CmsDown(p) PROVE Paid(p)'
  <2>1. /\ UNCHANGED <<rows, engineEnv, envKey, cmsKey, cmd, old, faults>>
        /\ pc[p] \in {"check", "mint"} /\ pc'[p] = "idle" /\ cmsKey = 0
        /\ old[p] = engineEnv
    BY <1>4, <1>9, <1>19 DEF CmsDown, InHand
  <2>2. Orphans + Debt <= 2 * faults
    <3>1. pc[p] = "mint" => cmd[p] # "secret"
      BY <1>4, <1>9, <2>1 DEF CoreCurrent
    <3>2. pc[p] = "mint" /\ ~Rotates(cmd[p]) => Debt = 0 /\ Orphans <= 2 * faults
      BY <1>3, <1>4, <1>5, <2>1 DEF Paid, Debt, Bit
    <3> QED
      BY <1>3, <1>5, <2>1, <3>1, <3>2 DEF Paid, Rotates
  <2> QED
    BY <1>4, <1>5, <1>6, <1>8, <2>1, <2>2 DEF Paid
(* The token that was found is the one on disk until it is overwritten *)
<1>20. ASSUME Mint(p) PROVE Paid(p)'
  <2>1. /\ UNCHANGED <<engineEnv, envKey, cmsKey, cmd, old, faults>>
        /\ pc[p] = "mint" /\ pc'[p] = "truncate" /\ cmsKey # 0
        /\ old[p] = engineEnv /\ new'[p].key = cmsKey /\ new'[p].id = minted + 1
        /\ rows' = rows \cup {minted + 1}
    BY <1>4, <1>9, <1>20 DEF Mint, CreateRow, InHand
  <2>2. Spare(p)' = Orphans
    <3>1. rows' \ {old'[p].id, new'[p].id} = rows \ {engineEnv.id}
      BY <1>4, <2>1
    <3> QED
      BY <3>1 DEF Spare, Orphans
  <2>3. Orphans + Bit(old[p] # NoToken /\ ~Rotates(cmd[p])) + Bit(cmsKey # envKey) <= 2 * faults
    <3>1. CASE cmd[p] = "rotate"
      BY <1>3, <1>4, <1>5, <2>1, <3>1 DEF Paid, Debt, Bit, Rotates
    <3>2. CASE cmd[p] = "secret"
      BY <1>3, <1>4, <1>5, <1>9, <2>1, <3>2 DEF Paid, Bit, Rotates, CoreCurrent
    <3>3. CASE ~Rotates(cmd[p])
      BY <1>3, <1>4, <1>5, <2>1, <3>3 DEF Paid, Bit
    <3> QED
      BY <3>1, <3>2, <3>3 DEF Rotates
  <2> QED
    BY <2>1, <2>2, <2>3 DEF Paid
<1>21. ASSUME Truncate(p) \/ Write(p) PROVE Paid(p)'
  BY <1>3, <1>4, <1>5, <1>7, <1>21 DEF Truncate, Write, Paid
<1>22. ASSUME RecreateEngine(p) \/ UpAgain(p) PROVE Paid(p)'
  <2>1. /\ UNCHANGED <<rows, engineEnv, envKey, cmd, old, new, faults>>
        /\ pc[p] \in {"engine", "upAgain"} /\ pc'[p] \in {"upAgain", "revoke", "done"}
        /\ cmsKey' = envKey
        /\ engineEnv = new[p]
    BY <1>4, <1>9, <1>22 DEF RecreateEngine, UpAgain, AfterInstall, UpAll, InHand
  <2>2. Spare(p) + Bit(old[p] # NoToken /\ ~Rotates(cmd[p])) + Bit(new[p].key # envKey) <= 2 * faults
    BY <1>3, <2>1 DEF Paid
  <2>3. CASE pc'[p] = "done"
    <3>1. old[p] # NoToken => ~Rotates(cmd[p])
      BY <1>4, <1>9, <1>22, <2>3 DEF RecreateEngine, UpAgain, AfterInstall, PlaceOf, Rotates
    <3>2. Orphans <= Spare(p) + Bit(old[p] # NoToken)
      BY <2>1, OrphansFromSpare
    <3>3. Debt <= Bit(new[p].key # envKey)
      BY <2>1, DebtInHand
    <3>4. Orphans + Debt <= 2 * faults
      BY <1>4, <1>5, <2>2, <3>1, <3>2, <3>3 DEF Bit
    <3> QED
      BY <1>4, <1>5, <1>6, <1>8, <2>1, <2>3, <3>4 DEF Paid
  <2>4. CASE pc'[p] # "done"
    BY <1>7, <2>1, <2>2, <2>4 DEF Paid
  <2> QED
    BY <2>3, <2>4
<1>23. ASSUME Revoke(p) PROVE Paid(p)'
  <2>1. /\ UNCHANGED <<engineEnv, envKey, cmsKey, faults>>
        /\ pc[p] = "revoke" /\ pc'[p] = "done"
        /\ engineEnv = new[p] /\ cmsKey = envKey
        /\ rows' = rows \ {old[p].id}
    BY <1>4, <1>9, <1>23 DEF Revoke, InHand
  <2>2. Orphans' = Spare(p)
    <3>1. rows' \ {engineEnv'.id} = rows \ {old[p].id, new[p].id}
      BY <2>1
    <3> QED
      BY <3>1 DEF Spare, Orphans
  <2>3. Debt <= Bit(new[p].key # envKey)
    BY <2>1, DebtInHand
  <2> QED
    BY <1>3, <1>4, <1>5, <1>8, <2>1, <2>2, <2>3 DEF Paid, Bit
<1>24. ASSUME RevokeFails(p) PROVE Paid(p)'
  <2>1. /\ UNCHANGED <<rows, engineEnv, envKey, cmsKey>>
        /\ pc[p] = "revoke" /\ pc'[p] = "done" /\ faults' = faults + 1
        /\ engineEnv = new[p]
    BY <1>4, <1>9, <1>24 DEF RevokeFails, InHand
  <2>2. Orphans <= Spare(p) + Bit(old[p] # NoToken) /\ Debt <= Bit(new[p].key # envKey)
    BY <2>1, OrphansFromSpare, DebtInHand
  <2>3. Orphans + Debt <= 2 * (faults + 1)
    BY <1>3, <1>4, <1>5, <2>1, <2>2 DEF Paid, Bit
  <2> QED
    BY <1>4, <1>5, <1>6, <1>8, <2>1, <2>3 DEF Paid
<1>25. ASSUME NoTokenToStart(p) PROVE FALSE
  BY <1>4, <1>9, <1>25 DEF NoTokenToStart, InHand
(* An interruption: what it leaves behind and may leave to come is paid for *)
<1>26. ASSUME Abort(p) PROVE Paid(p)'
  <2>1. /\ UNCHANGED <<engineEnv, envKey, old, new>>
        /\ pc[p] \notin {"idle", "done"} /\ pc'[p] = "idle" /\ faults' = faults + 1
        /\ cmsKey' \in {cmsKey, envKey, 0}
        /\ pc[p] \notin {"recreateCore", "start", "engine", "upAgain"} => cmsKey' = cmsKey
    BY <1>4, <1>26 DEF Abort, UpPartly
  <2>2. Orphans' \in Nat /\ (pc[p] # "mint" => Orphans' <= Orphans) /\ Orphans' <= Orphans + 1
    <3> DEFINE R == rows \ {engineEnv.id}
               S == rows' \ {engineEnv'.id}
    <3>1. R \subseteq rows
      OBVIOUS
    <3>2. IsFiniteSet(R)
      BY <1>0, <3>1, RowsFinite
    <3>3. rows' = rows \/ rows' = rows \ {old[p].id}
          \/ (pc[p] = "mint" /\ rows' = rows \cup {minted + 1})
      BY <1>26 DEF Abort, CreateRow
    <3>4. S \subseteq R \cup {minted + 1} /\ (pc[p] # "mint" => S \subseteq R)
      BY <2>1, <3>3
    <3>5. Cardinality(S) \in Nat /\ Cardinality(S) <= Cardinality(R) + 1
      BY ONLY <3>2, <3>4, OneMore
    <3>6. pc[p] # "mint" => Cardinality(S) <= Cardinality(R)
      BY <3>2, <3>4, FS_Subset
    <3>7. Orphans = Cardinality(R) /\ Orphans' = Cardinality(S)
      BY DEF Orphans
    <3> HIDE DEF R, S
    <3> QED
      BY <3>5, <3>6, <3>7
  <2>3. PICK o \in Nat, d \in 0..2 : o = Orphans' /\ d = Debt'
    BY <1>8, <2>1, <2>2
  <2>4. d <= Debt /\ o <= Orphans + 1 /\ (pc[p] # "mint" => o <= Orphans)
    BY <1>8, <2>1, <2>2, <2>3
  <2> SUFFICES o + d <= 2 * (faults + 1)
    BY <2>1, <2>3 DEF Paid
  <2>5. CASE pc[p] \in {"setKey", "start", "check", "recreateCore", "readOld"}
    <3>1. Orphans <= 2 * faults
      BY <1>3, <1>4, <1>5, <1>9, <2>5 DEF Paid, PlaceOf
    <3> QED
      BY <1>4, <1>5, <2>4, <2>5, <3>1
  <2>6. CASE pc[p] = "mint"
    <3>1. CASE cmd[p] = "rotate"
      <4>1. Orphans + Debt <= 2 * faults
        BY <1>3, <2>6, <3>1 DEF Paid
      <4> QED
        BY <1>4, <1>5, <2>4, <4>1
    <3>2. CASE cmd[p] = "secret"
      <4>1. cmsKey = envKey
        BY <1>9, <2>6, <3>2 DEF CoreCurrent
      <4>2. Debt <= 1
        BY <4>1 DEF Debt, Bit
      <4> QED
        BY <1>3, <1>4, <1>5, <2>4, <2>6, <3>2, <4>2 DEF Paid
    <3>3. CASE ~Rotates(cmd[p])
      <4>1. old[p] = engineEnv
        BY <1>9, <2>6 DEF InHand
      <4>2. Debt <= Bit(old[p] # NoToken) + Bit(cmsKey \notin {0, envKey})
        BY <4>1 DEF Debt, Bit
      <4> QED
        BY <1>3, <1>4, <1>5, <2>4, <2>6, <3>3, <4>2 DEF Paid, Bit
    <3> QED
      BY <3>1, <3>2, <3>3 DEF Rotates
  <2>7. CASE pc[p] \in {"truncate", "write", "engine", "upAgain", "revoke"}
    <3>1. /\ pc[p] = "truncate" => engineEnv = old[p]
          /\ pc[p] = "write" => engineEnv = NoToken
          /\ pc[p] \in {"engine", "upAgain", "revoke"} => engineEnv = new[p]
      BY <1>9 DEF InHand
    <3>2. /\ pc[p] = "truncate" => Debt <= 1 + Bit(new[p].key # envKey)
          /\ pc[p] # "truncate" => Debt <= Bit(new[p].key # envKey)
      BY <2>7, DebtInHand
    <3>3. Orphans <= Spare(p) + Bit(old[p] # NoToken) + 1
      BY <2>7, <3>1, OrphansFromSpare
    <3>4. pc[p] = "truncate" => Orphans <= Spare(p) + 1
      <4>1. HAVE pc[p] = "truncate"
      <4> DEFINE R == rows \ {engineEnv.id}
                 S == rows \ {old[p].id, new[p].id}
      <4>2. S \subseteq rows /\ R \subseteq S \cup {new[p].id}
        BY <3>1, <4>1
      <4>3. IsFiniteSet(S)
        BY <1>0, <4>2, RowsFinite
      <4>4. Cardinality(R) <= Cardinality(S) + 1
        BY ONLY <4>2, <4>3, OneMore
      <4> QED
        BY <4>4 DEF Orphans, Spare
    <3>5. Spare(p) + Bit(new[p].key # envKey) <= 2 * faults
      BY <1>3, <1>4, <1>5, <2>7 DEF Paid, Bit
    <3> QED
      BY <1>4, <1>5, <2>4, <2>7, <3>2, <3>3, <3>4, <3>5 DEF Bit
  <2> QED
    BY <1>4, <2>1, <2>5, <2>6, <2>7 DEF Places, ComposeSteps
<1>27. CASE UNCHANGED vars
  BY <1>3, <1>27 DEF vars, Paid, Orphans, Debt, Spare
<1> QED
  <2>1. CASE Next
    <3>1. PICK q \in Procs : Progress(q) \/ Fault(q) \/ Down(q) \/ \E c \in Commands : Run(q, c)
      BY <2>1 DEF Next
    <3>2. q = p
      BY <1>1
    <3> QED
      BY <3>1, <3>2, <1>11, <1>12, <1>13, <1>14, <1>15, <1>16, <1>17, <1>18, <1>19, <1>20,
         <1>21, <1>22, <1>23, <1>24, <1>25, <1>26 DEF Progress, Fault
  <2> QED
    BY <1>27, <2>1

(* Before the first command there is no row and nothing in hand *)
LEMMA InitSingle ==
    ASSUME Init
    PROVE  Single /\ Budget
<1>1. rows \ {engineEnv.id} = {}
  BY DEF Init
<1>2. Orphans = 0 /\ Debt = 0
  BY <1>1, FS_EmptySet DEF Orphans, Debt, Bit, Init
<1> QED
  BY <1>2 DEF Init, Single, Budget, Paid, PlaceOf, InHand, CoreCurrent, RotateEnds

(* With one CLI the command that ends well leaves the engine on the token   *)
(* of engine.env, and that token is one the CMS accepts.                    *)
THEOREM SuccessSound ==
    ASSUME OneCli
    PROVE  Spec => []SuccessMeansAuthenticated
<1>1. Init => Single
  BY InitSingle
<1>2. IInv /\ Single /\ [Next]_vars => Single'
  BY SingleStep
<1>3. Single => SuccessMeansAuthenticated
  BY DEF Single, CoreCurrent, RotateEnds, SuccessMeansAuthenticated, Valid
<1> QED
  BY <1>1, <1>2, <1>3, Inductive, PTL DEF Spec

(* With one CLI every row that no token on disk names was paid for by an    *)
(* interruption, and each of them pays for two at most.                     *)
THEOREM OrphansPaid ==
    ASSUME OneCli
    PROVE  Spec => []OrphansBounded
<1>1. Init => Single /\ Budget
  BY InitSingle
<1>2. IInv /\ Single /\ Budget /\ [Next]_vars => Single' /\ Budget'
  BY SingleStep, BudgetStep
<1>3. IInv /\ Budget => OrphansBounded
  <2> SUFFICES ASSUME IInv, Budget, \A p \in Procs : pc[p] \in {"idle", "done"}
               PROVE  Orphans <= 2 * faults
    BY DEF OrphansBounded, Orphans
  <2>1. PICK p : Procs = {p}
    BY DEF OneCli
  <2>2. Orphans + Debt <= 2 * faults
    BY <2>1 DEF Budget, Paid
  <2>3. rows \ {engineEnv.id} \subseteq rows
    OBVIOUS
  <2>4. Orphans \in Nat
    BY <2>3, RowsFinite DEF Orphans, IInv
  <2> QED
    BY <2>2, <2>4, TokenAssumption DEF Debt, Bit, IInv, TypeOK
<1> QED
  BY <1>1, <1>2, <1>3, Inductive, PTL DEF Spec
=============================================================================
