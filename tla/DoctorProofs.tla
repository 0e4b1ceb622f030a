----------------------------- MODULE DoctorProofs -----------------------------
(***************************************************************************)
(* What module Doctor promises for any set of deployments, any limits of    *)
(* core, any grace and any bounds: doctor does not pass over what was broken *)
(* all along, and does not blame the stack for what doctor did itself.       *)
(***************************************************************************)
EXTENDS Doctor, TLAPS

(* The places of a run, from its end *)
AfterTls == {"verdict", "passed"}
AfterForge == {"tls"} \cup AfterTls
AfterIndex == {"forge"} \cup AfterForge
AfterWorker == {"index"} \cup AfterIndex
AfterAdmin == {"login", "worker"} \cup AfterWorker
AfterStore == {"admin"} \cup AfterAdmin
AfterDeny == {"store"} \cup AfterStore
AfterPages == {"deny"} \cup AfterDeny
AfterContainers == {"pages"} \cup AfterPages
Places == {"containers", "idle", "failed", "raised"} \cup AfterContainers

Severities == {"fail", "warn"}
Probes == {"containers", "pages", "deny", "store", "login", "worker", "index", "addresses",
           "certificate"}

Types ==
    /\ deployment \in Deployment
    /\ works \subseteq Present
    /\ pc \in Places
    /\ pc = "store" => deployment.logs
    /\ grace \in Nat /\ waited \in Nat /\ tries \in Nat
    /\ probing \in BOOLEAN
    /\ report \subseteq Probes \X Severities
    /\ admin \in {"none", "token", "limited", "down", "error"}
    /\ spent \in 0..Limit
    /\ others \in Nat
    /\ refused \in BOOLEAN /\ crowded \in BOOLEAN /\ late \in BOOLEAN /\ rolled \in BOOLEAN

(* From its beginning on a run's history knows what works and what does not *)
Watched ==
    pc # "idle" => works \subseteq worked /\ Present \ works \subseteq broke

(* The part worked at some time of the run, a warning names it, or the run is *)
(* not going to pass                                                          *)
Cleared(part) == part \in worked \cup Doubted \/ ~AllOk

(* What the probes asked so far vouch for *)
Vouching ==
    /\ pc \in AfterContainers => Cleared("containers")
    /\ pc \in AfterPages => Cleared("pages")
    /\ pc \in AfterDeny /\ DenySeverity # "skip" => Cleared("denied")
    /\ pc \in AfterStore /\ deployment.logs => Cleared("store") /\ Cleared("reachable")
    /\ admin = "token" => {"database", "admin"} \subseteq worked
    /\ pc \in AfterWorker =>
         /\ Cleared("database") /\ Cleared("admin") /\ Cleared("auth")
         /\ deployment.mayList => Cleared("worker")
    /\ pc \in AfterIndex => Cleared("index")
    /\ refused => "addresses" \in worked
    /\ pc \in AfterForge /\ probing => Cleared("addresses")
    /\ pc \in AfterTls /\ deployment.tls => Cleared("certificate")
    /\ pc = "passed" => AllOk

(* The logins of the address: those of others until the run logs in itself,  *)
(* and under OIDC until it tries a wrong password                            *)
Counted ==
    /\ others >= Limit => crowded
    /\ pc \in {"containers", "pages", "deny", "store", "admin"} => spent = others
    /\ pc = "login" /\ deployment.oidc => spent = others

(* Why the admin's login gave no token *)
Refusal ==
    pc \in {"login", "worker"} =>
        /\ admin # "none"
        /\ admin = "limited" => crowded
        /\ admin \in {"down", "error"} =>
             {"pages", "addresses", "containers", "database", "admin"} \cap broke # {}

(* A forged request takes a login, unless one was refused or did not arrive *)
Forging ==
    /\ tries > 0 => pc \in AfterIndex \cup {"failed", "raised"}
    /\ pc = "forge" /\ {"pages", "addresses"} \cap broke = {} /\ ~rolled => tries <= spent \/ refused

(* Everything in the report has an explanation *)
Reason(probe, severity) == Causes(probe, severity) \cap broke # {} \/ Excused(probe)

Explained == \A p \in report : Reason(p[1], p[2])

Blaming == Explained /\ (pc = "failed" => ~AllOk)

DInv == Types /\ Watched /\ Vouching /\ Counted /\ Refusal /\ Forging /\ Blaming
-----------------------------------------------------------------------------
(* Begin aside, what a run has found, and what its history knows, only grows; *)
(* a probe adds at most itself                                                *)
LEMMA Accrues ==
    ASSUME Types, [Next]_vars
    PROVE  \/ Begin
           \/ /\ UNCHANGED deployment
              /\ report \subseteq report'
              /\ worked \subseteq worked' /\ broke \subseteq broke'
              /\ crowded => crowded'
              /\ late => late'
              /\ rolled => rolled'
              /\ UNCHANGED <<grace, probing>>
<1> USE DEF Keep, WorkerKeeps, events, run
<1>1. ASSUME Containers \/ Pages \/ Deny \/ Store PROVE UNCHANGED <<deployment, worked, broke, crowded, late, rolled, grace, probing>> /\ report \subseteq report'
  BY <1>1 DEF Containers, Pages, Deny, Store, Told
<1>2. ASSUME AdminToken \/ BadLogin \/ IndexSync \/ Forge \/ Forged \/ Tls \/ Verdict \/ Raises
      PROVE UNCHANGED <<deployment, worked, broke, crowded, late, rolled, grace, probing>> /\ report \subseteq report'
  BY <1>2 DEF AdminToken, BadLogin, IndexSync, Forge, Forged, Tls, Verdict, Raises, Told
<1>3. ASSUME NoToken \/ Settled \/ NoEngine
      PROVE UNCHANGED <<deployment, worked, broke, crowded, late, rolled, grace, probing>> /\ report \subseteq report'
  BY <1>3 DEF NoToken, Settled, NoEngine, Settles, Told
<1>4. ASSUME Pending
      PROVE UNCHANGED <<deployment, worked, broke, crowded, rolled, grace, probing>> /\ report \subseteq report'
            /\ (late => late')
  BY <1>4 DEF Pending, Settles, Told
<1>5. ASSUME OtherLogin \/ NextMinute \/ UNCHANGED vars
      PROVE UNCHANGED <<deployment, worked, broke, report, late, grace, probing>>
            /\ (crowded => crowded') /\ (rolled => rolled')
  <2>1. crowded \in BOOLEAN /\ rolled \in BOOLEAN
    BY DEF Types
  <2> QED
    BY <1>5, <2>1 DEF OtherLogin, NextMinute, vars
<1>6. ASSUME NEW part, Change(part)
      PROVE UNCHANGED <<deployment, report, crowded, late, rolled, grace, probing>> /\ worked \subseteq worked' /\ broke \subseteq broke'
  BY <1>6 DEF Change
<1> QED
  BY <1>1, <1>2, <1>3, <1>4, <1>5, <1>6 DEF Next, Probe

(* The sets of places, each named by its elements *)
LEMMA PlacesAre ==
    /\ AfterTls = {"verdict", "passed"}
    /\ AfterForge = {"tls", "verdict", "passed"}
    /\ AfterIndex = {"forge", "tls", "verdict", "passed"}
    /\ AfterWorker = {"index", "forge", "tls", "verdict", "passed"}
    /\ AfterAdmin = {"login", "worker", "index", "forge", "tls", "verdict", "passed"}
    /\ AfterStore = {"admin", "login", "worker", "index", "forge", "tls", "verdict", "passed"}
    /\ AfterDeny = {"store", "admin", "login", "worker", "index", "forge", "tls", "verdict", "passed"}
    /\ AfterPages = {"deny", "store", "admin", "login", "worker", "index", "forge", "tls",
                     "verdict", "passed"}
    /\ AfterContainers = {"pages", "deny", "store", "admin", "login", "worker", "index", "forge",
                          "tls", "verdict", "passed"}
    /\ Places = {"containers", "idle", "failed", "raised", "pages", "deny", "store", "admin",
                 "login", "worker", "index", "forge", "tls", "verdict", "passed"}
BY DEF AfterTls, AfterForge, AfterIndex, AfterWorker, AfterAdmin, AfterStore, AfterDeny,
       AfterPages, AfterContainers, Places

(* A deployment's limit and parts are those of its .env *)
LEMMA Given ==
    ASSUME Types
    PROVE  /\ Limit \in Nat /\ Limit > 0
           /\ UNCHANGED deployment => Limit' = Limit /\ Present' = Present /\ DenySeverity' = DenySeverity
           /\ Limited \in BOOLEAN /\ (Limited <=> spent = Limit)
           /\ Present \subseteq Parts /\ {"containers", "pages", "denied", "database", "admin", "auth",
                "worker", "index", "addresses"} \subseteq Present
           /\ deployment.logs => {"store", "reachable"} \subseteq Present
           /\ deployment.tls => "certificate" \in Present
<1>1. Limit \in Nat /\ Limit > 0 /\ (UNCHANGED deployment => Limit' = Limit)
  BY DoctorAssumption DEF Limit
<1>2. Limited \in BOOLEAN /\ (Limited <=> spent = Limit)
  BY <1>1 DEF Limited, Types
<1>3. UNCHANGED deployment => Present' = Present /\ DenySeverity' = DenySeverity
  BY DEF Present, DenySeverity
<1>4. Present \subseteq Parts /\ {"containers", "pages", "denied", "database", "admin", "auth",
                "worker", "index", "addresses"} \subseteq Present
  BY DEF Present, Parts
<1>5. /\ deployment.logs => {"store", "reachable"} \subseteq Present
      /\ deployment.tls => "certificate" \in Present
  BY DEF Present, Parts
<1> QED
  BY <1>1, <1>2, <1>3, <1>4, <1>5

(* Recording a probe's outcome *)
LEMMA Reports ==
    ASSUME Types, NEW probe \in Probes, NEW severity, NEW ok, Told(probe, severity, ok),
           severity \in Severities \/ ok
    PROVE  report' \subseteq Probes \X Severities
BY DEF Told, Types

(* Counting a login *)
LEMMA Counts ==
    ASSUME Types, Count
    PROVE  spent' \in 0..Limit /\ spent <= spent' /\ (~Limited => spent' = spent + 1)
           /\ (Limited => spent' = spent)
BY Given DEF Count, Limited, Types

(* Every step leaves each variable of its type *)
LEMMA TypesStep ==
    ASSUME Types, [Next]_vars
    PROVE  Types'
<1> USE DEF Keep, WorkerKeeps, events, run, Goto
<1>0. /\ deployment \in Deployment /\ works \subseteq Present /\ pc \in Places
      /\ pc = "store" => deployment.logs
      /\ grace \in Nat /\ waited \in Nat /\ tries \in Nat
      /\ probing \in BOOLEAN
      /\ report \subseteq Probes \X Severities
      /\ admin \in {"none", "token", "limited", "down", "error"}
      /\ spent \in 0..Limit /\ others \in Nat
      /\ refused \in BOOLEAN /\ crowded \in BOOLEAN /\ late \in BOOLEAN /\ rolled \in BOOLEAN
  BY DEF Types
<1>1. ASSUME UNCHANGED deployment,
             works' = works, pc' \in Places, pc' = "store" => deployment.logs,
             grace' = grace, probing' = probing, report' \subseteq Probes \X Severities,
             admin' \in {"none", "token", "limited", "down", "error"},
             waited' \in Nat, tries' \in Nat, spent' \in 0..Limit, others' = others,
             refused' \in BOOLEAN, crowded' = crowded, late' \in BOOLEAN, rolled' = rolled
      PROVE  Types'
  BY <1>0, <1>1, Given DEF Types
<1>2. ASSUME Begin PROVE Types'
  <2>1. Grace \in Nat
    BY DoctorAssumption
  <2>2. /\ deployment' = deployment /\ works' = works /\ pc' = "containers" /\ grace' \in {0, Grace}
        /\ probing' \in BOOLEAN /\ report' = {} /\ admin' = "none" /\ waited' = 0 /\ tries' = 0
        /\ refused' = FALSE /\ spent' = spent /\ others' = spent /\ crowded' = Limited
        /\ late' = FALSE /\ rolled' = FALSE
    BY <1>2 DEF Begin
  <2>3. Limited \in BOOLEAN /\ Present' = Present /\ Limit' = Limit /\ spent \in Nat
    BY <1>0, <2>2, Given
  <2>4. pc' \in Places /\ pc' # "store" /\ grace' \in Nat /\ report' \subseteq Probes \X Severities
    BY <2>1, <2>2, PlacesAre
  <2>5. others' \in Nat /\ crowded' \in BOOLEAN /\ waited' \in Nat /\ tries' \in Nat
    BY <2>2, <2>3
  <2> QED
    BY <1>0, <2>2, <2>3, <2>4, <2>5 DEF Types
<1>3. ASSUME Containers PROVE Types'
  <2>1. report' \subseteq Probes \X Severities
    BY <1>3, Reports DEF Containers, Probes, Severities
  <2> QED
    BY <1>0, <1>1, <1>3, <2>1, PlacesAre DEF Containers
<1>4. ASSUME Pages PROVE Types'
  <2>1. report' \subseteq Probes \X Severities
    BY <1>4, Reports DEF Pages, Probes, Severities
  <2> QED
    BY <1>0, <1>1, <1>4, <2>1, PlacesAre DEF Pages
<1>5. ASSUME Deny PROVE Types'
  <2>1. PICK reached \in Reached : Told("deny", DenySeverity,
              DenySeverity = "skip" \/ (reached /\ "denied" \in works))
    BY <1>5 DEF Deny
  <2>2. DenySeverity \in Severities \/ DenySeverity = "skip"
    BY DEF DenySeverity, Severities
  <2>3. report' \subseteq Probes \X Severities
    BY <2>1, <2>2, Reports DEF Probes
  <2>4. pc' \in {"store", "admin"} /\ (pc' = "store" => deployment.logs)
    BY <1>5 DEF Deny
  <2> QED
    BY <1>0, <1>1, <1>5, <2>3, <2>4, PlacesAre DEF Deny
<1>6. ASSUME Store PROVE Types'
  <2>1. PICK reached \in Reached, severity \in StoreSeverities :
         IF reached THEN Told("store", severity, {"store", "reachable"} \subseteq works)
         ELSE Told("store", "fail", FALSE)
    BY <1>6 DEF Store
  <2>2. severity \in Severities /\ "fail" \in Severities /\ "store" \in Probes
    BY DEF StoreSeverities, Severities, Probes
  <2>3. report' \subseteq Probes \X Severities
    BY <2>1, <2>2, Reports
  <2> QED
    BY <1>0, <1>1, <1>6, <2>3, PlacesAre DEF Store
<1>7. ASSUME AdminToken PROVE Types'
  <2>1. spent' \in 0..Limit /\ admin' \in {"token", "limited", "down", "error"}
    BY <1>0, <1>7, Counts DEF AdminToken, Mint, Login, Authenticated
  <2> QED
    BY <1>0, <1>1, <1>7, <2>1, PlacesAre DEF AdminToken
<1>8. ASSUME BadLogin PROVE Types'
  <2>1. report' \subseteq Probes \X Severities
    BY <1>8, Reports DEF BadLogin, Probes, Severities
  <2>2. spent' \in 0..Limit
    BY <1>0, <1>8, Counts DEF BadLogin
  <2> QED
    BY <1>0, <1>1, <1>8, <2>1, <2>2, PlacesAre DEF BadLogin
<1>9. ASSUME NoToken \/ Settled \/ NoEngine PROVE Types'
  <2>1. report' \subseteq Probes \X Severities
    BY <1>9, Reports DEF NoToken, Settled, NoEngine, Settles, Probes, Severities
  <2> QED
    <3>1. /\ UNCHANGED <<deployment, works, grace, probing, tries, refused, spent, others, crowded,
                         rolled, late>>
          /\ pc' = "index" /\ admin' = "none" /\ waited' = 0
      BY <1>9 DEF NoToken, Settled, NoEngine, Settles
    <3> QED
      BY <1>0, <1>1, <2>1, <3>1, PlacesAre
<1>10. ASSUME Pending PROVE Types'
  <2>1. late' \in BOOLEAN
    BY <1>10 DEF Pending
  <2>2. PICK answered \in waited..waited + AnswerTime :
         IF answered >= grace THEN Settles(FALSE)
         ELSE waited' = answered + 1 /\ UNCHANGED <<report, pc, admin>>
    BY <1>10 DEF Pending
  <2>3. pc = "worker" /\ answered \in Nat
    BY <1>0, <1>10, DoctorAssumption DEF Pending
  <2>4. CASE answered >= grace
    <3>1. report' \subseteq Probes \X Severities
      BY <2>2, <2>4, Reports DEF Settles, Probes, Severities
    <3> QED
      BY <1>0, <1>1, <1>10, <2>1, <2>2, <2>4, <3>1, PlacesAre DEF Pending, Settles
  <2>5. CASE ~(answered >= grace)
    <3>1. waited' \in Nat
      BY <2>2, <2>3, <2>5
    <3> QED
      BY <1>0, <1>1, <1>10, <2>1, <2>2, <2>3, <2>5, <3>1 DEF Pending
  <2> QED
    BY <2>4, <2>5
<1>11. ASSUME IndexSync PROVE Types'
  <2>1. report' \subseteq Probes \X Severities
    BY <1>11, Reports DEF IndexSync, Probes, Severities
  <2> QED
    BY <1>0, <1>1, <1>11, <2>1, PlacesAre DEF IndexSync
<1>12. ASSUME Forge PROVE Types'
  <2>1. spent' \in 0..Limit /\ refused' \in BOOLEAN
    BY <1>0, <1>12, Counts DEF Forge
  <2>2. tries' \in Nat /\ pc' = pc /\ pc = "forge"
    BY <1>0, <1>12 DEF Forge
  <2> QED
    BY <1>0, <1>1, <1>12, <2>1, <2>2 DEF Forge
<1>13. ASSUME Forged PROVE Types'
  <2>1. report' \subseteq Probes \X Severities
    BY <1>13, Reports DEF Forged, Probes, Severities
  <2> QED
    BY <1>0, <1>1, <1>13, <2>1, PlacesAre DEF Forged
<1>14. ASSUME Tls PROVE Types'
  <2>1. report' \subseteq Probes \X Severities
    BY <1>14, Reports DEF Tls, Probes, Severities
  <2> QED
    BY <1>0, <1>1, <1>14, <2>1, PlacesAre DEF Tls
<1>15. ASSUME Verdict \/ Raises PROVE Types'
  BY <1>0, <1>1, <1>15, PlacesAre DEF Verdict, Raises
<1>16. ASSUME OtherLogin PROVE Types'
  <2>1. spent' \in 0..Limit
    BY <1>16, Counts DEF OtherLogin
  <2>2. /\ UNCHANGED <<deployment, works, run, late, rolled>> /\ others' = others + 1
        /\ crowded' \in BOOLEAN
    BY <1>0, <1>16 DEF OtherLogin
  <2>3. Limit' = Limit /\ Present' = Present
    BY <2>2, Given
  <2> QED
    BY <1>0, <2>1, <2>2, <2>3 DEF Types
<1>17. ASSUME NextMinute PROVE Types'
  <2>1. /\ UNCHANGED <<deployment, works, run, late, crowded>> /\ others' = 0 /\ spent' = 0
        /\ rolled' \in BOOLEAN
    BY <1>0, <1>17 DEF NextMinute
  <2>2. Limit' = Limit /\ Present' = Present /\ 0 \in 0..Limit
    BY <2>1, Given
  <2> QED
    BY <1>0, <2>1, <2>2 DEF Types
<1>18. ASSUME NEW part \in Present, Change(part) PROVE Types'
  <2>1. /\ UNCHANGED <<deployment, run, spent, others, crowded, late, rolled>>
        /\ works' \subseteq Present
    BY <1>0, <1>18 DEF Change
  <2>2. Limit' = Limit /\ Present' = Present
    BY <2>1, Given
  <2> QED
    BY <1>0, <2>1, <2>2 DEF Types
<1>19. ASSUME UNCHANGED vars PROVE Types'
  BY <1>0, <1>1, <1>19 DEF vars
<1> QED
  BY <1>2, <1>3, <1>4, <1>5, <1>6, <1>7, <1>8, <1>9, <1>10, <1>11, <1>12, <1>13, <1>14, <1>15,
     <1>16, <1>17, <1>18, <1>19 DEF Next, Probe

(* The history of a run sees every part as it works and as it breaks *)
LEMMA WatchedStep ==
    ASSUME Types, Watched, [Next]_vars
    PROVE  Watched'
<1>1. ASSUME Begin PROVE Watched'
  <2>1. works' = works /\ worked' = works /\ broke' = Present \ works /\ deployment' = deployment
    BY <1>1 DEF Begin
  <2> QED
    BY <2>1, Given DEF Watched
<1>2. ASSUME NEW part \in Present, Change(part) PROVE Watched'
  <2>1. UNCHANGED <<deployment, pc>>
    BY <1>2 DEF Change, run
  <2>2. /\ works' = IF part \in works THEN works \ {part} ELSE works \cup {part}
        /\ part \in works => broke' = broke \cup {part} /\ worked' = worked
        /\ part \notin works => worked' = worked \cup {part} /\ broke' = broke
    BY <1>2 DEF Change
  <2> QED
    BY <2>1, <2>2, Given DEF Watched
<1>3. ASSUME UNCHANGED <<deployment, works, worked, broke>>, pc' = "idle" \/ pc # "idle" PROVE Watched'
  BY <1>3, Given DEF Watched
<1>4. ASSUME Containers \/ Pages \/ Deny \/ Store \/ AdminToken \/ BadLogin \/ IndexSync \/ Forge
              \/ Forged \/ Tls \/ Verdict \/ Raises
      PROVE  UNCHANGED <<deployment, works, worked, broke>> /\ pc # "idle"
  BY <1>4 DEF Containers, Pages, Deny, Store, AdminToken, BadLogin, IndexSync, Forge, Forged, Tls,
              Verdict, Raises, Keep
<1>5. ASSUME NoToken \/ Settled \/ NoEngine \/ Pending
      PROVE  UNCHANGED <<deployment, works, worked, broke>> /\ pc # "idle"
  BY <1>5 DEF NoToken, Settled, NoEngine, Pending, WorkerKeeps, Keep
<1>6. ASSUME OtherLogin \/ NextMinute \/ UNCHANGED vars
      PROVE  UNCHANGED <<deployment, works, worked, broke, pc>>
  BY <1>6 DEF OtherLogin, NextMinute, run, vars
<1> QED
  BY <1>1, <1>2, <1>3, <1>4, <1>5, <1>6 DEF Next, Probe

(* What a probe that was asked of a part has cleared stays so *)
LEMMA ClearedStays ==
    ASSUME Types, [Next]_vars, ~Begin, NEW part, Cleared(part)
    PROVE  Cleared(part)'
<1>1. report \subseteq report' /\ worked \subseteq worked'
  BY Accrues
<1> QED
  BY <1>1 DEF Cleared, AllOk, Doubted

(* A probe that counts as a failure ends the hope of passing *)
LEMMA Clears ==
    ASSUME NEW part, NEW probe, <<probe, "fail">> \in report' \/ part \in worked' \/ part \in Doubted'
    PROVE  Cleared(part)'
<1>1. <<probe, "fail">>[2] # "warn"
  OBVIOUS
<1> QED
  BY <1>1 DEF Cleared, AllOk

(* Every probe that goes by has cleared its part, those that share a login too *)
LEMMA VouchingStep ==
    ASSUME Types, Watched, Vouching, [Next]_vars
    PROVE  Vouching'
<1> USE PlacesAre DEF Keep, WorkerKeeps, events, run, Goto
<1>0. pc # "idle" => works \subseteq worked
  BY DEF Watched
<1>1. ASSUME Begin PROVE Vouching'
  <2>1. pc' = "containers" /\ admin' = "none" /\ refused' = FALSE
    BY <1>1 DEF Begin
  <2> QED
    BY <2>1 DEF Vouching
<1> SUFFICES ASSUME ~Begin PROVE Vouching'
  BY <1>1
<1>2. /\ \A part : Cleared(part) => Cleared(part)'
      /\ deployment' = deployment /\ DenySeverity' = DenySeverity
      /\ worked \subseteq worked' /\ probing' = probing
  BY ClearedStays, Accrues, Given
(* The place where a run is, and what it holds, at rest *)
<1>3. ASSUME pc' = pc, admin' = admin \/ admin' # "token", refused' = refused, report' = report
      PROVE  Vouching'
  BY <1>2, <1>3 DEF Vouching, AllOk
(* One probe passed *)
<1>4. ASSUME admin' \in {admin, "none"}, refused' => refused, pc' # "passed",
             pc' \in AfterContainers /\ pc \notin AfterContainers => Cleared("containers")',
             pc' \in AfterPages /\ pc \notin AfterPages => Cleared("pages")',
             pc' \in AfterDeny /\ pc \notin AfterDeny /\ DenySeverity # "skip" => Cleared("denied")',
             pc' \in AfterStore /\ pc \notin AfterStore /\ deployment.logs =>
                Cleared("store")' /\ Cleared("reachable")',
             pc' \in AfterWorker /\ pc \notin AfterWorker =>
                /\ Cleared("database")' /\ Cleared("admin")' /\ Cleared("auth")'
                /\ deployment.mayList => Cleared("worker")',
             pc' \in AfterIndex /\ pc \notin AfterIndex => Cleared("index")',
             pc' \in AfterForge /\ pc \notin AfterForge /\ probing => Cleared("addresses")',
             pc' \in AfterTls /\ pc \notin AfterTls /\ deployment.tls => Cleared("certificate")'
      PROVE  Vouching'
  <2>1. admin' = "token" => admin = "token"
    BY <1>4
  <2> QED
    BY <1>2, <1>4, <2>1 DEF Vouching
<1>5. ASSUME Containers PROVE Vouching'
  <2>1. Cleared("containers")'
    <3>1. <<"containers", "fail">> \in report' \/ "containers" \in worked'
      BY <1>0, <1>5 DEF Containers, Told
    <3> QED
      BY <3>1, Clears
  <2> QED
    BY <1>4, <1>5, <2>1 DEF Containers
<1>6. ASSUME Pages PROVE Vouching'
  <2>1. Cleared("pages")'
    <3>1. <<"pages", "fail">> \in report' \/ "pages" \in worked'
      BY <1>0, <1>6 DEF Pages, Told
    <3> QED
      BY <3>1, Clears
  <2> QED
    BY <1>4, <1>6, <2>1 DEF Pages
<1>7. ASSUME Deny PROVE Vouching'
  <2>1. PICK reached \in Reached : Told("deny", DenySeverity,
              DenySeverity = "skip" \/ (reached /\ "denied" \in works))
    BY <1>7 DEF Deny
  <2>2. pc = "deny" /\ worked' = worked
    BY <1>7 DEF Deny
  <2>3. DenySeverity # "skip" => Cleared("denied")'
    <3>1. DenySeverity \in {"fail", "warn", "skip"}
      BY DEF DenySeverity
    <3>2. DenySeverity # "skip" => <<"deny", DenySeverity>> \in report' \/ "denied" \in worked'
      BY <1>0, <2>1, <2>2 DEF Told
    <3>3. <<"deny", "warn">> \in report' => "denied" \in Doubted'
      BY DEF Doubted
    <3> QED
      BY <3>1, <3>2, <3>3, Clears
  <2>4. pc' = IF deployment.logs THEN "store" ELSE "admin"
    BY <1>7 DEF Deny
  <2> QED
    BY <1>4, <1>7, <2>3, <2>4 DEF Deny
<1>8. ASSUME Store PROVE Vouching'
  <2>1. PICK reached \in Reached, severity \in StoreSeverities :
         IF reached THEN Told("store", severity, {"store", "reachable"} \subseteq works)
         ELSE Told("store", "fail", FALSE)
    BY <1>8 DEF Store
  <2>2. severity \in {"fail", "warn"} /\ pc = "store" /\ works \subseteq worked'
    BY <1>0, <1>8 DEF Store, StoreSeverities
  <2>3. \/ <<"store", "fail">> \in report'
        \/ <<"store", "warn">> \in report'
        \/ {"store", "reachable"} \subseteq worked'
    BY <2>1, <2>2 DEF Told
  <2>4. <<"store", "warn">> \in report' => {"store", "reachable"} \subseteq Doubted'
    BY DEF Doubted
  <2>5. Cleared("store")' /\ Cleared("reachable")'
    BY <2>3, <2>4, Clears
  <2> QED
    BY <1>4, <1>8, <2>5 DEF Store
<1>9. ASSUME AdminToken PROVE Vouching'
  <2>1. admin' = "token" => {"database", "admin"} \subseteq worked'
    BY <1>0, <1>9 DEF AdminToken, Mint, Login, Authenticated
  <2>2. pc = "admin" /\ pc' = "login" /\ refused' = refused
    BY <1>9 DEF AdminToken
  <2> QED
    BY <1>2, <2>1, <2>2 DEF Vouching
<1>10. ASSUME BadLogin PROVE Vouching'
  BY <1>4, <1>10 DEF BadLogin
<1>11. ASSUME NoToken \/ NoEngine PROVE Vouching'
  <2>1. Told("worker", "fail", FALSE)
    BY <1>11 DEF NoToken, NoEngine, Settles
  <2>2. Cleared("database")' /\ Cleared("admin")' /\ Cleared("auth")' /\ Cleared("worker")'
    <3>1. <<"worker", "fail">> \in report'
      BY <2>1 DEF Told
    <3> QED
      BY <3>1, Clears
  <2> QED
    BY <1>4, <1>11, <2>2 DEF NoToken, NoEngine, Settles
<1>12. ASSUME Settled PROVE Vouching'
  <2>1. Told("worker", "fail", "auth" \in works)
    BY <1>12 DEF Settled, Settles
  <2>2. works \subseteq worked'
    BY <1>0, <1>2, <1>12 DEF Settled
  <2>3. Cleared("auth")'
    <3>1. <<"worker", "fail">> \in report' \/ "auth" \in worked'
      BY <2>1, <2>2 DEF Told
    <3> QED
      BY <3>1, Clears
  <2>4. deployment.mayList => Cleared("worker")'
    <3>1. "auth" \in works /\ deployment.mayList => "worker" \in worked'
      BY <1>12, <2>2 DEF Settled
    <3>2. deployment.mayList => <<"worker", "fail">> \in report' \/ "worker" \in worked'
      BY <2>1, <3>1 DEF Told
    <3> QED
      BY <3>2, Clears
  <2>5. Cleared("database")' /\ Cleared("admin")'
    <3>1. admin = "token"
      BY <1>12 DEF Settled
    <3> QED
      BY <1>2, <3>1 DEF Vouching, Cleared
  <2>6. pc = "worker" /\ pc' = "index" /\ admin' = "none" /\ refused' = refused
    BY <1>12 DEF Settled, Settles
  <2> QED
    BY <1>4, <2>3, <2>4, <2>5, <2>6
<1>13. ASSUME Pending PROVE Vouching'
  <2>1. UNCHANGED <<report, pc, admin>> \/ Settles(FALSE)
    BY <1>13 DEF Pending
  <2>2. Settles(FALSE) =>
          Cleared("database")' /\ Cleared("admin")' /\ Cleared("auth")' /\ Cleared("worker")'
    <3>1. Settles(FALSE) => <<"worker", "fail">> \in report'
      BY DEF Settles, Told
    <3> QED
      BY <3>1, Clears
  <2>3. pc = "worker" /\ refused' = refused
    BY <1>13 DEF Pending
  <2>4. CASE UNCHANGED <<report, pc, admin>>
    BY <1>3, <2>3, <2>4
  <2>5. CASE Settles(FALSE)
    BY <1>4, <2>2, <2>3, <2>5 DEF Settles
  <2> QED
    BY <2>1, <2>4, <2>5
<1>14. ASSUME IndexSync PROVE Vouching'
  <2>1. pc = "index" /\ pc' = IF probing THEN "forge" ELSE "tls"
    BY <1>14 DEF IndexSync
  <2>2. <<"index", "warn">> \in report' \/ "index" \in worked'
    BY <1>0, <1>2, <1>14 DEF IndexSync, Told
  <2>3. <<"index", "warn">> \in report' => "index" \in Doubted'
    BY DEF Doubted
  <2>4. Cleared("index")'
    BY <2>2, <2>3 DEF Cleared
  <2> QED
    BY <1>4, <1>14, <2>1, <2>4 DEF IndexSync
<1>15. ASSUME Forge PROVE Vouching'
  <2>1. refused' => "addresses" \in worked'
    BY <1>0, <1>2, <1>15 DEF Forge, Vouching
  <2>2. UNCHANGED <<pc, admin, report>>
    BY <1>15 DEF Forge
  <2> QED
    BY <1>2, <2>1, <2>2 DEF Vouching, AllOk
<1>16. ASSUME Forged PROVE Vouching'
  <2>1. refused => "addresses" \in worked'
    BY <1>2 DEF Vouching
  <2>2. Cleared("addresses")'
    <3>1. <<"addresses", "fail">> \in report' \/ "addresses" \in worked'
      BY <1>2, <1>16, <2>1 DEF Forged, Told
    <3> QED
      BY <3>1, Clears
  <2> QED
    BY <1>4, <1>16, <2>2 DEF Forged
<1>17. ASSUME Tls PROVE Vouching'
  <2>1. PICK reached \in Reached : Told("certificate", "fail",
              ~deployment.tls \/ (reached /\ "certificate" \in works))
    BY <1>17 DEF Tls
  <2>2. deployment.tls => Cleared("certificate")'
    <3>1. deployment.tls => <<"certificate", "fail">> \in report' \/ "certificate" \in worked'
      BY <1>0, <1>2, <1>17, <2>1 DEF Tls, Told
    <3> QED
      BY <3>1, Clears
  <2> QED
    BY <1>4, <1>17, <2>2 DEF Tls
<1>18. ASSUME Verdict PROVE Vouching'
  <2>1. /\ pc = "verdict" /\ pc' = IF AllOk THEN "passed" ELSE "failed"
        /\ UNCHANGED <<report, admin, refused>>
    BY <1>18 DEF Verdict
  <2>2. AllOk' = AllOk
    BY <2>1 DEF AllOk
  <2> QED
    BY <1>2, <2>1, <2>2 DEF Vouching
<1>19. ASSUME Raises PROVE Vouching'
  BY <1>2, <1>19 DEF Raises, Vouching
<1>20. ASSUME OtherLogin \/ NextMinute \/ UNCHANGED vars PROVE Vouching'
  BY <1>3, <1>20 DEF OtherLogin, NextMinute, vars
<1>21. ASSUME NEW part, Change(part) PROVE Vouching'
  BY <1>3, <1>21 DEF Change
<1> QED
  BY <1>5, <1>6, <1>7, <1>8, <1>9, <1>10, <1>11, <1>12, <1>13, <1>14, <1>15, <1>16, <1>17, <1>18,
     <1>19, <1>20, <1>21 DEF Next, Probe

(* The address has no logins of the run to its account until the run tries *)
LEMMA CountedStep ==
    ASSUME Types, Counted, [Next]_vars
    PROVE  Counted'
<1> USE DEF Keep, WorkerKeeps, events, run, Goto
<1>0. /\ Limit \in Nat /\ Limit > 0 /\ spent \in 0..Limit /\ others \in Nat
      /\ Limited <=> spent = Limit
      /\ UNCHANGED deployment => Limit' = Limit
      /\ crowded \in BOOLEAN /\ Limited \in BOOLEAN
  BY Given DEF Types
<1>1. ASSUME Begin PROVE Counted'
  <2>1. deployment' = deployment /\ pc' = "containers" /\ spent' = spent /\ others' = spent /\ crowded' = Limited
    BY <1>1 DEF Begin
  <2> QED
    BY <1>0, <2>1 DEF Counted
<1>2. ASSUME UNCHANGED <<deployment, spent, others, crowded>>,
             pc' \in {"containers", "pages", "deny", "store", "admin"} =>
                pc \in {"containers", "pages", "deny", "store", "admin"},
             pc' = "login" => pc = "login"
      PROVE  Counted'
  BY <1>0, <1>2 DEF Counted
<1>3. ASSUME Containers \/ Pages \/ Deny \/ Store PROVE Counted'
  BY <1>2, <1>3 DEF Containers, Pages, Deny, Store
<1>4. ASSUME AdminToken PROVE Counted'
  <2>1. /\ pc = "admin" /\ pc' = "login" /\ UNCHANGED <<deployment, others, crowded>>
        /\ deployment.oidc => spent' = spent
    BY <1>4 DEF AdminToken, Mint
  <2> QED
    BY <1>0, <2>1 DEF Counted
<1>5. ASSUME BadLogin PROVE Counted'
  <2>1. pc' = "worker" /\ UNCHANGED <<deployment, others, crowded>>
    BY <1>5 DEF BadLogin
  <2> QED
    BY <1>0, <2>1 DEF Counted
<1>6. ASSUME NoToken \/ Settled \/ NoEngine \/ Pending PROVE Counted'
  <2>1. /\ UNCHANGED <<deployment, spent, others, crowded>> /\ pc = "worker"
        /\ pc' = pc \/ pc' = "index"
    BY <1>6 DEF NoToken, Settled, NoEngine, Pending, Settles
  <2> QED
    BY <1>2, <2>1
<1>7. ASSUME IndexSync \/ Forged \/ Tls \/ Verdict \/ Raises PROVE Counted'
  <2>1. /\ UNCHANGED <<deployment, spent, others, crowded>>
        /\ pc' \in {"forge", "tls", "verdict", "passed", "failed", "raised"}
    BY <1>7 DEF IndexSync, Forged, Tls, Verdict, Raises
  <2> QED
    BY <1>2, <2>1
<1>8. ASSUME Forge PROVE Counted'
  <2>1. pc = "forge" /\ pc' = pc /\ UNCHANGED <<deployment, others, crowded>>
    BY <1>8 DEF Forge
  <2> QED
    BY <1>0, <2>1 DEF Counted
<1>9. ASSUME OtherLogin PROVE Counted'
  <2>1. /\ UNCHANGED <<deployment, pc>> /\ others' = others + 1 /\ spent' = spent + 1
        /\ others' >= Limit => crowded'
    BY <1>0, <1>9 DEF OtherLogin, Count
  <2> QED
    BY <1>0, <2>1 DEF Counted
<1>10. ASSUME NextMinute PROVE Counted'
  <2>1. UNCHANGED <<deployment, pc>> /\ others' = 0 /\ spent' = 0
    BY <1>10 DEF NextMinute
  <2> QED
    BY <1>0, <2>1 DEF Counted
<1>11. ASSUME NEW part, Change(part) PROVE Counted'
  BY <1>2, <1>11 DEF Change
<1>12. ASSUME UNCHANGED vars PROVE Counted'
  BY <1>2, <1>12 DEF vars
<1> QED
  BY <1>1, <1>3, <1>4, <1>5, <1>6, <1>7, <1>8, <1>9, <1>10, <1>11, <1>12 DEF Next, Probe

(* What keeps a request, or a command in a container, from its answer *)
LEMMA Unanswered ==
    ASSUME Types, Watched, pc # "idle"
    PROVE  /\ FALSE \in Reached => "pages" \in broke
           /\ FALSE \in Ran => "containers" \in broke
           /\ \A part \in Present : part \notin works => part \in broke
           /\ {"pages", "containers", "denied", "database", "admin", "auth", "worker", "index", "addresses"}
                \subseteq Present
           /\ FALSE \in LoggedIn => {"pages", "addresses"} \cap broke # {}
<1>1. \A part \in Present : part \notin works => part \in broke
  BY DEF Watched
<1>2. {"pages", "containers", "denied", "database", "admin", "auth", "worker", "index", "addresses"}
        \subseteq Present
  BY Given
<1> QED
  BY <1>1, <1>2 DEF Reached, Ran, LoggedIn

(* No login was refused to the admin by a limit the run had a part in *)
LEMMA RefusalStep ==
    ASSUME Types, Watched, Counted, Refusal, [Next]_vars
    PROVE  Refusal'
<1> USE DEF Keep, WorkerKeeps, events, run, Goto
<1>1. ASSUME Begin PROVE Refusal'
  BY <1>1 DEF Begin, Refusal
<1> SUFFICES ASSUME ~Begin PROVE Refusal'
  BY <1>1
<1>2. broke \subseteq broke' /\ (crowded => crowded')
  BY Accrues
<1>3. ASSUME pc' \in {"login", "worker"} => pc \in {"login", "worker"} /\ admin' = admin PROVE Refusal'
  BY <1>2, <1>3 DEF Refusal
<1>4. ASSUME Containers \/ Pages \/ Deny \/ Store \/ IndexSync \/ Forge \/ Forged \/ Tls \/ Verdict \/ Raises
      PROVE Refusal'
  BY <1>3, <1>4 DEF Containers, Pages, Deny, Store, IndexSync, Forge, Forged, Tls, Verdict, Raises
<1>5. ASSUME BadLogin \/ NoToken \/ Settled \/ NoEngine \/ Pending PROVE Refusal'
  BY <1>3, <1>5 DEF BadLogin, NoToken, Settled, NoEngine, Pending, Settles
<1>6. ASSUME AdminToken PROVE Refusal'
  <2>1. pc = "admin" /\ broke' = broke /\ crowded' = crowded
    BY <1>6 DEF AdminToken
  <2>2. /\ FALSE \in Reached => "pages" \in broke
        /\ FALSE \in Ran => "containers" \in broke
        /\ FALSE \in LoggedIn => {"pages", "addresses"} \cap broke # {}
        /\ "database" \notin works => "database" \in broke
        /\ "admin" \notin works => "admin" \in broke
    BY <2>1, Unanswered
  <2>3. Limited => crowded
    <3>1. spent = others /\ (others >= Limit => crowded)
      BY <2>1 DEF Counted
    <3> QED
      BY <3>1 DEF Limited
  <2> DEFINE Blamed == {"pages", "addresses", "containers", "database", "admin"} \cap broke # {}
  <2>4. CASE deployment.oidc
    <3>1. PICK ran \in Ran :
            admin' = IF ran /\ {"database", "admin"} \subseteq works THEN "token" ELSE "error"
      BY <1>6, <2>4 DEF AdminToken, Mint
    <3>2. admin' = "token" \/ (admin' = "error" /\ Blamed)
      BY <2>2, <3>1 DEF Ran
    <3> QED
      BY <2>1, <3>2 DEF Refusal
  <2>5. CASE ~deployment.oidc
    <3>1. PICK loggedIn \in LoggedIn :
            IF ~loggedIn THEN admin' = "error"
            ELSE admin' = IF Limited THEN "limited" ELSE Authenticated
      BY <1>6, <2>5 DEF AdminToken, Login
    <3>2. loggedIn \in BOOLEAN /\ (~loggedIn => FALSE \in LoggedIn)
      BY DEF LoggedIn
    <3>3. \/ admin' = "token"
          \/ admin' = "limited" /\ crowded
          \/ admin' \in {"down", "error"} /\ Blamed
      BY <2>2, <2>3, <3>1, <3>2 DEF Authenticated
    <3> QED
      BY <2>1, <3>3 DEF Refusal
  <2> QED
    BY <2>4, <2>5
<1>7. ASSUME OtherLogin \/ NextMinute \/ UNCHANGED vars PROVE Refusal'
  BY <1>3, <1>7 DEF OtherLogin, NextMinute, vars
<1>8. ASSUME NEW part, Change(part) PROVE Refusal'
  BY <1>3, <1>8 DEF Change
<1> QED
  BY <1>4, <1>5, <1>6, <1>7, <1>8 DEF Next, Probe

(* Whoever else logs in, each forged request that arrives brings the limit nearer *)
LEMMA ForgingStep ==
    ASSUME Types, Watched, Forging, [Next]_vars
    PROVE  Forging'
<1> DEFINE Asked == AfterIndex \cup {"failed", "raised"}
<1> USE PlacesAre DEF Keep, WorkerKeeps, events, run, Goto
<1>0. spent \in Nat /\ tries \in Nat /\ Limit \in Nat /\ refused \in BOOLEAN /\ rolled \in BOOLEAN
  BY Given DEF Types
<1>1. ASSUME Begin PROVE Forging'
  BY <1>1 DEF Begin, Forging
<1> SUFFICES ASSUME ~Begin PROVE Forging'
  BY <1>1
<1>2. broke \subseteq broke' /\ (rolled => rolled')
  BY Accrues
<1>3. ASSUME pc' # "forge", tries' \in {tries, 0}, pc \in Asked => pc' \in Asked PROVE Forging'
  BY <1>3 DEF Forging
<1>4. ASSUME pc' = pc, tries' = tries, refused' = refused, spent' >= spent PROVE Forging'
  BY <1>0, <1>2, <1>4, TypesStep DEF Forging, Types
<1>5. ASSUME Containers \/ Pages \/ Deny \/ Store \/ AdminToken \/ BadLogin \/ NoToken \/ Settled \/ NoEngine
              \/ Pending \/ Forged \/ Tls \/ Verdict \/ Raises
      PROVE Forging'
  <2>1. pc' # "forge" /\ tries' \in {tries, 0} /\ (pc \in Asked => pc' \in Asked)
    BY <1>5 DEF Containers, Pages, Deny, Store, AdminToken, BadLogin, NoToken, Settled, NoEngine,
                Pending, Settles, Forged, Tls, Verdict, Raises
  <2> QED
    BY <1>3, <2>1
<1>6. ASSUME IndexSync PROVE Forging'
  <2>1. UNCHANGED <<tries, spent>> /\ pc = "index"
    BY <1>6 DEF IndexSync
  <2>2. tries = 0
    BY <1>0, <2>1 DEF Forging
  <2> QED
    BY <1>0, <2>1, <2>2 DEF Forging
<1>7. ASSUME Forge PROVE Forging'
  <2>1. pc = "forge" /\ tries' = tries + 1 /\ UNCHANGED <<broke, rolled, pc>>
    BY <1>7 DEF Forge
  <2> SUFFICES ASSUME "pages" \notin broke, "addresses" \notin broke, ~rolled
               PROVE  tries' <= spent' \/ refused'
    BY <2>1 DEF Forging
  <2>2. tries <= spent \/ refused
    BY <2>1 DEF Forging
  <2>3. Reached = {TRUE} /\ "addresses" \in works
    BY <2>1, Unanswered DEF Reached
  <2>4. Count /\ refused' = (refused \/ Limited)
    BY <1>7, <2>3 DEF Forge
  <2>5. Limited => refused'
    BY <2>4
  <2>6. ~Limited => spent' = spent + 1 /\ refused' = refused
    BY <1>0, <2>4 DEF Count
  <2> QED
    BY <1>0, <2>1, <2>2, <2>4, <2>5, <2>6
<1>8. ASSUME OtherLogin PROVE Forging'
  <2>1. spent' = spent + 1 /\ UNCHANGED <<pc, tries, refused>>
    BY <1>8 DEF OtherLogin, Count
  <2> QED
    BY <1>0, <1>4, <2>1
<1>9. ASSUME NextMinute PROVE Forging'
  BY <1>9 DEF NextMinute, Forging
<1>10. ASSUME UNCHANGED vars PROVE Forging'
  BY <1>0, <1>4, <1>10 DEF vars
<1>11. ASSUME NEW part, Change(part) PROVE Forging'
  BY <1>0, <1>4, <1>11 DEF Change
<1> QED
  BY <1>5, <1>6, <1>7, <1>8, <1>9, <1>10, <1>11 DEF Next, Probe

(* An explanation stays one, and a new entry needs its own *)
LEMMA ExplainedMore ==
    ASSUME Types, [Next]_vars, ~Begin, Explained, NEW probe, NEW severity,
           report' = report \/ report' = report \cup {<<probe, severity>>},
           report' = report \/ Reason(probe, severity)'
    PROVE  Explained'
<1>1. broke \subseteq broke' /\ (crowded => crowded') /\ (late => late') /\ (rolled => rolled')
  BY Accrues
<1>2. \A p : Excused(p) => Excused(p)'
  BY <1>1 DEF Excused
<1>3. \A p, q : Reason(p, q) => Reason(p, q)'
  BY <1>1, <1>2 DEF Reason, Causes
<1>4. <<probe, severity>>[1] = probe /\ <<probe, severity>>[2] = severity
  OBVIOUS
<1> QED
  BY <1>3, <1>4 DEF Explained

(* No probe fails for what the run itself has done *)
LEMMA BlamingStep ==
    ASSUME Types, Watched, Counted, Refusal, Forging, Blaming, [Next]_vars
    PROVE  Blaming'
<1> USE DEF Keep, WorkerKeeps, events, run, Goto
<1>0. /\ Explained /\ (pc = "failed" => ~AllOk) /\ late \in BOOLEAN /\ crowded \in BOOLEAN
      /\ refused \in BOOLEAN /\ waited \in Nat /\ grace \in Nat /\ spent \in Nat /\ tries \in Nat
  BY Given DEF Blaming, Types
<1>1. ASSUME Begin PROVE Blaming'
  <2>1. report' = {} /\ pc' = "containers"
    BY <1>1 DEF Begin
  <2> QED
    BY <2>1 DEF Blaming, Explained
<1> SUFFICES ASSUME ~Begin PROVE Blaming'
  BY <1>1
<1>2. ASSUME pc # "idle"
      PROVE  /\ FALSE \in Reached => "pages" \in broke
             /\ FALSE \in Ran => "containers" \in broke
             /\ \A part \in Present : part \notin works => part \in broke
             /\ {"pages", "containers", "denied", "database", "admin", "auth", "worker", "index",
                 "addresses"} \subseteq Present
             /\ FALSE \in LoggedIn => {"pages", "addresses"} \cap broke # {}
  BY <1>2, Unanswered
<1>3. ASSUME UNCHANGED report, pc' # "failed" \/ pc' = pc PROVE Blaming'
  <2>1. Explained'
    BY <1>0, <1>3, ExplainedMore
  <2> QED
    BY <1>0, <1>3, <2>1 DEF Blaming, AllOk
<1>4. ASSUME NEW probe, NEW severity, pc' # "failed", pc # "idle",
             report' = report \/ report' = report \cup {<<probe, severity>>},
             report' = report \/ Reason(probe, severity)'
      PROVE  Blaming'
  BY <1>0, <1>4, ExplainedMore DEF Blaming
<1>5. ASSUME Containers PROVE Blaming'
  <2>1. "containers" \notin works => Reason("containers", "fail")'
    BY <1>2, <1>5 DEF Containers, Reason, Causes
  <2> QED
    BY <1>4, <1>5, <2>1 DEF Containers, Told
<1>6. ASSUME Pages PROVE Blaming'
  <2>1. "pages" \notin works => Reason("pages", "fail")'
    BY <1>2, <1>6 DEF Pages, Reason, Causes
  <2> QED
    BY <1>4, <1>6, <2>1 DEF Pages, Told
<1>7. ASSUME Deny PROVE Blaming'
  <2>1. PICK reached \in Reached : Told("deny", DenySeverity,
              DenySeverity = "skip" \/ (reached /\ "denied" \in works))
    BY <1>7 DEF Deny
  <2>2. pc = "deny" /\ pc' # "failed" /\ broke' = broke
    BY <1>7 DEF Deny
  <2>3. PICK severity : severity = DenySeverity
    OBVIOUS
  <2>4. (reached /\ "denied" \in works) \/ Reason("deny", severity)'
    BY <1>2, <2>1, <2>2 DEF Reason, Causes, Reached
  <2>5. /\ report' = report \/ report' = report \cup {<<"deny", severity>>}
        /\ report' = report \/ Reason("deny", severity)'
    BY <2>1, <2>3, <2>4 DEF Told
  <2> QED
    BY <1>4, <2>2, <2>5
<1>8. ASSUME Store PROVE Blaming'
  <2>1. PICK reached \in Reached, severity \in StoreSeverities :
         IF reached THEN Told("store", severity, {"store", "reachable"} \subseteq works)
         ELSE Told("store", "fail", FALSE)
    BY <1>8 DEF Store
  <2>2. pc = "store" /\ pc' # "failed" /\ broke' = broke /\ {"store", "reachable"} \subseteq Present
    BY <1>8, Given DEF Store, Types
  <2>3. CASE ~reached
    <3>1. Reason("store", "fail")'
      BY <1>2, <2>2, <2>3 DEF Reason, Causes, Reached
    <3> QED
      BY <1>4, <2>1, <2>2, <2>3, <3>1 DEF Told
  <2>4. CASE reached
    <3>1. {"store", "reachable"} \subseteq works \/ Reason("store", severity)'
      BY <1>2, <2>2 DEF StoreSeverities, Reason, Causes
    <3> QED
      BY <1>4, <2>1, <2>2, <2>4, <3>1 DEF Told
  <2> QED
    BY <2>3, <2>4
<1>9. ASSUME AdminToken PROVE Blaming'
  BY <1>3, <1>9 DEF AdminToken
<1>10. ASSUME BadLogin PROVE Blaming'
  <2>1. PICK loggedIn \in LoggedIn :
          Told("login", "fail",
               loggedIn /\ (IF Limited THEN ~deployment.oidc ELSE "database" \in works))
    BY <1>10 DEF BadLogin
  <2>2. pc = "login" /\ pc' # "failed" /\ broke' = broke /\ crowded' = crowded
    BY <1>10 DEF BadLogin
  <2>3. Limited /\ deployment.oidc => crowded
    BY <2>2 DEF Counted, Limited
  <2>4. (loggedIn /\ (IF Limited THEN ~deployment.oidc ELSE "database" \in works)) \/ Reason("login", "fail")'
    BY <1>2, <2>1, <2>2, <2>3 DEF Reason, Causes, Excused, LoggedIn
  <2> QED
    BY <1>4, <2>1, <2>2, <2>4 DEF Told
<1>11. ASSUME NoToken PROVE Blaming'
  <2>1. pc = "worker" /\ pc' # "failed" /\ broke' = broke /\ crowded' = crowded /\ admin # "token"
    BY <1>11 DEF NoToken, Settles
  <2>2. {"pages", "addresses", "containers", "database", "admin"} \cap broke # {} \/ crowded
    BY <2>1 DEF Refusal, Types
  <2>3. Reason("worker", "fail")'
    BY <2>1, <2>2 DEF Reason, Causes, Excused
  <2> QED
    BY <1>4, <1>11, <2>1, <2>3 DEF NoToken, Settles, Told
<1>12. ASSUME Settled PROVE Blaming'
  <2>1. "auth" \notin works => Reason("worker", "fail")'
    BY <1>2, <1>12 DEF Settled, Reason, Causes
  <2> QED
    BY <1>4, <1>12, <2>1 DEF Settled, Settles, Told
<1>13. ASSUME NoEngine PROVE Blaming'
  <2>1. Reason("worker", "fail")'
    BY <1>2, <1>13 DEF NoEngine, Reason, Causes
  <2> QED
    BY <1>4, <1>13, <2>1 DEF NoEngine, Settles, Told
<1>14. ASSUME Pending PROVE Blaming'
  <2>1. PICK answered \in waited..waited + AnswerTime :
         IF answered >= grace THEN Settles(FALSE) ELSE UNCHANGED <<report, pc, admin>>
    BY <1>14 DEF Pending
  <2>2. pc = "worker" /\ late' = (late \/ waited + AnswerTime >= grace)
    BY <1>14 DEF Pending
  <2>3. CASE answered >= grace
    <3>1. waited + AnswerTime >= grace
      BY <1>0, <2>3, DoctorAssumption
    <3>2. late'
      BY <2>2, <3>1
    <3>3. Reason("worker", "fail")'
      BY <3>2 DEF Reason, Excused
    <3> QED
      BY <1>4, <2>1, <2>2, <2>3, <3>3 DEF Settles, Told
  <2>4. CASE ~(answered >= grace)
    BY <1>3, <2>1, <2>2, <2>4
  <2> QED
    BY <2>3, <2>4
<1>15. ASSUME IndexSync PROVE Blaming'
  <2>1. PICK ran \in Ran : Told("index", "warn", ran /\ "index" \in works)
    BY <1>15 DEF IndexSync
  <2>2. pc = "index" /\ pc' # "failed" /\ broke' = broke
    BY <1>15 DEF IndexSync
  <2>3. (ran /\ "index" \in works) \/ Reason("index", "warn")'
    BY <1>2, <2>1, <2>2 DEF Reason, Causes, Ran
  <2> QED
    BY <1>4, <2>1, <2>2, <2>3 DEF Told
<1>16. ASSUME Forge PROVE Blaming'
  BY <1>3, <1>16 DEF Forge
<1>17. ASSUME Forged PROVE Blaming'
  <2>1. pc = "forge" /\ pc' # "failed" /\ tries > Limit /\ UNCHANGED <<broke, rolled>>
    BY <1>17 DEF Forged
  <2>2. Limit \in Nat /\ spent <= Limit
    BY Given DEF Types
  <2>3. refused \/ "pages" \in broke \/ "addresses" \in broke \/ rolled
    BY <1>0, <2>1, <2>2 DEF Forging
  <2>4. refused \/ Reason("addresses", "fail")'
    BY <2>1, <2>3 DEF Reason, Causes, Excused
  <2> QED
    BY <1>4, <1>17, <2>1, <2>4 DEF Forged, Told
<1>18. ASSUME Tls PROVE Blaming'
  <2>1. PICK reached \in Reached : Told("certificate", "fail",
              ~deployment.tls \/ (reached /\ "certificate" \in works))
    BY <1>18 DEF Tls
  <2>2. pc = "tls" /\ pc' # "failed" /\ broke' = broke
        /\ (deployment.tls => "certificate" \in Present)
    BY <1>18, Given DEF Tls
  <2>3. ~deployment.tls \/ (reached /\ "certificate" \in works) \/ Reason("certificate", "fail")'
    BY <1>2, <2>1, <2>2 DEF Reason, Causes, Reached
  <2> QED
    BY <1>4, <2>1, <2>2, <2>3 DEF Told
<1>19. ASSUME Verdict PROVE Blaming'
  <2>1. report' = report /\ (pc' = "failed" => ~AllOk)
    BY <1>19 DEF Verdict
  <2>2. Explained'
    BY <1>0, <2>1, ExplainedMore
  <2> QED
    BY <2>1, <2>2 DEF Blaming, AllOk
<1>20. ASSUME Raises PROVE Blaming'
  BY <1>3, <1>20 DEF Raises
<1>21. ASSUME OtherLogin \/ NextMinute \/ UNCHANGED vars PROVE Blaming'
  BY <1>3, <1>21 DEF OtherLogin, NextMinute, vars
<1>22. ASSUME NEW part, Change(part) PROVE Blaming'
  BY <1>3, <1>22 DEF Change
<1> QED
  BY <1>5, <1>6, <1>7, <1>8, <1>9, <1>10, <1>11, <1>12, <1>13, <1>14, <1>15, <1>16, <1>17, <1>18,
     <1>19, <1>20, <1>21, <1>22 DEF Next, Probe
-----------------------------------------------------------------------------
(* The invariant of the specification: a run that is under way has seen what  *)
(* works and what does not, has cleared what it went by, and can explain      *)
(* every failure it reports                                                   *)
THEOREM Inductive == Spec => []DInv
<1>1. Init => DInv
  <2> SUFFICES ASSUME Init PROVE DInv
    OBVIOUS
  <2>1. /\ deployment \in Deployment /\ works \subseteq Present /\ pc = "idle" /\ grace = 0
        /\ probing = FALSE /\ report = {} /\ admin = "none" /\ waited = 0 /\ tries = 0
        /\ refused = FALSE /\ spent = 0 /\ others = 0 /\ crowded = FALSE /\ late = FALSE
        /\ rolled = FALSE
    BY DoctorAssumption DEF Init
  <2>2. Limit \in Nat /\ Limit > 0
    BY <2>1, DoctorAssumption DEF Limit
  <2>3. Types
    <3>1. "idle" \in Places /\ 0 \in 0..Limit /\ {} \subseteq Probes \X Severities
      BY <2>2, PlacesAre
    <3> QED
      BY <2>1, <3>1 DEF Types
  <2>4. Watched /\ Vouching /\ Counted
    BY <2>1, <2>2, PlacesAre DEF Watched, Vouching, Counted
  <2>5. Refusal /\ Forging /\ Blaming
    BY <2>1 DEF Refusal, Forging, Blaming, Explained
  <2> QED
    BY <2>3, <2>4, <2>5 DEF DInv
<1>2. DInv /\ [Next]_vars => DInv'
  <2> SUFFICES ASSUME DInv, [Next]_vars PROVE DInv'
    OBVIOUS
  <2>1. Types /\ Watched /\ Vouching /\ Counted /\ Refusal /\ Forging /\ Blaming
    BY DEF DInv
  <2>2. Types' /\ Watched' /\ Vouching'
    BY <2>1, TypesStep, WatchedStep, VouchingStep
  <2>3. Counted' /\ Refusal' /\ Forging' /\ Blaming'
    BY <2>1, CountedStep, RefusalStep, ForgingStep, BlamingStep
  <2> QED
    BY <2>2, <2>3 DEF DInv
<1> QED
  BY <1>1, <1>2, PTL DEF Spec

(* A doctor that passes has asked of every part it vouches for, and has       *)
(* either found it working at some time of its run or warned of it, whatever  *)
(* broke, recovered or ran into a limit in between                            *)
THEOREM AlarmSound == Spec => []AlarmNotMissed
<1>1. DInv => AlarmNotMissed
  <2> SUFFICES ASSUME DInv, pc = "passed" PROVE Vouched \subseteq worked \cup Doubted
    BY DEF AlarmNotMissed
  <2>1. Vouching /\ AllOk
    BY DEF DInv, Vouching
  <2>2. \A part : Cleared(part) => part \in worked \cup Doubted
    BY <2>1 DEF Cleared
  <2> QED
    BY <2>1, <2>2, PlacesAre DEF Vouching, Vouched
<1> QED
  BY <1>1, Inductive, PTL

(* A doctor that fails has a failure to show, and for each failure and        *)
(* warning of a run there is something that did not work during it, or a      *)
(* circumstance the run had no part in                                        *)
THEOREM BlameSound == Spec => []NoFalseAlarm
<1>1. DInv => NoFalseAlarm
  <2> SUFFICES ASSUME DInv
               PROVE  /\ pc = "failed" => \E p \in report : p[2] = "fail"
                      /\ \A p \in report : Causes(p[1], p[2]) \cap broke # {} \/ Excused(p[1])
    BY DEF NoFalseAlarm
  <2>1. Types /\ Explained /\ (pc = "failed" => ~AllOk)
    BY DEF DInv, Blaming
  <2>2. pc = "failed" => \E p \in report : p[2] = "fail"
    BY <2>1 DEF AllOk, Types, Severities
  <2> QED
    BY <2>1, <2>2 DEF Explained, Reason
<1> QED
  BY <1>1, Inductive, PTL
=============================================================================
