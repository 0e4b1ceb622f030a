-------------------------------- MODULE Doctor --------------------------------
(***************************************************************************)
(* `./neops doctor` and the doctor at the end of `up` and `install`,        *)
(* neops_compose/doctor.py: one probe after the other, each asks the stack  *)
(* about the moment it runs, while the stack comes up, breaks and recovers, *)
(* time passes, and core counts the logins that come from one address.      *)
(* Its verdict decides whether `up` fails and what state.json says of it.   *)
(***************************************************************************)
EXTENDS Naturals

CONSTANTS
    Deployments,    \* what .env can make of the stack, see Deployment
    LoginLimit,     \* core: password logins a minute and address
    ExchangeLimit,  \* core: OIDC code exchanges a minute and address
    Grace,          \* WORKER_GRACE_SECONDS in units of WORKER_POLL_SECONDS
    AnswerTime,     \* what an answer of the engine may take, in the same units
    MaxChanges,     \* bound: parts that break or recover
    MaxOthers,      \* bound: logins of others from the address of doctor
    MaxProbes       \* bound: runs with --probe-ratelimit

(* What has to work, in the order doctor asks.  pages: what the public URLs  *)
(* answer; denied: the worker API from outside; store: the engine has a log  *)
(* store that takes its lines; reachable: it answers the engine; admin: the  *)
(* CMS has an active admin whose password is .env's; auth: the engine        *)
(* accepts what the CMS signs; index: core finds every row in its index, or  *)
(* is too old to say; addresses: the proxy overwrites X-Real-IP.             *)
Parts == {"containers", "pages", "denied", "store", "reachable", "database", "admin",
          "auth", "worker", "index", "addresses", "certificate"}

(* mayList: the admin has the permission worker:read *)
Deployment == [oidc : BOOLEAN, proxy : {"traefik", "expose"}, loopback : BOOLEAN,
               logs : BOOLEAN, tls : BOOLEAN, mayList : BOOLEAN]

ASSUME DoctorAssumption ==
    /\ Deployments \subseteq Deployment
    /\ {LoginLimit, ExchangeLimit, Grace} \subseteq Nat \ {0}
    /\ {AnswerTime, MaxChanges, MaxOthers, MaxProbes} \subseteq Nat
    /\ MaxProbes < LoginLimit    \* or addresses forged again and again run into it

VARIABLES
    deployment,
    works,          \* the parts that work now
    pc,             \* the next probe, or how the latest run ended
    grace,          \* worker_grace of the run
    probing,        \* --probe-ratelimit
    report,         \* the probes that are not ok, with their severity
    admin,          \* the Login the run holds
    waited,         \* time since settled_worker_probe began
    tries,          \* forged requests sent
    refused,        \* whether one of them was
    spent,          \* logins (exchanges under OIDC) of the address in this minute
    worked, broke,  \* history: parts that did, and did not, work at some time of the run
    others,         \* history: spent before the run or by others in it, this minute
    crowded,        \* history: that was all the address had, at some time of the run
    late,           \* history: no worker was there when the grace was about to end
    rolled,         \* history: a minute began during the forged requests
    changes, logins, probes     \* bounded events so far

run == <<pc, grace, probing, report, admin, waited, tries, refused>>
events == <<changes, logins, probes>>
vars == <<deployment, works, run, spent, worked, broke, others, crowded, late, rolled, events>>

Idle == {"idle", "passed", "failed", "raised"}
Limit == IF deployment.oidc THEN ExchangeLimit ELSE LoginLimit

(* Core (external) counts a request before it looks anything up *)
Limited == spent >= Limit
Count == spent' = IF Limited THEN spent ELSE spent + 1

(* What the overlays in COMPOSE_FILE bring *)
Present ==
    Parts \ ((IF deployment.logs THEN {} ELSE {"store", "reachable"})
             \cup (IF deployment.tls THEN {} ELSE {"certificate"}))

(* What `up --wait` waits for is there; the worker registers later *)
Init ==
    /\ deployment \in Deployments
    /\ works \in {Present, Present \ {"worker"}}
    /\ pc = "idle" /\ grace = 0 /\ probing = FALSE
    /\ report = {} /\ admin = "none" /\ waited = 0
    /\ tries = 0 /\ refused = FALSE
    /\ spent = 0
    /\ worked = {} /\ broke = {} /\ others = 0 /\ crowded = FALSE
    /\ late = FALSE /\ rolled = FALSE
    /\ changes = 0 /\ logins = 0 /\ probes = 0
-----------------------------------------------------------------------------
(* deny_severity: the operator's own proxy may not be there yet; with every *)
(* address on loopback nothing is reachable from outside                    *)
DenySeverity ==
    IF deployment.proxy = "traefik" THEN "fail"
    ELSE IF deployment.loopback THEN "skip" ELSE "warn"

Told(probe, severity, ok) ==
    report' = IF ok THEN report ELSE report \cup {<<probe, severity>>}

(* A request to a page that may be one of those that do not answer *)
Reached == IF "pages" \in works THEN {TRUE} ELSE BOOLEAN

(* A login: without the X-Real-IP it counts by, core answers it with an error *)
LoggedIn == IF {"pages", "addresses"} \subseteq works THEN {TRUE} ELSE BOOLEAN

(* A command in the CMS, whose container may be one that does not run *)
Ran == IF "containers" \in works THEN {TRUE} ELSE BOOLEAN

Goto(place) == pc' = place
Keep == UNCHANGED <<deployment, works, worked, broke, others, crowded, events>>

(* up and install wait for the worker, the command doctor does not *)
Begin ==
    /\ pc \in Idle
    /\ \/ grace' = Grace /\ probing' = FALSE /\ probes' = probes
       \/ grace' = 0 /\ probing' = FALSE /\ probes' = probes
       \/ grace' = 0 /\ probing' = TRUE /\ probes < MaxProbes /\ probes' = probes + 1
    /\ Goto("containers")
    /\ report' = {} /\ admin' = "none" /\ waited' = 0 /\ tries' = 0 /\ refused' = FALSE
    /\ worked' = works /\ broke' = Present \ works
    /\ others' = spent /\ crowded' = Limited /\ late' = FALSE /\ rolled' = FALSE
    /\ UNCHANGED <<deployment, works, spent, changes, logins>>

(* container_probes(ctx.compose.ps()) *)
Containers ==
    /\ pc = "containers"
    /\ Told("containers", "fail", "containers" \in works)
    /\ Goto("pages")
    /\ Keep /\ UNCHANGED <<grace, probing, admin, waited, tries, refused, spent, late, rolled>>

(* http_probes: _probe_get for every page *)
Pages ==
    /\ pc = "pages"
    /\ Told("pages", "fail", "pages" \in works)
    /\ Goto("deny")
    /\ Keep /\ UNCHANGED <<grace, probing, admin, waited, tries, refused, spent, late, rolled>>

(* http_probes: _deny_probe for both routes *)
Deny ==
    /\ pc = "deny"
    /\ \E reached \in Reached :
         Told("deny", DenySeverity,
              DenySeverity = "skip" \/ (reached /\ "denied" \in works))
    /\ Goto(IF deployment.logs THEN "store" ELSE "admin")
    /\ Keep /\ UNCHANGED <<grace, probing, admin, waited, tries, refused, spent, late, rolled>>

(* _store_probe: a store that is merely unreachable is a warning, the engine *)
(* keeps the lines meanwhile; of one that is neither, it knows either        *)
StoreSeverities ==
    IF "reachable" \in works THEN {"fail"}
    ELSE IF "store" \in works THEN {"warn"} ELSE {"fail", "warn"}

(* logs_probe *)
Store ==
    /\ pc = "store"
    /\ \E reached \in Reached, severity \in StoreSeverities :
         IF reached THEN Told("store", severity, {"store", "reachable"} \subseteq works)
         ELSE Told("store", "fail", FALSE)
    /\ Goto("admin")
    /\ Keep /\ UNCHANGED <<grace, probing, admin, waited, tries, refused, spent, late, rolled>>
-----------------------------------------------------------------------------
(* What the CMS makes of the admin's password *)
Authenticated ==
    IF "database" \notin works THEN "down"
    ELSE IF "admin" \in works THEN "token" ELSE "error"

(* mutant: the bad password goes first and takes a login *)
LoginLast ==
    /\ spent' = IF spent + 1 >= Limit THEN Limit ELSE spent + 2
    /\ admin' = IF spent + 1 >= Limit THEN "limited" ELSE Authenticated

(* login(): a password login; the limiter answers before the database does *)
Login ==
    \E loggedIn \in LoggedIn :
        IF ~loggedIn THEN admin' = "error" /\ spent' = spent
        ELSE /\ Count
             /\ admin' = IF Limited THEN "limited" ELSE Authenticated

(* mint_access_token(): a script in the CMS container, which no limiter counts *)
Mint ==
    /\ spent' = spent
    /\ \E ran \in Ran :
         admin' = IF ran /\ {"database", "admin"} \subseteq works THEN "token" ELSE "error"

(* _admin_token *)
AdminToken ==
    /\ pc = "admin"
    /\ IF deployment.oidc THEN Mint ELSE Login
    /\ Goto("login")
    /\ Keep /\ UNCHANGED <<grace, probing, report, waited, tries, refused, late, rolled>>

(* bad_login_probe: a refusal by the limiter is a problem only under OIDC *)
BadLogin ==
    /\ pc = "login"
    /\ \E loggedIn \in LoggedIn :
         /\ IF loggedIn THEN Count ELSE spent' = spent
         /\ Told("login", "fail",
                 loggedIn /\ IF Limited THEN ~deployment.oidc ELSE "database" \in works)
    /\ Goto("worker")
    /\ Keep /\ UNCHANGED <<grace, probing, admin, waited, tries, refused, late, rolled>>
-----------------------------------------------------------------------------
WorkerKeeps == Keep /\ UNCHANGED <<grace, probing, tries, refused, spent, rolled>>

(* The worker's probe is done with its token and its clock *)
Settles(ok) ==
    /\ Told("worker", "fail", ok)
    /\ admin' = "none" /\ waited' = 0
    /\ Goto("index")

(* mutant: a rate limit says nothing of the worker, so it is no failure *)
NoTokenForgiven ==
    /\ pc = "worker"
    /\ admin # "token"
    /\ Settles(admin = "limited")
    /\ WorkerKeeps /\ UNCHANGED late

(* worker_probe without a token: no answer will come, so it is not pending *)
NoToken ==
    /\ pc = "worker"
    /\ admin # "token"
    /\ Settles(FALSE)
    /\ WorkerKeeps /\ UNCHANGED late

(* GET /workers: 401 or such, 403 without the permission, or a worker online *)
Settled ==
    /\ pc = "worker"
    /\ admin = "token"
    /\ "auth" \notin works \/ ~deployment.mayList \/ "worker" \in works
    /\ Settles("auth" \in works)
    /\ WorkerKeeps /\ UNCHANGED late

(* "0 online": asked at `waited`, and the answer takes up to AnswerTime.     *)
(* Then the grace is over, or doctor sleeps and asks again.                  *)
Pending ==
    /\ pc = "worker"
    /\ admin = "token"
    /\ "auth" \in works /\ deployment.mayList /\ "worker" \notin works
    /\ late' = (late \/ waited + AnswerTime >= grace)
    /\ \E answered \in waited..waited + AnswerTime :
         IF answered >= grace
           THEN Settles(FALSE)
           ELSE waited' = answered + 1 /\ UNCHANGED <<report, pc, admin>>
    /\ WorkerKeeps

(* A proxy's answer in place of the engine's *)
NoEngine ==
    /\ pc = "worker"
    /\ admin = "token"
    /\ FALSE \in Reached
    /\ Settles(FALSE)
    /\ WorkerKeeps /\ UNCHANGED late
-----------------------------------------------------------------------------
(* index_sync_probes: everything here warns *)
IndexSync ==
    /\ pc = "index"
    /\ \E ran \in Ran : Told("index", "warn", ran /\ "index" \in works)
    /\ Goto(IF probing THEN "forge" ELSE "tls")
    /\ Keep /\ UNCHANGED <<grace, probing, admin, waited, tries, refused, spent, late, rolled>>

(* ratelimit_probe: one request more than the limit, each with an address of *)
(* its own in X-Real-IP, which counts only if the proxy lets it through      *)
Forge ==
    /\ pc = "forge"
    /\ tries <= Limit
    /\ tries' = tries + 1
    /\ \E reached \in Reached :
         IF reached /\ "addresses" \in works
           THEN Count /\ refused' = (refused \/ Limited)
           ELSE UNCHANGED <<spent, refused>>
    /\ Keep /\ UNCHANGED <<pc, grace, probing, report, admin, waited, late, rolled>>

Forged ==
    /\ pc = "forge"
    /\ tries > Limit
    /\ Told("addresses", "fail", refused)
    /\ tries' = 0 /\ refused' = FALSE
    /\ Goto("tls")
    /\ Keep /\ UNCHANGED <<grace, probing, admin, waited, spent, late, rolled>>

(* _tls_probe *)
Tls ==
    /\ pc = "tls"
    /\ \E reached \in Reached :
         Told("certificate", "fail",
              ~deployment.tls \/ (reached /\ "certificate" \in works))
    /\ Goto("verdict")
    /\ Keep /\ UNCHANGED <<grace, probing, admin, waited, tries, refused, spent, late, rolled>>

(* all_ok *)
AllOk == \A p \in report : p[2] = "warn"

(* workflow.doctor *)
Verdict ==
    /\ pc = "verdict"
    /\ Goto(IF AllOk THEN "passed" ELSE "failed")
    /\ Keep /\ UNCHANGED <<grace, probing, report, admin, waited, tries, refused, spent, late, rolled>>
-----------------------------------------------------------------------------
(* `docker compose ps` and the requests of worker_probe and ratelimit_probe: *)
(* nothing catches what they raise, and the run ends without a report        *)
Raises ==
    /\ \/ pc = "containers" /\ "containers" \notin works
       \/ pc = "worker" /\ admin = "token" /\ FALSE \in Reached
       \/ pc = "forge" /\ tries <= Limit /\ FALSE \in Reached
    /\ Goto("raised")
    /\ Keep /\ UNCHANGED <<grace, probing, report, admin, waited, tries, refused, spent, late, rolled>>

(* A part stops working, or comes up *)
Change(part) ==
    /\ changes < MaxChanges
    /\ changes' = changes + 1
    /\ works' = IF part \in works THEN works \ {part} ELSE works \cup {part}
    /\ IF part \in works
         THEN broke' = broke \cup {part} /\ UNCHANGED worked
         ELSE worked' = worked \cup {part} /\ UNCHANGED broke
    /\ UNCHANGED <<deployment, run, spent, others, crowded, late, rolled, logins, probes>>

(* Somebody else logs in from the address doctor comes from *)
OtherLogin ==
    /\ logins < MaxOthers
    /\ logins' = logins + 1
    /\ ~Limited
    /\ Count
    /\ others' = others + 1
    /\ crowded' = (crowded \/ others' >= Limit)
    /\ UNCHANGED <<deployment, works, run, worked, broke, late, rolled, changes, probes>>

(* The limiter of core (external) starts to count anew *)
NextMinute ==
    /\ spent > 0
    /\ spent' = 0
    /\ others' = 0
    /\ rolled' = (rolled \/ pc = "forge")
    /\ UNCHANGED <<deployment, works, run, worked, broke, crowded, late, events>>

Probe ==
    \/ Containers \/ Pages \/ Deny \/ Store \/ AdminToken \/ BadLogin
    \/ NoToken \/ Settled \/ Pending \/ NoEngine
    \/ IndexSync \/ Forge \/ Forged \/ Tls \/ Verdict \/ Raises

Next ==
    \/ Begin \/ Probe \/ OtherLogin \/ NextMinute
    \/ \E part \in Present : Change(part)

Spec == Init /\ [][Next]_vars
-----------------------------------------------------------------------------
(* What a green doctor vouches for in this deployment *)
Vouched ==
    {"containers", "pages", "database", "admin", "auth", "index"}
    \cup (IF DenySeverity = "skip" THEN {} ELSE {"denied"})
    \cup (IF deployment.logs THEN {"store", "reachable"} ELSE {})
    \cup (IF deployment.mayList THEN {"worker"} ELSE {})
    \cup (IF probing THEN {"addresses"} ELSE {})
    \cup (IF deployment.tls THEN {"certificate"} ELSE {})

(* The parts a warning takes back: a store that does not answer may as well  *)
(* be one that would reject every line                                       *)
Doubted ==
    (IF <<"deny", "warn">> \in report THEN {"denied"} ELSE {})
    \cup (IF <<"store", "warn">> \in report THEN {"store", "reachable"} ELSE {})
    \cup (IF <<"index", "warn">> \in report THEN {"index"} ELSE {})

(* doctor never passes in silence over a part that did not work during the   *)
(* whole run, although its probes share requests: a login that the limiter   *)
(* refuses counts as clean, and only the admin login before it shows the     *)
(* database.  What it passes over, the warnings of its report name.          *)
AlarmNotMissed == pc = "passed" => Vouched \subseteq worked \cup Doubted

(* The parts that may explain what doctor reports: a warning about the store *)
(* means that it does not answer, not that doctor got no answer              *)
Causes(probe, severity) ==
    CASE probe = "containers" -> {"containers"}
      [] probe = "pages" -> {"pages"}
      [] probe = "deny" -> {"pages", "denied"}
      [] probe = "store" -> IF severity = "warn" THEN {"reachable"} ELSE {"pages", "store"}
      [] probe = "login" -> {"pages", "addresses", "database"}
      [] probe = "worker" -> {"pages", "addresses", "containers", "database", "admin", "auth"}
      [] probe = "index" -> {"containers", "index"}
      [] probe = "addresses" -> {"pages", "addresses"}
      [] probe = "certificate" -> {"pages", "certificate"}

(* What may fail a probe besides its parts: a worker that was not there when *)
(* the grace was about to end, an address without logins left even if this   *)
(* run had sent none, a minute that began among the forged requests          *)
Excused(probe) ==
    \/ probe = "worker" /\ late
    \/ probe \in {"worker", "login"} /\ crowded
    \/ probe = "addresses" /\ rolled

(* What doctor reports is never its own doing: behind a failed run is a      *)
(* probe that counts as one, and behind every failure and warning a part     *)
(* that did not work during the run, or one of the above.                    *)
(* "The admin token goes first" (_login_probes) is what saves its logins.    *)
NoFalseAlarm ==
    pc \in {"passed", "failed"} =>
        /\ pc = "failed" => \E p \in report : p[2] = "fail"
        /\ \A p \in report : Causes(p[1], p[2]) \cap broke # {} \/ Excused(p[1])
=============================================================================
