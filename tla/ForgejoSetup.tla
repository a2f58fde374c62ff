----------------------------- MODULE ForgejoSetup -----------------------------
(***************************************************************************)
(* What provisioning sets up around Forgejo: the helper bundles that its   *)
(* units run (roles/forgejo/files/install.py), and on the first run the    *)
(* database role and the administrator's account (service.py).  A run can  *)
(* be killed anywhere, a command can take effect although its answer is    *)
(* lost, and people use the account they are given.                        *)
(***************************************************************************)
EXTENDS Integers

CONSTANTS
    MaxReleases,      \* versions of the helpers in the repository
    MaxDeclarations,  \* revisions of the declared administrator password
    MaxSetupFaults,   \* failures, lost answers, kills
    MaxMeddling       \* what people do to the account

ASSUME SetupConstants ==
    /\ MaxReleases \in Nat \ {0} /\ MaxDeclarations \in Nat \ {0}
    /\ MaxSetupFaults \in Nat /\ MaxMeddling \in Nat

VARIABLES
    setup,       \* where the run is
    release,     \* the helpers it ships
    bundles,     \* generations that are published whole
    launchers,     \* helpers whose file in the directory is a launcher
    selected,    \* helper-generation.json, 0 when there is none
    timers,      \* active timers of backup and transfer
    stopped,     \* those the installation found active and starts again
    role,        \* the database role of the application exists
    database,    \* its database exists
    account,     \* the account of the administrator's name
    declared,    \* revision of credentials/admin.json
    saved,       \* .admin-bootstrap.json: a password, or NoPassword
    managed,     \* .admin-initialized
    initial,     \* the generated password the run holds
    underway,    \* revisions in requests whose client gave up
    generations, \* passwords generated so far
    setupFaults,
    meddling

helperVars == <<release, bundles, launchers, selected, timers, stopped>>
accountVars == <<account, declared, saved, managed, initial, underway, generations>>
setupVars == <<setup, helperVars, role, database, accountVars, setupFaults, meddling>>

Timers == {"backup", "transfer"}
Helpers == {"backup.py", "service.py", "transfer.py"}   \* of the eleven files of a bundle

NoPassword == <<"none", 0>>
Private == <<"private", 0>>
Declared(revision) == <<"declared", revision>>
Generated(number) == <<"generated", number>>
NoAccount == [of |-> "nobody", password |-> NoPassword, admin |-> FALSE]
PlaybookAccount(number) == [of |-> "playbook", password |-> Generated(number), admin |-> TRUE]

SetupInit ==
    /\ setup = "idle" /\ release = 1
    /\ bundles = {} /\ launchers = {} /\ selected = 0 /\ timers = {} /\ stopped = {}
    /\ role = FALSE /\ database = FALSE
    /\ account = NoAccount /\ declared = 1
    /\ saved = NoPassword /\ managed = FALSE /\ initial = NoPassword
    /\ underway = {} /\ generations = 0
    /\ setupFaults = 0 /\ meddling = 0

-----------------------------------------------------------------------------
SetupFault == setupFaults < MaxSetupFaults /\ setupFaults' = setupFaults + 1

GoesTo(place) ==
    /\ setup' = place
    /\ UNCHANGED <<setupFaults, meddling>>

(* Installing the helpers, under both operation locks *)

InstallStarts ==
    /\ setup = "idle"
    /\ stopped' = timers
    /\ GoesTo("stop")
    /\ UNCHANGED <<release, bundles, launchers, selected, timers, role, database, accountVars>>

StopsTimer ==
    /\ setup = "stop"
    /\ \E t \in stopped \cap timers : timers' = timers \ {t}
    /\ UNCHANGED <<setup, release, bundles, launchers, selected, stopped, role, database, accountVars,
                   setupFaults, meddling>>

PublishesBundle ==
    /\ setup = "stop" /\ stopped \cap timers = {}
    /\ bundles' = bundles \cup {release}   \* written aside and renamed
    /\ GoesTo("launchers")
    /\ UNCHANGED <<release, launchers, selected, timers, stopped, role, database, accountVars>>

WritesLauncher ==
    /\ setup = "launchers"
    /\ \E f \in Helpers \ launchers : launchers' = launchers \cup {f}
    /\ UNCHANGED <<setup, release, bundles, selected, timers, stopped, role, database, accountVars,
                   setupFaults, meddling>>

SelectsBundle ==
    /\ setup = "launchers" /\ launchers = Helpers
    /\ selected' = release
    /\ GoesTo("restart")
    /\ UNCHANGED <<release, bundles, launchers, timers, stopped, role, database, accountVars>>

\* The finally clause of main, after success and after a failure.
StartsTimer ==
    /\ setup \in {"restart", "giveup"}
    /\ \E t \in stopped \ timers : timers' = timers \cup {t}
    /\ UNCHANGED <<setup, release, bundles, launchers, selected, stopped, role, database, accountVars,
                   setupFaults, meddling>>

TimersRestarted ==
    /\ setup \in {"restart", "giveup"} /\ stopped \subseteq timers
    /\ stopped' = {}
    /\ GoesTo(IF setup = "restart" THEN "role" ELSE "idle")
    /\ UNCHANGED <<release, bundles, launchers, selected, timers, role, database, accountVars>>

\* A helper operation is active, or a write or a systemctl stop failed.
InstallFails ==
    /\ setup \in {"stop", "launchers"}
    /\ SetupFault
    /\ setup' = "giveup"
    /\ UNCHANGED <<helperVars, role, database, accountVars, meddling>>

-----------------------------------------------------------------------------
(* The database: each statement follows a query for what is there. *)

CreatesRole ==
    /\ setup = "role"
    /\ role' = TRUE
    /\ GoesTo("database")
    /\ UNCHANGED <<helperVars, database, accountVars>>

CreatesDatabase ==
    /\ setup = "database"
    /\ database' = TRUE
    /\ GoesTo("admin")
    /\ UNCHANGED <<helperVars, role, accountVars>>

-----------------------------------------------------------------------------
(* The administrator's account *)

SameAccount == UNCHANGED <<helperVars, role, database, account, declared, underway, generations>>

AlreadyManaged ==
    /\ setup = "admin" /\ managed
    /\ GoesTo("timers")
    /\ UNCHANGED <<saved, managed, initial>> /\ SameAccount

TakesSaved ==
    /\ setup = "admin" /\ ~managed /\ saved # NoPassword
    /\ initial' = saved
    /\ GoesTo("ask")
    /\ UNCHANGED <<saved, managed>> /\ SameAccount

FindsNobody ==
    /\ setup = "admin" /\ ~managed /\ saved = NoPassword /\ account = NoAccount
    /\ GoesTo("create")
    /\ UNCHANGED <<saved, managed, initial>> /\ SameAccount

\* Without completion evidence an existing account is left to the operator.
FindsAccount ==
    /\ setup = "admin" /\ ~managed /\ saved = NoPassword /\ account # NoAccount
    /\ GoesTo("idle")
    /\ UNCHANGED <<saved, managed, initial>> /\ SameAccount

\* Forgejo refuses a name that is taken.
Created ==
    /\ account = NoAccount
    /\ generations' = generations + 1
    /\ account' = PlaybookAccount(generations')

CreatesAccount ==
    /\ setup = "create"
    /\ \/ Created /\ initial' = Generated(generations') /\ GoesTo("save")
       \/ account # NoAccount /\ GoesTo("idle") /\ UNCHANGED <<account, generations, initial>>
    /\ UNCHANGED <<helperVars, role, database, declared, saved, managed, underway>>

CreateAnswerLost ==
    /\ setup = "create" /\ Created
    /\ SetupFault /\ setup' = "idle"
    /\ UNCHANGED <<helperVars, role, database, declared, saved, managed, initial, underway, meddling>>

SavesPassword ==
    /\ setup = "save"
    /\ saved' = initial
    /\ GoesTo("ask")
    /\ UNCHANGED <<managed, initial>> /\ SameAccount

Opens(password) == account # NoAccount /\ account.password = password

\* GET /user with the declared password, before and after the reset.
AsksWhoItIs ==
    /\ setup \in {"ask", "confirm"}
    /\ setup' = IF Opens(Declared(declared)) THEN IF account.admin THEN "mark" ELSE "idle"
                ELSE IF setup = "ask" THEN "reset" ELSE "idle"
    /\ UNCHANGED <<saved, managed, initial, setupFaults, meddling>> /\ SameAccount

\* An administrator's request, authorized by the generated password.
MayReset(password) == Opens(password) /\ account.admin
Reset(revision) == account' = [account EXCEPT !.password = Declared(revision)]

ResetsPassword ==
    /\ setup = "reset"
    /\ \/ MayReset(initial) /\ Reset(declared) /\ GoesTo("confirm")
       \/ ~MayReset(initial) /\ GoesTo("idle") /\ UNCHANGED account
    /\ UNCHANGED <<helperVars, role, database, declared, saved, managed, initial, underway, generations>>

\* The client gives up after 15 seconds; the request may still be carried out.
ResetTimesOut ==
    /\ setup = "reset"
    /\ SetupFault /\ setup' = "idle"
    /\ underway' = underway \cup {<<declared, initial>>}
    /\ UNCHANGED <<helperVars, role, database, account, declared, saved, managed, initial, generations,
                   meddling>>

LateReset ==
    \E request \in underway :
        /\ underway' = underway \ {request}
        /\ (MayReset(request[2]) /\ Reset(request[1])) \/ UNCHANGED account
        /\ UNCHANGED <<setup, helperVars, role, database, declared, saved, managed, initial, generations,
                       setupFaults, meddling>>

MarksManaged ==
    /\ setup = "mark"
    /\ managed' = TRUE
    /\ GoesTo("forget")
    /\ UNCHANGED <<saved, initial>> /\ SameAccount

ForgetsPassword ==
    /\ setup = "forget"
    /\ saved' = NoPassword
    /\ GoesTo("timers")
    /\ UNCHANGED <<managed, initial>> /\ SameAccount

\* enable_unit_links and the start of both timers.
ArmsTimers ==
    /\ setup = "timers"
    /\ timers' = Timers
    /\ GoesTo("idle")
    /\ UNCHANGED <<release, bundles, launchers, selected, stopped, role, database, accountVars>>

-----------------------------------------------------------------------------
(* What interferes *)

\* Any error that no handler sees, and a kill: nothing that was stopped is started again.
SetupEnds ==
    /\ setup # "idle"
    /\ SetupFault /\ setup' = "idle" /\ stopped' = {} /\ initial' = NoPassword
    /\ UNCHANGED <<release, bundles, launchers, selected, timers, role, database, account, declared,
                   saved, managed, underway, generations, meddling>>

Releases ==
    /\ setup = "idle" /\ release < MaxReleases
    /\ release' = release + 1
    /\ UNCHANGED <<setup, bundles, launchers, selected, timers, stopped, role, database, accountVars,
                   setupFaults, meddling>>

\* Provisioning replaces admin.json before it comes to the account.
Redeclares ==
    /\ setup = "idle" /\ declared < MaxDeclarations
    /\ declared' = declared + 1
    /\ UNCHANGED <<setup, helperVars, role, database, account, saved, managed, initial, underway,
                   generations, setupFaults, meddling>>

Meddles == meddling < MaxMeddling /\ meddling' = meddling + 1

\* Someone changes the password, gives up the role, removes the account, or makes one.
PeopleAct ==
    /\ database /\ Meddles
    /\ \/ /\ account # NoAccount
          /\ account' \in {NoAccount,
                           [account EXCEPT !.of = "people", !.password = Private],
                           [account EXCEPT !.of = "people", !.admin = FALSE]}
       \/ /\ account = NoAccount
          /\ \E admin \in BOOLEAN :
                account' = [of |-> "people", password |-> Private, admin |-> admin]
    /\ UNCHANGED <<setup, helperVars, role, database, declared, saved, managed, initial, underway,
                   generations, setupFaults>>

SetupNext ==
    \/ InstallStarts \/ StopsTimer \/ PublishesBundle \/ WritesLauncher \/ SelectsBundle
    \/ StartsTimer \/ TimersRestarted \/ InstallFails
    \/ CreatesRole \/ CreatesDatabase
    \/ AlreadyManaged \/ TakesSaved \/ FindsNobody \/ FindsAccount
    \/ CreatesAccount \/ CreateAnswerLost \/ SavesPassword
    \/ AsksWhoItIs \/ ResetsPassword \/ ResetTimesOut \/ LateReset
    \/ MarksManaged \/ ForgetsPassword \/ ArmsTimers
    \/ SetupEnds \/ Releases \/ Redeclares \/ PeopleAct

-----------------------------------------------------------------------------
IsPassword(p) ==
    \/ p \in {NoPassword, Private}
    \/ p[1] = "declared" /\ p[2] \in 1..declared
    \/ p[1] = "generated" /\ p[2] \in 1..generations

SetupTypeOK ==
    /\ setup \in {"idle", "stop", "launchers", "restart", "giveup", "role", "database", "admin", "create",
                  "save", "ask", "reset", "confirm", "mark", "forget", "timers"}
    /\ release \in 1..MaxReleases /\ bundles \subseteq 1..release /\ launchers \subseteq Helpers
    /\ selected \in 0..release /\ timers \subseteq Timers /\ stopped \subseteq Timers
    /\ role \in BOOLEAN /\ database \in BOOLEAN /\ managed \in BOOLEAN
    /\ account.of \in {"nobody", "playbook", "people"} /\ account.admin \in BOOLEAN
    /\ IsPassword(account.password) /\ IsPassword(saved) /\ IsPassword(initial)
    /\ \A request \in underway : request[1] \in 1..declared /\ IsPassword(request[2])

\* Whatever was killed in between, a unit that starts a helper finds the launcher it is
\* started with, a selector, and behind it a bundle that is whole.
HelpersStart == selected # 0 => launchers = Helpers /\ selected \in bundles

\* The marker says that the account is the administrator's with a declared password: the
\* generated one opens nothing any more, however many runs and late requests it took.
MarkerIsTrue ==
    managed /\ account.of = "playbook" => account.admin /\ account.password[1] = "declared"

\* Provisioning resets the account of nobody else, and none that it finished itself.
NobodyIsReset ==
    [][setup' # setup /\ (managed \/ account.of = "people") => account' = account]_setupVars
=============================================================================
