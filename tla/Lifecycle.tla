------------------------------ MODULE Lifecycle ------------------------------
(****************************************************************************)
(* The scripts deploy.ts and upgrade.ts at work: one run after another of a *)
(* process that sends requests through the RetryProvider, may be killed     *)
(* between any two of them, with the last one mined or not, and loses what  *)
(* it has not saved.  Between runs the contracts are edited, compiled and   *)
(* committed.                                                               *)
(****************************************************************************)
EXTENDS NotionalDeployer, FiniteSetsExt

CONSTANTS
  Attempts,    \* of the RetryProvider, for one request
  Edited,      \* artifacts that change after the first deployment
  TargetLists, \* lists of contracts the upgrade script is called with
  MaxVersion,  \* bound: versions of an artifact
  MaxDeploys,  \* bound: runs of deploy.ts
  MaxUpgrades, \* bound: runs of upgrade.ts
  MaxFailures  \* bound: runs that are killed or give up

ASSUME AttemptsAssumption == Attempts \in Nat \ {0}
ASSUME BoundsAssumption == MaxVersion \in Nat \ {0} /\ MaxDeploys \in Nat \ {0} /\ MaxUpgrades \in Nat
\* The upgrade script ignores other names.
ASSUME TargetsAssumption ==
  Edited \subseteq Artifacts /\ TargetLists \subseteq SUBSET (Artifacts \ {"Directory"})

VARIABLES
  script,       \* the running script, or the one that ran last
  dirty,        \* git status shows changes
  deploys,      \* runs of deploy.ts started
  upgrades,     \* runs of upgrade.ts started
  leftToOwner,  \* proxy -> the logic an upgrade left its admin's owner to install, or 0
  failures,     \* runs that were killed or gave up
  lost          \* a run has upgraded a proxy, or left that to the owner, and not saved

vars == <<chain, build, notional, file, script, dirty, deploys, upgrades,
          leftToOwner, failures, lost>>

Idle == [program |-> "none", step |-> 1, group |-> 1, stage |-> "check", failed |-> 0,
         wallet |-> Deployer, targets |-> {}, dryRun |-> FALSE, upgraded |-> FALSE]

Start(program, wallet, targets, dryRun) ==
  [Idle EXCEPT !.program = program, !.wallet = wallet, !.targets = targets, !.dryRun = dryRun]

Running == script.program # "none"

TypeOK ==
  /\ ChainTypeOK
  /\ build \in [Artifacts -> 1 .. MaxVersion]
  /\ {notional, file} \subseteq Memory
  /\ script.program \in {"none", "deploy", "upgrade"}
  /\ script.stage \in Stages /\ script.failed \in 0 .. Attempts - 1
  /\ script.targets \subseteq Artifacts /\ script.wallet \in Accounts
  /\ leftToOwner \in [Proxies -> 0 .. Len(code)]
  /\ deploys \in 1 .. MaxDeploys /\ upgrades \in 0 .. MaxUpgrades

\* The first run of deploy.ts has begun.
Init ==
  /\ ChainInit
  /\ build = [a \in Artifacts |-> 1]
  /\ notional = Empty /\ file = Empty
  /\ script = Start("deploy", Deployer, {}, FALSE) 
  /\ deploys = 1 /\ upgrades = 0
  /\ dirty = FALSE /\ failures = 0 /\ lost = FALSE
  /\ leftToOwner = [p \in Proxies |-> 0]

----------------------------------------------------------------------------
\* deploy.ts

DeployMain ==
  DeployLibraries \o DeployProxies \o SetUp
  \o ListSteps("DAI") \o DeployCashMarket("DAI1M") \o DeployCashMarket("DAI3M")
  \o ListSteps("USDC") \o DeployCashMarket("USDC3M")
  \o << Do("save", "file") >> \o TransferOwner

----------------------------------------------------------------------------
\* upgrade.ts: the contracts it is called with, in this order; for CashMarket,
\* the market of every cash group.

UpgradeMain == << "Liquidation", "RiskFramework", "Escrow", "ERC1155Token", "ERC1155Trade",
                  "Portfolios", "CashMarket" >>

\* The contracts still to come that the script was called with.
Targets  == {k \in script.step .. Len(UpgradeMain) : UpgradeMain[k] \in script.targets}
AllDone  == Targets = {}
Target   == UpgradeMain[Min(Targets)]
OnMarket == Target = "CashMarket"
Proxy    == IF OnMarket THEN cashGroups[script.group] ELSE Target

UpgradeSends ==
  CASE AllDone -> Do(IF script.dryRun THEN "none" ELSE "save", "file")
    [] ~AllDone /\ Target \in Libraries -> DeployLibrary(Target, script.dryRun)
    [] OTHER -> UpgradeRequest(Target, Proxy, script.stage, script.dryRun)

StageAfter ==
  CASE Target \in Libraries -> "done"
    [] OnMarket -> AfterUpgradeCashMarket(Proxy, script.stage, script.wallet, script.dryRun)
    [] OTHER -> AfterUpgradeContract(Target, script.stage, script.wallet, script.dryRun)

UpgradeAdvanced ==
  IF AllDone THEN Idle
  ELSE IF StageAfter # "done" THEN [script EXCEPT !.stage = StageAfter]
  ELSE IF OnMarket /\ script.group < Len(cashGroups)
  THEN [script EXCEPT !.stage = "check", !.group = @ + 1]
  ELSE [script EXCEPT !.stage = "check", !.group = 1, !.step = Min(Targets) + 1]

----------------------------------------------------------------------------
\* One request of the running script.

Sends == IF script.program = "deploy" THEN Request(DeployMain[script.step]) ELSE UpgradeSends

Advanced ==
  IF script.program = "upgrade" THEN UpgradeAdvanced
  ELSE IF script.step = Len(DeployMain) THEN Idle
  ELSE [script EXCEPT !.step = @ + 1]

\* An upgrade that the wallet may not make is left to the admin's owner.
LeavesToOwner == /\ script.program = "upgrade" /\ ~AllDone /\ script.stage = "owner"
                 /\ ~script.dryRun /\ ~IsAdminOwner(script.wallet)

Upgrades == Sends.op = "upgrade" \/ LeavesToOwner

LeftAfter(tx) ==
  IF tx.op = "upgrade" THEN [leftToOwner EXCEPT ![tx.on] = 0]
  ELSE IF LeavesToOwner THEN [leftToOwner EXCEPT ![Proxy] = NewLogic(Target)]
  ELSE leftToOwner

\* The request is answered, a transaction after it has been mined.
Answered ==
  /\ Running /\ Permitted(Sends, script.wallet) /\ Apply(Sends, script.wallet)
  /\ notional' = IF Advanced = Idle THEN Empty ELSE Remembering(Sends)
  /\ IF Sends.op = "save" THEN SaveAddresses /\ dirty' = TRUE ELSE UNCHANGED <<file, dirty>>
  /\ script' = IF Advanced = Idle THEN Idle
               ELSE [Advanced EXCEPT !.failed = 0,
                                     !.upgraded = @ \/ Upgrades]
  /\ leftToOwner' = LeftAfter(Sends)
  /\ UNCHANGED <<build, deploys, upgrades, failures, lost>>

\* The process ends before its last step and takes the object with it.
Quit(upgraded) ==
  /\ script' = Idle /\ notional' = Empty /\ lost' = (lost \/ upgraded)
  /\ UNCHANGED <<build, file, dirty, deploys, upgrades>>

Reverted == Running /\ ~Permitted(Sends, script.wallet) /\ Quit(script.upgraded)
            /\ UNCHANGED <<chain, leftToOwner, failures>>

\* The count starts afresh when it reaches the limit.
FaultyRateLimited ==
  /\ Running /\ Sends.op \notin {"none", "save"}
  /\ script' = [script EXCEPT !.failed = (@ + 1) % Attempts]
  /\ UNCHANGED <<chain, leftToOwner, notional, build, file, dirty, deploys, upgrades, failures, lost>>

\* The node answers 429: the RetryProvider asks again, a limited number of times.
RateLimited ==
  /\ Running /\ Sends.op \notin {"none", "save"}
  /\ IF script.failed + 1 < Attempts
     THEN /\ script' = [script EXCEPT !.failed = @ + 1]
          /\ UNCHANGED <<notional, build, file, dirty, deploys, upgrades, failures, lost>>
     ELSE failures < MaxFailures /\ failures' = failures + 1 /\ Quit(script.upgraded)
  /\ UNCHANGED <<chain, leftToOwner>>

\* The process is killed; what it sent last may have been mined.
Killed ==
  /\ Running /\ failures < MaxFailures /\ failures' = failures + 1
  /\ \/ UNCHANGED <<chain, leftToOwner>> /\ Quit(script.upgraded)
     \/ /\ Permitted(Sends, script.wallet) /\ Apply(Sends, script.wallet)
        /\ leftToOwner' = LeftAfter(Sends)
        /\ Quit(script.upgraded \/ Upgrades)

----------------------------------------------------------------------------
\* What happens between runs.

StartDeploy ==
  /\ ~Running /\ ~Saved /\ deploys < MaxDeploys /\ deploys' = deploys + 1
  /\ script' = Start("deploy", Deployer, {}, FALSE)
  /\ UNCHANGED <<chain, build, notional, file, dirty, upgrades, leftToOwner, failures, lost>>

\* Bound: upgrades are looked at once the system has been handed over.
HandedOver == Saved /\ adminOwner[file.proxyAdmin] = NewOwner

StartUpgrade(wallet, targets, dryRun) ==
  /\ HandedOver /\ ~Running /\ ~dirty /\ RestoreFromFile
  /\ upgrades < MaxUpgrades /\ upgrades' = upgrades + 1
  /\ script' = Start("upgrade", wallet, targets, dryRun)
  /\ UNCHANGED <<chain, build, file, dirty, deploys, leftToOwner, failures, lost>>

\* A contract is edited and the build directory brought up to date, once a
\* deployment has been saved.
Compile(a) ==
  /\ ~Running /\ Saved /\ build[a] < MaxVersion
  /\ build' = [build EXCEPT ![a] = @ + 1] /\ dirty' = TRUE
  /\ UNCHANGED <<chain, notional, file, script, deploys, upgrades, leftToOwner, failures, lost>>

Commit ==
  /\ ~Running /\ dirty /\ dirty' = FALSE
  /\ UNCHANGED <<chain, build, notional, file, script, deploys, upgrades, leftToOwner, failures, lost>>

\* The owner of the proxy's admin makes an upgrade that was left to it, at any time.
OwnerUpgrades(p) ==
  LET tx == [op |-> "upgrade", on |-> p, admin |-> admin[p], logic |-> leftToOwner[p]] IN
  /\ leftToOwner[p] # 0 /\ Apply(tx, adminOwner[admin[p]])
  /\ leftToOwner' = [leftToOwner EXCEPT ![p] = 0]
  /\ UNCHANGED <<build, notional, file, script, dirty, deploys, upgrades, failures, lost>>

ScriptStep == Answered \/ Reverted \/ RateLimited \/ Killed

Next ==
  \/ ScriptStep
  \/ StartDeploy
  \/ \E w \in Accounts, t \in TargetLists, d \in BOOLEAN : StartUpgrade(w, t, d)
  \/ \E a \in Edited : Compile(a)
  \/ Commit
  \/ \E p \in Proxies : OwnerUpgrades(p)

\* A process that runs takes its next step or ends; nobody has to start one.
Spec == Init /\ [][Next]_vars /\ WF_vars(ScriptStep)

----------------------------------------------------------------------------
\* All proxies answer to one ProxyAdmin, whichever run created them: a second
\* run of deploy.ts cannot build a second system beside a part of the first
\* (the CREATE2 address of CreateProxyFactory._createProxy).
OneAdmin == \A p \in Proxies : implementation[p] # 0 => admin[p] = admin["Directory"]

\* The power to upgrade is handed over last: once the new owner has it, every
\* contract is the new owner's (transferOwner).
UpgradePowerMovesLast ==
  implementation["Directory"] # 0 /\ adminOwner[admin["Directory"]] = NewOwner
    => \A p \in Proxies : owner[p] = NewOwner

\* The contracts each contract calls, or answers only to.
Uses == [Escrow |-> {"Portfolios", "ERC1155Trade"},
         Portfolios |-> {"Escrow", "ERC1155Token", "ERC1155Trade"},
         ERC1155Token |-> {"Portfolios"}, ERC1155Trade |-> {"Escrow", "Portfolios"}]

Complete ==
  /\ \A c \in Core : implementation[c] # 0 /\ Uses[c] \subseteq dependencies[c]
  /\ \A m \in Markets : /\ {"Escrow", "Portfolios", "ERC1155Trade"} \subseteq dependencies[m]
                        /\ parameters[m] = Parameters
                        /\ m \in Elements(cashGroups) /\ cashGroups[cashGroup[m]] = m
                        /\ Underlying(m) \in Elements(listed)
  /\ \A t \in Elements(listed) : rates[t] > discount
  /\ numCurrencies = Len(listed) /\ discount > 0
  /\ haircut["Escrow"] = haircut["Portfolios"] /\ haircut["Escrow"] > 0

\* A deployment that was saved is complete: whatever calls another contract
\* knows it, every market has its cash group and parameters, every currency a
\* rate whose buffer exceeds the settlement discount, and the values that two
\* contracts keep agree (deploy.ts up to saveAddresses).
SavedIsComplete == Saved => Complete

\* Between runs the saved file tells what is behind each proxy, at each library
\* and at the markets' logic, except for upgrades left to the admin's owner and
\* after a run that upgraded and never saved.
FileTellsTheChain ==
  ~Running /\ Saved /\ ~lost =>
    /\ \A p \in Proxies :
         code[implementation[p]] = file.hashes[ArtifactOf(p)] \/ leftToOwner[p] # 0
    /\ \A l \in Libraries : code[file.libraries[l]] = file.hashes[l]
    /\ code[file.cashMarketLogic] = file.hashes["CashMarket"]

Live == Complete /\ Saved /\ adminOwner[admin["Directory"]] = NewOwner

\* A first deployment that is not cut short never reverts on its way: it ends
\* with the system complete, saved and handed over (the order of deploy's calls).
DeploymentCompletes == <>(failures > 0 \/ Live)

\* Every run of a script ends, however often the node answers 429
\* (RetryProvider.perform counts its attempts).
EveryRunEnds == Running ~> ~Running

FinishesUpgrade == script.program = "upgrade" /\ ~script.dryRun /\ AllDone /\ Answered

Upgraded == {p \in Proxies : ArtifactOf(p) \in script.targets}

\* After a lost run the file's libraries are not those behind the proxies; a
\* run that names a contract and not its library compares with the wrong code.
Misled(p) == /\ lost /\ p \in DOMAIN LinkReferences
             /\ LinkReferences[p] \notin script.targets

InEffect(p) == code[implementation[p]] = Bytecode(ArtifactOf(p))

\* A run of upgrade.ts that reaches its end has put the build of every contract
\* it names behind the proxy, linked with the object's libraries, or has left
\* that to the admin's owner; also when a run before it died half way
\* (upgradeContract, upgradeCashMarket).
UpgradeTakesEffect ==
  [][FinishesUpgrade =>
       \A p \in Upgraded : InEffect(p) \/ leftToOwner[p] # 0 \/ Misled(p)]_vars

\* The upgrade of a proxy never links an older library than it had, unless a
\* run before it was lost (restoreFromFile, deployLibrary).
LibraryBehind(p) == LET c == code[implementation[p]] IN
                    IF c.link = 0 THEN 0 ELSE code[c.link].version
LibrariesNeverGoBack ==
  [][\A p \in Proxies : implementation[p] # 0 /\ ~lost => LibraryBehind(p)' >= LibraryBehind(p)]_vars

\* "Cannot upgrade proxy, must use proxyAdmin owner address" (NotionalDeployer.ts:620):
\* a run with the owner's address makes the upgrades it names.
OwnerMakesTheUpgrade ==
  [][FinishesUpgrade /\ IsAdminOwner(script.wallet) =>
       \A p \in Upgraded : InEffect(p) \/ Misled(p)]_vars
=============================================================================
