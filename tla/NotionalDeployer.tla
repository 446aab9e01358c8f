-------------------------- MODULE NotionalDeployer --------------------------
(****************************************************************************)
(* The NotionalDeployer object a script works with: what it remembers of    *)
(* the contracts, the requests its methods send one after the other, and    *)
(* the file it is saved to and restored from.                               *)
(*                                                                          *)
(* A bytecode hash identifies the bytecode, so a hash is the code itself:   *)
(* the artifact, its version and the address of the library linked into it. *)
(****************************************************************************)
EXTENDS Governance

VARIABLES
  build,     \* artifact -> version in the build directory
  notional,  \* the object; logic is the address deployContract returned last
  file       \* the object as it was saved

None == [name |-> "Directory", version |-> 0, link |-> 0]

Memory == [libraries : [Libraries -> Nat], hashes : [Artifacts -> Code],
           cashMarketLogic : Nat, proxyAdmin : Nat, logic : Nat]
Empty == [libraries |-> [l \in Libraries |-> 0], hashes |-> [a \in Artifacts |-> None],
          cashMarketLogic |-> 0, proxyAdmin |-> 0, logic |-> 0]

\* The library an artifact's bytecode refers to.
LinkReferences == [Escrow |-> "Liquidation", Portfolios |-> "RiskFramework"]

Link(a, libraries) == IF a \in DOMAIN LinkReferences THEN libraries[LinkReferences[a]] ELSE 0

\* The artifact as it is in the build directory now, linked with the object's libraries.
Bytecode(a) == [name |-> a, version |-> build[a], link |-> Link(a, notional.libraries)]

----------------------------------------------------------------------------
\* The requests of deploy, listCurrency, deployCashMarket and transferOwner.

Do(op, c) == [op |-> op, on |-> c]

DeployLibraries == << Do("create", "Liquidation"), Do("create", "RiskFramework"),
                      Do("create", "CashMarket"), Do("createAdmin", "ProxyAdmin") >>

DeployProxies ==
  << Do("create", "Directory"),    Do("createProxy", "Directory"),
     Do("create", "Escrow"),       Do("createProxy", "Escrow"),
     Do("create", "Portfolios"),   Do("createProxy", "Portfolios"),
     Do("create", "ERC1155Token"), Do("createProxy", "ERC1155Token"),
     Do("create", "ERC1155Trade"), Do("createProxy", "ERC1155Trade") >>

Tell(c, dependents) == [op |-> "setDependencies", on |-> c, dependents |-> dependents]

\* Portfolios is not made known to ERC1155Token.
FaultySetUp ==
  << Do("setContract", "Escrow"), Do("setContract", "Portfolios"),
     Do("setContract", "ERC1155Token"), Do("setContract", "ERC1155Trade"),
     Tell("Escrow", {"Portfolios", "ERC1155Trade"}),
     Tell("ERC1155Token", {"Portfolios"}),
     Tell("ERC1155Trade", {"Portfolios", "Escrow"}),
     Tell("Portfolios", {"Escrow", "ERC1155Trade"}),
     Do("setDiscounts", "Escrow"), Do("setHaircuts", "Portfolios") >>

\* The haircuts are set before Portfolios and Escrow know each other.
FaultySetUpOrder ==
  << Do("setContract", "Escrow"), Do("setContract", "Portfolios"),
     Do("setContract", "ERC1155Token"), Do("setContract", "ERC1155Trade"),
     Do("setDiscounts", "Escrow"), Do("setHaircuts", "Portfolios"),
     Tell("Escrow", {"Portfolios", "ERC1155Trade"}),
     Tell("ERC1155Token", {"Portfolios"}),
     Tell("ERC1155Trade", {"Portfolios", "Escrow"}),
     Tell("Portfolios", {"Escrow", "ERC1155Token", "ERC1155Trade"}) >>

SetUp ==
  << Do("setContract", "Escrow"), Do("setContract", "Portfolios"),
     Do("setContract", "ERC1155Token"), Do("setContract", "ERC1155Trade"),
     Tell("Escrow", {"Portfolios", "ERC1155Trade"}),
     Tell("ERC1155Token", {"Portfolios"}),
     Tell("ERC1155Trade", {"Portfolios", "Escrow"}),
     Tell("Portfolios", {"Escrow", "ERC1155Token", "ERC1155Trade"}),
     Do("setDiscounts", "Escrow"), Do("setHaircuts", "Portfolios") >>

ListSteps(t) == << Do("listCurrency", t), Do("addExchangeRate", t) >>

DeployCashMarket(m) ==
  << Do("createProxy", m), Do("initializeDependencies", m), Do("createCashGroup", m),
     Do("setMaxTradeSize", m), Do("setFee", m), Do("setRateFactors", m) >>

\* The right to upgrade goes first.
FaultyTransferOwner ==
  << Do("transferAdmin", "ProxyAdmin"),
     Do("transferOwnership", "Escrow"), Do("transferOwnership", "Portfolios"),
     Do("transferOwnership", "Directory"), Do("transferOwnership", "ERC1155Token"),
     Do("transferOwnership", "ERC1155Trade"),
     [op |-> "transferGroup", group |-> 1], [op |-> "transferGroup", group |-> 2],
     [op |-> "transferGroup", group |-> 3] >>

\* A group's market is looked up when its turn comes.
TransferOwner ==
  << Do("transferOwnership", "Escrow"), Do("transferOwnership", "Portfolios"),
     Do("transferOwnership", "Directory"), Do("transferOwnership", "ERC1155Token"),
     Do("transferOwnership", "ERC1155Trade"),
     [op |-> "transferGroup", group |-> 1], [op |-> "transferGroup", group |-> 2],
     [op |-> "transferGroup", group |-> 3],
     Do("transferAdmin", "ProxyAdmin") >>

\* What a step of the lists above sends, given what the object remembers.
Request(step) ==
  CASE step.op = "create" -> [op |-> "create", on |-> step.on, code |-> Bytecode(step.on)]
    [] step.op = "createProxy" ->
         [op |-> "createProxy", on |-> step.on, admin |-> notional.proxyAdmin,
          logic |-> IF step.on \in Markets THEN notional.cashMarketLogic ELSE notional.logic]
    [] step.op = "transferGroup" -> Do("transferOwnership", cashGroups[step.group])
    [] step.op = "transferAdmin" -> [op |-> "transferAdmin", admin |-> notional.proxyAdmin]
    [] OTHER -> step

\* The address of the contract after the one created.
FaultyRemembering(request) ==
  IF request.op = "create"
  THEN [notional EXCEPT !.logic = Len(code) + 2, !.cashMarketLogic = Len(code) + 2]
  ELSE IF request.op = "createAdmin" THEN [notional EXCEPT !.proxyAdmin = Len(adminOwner) + 1]
  ELSE notional

\* What the object remembers when a request has been answered: the address and
\* the hash of what it created.
Remembering(request) ==
  CASE request.op = "create" ->
         LET address == Len(code) + 1
             a == request.on IN
         [notional EXCEPT
           !.libraries = IF a \in Libraries THEN [@ EXCEPT ![a] = address] ELSE @,
           !.cashMarketLogic = IF a = "CashMarket" THEN address ELSE @,
           !.logic = address,
           !.hashes[a] = request.code]
    [] request.op = "createAdmin" -> [notional EXCEPT !.proxyAdmin = Len(adminOwner) + 1]
    [] OTHER -> notional

----------------------------------------------------------------------------
\* Upgrades.

UpgradeCheckCodeHash(a) == notional.hashes[a] # Bytecode(a)

DeployLibrary(l, dryRun) == IF dryRun THEN Do("none", l) ELSE Request(Do("create", l))

\* Stages of upgrading one proxy: compare the hash and deploy, for a market
\* compare its implementation, read the admin's owner, upgrade.
Stages == {"check", "compare", "owner", "upgrade"}

NewLogic(a) == IF a = "CashMarket" THEN notional.cashMarketLogic ELSE notional.logic

UpgradeRequest(a, proxy, stage, dryRun) ==
  CASE stage = "check" -> IF UpgradeCheckCodeHash(a) /\ ~dryRun
                          THEN Request(Do("create", a)) ELSE Do("none", a)
    [] stage = "upgrade" -> [op |-> "upgrade", on |-> proxy, admin |-> notional.proxyAdmin,
                             logic |-> NewLogic(a)]
    [] OTHER -> Do("read", proxy)

IsAdminOwner(account) == adminOwner[notional.proxyAdmin] = account

\* The stage after this one, "done" when the proxy has had its turn.
AfterUpgradeProxy(stage, wallet, dryRun) ==
  IF stage = "owner" /\ ~dryRun /\ IsAdminOwner(wallet) THEN "upgrade" ELSE "done"

AfterUpgradeContract(a, stage, wallet, dryRun) ==
  IF stage = "check"
  THEN IF UpgradeCheckCodeHash(a) /\ ~dryRun THEN "owner" ELSE "done"
  ELSE AfterUpgradeProxy(stage, wallet, dryRun)

\* Only the market that finds the hash changed is upgraded.
FaultyAfterUpgradeCashMarket(proxy, stage, wallet, dryRun) ==
  IF stage = "check"
  THEN IF UpgradeCheckCodeHash("CashMarket") THEN "compare" ELSE "done"
  ELSE IF stage = "compare" THEN "owner" ELSE AfterUpgradeProxy(stage, wallet, dryRun)

AfterUpgradeCashMarket(proxy, stage, wallet, dryRun) ==
  CASE stage = "check" -> "compare"
    [] stage = "compare" ->
         IF implementation[proxy] # notional.cashMarketLogic THEN "owner" ELSE "done"
    [] OTHER -> AfterUpgradeProxy(stage, wallet, dryRun)

----------------------------------------------------------------------------

Saved == file.proxyAdmin # 0
\* The address of the markets' logic is not saved again.
FaultySaveAddresses ==
  file' = [notional EXCEPT !.logic = 0,
                           !.cashMarketLogic = IF Saved THEN file.cashMarketLogic ELSE @]

\* The addresses of the libraries are not saved again.
FaultyKeepsLibraries ==
  file' = [notional EXCEPT !.logic = 0, !.libraries = IF Saved THEN file.libraries ELSE @]

SaveAddresses == file' = [notional EXCEPT !.logic = 0]
RestoreFromFile == Saved /\ notional' = file
=============================================================================
