----------------------------- MODULE Governance -----------------------------
(****************************************************************************)
(* What the chain keeps for the administration of the system: contracts and *)
(* the proxies in front of them, owners, the directory and what it told     *)
(* each contract, and the parameters an owner sets.  A transaction is a     *)
(* record; Permitted says whether it is mined or reverts, Apply what it     *)
(* does.                                                                    *)
(****************************************************************************)
EXTENDS Integers, Sequences

CONSTANTS
  Deployer,   \* the account that deploys
  NewOwner,   \* the account the system is handed to
  Nobody      \* owner of a proxy that does not exist

Accounts == {Deployer, NewOwner}
ASSUME AccountsAssumption == Deployer # NewOwner /\ Nobody \notin Accounts

Libraries == {"Liquidation", "RiskFramework"}
Core      == {"Escrow", "Portfolios", "ERC1155Token", "ERC1155Trade"}
Markets   == {"DAI1M", "DAI3M", "USDC3M"}
Proxies   == {"Directory"} \cup Core \cup Markets
Tokens    == {"DAI", "USDC"}

\* The artifacts a contract is created from; the markets share one.
Artifacts   == Libraries \cup {"Directory", "CashMarket"} \cup Core
ArtifactOf(p) == IF p \in Markets THEN "CashMarket" ELSE p
Underlying(m) == IF m = "USDC3M" THEN "USDC" ELSE "DAI"

\* Parameters in percent: the settlement discount, and the buffer of each
\* currency's exchange rate.
SettlementDiscount == 102
Buffer(t) == IF t = "DAI" THEN 140 ELSE 120
LiquidityHaircut == 80

VARIABLES
  code,            \* contracts created: artifact, its version, the library linked into it
  implementation,  \* proxy -> its logic contract, 0 if there is no such proxy
  admin,           \* proxy -> the ProxyAdmin contract that may upgrade it
  adminOwner,      \* ProxyAdmin contract -> its owner
  owner,           \* proxy -> owner of the contract behind it
  registered,      \* core contracts the Directory has an address for
  dependencies,    \* contract -> the core contracts it has an address for
  listed,          \* currencies in the order of their ids; WETH, id 0, is not in it
  rates,           \* currency -> buffer of its rate to ETH, 0 if it has none
  discount,        \* Escrow's settlement discount
  haircut,         \* the liquidity haircut, at Portfolios and in Escrow's cache
  numCurrencies,   \* Portfolios' copy of Escrow's maxCurrencyId
  cashGroups,      \* markets in the order of their cash groups' ids
  cashGroup,       \* market -> the id its market contract was told, 0 if none
  parameters       \* market -> the parameters its owner has set

proxyVars  == <<implementation, admin>>
wiring     == <<registered, dependencies>>
settings   == <<listed, rates, discount, haircut, numCurrencies>>
marketVars == <<cashGroups, cashGroup, parameters>>
chain == <<code, proxyVars, adminOwner, owner, wiring, settings, marketVars>>

Parameters == {"setMaxTradeSize", "setFee", "setRateFactors"}
Code == [name : Artifacts, version : Nat, link : Nat]

ChainTypeOK ==
  /\ code \in Seq(Code)
  /\ implementation \in [Proxies -> 0 .. Len(code)]
  /\ adminOwner \in Seq(Accounts)
  /\ admin \in [Proxies -> 0 .. Len(adminOwner)]
  /\ owner \in [Proxies -> Accounts \cup {Nobody}]
  /\ registered \subseteq Core
  /\ dependencies \in [Core \cup Markets -> SUBSET Core]
  /\ listed \in Seq(Tokens) /\ rates \in [Tokens -> Nat]
  /\ discount \in Nat /\ haircut \in [{"Escrow", "Portfolios"} -> Nat]
  /\ numCurrencies \in Nat
  /\ cashGroups \in Seq(Markets) /\ cashGroup \in [Markets -> Nat]
  /\ parameters \in [Markets -> SUBSET Parameters]

ChainInit ==
  /\ code = <<>> /\ adminOwner = <<>>
  /\ implementation = [p \in Proxies |-> 0] /\ admin = [p \in Proxies |-> 0]
  /\ owner = [p \in Proxies |-> Nobody]
  /\ registered = {} /\ dependencies = [c \in Core \cup Markets |-> {}]
  /\ listed = <<>> /\ rates = [t \in Tokens |-> 0]
  /\ discount = 0 /\ haircut = [c \in {"Escrow", "Portfolios"} |-> 0] /\ numCurrencies = 0
  /\ cashGroups = <<>> /\ cashGroup = [m \in Markets |-> 0]
  /\ parameters = [m \in Markets |-> {}]

Elements(s) == {s[i] : i \in DOMAIN s}
EscrowAndPortfoliosMet ==
  "Portfolios" \in dependencies["Escrow"] /\ "Escrow" \in dependencies["Portfolios"]

----------------------------------------------------------------------------
\* Whether a transaction of sender goes through.

DirectoryPermits(tx, sender) ==
  /\ tx.op \in {"setContract", "setDependencies"} => owner["Directory"] = sender
  \* a call to an address that holds no contract reverts
  /\ tx.op = "setDependencies" => tx.dependents \subseteq registered

EscrowPermits(tx, sender) ==
  /\ tx.op \in {"setDiscounts", "listCurrency", "addExchangeRate"} => owner["Escrow"] = sender
  /\ tx.op = "listCurrency" => tx.on \notin Elements(listed) /\ EscrowAndPortfoliosMet
  /\ tx.op = "addExchangeRate" => Buffer(tx.on) > discount

PortfoliosPermits(tx, sender) ==
  /\ tx.op \in {"setHaircuts", "createCashGroup"} => owner["Portfolios"] = sender
  /\ tx.op = "setHaircuts" => EscrowAndPortfoliosMet
  /\ tx.op = "createCashGroup" =>
       /\ "Escrow" \in dependencies["Portfolios"]
       /\ Underlying(tx.on) \in Elements(listed)
       /\ "Portfolios" \in dependencies[tx.on]

\* A second proxy of the same name may be created.
FaultyProxyPermits(tx, sender) ==
  /\ tx.op \in Parameters \cup {"transferOwnership"} => owner[tx.on] = sender
  /\ tx.op = "transferAdmin" => adminOwner[tx.admin] = sender
  /\ tx.op = "upgrade" => admin[tx.on] = tx.admin /\ adminOwner[tx.admin] = sender

ProxyPermits(tx, sender) ==
  \* CREATE2 with the same name and sender does not create a second contract;
  \* the markets' proxies are created without it
  /\ tx.op = "createProxy" /\ tx.on \notin Markets => implementation[tx.on] = 0
  /\ tx.op \in Parameters \cup {"transferOwnership"} => owner[tx.on] = sender
  /\ tx.op = "transferAdmin" => adminOwner[tx.admin] = sender
  /\ tx.op = "upgrade" => admin[tx.on] = tx.admin /\ adminOwner[tx.admin] = sender

Permitted(tx, sender) ==
  /\ DirectoryPermits(tx, sender)
  /\ EscrowPermits(tx, sender)
  /\ PortfoliosPermits(tx, sender)
  /\ ProxyPermits(tx, sender)

----------------------------------------------------------------------------
\* What a transaction does.

CreateCode(tx) ==
  /\ tx.op = "create"
  /\ code' = Append(code, tx.code)
  /\ UNCHANGED <<proxyVars, adminOwner, owner, wiring, settings, marketVars>>

CreateProxyAdmin(tx, sender) ==
  /\ tx.op = "createAdmin"
  /\ adminOwner' = Append(adminOwner, sender)
  /\ UNCHANGED <<code, proxyVars, owner, wiring, settings, marketVars>>

\* The proxy is created and its contract initialised in one transaction.
CreateProxy(tx, sender) ==
  /\ tx.op = "createProxy"
  /\ implementation' = [implementation EXCEPT ![tx.on] = tx.logic]
  /\ admin' = [admin EXCEPT ![tx.on] = tx.admin]
  /\ owner' = [owner EXCEPT ![tx.on] = sender]
  /\ numCurrencies' = IF tx.on = "Portfolios" THEN 1 ELSE numCurrencies
  /\ UNCHANGED <<code, adminOwner, wiring, listed, rates, discount, haircut, marketVars>>

SetContract(tx) ==
  /\ tx.op = "setContract"
  /\ registered' = registered \cup {tx.on}
  /\ UNCHANGED <<code, proxyVars, adminOwner, owner, dependencies, settings, marketVars>>

\* Tell the dependents the address the Directory has, which is zero if it has none.
SetDependencies(tx) ==
  /\ tx.op = "setDependencies"
  /\ dependencies' = [c \in DOMAIN dependencies |->
       IF c \in tx.dependents
       THEN (dependencies[c] \ {tx.on}) \cup ({tx.on} \cap registered)
       ELSE dependencies[c]]
  /\ UNCHANGED <<code, proxyVars, adminOwner, owner, registered, settings, marketVars>>

InitializeDependencies(tx) ==
  /\ tx.op = "initializeDependencies"
  /\ dependencies' = [dependencies EXCEPT
       ![tx.on] = registered \cap {"Escrow", "Portfolios", "ERC1155Trade"}]
  /\ UNCHANGED <<code, proxyVars, adminOwner, owner, registered, settings, marketVars>>

SetDiscounts(tx) ==
  /\ tx.op = "setDiscounts"
  /\ discount' = SettlementDiscount
  /\ UNCHANGED <<code, proxyVars, adminOwner, owner, wiring, listed, rates, haircut,
                 numCurrencies, marketVars>>

SetHaircuts(tx) ==
  /\ tx.op = "setHaircuts"
  /\ haircut' = [c \in DOMAIN haircut |-> LiquidityHaircut]
  /\ UNCHANGED <<code, proxyVars, adminOwner, owner, wiring, listed, rates, discount,
                 numCurrencies, marketVars>>

ListCurrency(tx) ==
  /\ tx.op = "listCurrency"
  /\ listed' = Append(listed, tx.on)
  /\ numCurrencies' = Len(listed')
  /\ UNCHANGED <<code, proxyVars, adminOwner, owner, wiring, rates, discount, haircut, marketVars>>

AddExchangeRate(tx) ==
  /\ tx.op = "addExchangeRate"
  /\ rates' = [rates EXCEPT ![tx.on] = Buffer(tx.on)]
  /\ UNCHANGED <<code, proxyVars, adminOwner, owner, wiring, listed, discount, haircut,
                 numCurrencies, marketVars>>

\* The market is told its group the first time only.
CreateCashGroup(tx) ==
  /\ tx.op = "createCashGroup"
  /\ cashGroups' = Append(cashGroups, tx.on)
  /\ cashGroup' = [cashGroup EXCEPT ![tx.on] = IF @ = 0 THEN Len(cashGroups') ELSE @]
  /\ UNCHANGED <<code, proxyVars, adminOwner, owner, wiring, settings, parameters>>

SetMarketParameter(tx) ==
  /\ tx.op \in Parameters
  /\ parameters' = [parameters EXCEPT ![tx.on] = @ \cup {tx.op}]
  /\ UNCHANGED <<code, proxyVars, adminOwner, owner, wiring, settings, cashGroups, cashGroup>>

TransferOwnership(tx) ==
  /\ tx.op = "transferOwnership"
  /\ owner' = [owner EXCEPT ![tx.on] = NewOwner]
  /\ UNCHANGED <<code, proxyVars, adminOwner, wiring, settings, marketVars>>

TransferProxyAdmin(tx) ==
  /\ tx.op = "transferAdmin"
  /\ adminOwner' = [adminOwner EXCEPT ![tx.admin] = NewOwner]
  /\ UNCHANGED <<code, proxyVars, owner, wiring, settings, marketVars>>

UpgradeTo(tx) ==
  /\ tx.op = "upgrade"
  /\ implementation' = [implementation EXCEPT ![tx.on] = tx.logic]
  /\ UNCHANGED <<code, admin, adminOwner, owner, wiring, settings, marketVars>>

\* A request that is no transaction leaves the chain alone.
Reads == {"none", "read", "save"}

Apply(tx, sender) ==
  \/ CreateCode(tx)            \/ CreateProxyAdmin(tx, sender) \/ CreateProxy(tx, sender)
  \/ SetContract(tx)           \/ SetDependencies(tx)          \/ InitializeDependencies(tx)
  \/ SetDiscounts(tx)          \/ SetHaircuts(tx)              \/ ListCurrency(tx)
  \/ AddExchangeRate(tx)       \/ CreateCashGroup(tx)          \/ SetMarketParameter(tx)
  \/ TransferOwnership(tx)     \/ TransferProxyAdmin(tx)       \/ UpgradeTo(tx)
  \/ (tx.op \in Reads /\ UNCHANGED chain)
=============================================================================
