--------------------------- MODULE LifecycleProofs ---------------------------
(****************************************************************************)
(* Proofs about Lifecycle.                                                  *)
(****************************************************************************)
EXTENDS Lifecycle, FoldProofs, SequenceTheorems

(****************************************************************************)
(* What a transaction does to each variable of the chain.                   *)
(****************************************************************************)
CodeEffect(tx) ==
  code' = IF tx.op = "create" THEN Append(code, tx.code) ELSE code

ProxyEffect(tx, sender) ==
  /\ implementation' = IF tx.op \in {"createProxy", "upgrade"}
                       THEN [implementation EXCEPT ![tx.on] = tx.logic] ELSE implementation
  /\ admin' = IF tx.op = "createProxy" THEN [admin EXCEPT ![tx.on] = tx.admin] ELSE admin

OwnerEffect(tx, sender) ==
  /\ adminOwner' = IF tx.op = "createAdmin" THEN Append(adminOwner, sender)
                   ELSE IF tx.op = "transferAdmin" THEN [adminOwner EXCEPT ![tx.admin] = NewOwner]
                   ELSE adminOwner
  /\ owner' = IF tx.op = "createProxy" THEN [owner EXCEPT ![tx.on] = sender]
              ELSE IF tx.op = "transferOwnership" THEN [owner EXCEPT ![tx.on] = NewOwner]
              ELSE owner

\* What a market calls, or answers only to.
MarketUses == {"Escrow", "Portfolios", "ERC1155Trade"}

WiringEffect(tx) ==
  /\ registered' = IF tx.op = "setContract" THEN registered \cup {tx.on} ELSE registered
  /\ dependencies' =
       IF tx.op = "setDependencies"
       THEN [c \in DOMAIN dependencies |->
              IF c \in tx.dependents
              THEN (dependencies[c] \ {tx.on}) \cup ({tx.on} \cap registered)
              ELSE dependencies[c]]
       ELSE IF tx.op = "initializeDependencies"
       THEN [dependencies EXCEPT ![tx.on] = registered \cap MarketUses]
       ELSE dependencies

SettingsEffect(tx) ==
  /\ listed' = IF tx.op = "listCurrency" THEN Append(listed, tx.on) ELSE listed
  /\ rates' = IF tx.op = "addExchangeRate" THEN [rates EXCEPT ![tx.on] = Buffer(tx.on)] ELSE rates
  /\ discount' = IF tx.op = "setDiscounts" THEN SettlementDiscount ELSE discount
  /\ haircut' = IF tx.op = "setHaircuts" THEN [c \in DOMAIN haircut |-> LiquidityHaircut]
                ELSE haircut
  /\ numCurrencies' = IF tx.op = "listCurrency" THEN Len(listed')
                      ELSE IF tx.op = "createProxy" /\ tx.on = "Portfolios" THEN 1
                      ELSE numCurrencies

MarketEffect(tx) ==
  /\ cashGroups' = IF tx.op = "createCashGroup" THEN Append(cashGroups, tx.on) ELSE cashGroups
  /\ cashGroup' = IF tx.op = "createCashGroup"
                  THEN [cashGroup EXCEPT ![tx.on] = IF @ = 0 THEN Len(cashGroups') ELSE @]
                  ELSE cashGroup
  /\ parameters' = IF tx.op \in Parameters
                   THEN [parameters EXCEPT ![tx.on] = @ \cup {tx.op}] ELSE parameters

\* A transaction changes what its kind changes and nothing else.
LEMMA Effects ==
  ASSUME NEW tx, NEW sender, Apply(tx, sender)
  PROVE  /\ CodeEffect(tx) /\ ProxyEffect(tx, sender) /\ OwnerEffect(tx, sender)
         /\ WiringEffect(tx) /\ SettingsEffect(tx) /\ MarketEffect(tx)
  <1> USE DEF CodeEffect, ProxyEffect, OwnerEffect, WiringEffect, SettingsEffect, MarketEffect,
              proxyVars, wiring, settings, marketVars, Parameters, MarketUses
  <1>1. CASE CreateCode(tx)
    BY <1>1 DEF CreateCode
  <1>2. CASE CreateProxyAdmin(tx, sender)
    BY <1>2 DEF CreateProxyAdmin
  <1>3. CASE CreateProxy(tx, sender)
    BY <1>3 DEF CreateProxy
  <1>4. CASE SetContract(tx)
    BY <1>4 DEF SetContract
  <1>5. CASE SetDependencies(tx)
    BY <1>5 DEF SetDependencies
  <1>6. CASE InitializeDependencies(tx)
    BY <1>6 DEF InitializeDependencies
  <1>7. CASE SetDiscounts(tx)
    BY <1>7 DEF SetDiscounts
  <1>8. CASE SetHaircuts(tx)
    BY <1>8 DEF SetHaircuts
  <1>9. CASE ListCurrency(tx)
    BY <1>9 DEF ListCurrency
  <1>10. CASE AddExchangeRate(tx)
    BY <1>10 DEF AddExchangeRate
  <1>11. CASE CreateCashGroup(tx)
    BY <1>11 DEF CreateCashGroup
  <1>12. CASE SetMarketParameter(tx)
    BY <1>12 DEF SetMarketParameter
  <1>13. CASE TransferOwnership(tx)
    BY <1>13 DEF TransferOwnership
  <1>14. CASE TransferProxyAdmin(tx)
    BY <1>14 DEF TransferProxyAdmin
  <1>15. CASE UpgradeTo(tx)
    BY <1>15 DEF UpgradeTo
  <1>16. CASE tx.op \in Reads /\ UNCHANGED chain
    BY <1>16 DEF Reads, chain
  <1> QED
    BY <1>1, <1>2, <1>3, <1>4, <1>5, <1>6, <1>7, <1>8, <1>9, <1>10, <1>11, <1>12, <1>13, <1>14,
       <1>15, <1>16 DEF Apply

(****************************************************************************)
(* The requests of deploy.ts by their place in DeployMain: the request k    *)
(* sets up what has k as its place below.                                   *)
(****************************************************************************)
ProxyStep == [Directory |-> 6, Escrow |-> 8, Portfolios |-> 10, ERC1155Token |-> 12,
              ERC1155Trade |-> 14, DAI1M |-> 27, DAI3M |-> 33, USDC3M |-> 41]
SetStep   == [Escrow |-> 15, Portfolios |-> 16, ERC1155Token |-> 17, ERC1155Trade |-> 18]
ToldStep  == [Escrow |-> 19, ERC1155Token |-> 20, ERC1155Trade |-> 21, Portfolios |-> 22]
RateStep  == [DAI |-> 26, USDC |-> 40]
OwnerStep == [Escrow |-> 48, Portfolios |-> 49, Directory |-> 50, ERC1155Token |-> 51,
              ERC1155Trade |-> 52, DAI1M |-> 53, DAI3M |-> 54, USDC3M |-> 55]
DiscountStep == 23
HaircutStep  == 24
SaveStep     == 47
AdminStep    == 56

\* The contracts that are told of each.
Told == [Escrow |-> {"Portfolios", "ERC1155Trade"}, ERC1155Token |-> {"Portfolios"},
         ERC1155Trade |-> {"Portfolios", "Escrow"},
         Portfolios |-> {"Escrow", "ERC1155Token", "ERC1155Trade"}]

ListedBefore(s) == IF s <= 25 THEN << >> ELSE IF s <= 39 THEN << "DAI" >> ELSE << "DAI", "USDC" >>
GroupsBefore(s) == IF s <= 29 THEN << >> ELSE IF s <= 35 THEN << "DAI1M" >>
                   ELSE IF s <= 43 THEN << "DAI1M", "DAI3M" >> ELSE << "DAI1M", "DAI3M", "USDC3M" >>
GroupStep == [DAI1M |-> 29, DAI3M |-> 35, USDC3M |-> 43]
GroupId   == [DAI1M |-> 1, DAI3M |-> 2, USDC3M |-> 3]
\* A market's parameters are set by the requests after the one that creates its group.
ParameterStep == [setMaxTradeSize |-> 1, setFee |-> 2, setRateFactors |-> 3]

----------------------------------------------------------------------------
\* The chain when a run that created the system is about to send its request s; a is its ProxyAdmin.

ProxiesBefore(s, a) ==
  \A p \in Proxies : IF ProxyStep[p] < s THEN implementation[p] # 0 /\ admin[p] = a
                     ELSE implementation[p] = 0 /\ admin[p] = 0

OwnersBefore(s) == \A p \in Proxies : OwnerStep[p] < s => owner[p] = NewOwner

WiringBefore(s) ==
  /\ \A c \in Core : SetStep[c] < s => c \in registered
  /\ \A c \in Core : ToldStep[c] < s => \A d \in Told[c] : c \in dependencies[d]
  /\ \A m \in Markets : ProxyStep[m] + 1 < s => MarketUses \subseteq dependencies[m]

SettingsBefore(s) ==
  /\ DiscountStep < s => discount = SettlementDiscount
  /\ HaircutStep < s => haircut["Escrow"] = LiquidityHaircut /\ haircut["Portfolios"] = LiquidityHaircut
  /\ listed = ListedBefore(s)
  /\ 25 < s => numCurrencies = Len(listed)
  /\ \A t \in Tokens : RateStep[t] < s => rates[t] = Buffer(t)

MarketsBefore(s) ==
  /\ cashGroups = GroupsBefore(s)
  /\ \A m \in Markets : cashGroup[m] = IF GroupStep[m] < s THEN GroupId[m] ELSE 0
  /\ \A m \in Markets, x \in Parameters :
       GroupStep[m] + ParameterStep[x] < s => x \in parameters[m]

Built(s, a) ==
  /\ ProxiesBefore(s, a) /\ OwnersBefore(s) /\ WiringBefore(s)
  /\ SettingsBefore(s) /\ MarketsBefore(s) /\ a \in DOMAIN adminOwner

----------------------------------------------------------------------------
Deploying == script.program = "deploy"
Upgrading == script.program = "upgrade"

\* What a script's run keeps.
Runs == [program : {"none", "deploy", "upgrade"}, step : Nat \ {0}, group : Nat \ {0},
         stage : Stages, failed : 0 .. Attempts - 1, wallet : Accounts,
         targets : SUBSET Artifacts, dryRun : BOOLEAN, upgraded : BOOLEAN]

ScriptTypeOK == script \in Runs

\* What an object remembers is on the chain.
Known(memory) ==
  /\ memory \in Memory
  /\ \A l \in Libraries : memory.libraries[l] <= Len(code)
  /\ memory.cashMarketLogic <= Len(code) /\ memory.logic <= Len(code)
  /\ memory.proxyAdmin <= Len(adminOwner)

\* Without the Directory's proxy there is nothing but contracts and admins.
NothingBeforeDirectory ==
  implementation["Directory"] = 0 =>
    /\ implementation = [p \in Proxies |-> 0] /\ admin = [p \in Proxies |-> 0]
    /\ owner = [p \in Proxies |-> Nobody]
    /\ registered = {} /\ dependencies = [c \in Core \cup Markets |-> {}]
    /\ listed = <<>> /\ rates = [t \in Tokens |-> 0]
    /\ discount = 0 /\ haircut = [c \in {"Escrow", "Portfolios"} |-> 0] /\ numCurrencies = 0
    /\ cashGroups = <<>> /\ cashGroup = [m \in Markets |-> 0]
    /\ parameters = [m \in Markets |-> {}]

\* The proxies there are have the admin of the Directory's.
ProxiesShareAdmin ==
  \A p \in Proxies : implementation[p] # 0 \/ admin[p] # 0 =>
    admin[p] = admin["Directory"] /\ admin["Directory"] # 0 /\ implementation["Directory"] # 0

SavedIsBuilt == Saved => Built(SaveStep + 1, file.proxyAdmin) /\ file.cashMarketLogic # 0

\* A ProxyAdmin is given away after everything else.
AdminsMoveLast ==
  \A a \in DOMAIN adminOwner : adminOwner[a] # Deployer =>
    Saved /\ \A p \in Proxies : owner[p] = NewOwner

LeftWhenSaved == \A p \in Proxies : leftToOwner[p] # 0 => Saved

\* The chain and the saved file, whatever runs.
SystemOK ==
  /\ ChainTypeOK /\ Known(file)
  /\ build \in [Artifacts -> 1 .. MaxVersion] /\ leftToOwner \in [Proxies -> 0 .. Len(code)]
  /\ deploys \in 1 .. MaxDeploys /\ upgrades \in 0 .. MaxUpgrades
  /\ NothingBeforeDirectory /\ ProxiesShareAdmin /\ SavedIsBuilt /\ AdminsMoveLast /\ LeftWhenSaved

\* What the run of deploy.ts has done so far.
DeployedSoFar ==
  Deploying =>
    /\ script.step <= 56 /\ script.wallet = Deployer
    /\ \A a \in DOMAIN adminOwner : adminOwner[a] = Deployer
    /\ Saved <=> script.step > SaveStep
    /\ script.step > SaveStep => file.proxyAdmin = notional.proxyAdmin
    /\ script.step > 1 => notional.logic # 0
    /\ script.step > 3 => notional.cashMarketLogic # 0
    /\ script.step > 4 => notional.proxyAdmin # 0
    /\ script.step > 6 => Built(script.step, notional.proxyAdmin)

\* What a run of upgrade.ts works with.
UpgradesSaved ==
  Upgrading => /\ Saved /\ notional.proxyAdmin = file.proxyAdmin /\ notional.cashMarketLogic # 0
               /\ script.group <= Len(cashGroups)
               /\ script.stage \in {"owner", "upgrade"} /\ ~AllDone => NewLogic(Target) # 0

RunOK == ScriptTypeOK /\ Known(notional) /\ DeployedSoFar /\ UpgradesSaved

IInv == SystemOK /\ RunOK

(****************************************************************************)
(* The chain's types.                                                       *)
(****************************************************************************)
\* A transaction whose arguments are of the kinds its contract declares.
WellFormed(tx) ==
  /\ tx.op = "create" => tx.code \in Code
  /\ tx.op \in {"createProxy", "upgrade"} => tx.logic \in 0 .. Len(code)
  /\ tx.op = "createProxy" => tx.admin \in 0 .. Len(adminOwner)
  /\ tx.op = "setContract" => tx.on \in Core
  /\ tx.op = "listCurrency" => tx.on \in Tokens
  /\ tx.op = "createCashGroup" => tx.on \in Markets

\* What is on the chain stays there.
ChainGrows == Len(code') >= Len(code) /\ Len(adminOwner') >= Len(adminOwner)

\* A transaction keeps the type of the ProxyAdmins' owners, and no ProxyAdmin disappears.
LEMMA AdminOwnerTypes ==
  ASSUME NEW tx, NEW sender \in Accounts, ChainTypeOK, OwnerEffect(tx, sender)
  PROVE  adminOwner' \in Seq(Accounts) /\ Len(adminOwner') >= Len(adminOwner)
  <1>1. CASE tx.op = "createAdmin"
    BY <1>1 DEF ChainTypeOK, OwnerEffect
  <1>2. CASE tx.op = "transferAdmin"
    <2>1. adminOwner' = [adminOwner EXCEPT ![tx.admin] = NewOwner]
      BY <1>2 DEF OwnerEffect
    <2>2. adminOwner \in Seq(Accounts) /\ NewOwner \in Accounts
      BY DEF ChainTypeOK, Accounts
    <2>3. /\ Len(adminOwner) \in Nat
          /\ adminOwner' \in [1 .. Len(adminOwner) -> Accounts]
      <3>1. Len(adminOwner) \in Nat /\ adminOwner \in [1 .. Len(adminOwner) -> Accounts]
        BY <2>2, LenProperties
      <3> QED
        BY <2>1, <2>2, <3>1
    <2>4. adminOwner' \in Seq(Accounts) /\ Len(adminOwner') = Len(adminOwner)
      BY <2>3
    <2> QED
      BY <2>3, <2>4
  <1> QED
    BY <1>1, <1>2 DEF ChainTypeOK, OwnerEffect

\* A transaction keeps the type of the deployed code, and no code disappears.
LEMMA CodeTypes ==
  ASSUME NEW tx, ChainTypeOK, WellFormed(tx), CodeEffect(tx)
  PROVE  code' \in Seq(Code) /\ Len(code') >= Len(code)
  <1>1. CASE tx.op = "create"
    BY <1>1 DEF ChainTypeOK, CodeEffect, WellFormed
  <1> QED
    BY <1>1 DEF ChainTypeOK, CodeEffect

\* Every transaction of the contracts' operations keeps the chain's types.
LEMMA ChainTypes ==
  ASSUME NEW tx, NEW sender \in Accounts, ChainTypeOK, WellFormed(tx), Apply(tx, sender)
  PROVE  ChainTypeOK' /\ ChainGrows
  <1>1. /\ CodeEffect(tx) /\ ProxyEffect(tx, sender) /\ OwnerEffect(tx, sender)
        /\ WiringEffect(tx) /\ SettingsEffect(tx) /\ MarketEffect(tx)
    BY Effects
  <1>2. /\ code' \in Seq(Code) /\ adminOwner' \in Seq(Accounts)
        /\ ChainGrows
    BY <1>1, AdminOwnerTypes, CodeTypes DEF ChainGrows
  <1>3. /\ Len(code) \in Nat /\ Len(code') \in Nat
        /\ Len(adminOwner) \in Nat /\ Len(adminOwner') \in Nat
    BY <1>2 DEF ChainTypeOK
  <1>4. /\ implementation' \in [Proxies -> 0 .. Len(code')]
        /\ admin' \in [Proxies -> 0 .. Len(adminOwner')]
    <2>1. implementation \in [Proxies -> 0 .. Len(code')] /\ admin \in [Proxies -> 0 .. Len(adminOwner')]
      BY <1>2, <1>3 DEF ChainTypeOK, ChainGrows
    <2>2. tx.op \in {"createProxy", "upgrade"} => tx.logic \in 0 .. Len(code')
      BY <1>2, <1>3 DEF WellFormed, ChainGrows
    <2>3. tx.op = "createProxy" => tx.admin \in 0 .. Len(adminOwner')
      BY <1>2, <1>3 DEF WellFormed, ChainGrows
    <2> QED
      BY <1>1, <2>1, <2>2, <2>3 DEF ProxyEffect
  <1>5. owner' \in [Proxies -> Accounts \cup {Nobody}]
    BY <1>1 DEF OwnerEffect, ChainTypeOK, Accounts
  <1>6. registered' \subseteq Core /\ dependencies' \in [Core \cup Markets -> SUBSET Core]
    BY <1>1 DEF WiringEffect, ChainTypeOK, WellFormed
  <1>7. /\ listed' \in Seq(Tokens) /\ rates' \in [Tokens -> Nat]
        /\ discount' \in Nat /\ haircut' \in [{"Escrow", "Portfolios"} -> Nat]
        /\ numCurrencies' \in Nat
    <2>1. listed' \in Seq(Tokens)
      BY <1>1 DEF SettingsEffect, ChainTypeOK, WellFormed
    <2>2. Len(listed') \in Nat
      BY <2>1
    <2>3. Buffer(tx.on) \in Nat /\ SettlementDiscount \in Nat /\ LiquidityHaircut \in Nat
      BY DEF Buffer, SettlementDiscount, LiquidityHaircut
    <2> QED
      BY <1>1, <2>1, <2>2, <2>3 DEF SettingsEffect, ChainTypeOK
  <1>8. /\ cashGroups' \in Seq(Markets) /\ cashGroup' \in [Markets -> Nat]
        /\ parameters' \in [Markets -> SUBSET Parameters]
    <2>1. cashGroups' \in Seq(Markets)
      BY <1>1 DEF MarketEffect, ChainTypeOK, WellFormed
    <2>2. Len(cashGroups') \in Nat
      BY <2>1
    <2> QED
      BY <1>1, <2>1, <2>2 DEF MarketEffect, ChainTypeOK
  <1> QED
    BY <1>2, <1>4, <1>5, <1>6, <1>7, <1>8 DEF ChainTypeOK

ListStep == [DAI |-> 25, USDC |-> 39]

\* deploy.ts sends 56 requests.
LEMMA MainLength == Len(DeployMain) = 56
  BY DEF DeployMain, DeployLibraries, DeployProxies, SetUp, Tell, ListSteps, DeployCashMarket, TransferOwner, Do

\* Every place of the tables holds the request the table speaks of.
LEMMA Places ==
  /\ \A p \in Proxies : ProxyStep[p] \in 6 .. 41 /\ DeployMain[ProxyStep[p]] = Do("createProxy", p)
  /\ \A c \in Core : SetStep[c] \in 15 .. 18 /\ DeployMain[SetStep[c]] = Do("setContract", c)
  /\ \A c \in Core : ToldStep[c] \in 19 .. 22 /\ DeployMain[ToldStep[c]] = Tell(c, Told[c])
  /\ DeployMain[DiscountStep] = Do("setDiscounts", "Escrow")
  /\ DeployMain[HaircutStep] = Do("setHaircuts", "Portfolios")
  /\ \A t \in Tokens : ListStep[t] \in 25 .. 39 /\ DeployMain[ListStep[t]] = Do("listCurrency", t)
  /\ \A t \in Tokens : RateStep[t] \in 26 .. 40 /\ DeployMain[RateStep[t]] = Do("addExchangeRate", t)
  /\ \A m \in Markets : DeployMain[ProxyStep[m] + 1] = Do("initializeDependencies", m)
  /\ \A m \in Markets : GroupStep[m] \in 29 .. 43 /\ DeployMain[GroupStep[m]] = Do("createCashGroup", m)
  /\ \A m \in Markets : DeployMain[GroupStep[m] + 1] = Do("setMaxTradeSize", m)
  /\ \A m \in Markets : DeployMain[GroupStep[m] + 2] = Do("setFee", m)
  /\ \A m \in Markets : DeployMain[GroupStep[m] + 3] = Do("setRateFactors", m)
  /\ DeployMain[SaveStep] = Do("save", "file")
  /\ \A p \in Proxies : OwnerStep[p] \in 48 .. 55
  /\ \A p \in Proxies \ Markets : DeployMain[OwnerStep[p]] = Do("transferOwnership", p)
  /\ \A m \in Markets : DeployMain[OwnerStep[m]] = [op |-> "transferGroup", group |-> GroupId[m]]
  /\ DeployMain[AdminStep] = Do("transferAdmin", "ProxyAdmin")
  <1> USE DEF DeployMain, DeployLibraries, DeployProxies, SetUp, Tell, ListSteps, DeployCashMarket, TransferOwner, Do,
     Core, Proxies, Markets, Tokens
  <1>1. \A p \in Proxies : ProxyStep[p] \in 6 .. 41 /\ DeployMain[ProxyStep[p]] = Do("createProxy", p)
    BY DEF ProxyStep
  <1>2. \A c \in Core : SetStep[c] \in 15 .. 18 /\ DeployMain[SetStep[c]] = Do("setContract", c)
    BY DEF SetStep
  <1>3. \A c \in Core : ToldStep[c] \in 19 .. 22 /\ DeployMain[ToldStep[c]] = Tell(c, Told[c])
    <2>1. \A c \in Core : ToldStep[c] \in 19 .. 22
      BY DEF ToldStep
    <2>2. /\ DeployMain[ToldStep["Escrow"]] = Tell("Escrow", {"Portfolios", "ERC1155Trade"})
          /\ Told["Escrow"] = {"Portfolios", "ERC1155Trade"}
      BY DEF ToldStep, Told
    <2>3. /\ DeployMain[ToldStep["ERC1155Token"]] = Tell("ERC1155Token", {"Portfolios"})
          /\ Told["ERC1155Token"] = {"Portfolios"}
      BY DEF ToldStep, Told
    <2>4. /\ DeployMain[ToldStep["ERC1155Trade"]] = Tell("ERC1155Trade", {"Portfolios", "Escrow"})
          /\ Told["ERC1155Trade"] = {"Portfolios", "Escrow"}
      <3>1. ToldStep["ERC1155Trade"] = 21
        BY DEF ToldStep
      <3>2. DeployMain[21] = Tell("ERC1155Trade", {"Portfolios", "Escrow"})
        OBVIOUS
      <3>3. Told["ERC1155Trade"] = {"Portfolios", "Escrow"}
        BY DEF Told
      <3> QED
        BY ONLY <3>1, <3>2, <3>3
    <2>5. /\ DeployMain[ToldStep["Portfolios"]] = Tell("Portfolios", {"Escrow", "ERC1155Token", "ERC1155Trade"})
          /\ Told["Portfolios"] = {"Escrow", "ERC1155Token", "ERC1155Trade"}
      <3>1. ToldStep["Portfolios"] = 22
        BY DEF ToldStep
      <3>2. DeployMain[22] = Tell("Portfolios", {"Escrow", "ERC1155Token", "ERC1155Trade"})
        OBVIOUS
      <3>3. Told["Portfolios"] = {"Escrow", "ERC1155Token", "ERC1155Trade"}
        BY DEF Told
      <3> QED
        BY ONLY <3>1, <3>2, <3>3
    <2> HIDE DEF DeployMain, Tell
    <2> QED
      BY <2>1, <2>2, <2>3, <2>4, <2>5
  <1>4. /\ DeployMain[DiscountStep] = Do("setDiscounts", "Escrow")
        /\ DeployMain[HaircutStep] = Do("setHaircuts", "Portfolios")
        /\ DeployMain[SaveStep] = Do("save", "file")
        /\ DeployMain[AdminStep] = Do("transferAdmin", "ProxyAdmin")
    BY DEF DiscountStep, HaircutStep, SaveStep, AdminStep
  <1>5. \A t \in Tokens : ListStep[t] \in 25 .. 39 /\ DeployMain[ListStep[t]] = Do("listCurrency", t)
    BY DEF ListStep
  <1>6. \A t \in Tokens : RateStep[t] \in 26 .. 40 /\ DeployMain[RateStep[t]] = Do("addExchangeRate", t)
    BY DEF RateStep
  <1>7. \A m \in Markets : DeployMain[ProxyStep[m] + 1] = Do("initializeDependencies", m)
    BY DEF ProxyStep
  <1>8. \A m \in Markets : GroupStep[m] \in 29 .. 43 /\ DeployMain[GroupStep[m]] = Do("createCashGroup", m)
    BY DEF GroupStep
  <1>9. \A m \in Markets : DeployMain[GroupStep[m] + 1] = Do("setMaxTradeSize", m)
    BY DEF GroupStep
  <1>10. \A m \in Markets : DeployMain[GroupStep[m] + 2] = Do("setFee", m)
    BY DEF GroupStep
  <1>11. \A m \in Markets : DeployMain[GroupStep[m] + 3] = Do("setRateFactors", m)
    BY DEF GroupStep
  <1>12. \A p \in Proxies : OwnerStep[p] \in 48 .. 55
    BY DEF OwnerStep
  <1>13. \A p \in Proxies \ Markets : DeployMain[OwnerStep[p]] = Do("transferOwnership", p)
    BY DEF OwnerStep
  <1>14. \A m \in Markets : DeployMain[OwnerStep[m]] = [op |-> "transferGroup", group |-> GroupId[m]]
    BY DEF OwnerStep, GroupId
  <1> QED
    BY <1>1, <1>2, <1>3, <1>4, <1>5, <1>6, <1>7, <1>8, <1>9, <1>10, <1>11, <1>12, <1>13, <1>14

\* And every request is at the place of what it sets up.
Scheduled(k, step) ==
  /\ step.op = "create" => k < 15 /\ step.on \in Artifacts
  /\ step.op = "createAdmin" => k = 4
  /\ step.op = "createProxy" => step.on \in Proxies /\ k = ProxyStep[step.on]
  /\ step.op = "setContract" => step.on \in Core /\ k = SetStep[step.on]
  /\ step.op = "setDependencies" => step.on \in Core /\ k = ToldStep[step.on]
  /\ step.op = "setDependencies" => step.dependents \subseteq Core
  /\ step.op = "setDiscounts" => k = DiscountStep
  /\ step.op = "setHaircuts" => k = HaircutStep
  /\ step.op = "listCurrency" => step.on \in Tokens /\ k = ListStep[step.on]
  /\ step.op = "addExchangeRate" => step.on \in Tokens /\ k = RateStep[step.on]
  /\ step.op = "initializeDependencies" => step.on \in Markets /\ k = ProxyStep[step.on] + 1
  /\ step.op = "createCashGroup" => step.on \in Markets /\ k = GroupStep[step.on]
  /\ step.op \in Parameters => step.on \in Markets /\ k = GroupStep[step.on] + ParameterStep[step.op]
  /\ step.op = "save" => k = SaveStep
  /\ step.op = "transferAdmin" => k = AdminStep
  /\ step.op \notin {"none", "read", "upgrade"}

\* Where deploy.ts creates contracts and the ProxyAdmin, and where it writes the file.
LEMMA MainPlaces ==
  ASSUME NEW k \in 1 .. 56
  PROVE  /\ DeployMain[k].op = "create" <=> k \in {1, 2, 3, 5, 7, 9, 11, 13}
         /\ DeployMain[k].op = "createAdmin" <=> k = 4
         /\ DeployMain[k].op = "save" <=> k = 47
         /\ k = 3 => DeployMain[k] = Do("create", "CashMarket")
  <1> USE DEF DeployMain, DeployLibraries, DeployProxies, SetUp, Tell, ListSteps, DeployCashMarket,
              TransferOwner, Do
  <1>1. DeployMain[k].op = "create" <=> k \in {1, 2, 3, 5, 7, 9, 11, 13}
    <2>1. k \in {1, 2, 3, 5, 7, 9, 11, 13} => DeployMain[k].op = "create"
      OBVIOUS
    <2>2. DeployMain[k].op = "create" => k \in {1, 2, 3, 5, 7, 9, 11, 13}
      OBVIOUS
    <2> HIDE DEF DeployMain
    <2> QED
      BY ONLY <2>1, <2>2
  <1>2. DeployMain[k].op = "createAdmin" <=> k = 4
    OBVIOUS
  <1>3. DeployMain[k].op = "save" <=> k = 47
    OBVIOUS
  <1>4. k = 3 => DeployMain[k] = Do("create", "CashMarket")
    OBVIOUS
  <1> HIDE DEF DeployMain
  <1> QED
    BY ONLY <1>1, <1>2, <1>3, <1>4

\* Every request of deploy.ts has the place its kind and its contract have in the tables.
LEMMA AllScheduled ==
  ASSUME NEW k \in 1 .. 56
  PROVE  Scheduled(k, DeployMain[k])
  <1> DEFINE step == DeployMain[k]
  <1> USE DEF DeployMain, DeployLibraries, DeployProxies, SetUp, Tell, ListSteps, DeployCashMarket, TransferOwner, Do,
     Core, Proxies, Markets, Tokens
  <1>1. step.op = "create" => k < 15 /\ step.on \in Artifacts
    BY DEF Artifacts, Libraries
  <1>2. step.op = "createAdmin" => k = 4
    OBVIOUS
  <1>3. step.op = "createProxy" => step.on \in Proxies /\ k = ProxyStep[step.on]
    BY DEF ProxyStep
  <1>4. step.op = "setContract" => step.on \in Core /\ k = SetStep[step.on]
    BY DEF SetStep
  <1>5. step.op = "setDependencies" => step.on \in Core /\ k = ToldStep[step.on]
    BY DEF ToldStep
  <1>6. step.op = "setDependencies" => step.dependents \subseteq Core
    OBVIOUS
  <1>7. /\ step.op = "setDiscounts" => k = DiscountStep
        /\ step.op = "setHaircuts" => k = HaircutStep
    BY DEF DiscountStep, HaircutStep
  <1>8. step.op = "listCurrency" => step.on \in Tokens /\ k = ListStep[step.on]
    BY DEF ListStep
  <1>9. step.op = "addExchangeRate" => step.on \in Tokens /\ k = RateStep[step.on]
    BY DEF RateStep
  <1>10. step.op = "initializeDependencies" => step.on \in Markets /\ k = ProxyStep[step.on] + 1
    BY DEF ProxyStep
  <1>11. step.op = "createCashGroup" => step.on \in Markets /\ k = GroupStep[step.on]
    BY DEF GroupStep
  <1>12. step.op \in Parameters => step.on \in Markets /\ k = GroupStep[step.on] + ParameterStep[step.op]
    <2>1. step.op = "setMaxTradeSize" => step.on \in Markets /\ k = GroupStep[step.on] + 1
      BY DEF GroupStep
    <2>2. step.op = "setFee" => step.on \in Markets /\ k = GroupStep[step.on] + 2
      BY DEF GroupStep
    <2>3. step.op = "setRateFactors" => step.on \in Markets /\ k = GroupStep[step.on] + 3
      BY DEF GroupStep
    <2> HIDE DEF step, Markets
    <2> QED
      BY <2>1, <2>2, <2>3 DEF ParameterStep, Parameters
  <1>13. step.op = "save" => k = SaveStep
    BY DEF SaveStep
  <1>14. step.op = "transferAdmin" => k = AdminStep
    BY DEF AdminStep
  <1>15. step.op \notin {"none", "read", "upgrade"}
    OBVIOUS
  <1> QED
    BY <1>1, <1>2, <1>3, <1>4, <1>5, <1>6, <1>7, <1>8, <1>9, <1>10, <1>11, <1>12, <1>13, <1>14, <1>15
    DEF Scheduled

\* What a request is, by the kind of its step.
LEMMA RequestIs ==
  ASSUME NEW step
  PROVE  /\ step.op = "create" =>
              Request(step) = [op |-> "create", on |-> step.on, code |-> Bytecode(step.on)]
         /\ step.op = "createProxy" =>
              Request(step) = [op |-> "createProxy", on |-> step.on, admin |-> notional.proxyAdmin,
                logic |-> IF step.on \in Markets THEN notional.cashMarketLogic ELSE notional.logic]
         /\ step.op = "transferGroup" => Request(step) = Do("transferOwnership", cashGroups[step.group])
         /\ step.op = "transferAdmin" =>
              Request(step) = [op |-> "transferAdmin", admin |-> notional.proxyAdmin]
         /\ step.op \notin {"create", "createProxy", "transferGroup", "transferAdmin"} =>
              Request(step) = step
  <1>1. step.op = "create" =>
              Request(step) = [op |-> "create", on |-> step.on, code |-> Bytecode(step.on)]
    BY DEF Request
  <1>2. step.op = "createProxy" =>
              Request(step) = [op |-> "createProxy", on |-> step.on, admin |-> notional.proxyAdmin,
                logic |-> IF step.on \in Markets THEN notional.cashMarketLogic ELSE notional.logic]
    BY DEF Request
  <1>3. step.op = "transferGroup" => Request(step) = Do("transferOwnership", cashGroups[step.group])
    BY DEF Request
  <1>4. step.op = "transferAdmin" =>
              Request(step) = [op |-> "transferAdmin", admin |-> notional.proxyAdmin]
    BY DEF Request
  <1>5. step.op \notin {"create", "createProxy", "transferGroup", "transferAdmin"} =>
              Request(step) = step
    BY DEF Request
  <1> QED
    BY <1>1, <1>2, <1>3, <1>4, <1>5

\* The request sent at place k of DeployMain, and what the object puts into it.
Filled(tx) ==
  /\ tx.op = "create" => tx.code = Bytecode(tx.on)
  /\ tx.op = "createProxy" => tx.admin = notional.proxyAdmin
  /\ tx.op = "createProxy" =>
       tx.logic = IF tx.on \in Markets THEN notional.cashMarketLogic ELSE notional.logic
  /\ tx.op = "transferAdmin" => tx.admin = notional.proxyAdmin

\* What deploy.ts sends for a request has the place of that request.
LEMMA RequestScheduled ==
  ASSUME NEW k \in 1 .. 56
  PROVE  /\ Scheduled(k, Request(DeployMain[k])) /\ Filled(Request(DeployMain[k]))
         /\ Request(DeployMain[k]).op =
              IF DeployMain[k].op = "transferGroup" THEN "transferOwnership" ELSE DeployMain[k].op
  <1> DEFINE step == DeployMain[k]
             tx == Request(step)
  <1>1. Scheduled(k, step)
    BY AllScheduled
  <1> HIDE DEF step
  <1>2. CASE step.op = "create"
    <2>1. tx = [op |-> "create", on |-> step.on, code |-> Bytecode(step.on)]
      BY <1>2, RequestIs
    <2>2. tx.op = "create" /\ tx.on = step.on /\ tx.code = Bytecode(step.on)
      BY <2>1
    <2> HIDE DEF tx
    <2> QED
      BY <1>1, <1>2, <2>2 DEF Scheduled, Filled, Parameters, tx, step
  <1>3. CASE step.op = "createProxy"
    <2>1. tx = [op |-> "createProxy", on |-> step.on, admin |-> notional.proxyAdmin,
                logic |-> IF step.on \in Markets THEN notional.cashMarketLogic ELSE notional.logic]
      BY <1>3, RequestIs
    <2>2. /\ tx.op = "createProxy" /\ tx.on = step.on /\ tx.admin = notional.proxyAdmin
          /\ tx.logic = IF step.on \in Markets THEN notional.cashMarketLogic ELSE notional.logic
      BY <2>1
    <2> HIDE DEF tx
    <2> QED
      BY <1>1, <1>3, <2>2 DEF Scheduled, Filled, Parameters, tx, step
  <1>4. CASE step.op = "transferGroup"
    <2>1. tx.op = "transferOwnership"
      BY <1>4, RequestIs DEF Do
    <2> HIDE DEF tx
    <2> QED
      BY <1>4, <2>1 DEF Scheduled, Filled, Parameters, tx, step
  <1>5. CASE step.op = "transferAdmin"
    <2>1. tx = [op |-> "transferAdmin", admin |-> notional.proxyAdmin]
      BY <1>5, RequestIs
    <2>2. tx.op = "transferAdmin" /\ tx.admin = notional.proxyAdmin
      BY <2>1
    <2> HIDE DEF tx
    <2> QED
      BY <1>1, <1>5, <2>2 DEF Scheduled, Filled, Parameters, tx, step
  <1>6. CASE step.op \notin {"create", "createProxy", "transferGroup", "transferAdmin"}
    <2>1. tx = step
      BY <1>6, RequestIs
    <2> QED
      BY <1>1, <1>6, <2>1 DEF Filled, step
  <1> QED
    BY <1>2, <1>3, <1>4, <1>5, <1>6

\* The request a place of the tables stands for.
LEMMA PlaceRequests ==
  /\ \A p \in Proxies : Request(DeployMain[ProxyStep[p]]).op = "createProxy"
                        /\ Request(DeployMain[ProxyStep[p]]).on = p
  /\ \A p \in Proxies \ Markets : Request(DeployMain[OwnerStep[p]]) = Do("transferOwnership", p)
  /\ \A m \in Markets : Request(DeployMain[OwnerStep[m]]) = Do("transferOwnership", cashGroups[GroupId[m]])
  /\ \A k \in 1 .. 56 :
       DeployMain[k].op \notin {"create", "createProxy", "transferGroup", "transferAdmin"} =>
         Request(DeployMain[k]) = DeployMain[k]
  <1>1. ASSUME NEW p \in Proxies
        PROVE  Request(DeployMain[ProxyStep[p]]).op = "createProxy"
                        /\ Request(DeployMain[ProxyStep[p]]).on = p
    <2> DEFINE step == DeployMain[ProxyStep[p]]
    <2>1. step.op = "createProxy" /\ step.on = p
      <3>1. step = Do("createProxy", p)
        BY Places
      <3> QED
        BY <3>1 DEF Do
    <2> HIDE DEF step
    <2>2. Request(step) = [op |-> "createProxy", on |-> step.on, admin |-> notional.proxyAdmin,
                logic |-> IF step.on \in Markets THEN notional.cashMarketLogic ELSE notional.logic]
      BY <2>1, RequestIs
    <2> QED
      BY <2>1, <2>2 DEF step
  <1>2. ASSUME NEW p \in Proxies \ Markets
        PROVE  Request(DeployMain[OwnerStep[p]]) = Do("transferOwnership", p)
    <2> DEFINE step == DeployMain[OwnerStep[p]]
    <2>1. step = Do("transferOwnership", p)
      BY Places
    <2> HIDE DEF step
    <2>2. step.op = "transferOwnership"
      BY <2>1 DEF Do
    <2>3. Request(step) = step
      BY <2>2, RequestIs
    <2> QED
      BY <2>1, <2>3 DEF step
  <1>3. ASSUME NEW m \in Markets
        PROVE  Request(DeployMain[OwnerStep[m]]) = Do("transferOwnership", cashGroups[GroupId[m]])
    <2> DEFINE step == DeployMain[OwnerStep[m]]
    <2>1. step = [op |-> "transferGroup", group |-> GroupId[m]]
      BY Places
    <2> HIDE DEF step
    <2>2. step.op = "transferGroup" /\ step.group = GroupId[m]
      BY <2>1
    <2>3. Request(step) = Do("transferOwnership", cashGroups[step.group])
      BY <2>2, RequestIs
    <2> QED
      BY <2>2, <2>3 DEF step
  <1>4. ASSUME NEW k \in 1 .. 56,
               DeployMain[k].op \notin {"create", "createProxy", "transferGroup", "transferAdmin"}
        PROVE  Request(DeployMain[k]) = DeployMain[k]
    BY <1>4, RequestIs
  <1> QED
    BY <1>1, <1>2, <1>3, <1>4

\* tx is the request deploy.ts sends at place k, and what it puts into it has been created.
Due(k, tx, a) ==
  /\ tx = Request(DeployMain[k]) /\ Scheduled(k, tx) /\ Filled(tx)
  /\ notional.proxyAdmin = a /\ notional.logic # 0 /\ notional.cashMarketLogic # 0

\* The request k deploys the proxy whose place is k, behind the run's ProxyAdmin, and no other.
LEMMA ProxiesBuilt ==
  ASSUME NEW k \in 6 .. 56, NEW a, NEW tx, Due(k, tx, a), ChainTypeOK, ProxiesBefore(k, a),
         ProxyEffect(tx, Deployer)
  PROVE  ProxiesBefore(k + 1, a)'
  <1> SUFFICES ASSUME NEW p \in Proxies
               PROVE  IF ProxyStep[p] < k + 1 THEN implementation'[p] # 0 /\ admin'[p] = a
                      ELSE implementation'[p] = 0 /\ admin'[p] = 0
    BY DEF ProxiesBefore
  <1>1. /\ implementation \in [Proxies -> 0 .. Len(code)] /\ admin \in [Proxies -> 0 .. Len(adminOwner)]
        /\ IF ProxyStep[p] < k THEN implementation[p] # 0 /\ admin[p] = a
           ELSE implementation[p] = 0 /\ admin[p] = 0
        /\ tx.op # "upgrade" /\ ProxyStep[p] \in 6 .. 41
    BY Places DEF ChainTypeOK, ProxiesBefore, Due, Scheduled
  <1>2. CASE ProxyStep[p] = k
    <2>1. tx.op = "createProxy" /\ tx.on = p
      BY <1>2, PlaceRequests DEF Due
    <2>2. tx.logic # 0 /\ tx.admin = a
      BY <2>1 DEF Due, Filled
    <2>3. implementation'[p] = tx.logic /\ admin'[p] = tx.admin
      BY <1>1, <2>1 DEF ProxyEffect
    <2> QED
      BY <1>2, <2>2, <2>3
  <1>3. CASE ProxyStep[p] # k
    <2>1. tx.op = "createProxy" => tx.on # p
      BY <1>3 DEF Due, Scheduled
    <2>2. implementation'[p] = implementation[p] /\ admin'[p] = admin[p]
      BY <1>1, <2>1 DEF ProxyEffect
    <2>3. ProxyStep[p] < k + 1 <=> ProxyStep[p] < k
      <3>1. ProxyStep[p] \in Int /\ k \in Int
        BY Places
      <3> QED
        BY ONLY <3>1, <1>3
    <2> QED
      BY <1>1, <2>2, <2>3
  <1> QED
    BY <1>2, <1>3

\* A contract is handed over after its proxy was created and its group made.
LEMMA OwnersLate == /\ \A p \in Proxies : ProxyStep[p] < OwnerStep[p]
                    /\ \A m \in Markets : GroupStep[m] < OwnerStep[m]
  BY DEF ProxyStep, OwnerStep, GroupStep, Proxies, Core, Markets

\* deploy.ts creates the cash groups in the order of their ids.
LEMMA GroupsInOrder ==
  \A m \in Markets, s \in 1 .. 57 : GroupStep[m] < s => GroupsBefore(s)[GroupId[m]] = m
  <1>1. /\ GroupStep["DAI1M"] = 29 /\ GroupStep["DAI3M"] = 35 /\ GroupStep["USDC3M"] = 43
        /\ GroupId["DAI1M"] = 1 /\ GroupId["DAI3M"] = 2 /\ GroupId["USDC3M"] = 3
    BY DEF GroupStep, GroupId
  <1>2. ASSUME NEW s \in 1 .. 57, 29 < s
        PROVE  GroupsBefore(s)[1] = "DAI1M"
    BY <1>2 DEF GroupsBefore
  <1>3. ASSUME NEW s \in 1 .. 57, 35 < s
        PROVE  GroupsBefore(s)[2] = "DAI3M"
    BY <1>3 DEF GroupsBefore
  <1>4. ASSUME NEW s \in 1 .. 57, 43 < s
        PROVE  GroupsBefore(s)[3] = "USDC3M"
    BY <1>4 DEF GroupsBefore
  <1> QED
    BY <1>1, <1>2, <1>3, <1>4 DEF Markets

\* The request k hands over the proxy whose place is k; what was handed over stays so.
LEMMA OwnersBuilt ==
  ASSUME NEW k \in 6 .. 56, NEW a, NEW tx, Due(k, tx, a), ChainTypeOK, OwnersBefore(k),
         MarketsBefore(k), OwnerEffect(tx, Deployer)
  PROVE  OwnersBefore(k + 1)'
  <1> SUFFICES ASSUME NEW p \in Proxies, OwnerStep[p] < k + 1
               PROVE  owner'[p] = NewOwner
    BY DEF OwnersBefore
  <1>1. /\ owner \in [Proxies -> Accounts \cup {Nobody}] /\ ProxyStep[p] < OwnerStep[p]
        /\ OwnerStep[p] \in 48 .. 55 /\ ProxyStep[p] \in 6 .. 41
    BY OwnersLate, Places DEF ChainTypeOK
  <1>2. CASE OwnerStep[p] = k
    <2>1. tx.op = "transferOwnership" /\ tx.on = p
      <3>1. CASE p \in Markets
        <4>1. tx = Do("transferOwnership", cashGroups[GroupId[p]])
          BY <1>2, <3>1, PlaceRequests DEF Due
        <4>2. cashGroups[GroupId[p]] = p
          BY <1>2, <3>1, OwnersLate, GroupsInOrder DEF MarketsBefore
        <4> QED
          BY <4>1, <4>2 DEF Do
      <3>2. CASE p \notin Markets
        <4>1. tx = Do("transferOwnership", p)
          BY <1>2, <3>2, PlaceRequests DEF Due
        <4> QED
          BY <4>1 DEF Do
      <3> QED
        BY <3>1, <3>2
    <2> QED
      BY <1>1, <2>1 DEF OwnerEffect
  <1>3. CASE OwnerStep[p] # k
    <2>1. owner[p] = NewOwner
      BY <1>1, <1>3 DEF OwnersBefore
    <2>2. tx.op = "createProxy" => tx.on # p
      BY <1>1 DEF Due, Scheduled
    <2> QED
      BY <1>1, <2>1, <2>2 DEF OwnerEffect
  <1> QED
    BY <1>2, <1>3

\* The contracts of the Directory are not markets, and both have proxies.
LEMMA KindsApart ==
  /\ Core \cap Markets = {} /\ Core \cup Markets \subseteq Proxies
  /\ MarketUses \subseteq Core /\ \A c \in Core : Told[c] \subseteq Core
  BY DEF Core, Markets, Proxies, MarketUses, Told

\* setContract registers the contract whose place is k; what is registered stays so.
LEMMA RegisteredBuilt ==
  ASSUME NEW k \in 6 .. 56, NEW a, NEW tx, Due(k, tx, a), WiringBefore(k), WiringEffect(tx),
         NEW c \in Core, SetStep[c] < k + 1
  PROVE  c \in registered'
  <1>1. SetStep[c] \in 15 .. 18
    BY Places
  <1>2. CASE SetStep[c] = k
    <2>1. DeployMain[k] = Do("setContract", c)
      BY <1>2, Places
    <2>2. DeployMain[k].op = "setContract" /\ DeployMain[k].on = c
      BY <2>1 DEF Do
    <2>3. tx = DeployMain[k]
      BY <2>2, PlaceRequests DEF Due
    <2> QED
      BY <2>2, <2>3 DEF WiringEffect
  <1>3. CASE SetStep[c] # k
    <2>1. c \in registered
      BY <1>1, <1>3 DEF WiringBefore
    <2> QED
      BY <2>1 DEF WiringEffect
  <1> QED
    BY <1>2, <1>3

\* setDependencies tells the contracts of the one whose place is k; what they know they keep.
LEMMA ToldBuilt ==
  ASSUME NEW k \in 6 .. 56, NEW a, NEW tx, Due(k, tx, a), ChainTypeOK, WiringBefore(k), WiringEffect(tx),
         NEW c \in Core, ToldStep[c] < k + 1, NEW d \in Told[c]
  PROVE  c \in dependencies'[d]
  <1>1. /\ ToldStep[c] \in 19 .. 22 /\ SetStep[c] \in 15 .. 18 /\ d \in Core /\ d \notin Markets
        /\ dependencies \in [Core \cup Markets -> SUBSET Core] /\ d \in DOMAIN dependencies
    BY Places, KindsApart DEF ChainTypeOK
  <1>2. c \in registered
    BY <1>1 DEF WiringBefore
  <1>3. CASE ToldStep[c] = k
    <2>1. DeployMain[k] = Tell(c, Told[c])
      BY <1>3, Places
    <2>2. DeployMain[k].op = "setDependencies" /\ DeployMain[k].on = c /\ DeployMain[k].dependents = Told[c]
      BY <2>1 DEF Tell
    <2>3. tx = DeployMain[k]
      BY <2>2, PlaceRequests DEF Due
    <2>4. tx.op = "setDependencies" /\ tx.on = c /\ tx.dependents = Told[c]
      BY <2>2, <2>3
    <2> QED
      BY <1>1, <1>2, <2>4 DEF WiringEffect
  <1>4. CASE ToldStep[c] # k
    <2>1. c \in dependencies[d]
      BY <1>1, <1>4 DEF WiringBefore
    <2>2. tx.op = "initializeDependencies" => tx.on # d
      BY <1>1 DEF Due, Scheduled
    <2> QED
      BY <1>1, <1>2, <2>1, <2>2 DEF WiringEffect
  <1> QED
    BY <1>3, <1>4

\* initializeDependencies tells the new market of the contracts it calls; they are registered
\* by then.
LEMMA MarketToldBuilt ==
  ASSUME NEW k \in 6 .. 56, NEW a, NEW tx, Due(k, tx, a), ChainTypeOK, WiringBefore(k), WiringEffect(tx),
         NEW m \in Markets, ProxyStep[m] + 1 < k + 1
  PROVE  MarketUses \subseteq dependencies'[m]
  <1>0. ProxyStep[m] \in 27 .. 41
    BY DEF ProxyStep, Markets
  <1>1. /\ ProxyStep[m] \in 27 .. 41 /\ m \notin Core
        /\ dependencies \in [Core \cup Markets -> SUBSET Core] /\ m \in DOMAIN dependencies
    BY <1>0, KindsApart DEF ChainTypeOK
  <1>2. MarketUses \subseteq registered
    <2>1. \A c \in Core : SetStep[c] < k
      BY <1>1, Places
    <2> QED
      BY <2>1, KindsApart DEF WiringBefore
  <1>3. CASE ProxyStep[m] + 1 = k
    <2>1. DeployMain[k] = Do("initializeDependencies", m)
      BY <1>3, Places
    <2>2. DeployMain[k].op = "initializeDependencies" /\ DeployMain[k].on = m
      BY <2>1 DEF Do
    <2>3. tx = DeployMain[k]
      BY <2>2, PlaceRequests DEF Due
    <2>4. tx.op = "initializeDependencies" /\ tx.on = m
      BY <2>2, <2>3
    <2> QED
      BY <1>1, <1>2, <2>4 DEF WiringEffect
  <1>4. CASE ProxyStep[m] + 1 # k
    <2>1. MarketUses \subseteq dependencies[m]
      BY <1>1, <1>4 DEF WiringBefore
    <2>2. /\ tx.op = "initializeDependencies" => tx.on # m
          /\ tx.op = "setDependencies" => m \notin tx.dependents
      BY <1>1, <1>4 DEF Due, Scheduled
    <2> QED
      BY <1>1, <2>1, <2>2 DEF WiringEffect
  <1> QED
    BY <1>3, <1>4

\* The request k wires the contracts as the tables say.
LEMMA WiringBuilt ==
  ASSUME NEW k \in 6 .. 56, NEW a, NEW tx, Due(k, tx, a), ChainTypeOK, WiringBefore(k), WiringEffect(tx)
  PROVE  WiringBefore(k + 1)'
  BY RegisteredBuilt, ToldBuilt, MarketToldBuilt DEF WiringBefore

\* setDiscounts sets Escrow's settlement discount, which stays.
LEMMA DiscountBuilt ==
  ASSUME NEW k \in 6 .. 56, NEW a, NEW tx, Due(k, tx, a), SettingsBefore(k), SettingsEffect(tx),
         DiscountStep < k + 1
  PROVE  discount' = SettlementDiscount
  <1>1. CASE k = DiscountStep
    <2>1. DeployMain[k] = Do("setDiscounts", "Escrow")
      BY <1>1, Places
    <2>2. DeployMain[k].op = "setDiscounts"
      BY <2>1 DEF Do
    <2>3. tx = DeployMain[k]
      BY <2>2, PlaceRequests DEF Due
    <2> QED
      BY <2>2, <2>3 DEF SettingsEffect
  <1>2. CASE k # DiscountStep
    <2>1. DiscountStep < k
      BY <1>2 DEF DiscountStep
    <2>2. discount = SettlementDiscount
      BY <2>1 DEF SettingsBefore
    <2> QED
      BY <2>2 DEF SettingsEffect
  <1> QED
    BY <1>1, <1>2

\* setHaircuts sets the liquidity haircut in Portfolios and in Escrow alike, and it stays.
LEMMA HaircutBuilt ==
  ASSUME NEW k \in 6 .. 56, NEW a, NEW tx, Due(k, tx, a), ChainTypeOK, SettingsBefore(k),
         SettingsEffect(tx), HaircutStep < k + 1
  PROVE  haircut'["Escrow"] = LiquidityHaircut /\ haircut'["Portfolios"] = LiquidityHaircut
  <1>0. haircut \in [{"Escrow", "Portfolios"} -> Nat]
    BY DEF ChainTypeOK
  <1>1. CASE k = HaircutStep
    <2>1. DeployMain[k] = Do("setHaircuts", "Portfolios")
      BY <1>1, Places
    <2>2. DeployMain[k].op = "setHaircuts"
      BY <2>1 DEF Do
    <2>3. tx = DeployMain[k]
      BY <2>2, PlaceRequests DEF Due
    <2> QED
      BY <1>0, <2>2, <2>3 DEF SettingsEffect
  <1>2. CASE k # HaircutStep
    <2>1. HaircutStep < k
      BY <1>2 DEF HaircutStep
    <2>2. haircut["Escrow"] = LiquidityHaircut /\ haircut["Portfolios"] = LiquidityHaircut
      BY <2>1 DEF SettingsBefore
    <2> QED
      BY <1>0, <2>2 DEF SettingsEffect
  <1> QED
    BY <1>1, <1>2

\* A list grows at the place of what it lists.
LEMMA ListsGrow ==
  /\ \A t \in Tokens : ListedBefore(ListStep[t] + 1) = Append(ListedBefore(ListStep[t]), t)
  /\ \A s \in 6 .. 56 : (\A t \in Tokens : ListStep[t] # s) => ListedBefore(s + 1) = ListedBefore(s)
  /\ \A m \in Markets : GroupsBefore(GroupStep[m] + 1) = Append(GroupsBefore(GroupStep[m]), m)
  /\ \A m \in Markets : Len(GroupsBefore(GroupStep[m] + 1)) = GroupId[m]
  /\ \A s \in 6 .. 56 : (\A m \in Markets : GroupStep[m] # s) => GroupsBefore(s + 1) = GroupsBefore(s)
  <1>1. /\ GroupStep["DAI1M"] = 29 /\ GroupStep["DAI3M"] = 35 /\ GroupStep["USDC3M"] = 43
        /\ ListStep["DAI"] = 25 /\ ListStep["USDC"] = 39
        /\ GroupId["DAI1M"] = 1 /\ GroupId["DAI3M"] = 2 /\ GroupId["USDC3M"] = 3
    BY DEF GroupStep, ListStep, GroupId
  <1>2. /\ ListedBefore(26) = Append(ListedBefore(25), "DAI")
        /\ ListedBefore(40) = Append(ListedBefore(39), "USDC")
    BY DEF ListedBefore
  <1>3. \A s \in 6 .. 56 : s # 25 /\ s # 39 => ListedBefore(s + 1) = ListedBefore(s)
    BY DEF ListedBefore
  <1>4. /\ GroupsBefore(30) = Append(GroupsBefore(29), "DAI1M")
        /\ GroupsBefore(36) = Append(GroupsBefore(35), "DAI3M")
        /\ GroupsBefore(44) = Append(GroupsBefore(43), "USDC3M")
        /\ Len(GroupsBefore(30)) = 1 /\ Len(GroupsBefore(36)) = 2 /\ Len(GroupsBefore(44)) = 3
    BY DEF GroupsBefore
  <1>5. \A s \in 6 .. 56 : s # 29 /\ s # 35 /\ s # 43 => GroupsBefore(s + 1) = GroupsBefore(s)
    BY DEF GroupsBefore
  <1>6. \A t \in Tokens : ListedBefore(ListStep[t] + 1) = Append(ListedBefore(ListStep[t]), t)
    BY <1>1, <1>2 DEF Tokens
  <1>7. \A s \in 6 .. 56 : (\A t \in Tokens : ListStep[t] # s) => ListedBefore(s + 1) = ListedBefore(s)
    BY <1>1, <1>3 DEF Tokens
  <1>8. ASSUME NEW m \in Markets
        PROVE  /\ GroupsBefore(GroupStep[m] + 1) = Append(GroupsBefore(GroupStep[m]), m)
               /\ Len(GroupsBefore(GroupStep[m] + 1)) = GroupId[m]
    <2>1. /\ GroupStep["DAI1M"] + 1 = 30 /\ GroupStep["DAI3M"] + 1 = 36 /\ GroupStep["USDC3M"] + 1 = 44
      BY <1>1
    <2>2. CASE m = "DAI1M"
      BY ONLY <2>2, <2>1, <1>1, <1>4
    <2>3. CASE m = "DAI3M"
      BY ONLY <2>3, <2>1, <1>1, <1>4
    <2>4. CASE m = "USDC3M"
      BY ONLY <2>4, <2>1, <1>1, <1>4
    <2> QED
      BY <2>2, <2>3, <2>4 DEF Markets
  <1>9. \A s \in 6 .. 56 : (\A m \in Markets : GroupStep[m] # s) => GroupsBefore(s + 1) = GroupsBefore(s)
    BY <1>1, <1>5 DEF Markets
  <1> QED
    BY <1>6, <1>7, <1>8, <1>9

\* The currencies are listed in the order of deploy.ts.
LEMMA ListedBuilt ==
  ASSUME NEW k \in 6 .. 56, NEW a, NEW tx, Due(k, tx, a), ChainTypeOK, SettingsBefore(k),
         SettingsEffect(tx)
  PROVE  listed' = ListedBefore(k + 1)
  <1>1. CASE \E t \in Tokens : ListStep[t] = k
    <2>0. PICK t \in Tokens : ListStep[t] = k
      BY <1>1
    <2>1. DeployMain[k] = Do("listCurrency", t)
      BY <2>0, Places
    <2>2. DeployMain[k].op = "listCurrency" /\ DeployMain[k].on = t
      BY <2>1 DEF Do
    <2>3. tx = DeployMain[k]
      BY <2>2, PlaceRequests DEF Due
    <2>4. listed' = Append(listed, t)
      BY <2>2, <2>3 DEF SettingsEffect
    <2> QED
      BY <2>0, <2>4, ListsGrow DEF SettingsBefore
  <1>2. CASE \A t \in Tokens : ListStep[t] # k
    <2>1. tx.op # "listCurrency"
      BY <1>2 DEF Due, Scheduled
    <2>2. listed' = listed
      BY <2>1 DEF SettingsEffect
    <2> QED
      BY <1>2, <2>2, ListsGrow DEF SettingsBefore
  <1> QED
    BY <1>1, <1>2

\* Portfolios counts the listed currencies once the first is listed.
LEMMA CountBuilt ==
  ASSUME NEW k \in 6 .. 56, NEW a, NEW tx, Due(k, tx, a), ChainTypeOK, SettingsBefore(k),
         SettingsEffect(tx), 25 < k + 1
  PROVE  numCurrencies' = Len(listed')
  <1>1. CASE tx.op = "listCurrency"
    BY <1>1 DEF SettingsEffect
  <1>2. CASE tx.op # "listCurrency"
    <2>1. k # 25
      <3>1. SUFFICES ASSUME k = 25 PROVE FALSE
        OBVIOUS
      <3>2. DeployMain[k] = Do("listCurrency", "DAI")
        <4>1. ListStep["DAI"] = 25 /\ "DAI" \in Tokens
          BY DEF ListStep, Tokens
        <4> QED
          BY <3>1, <4>1, Places
      <3>3. DeployMain[k].op = "listCurrency"
        BY <3>2 DEF Do
      <3> QED
        BY <1>2, <3>3, PlaceRequests DEF Due
    <2>2. tx.op = "createProxy" => tx.on # "Portfolios"
      <3>1. ProxyStep["Portfolios"] = 10
        BY DEF ProxyStep
      <3> QED
        BY <2>1, <3>1 DEF Due, Scheduled
    <2>3. numCurrencies' = numCurrencies /\ listed' = listed
      BY <1>2, <2>2 DEF SettingsEffect
    <2> QED
      BY <2>1, <2>3 DEF SettingsBefore
  <1> QED
    BY <1>1, <1>2

\* addExchangeRate stores the token's rate, which stays.
LEMMA RatesBuilt ==
  ASSUME NEW k \in 6 .. 56, NEW a, NEW tx, Due(k, tx, a), ChainTypeOK, SettingsBefore(k),
         SettingsEffect(tx), NEW t \in Tokens, RateStep[t] < k + 1
  PROVE  rates'[t] = Buffer(t)
  <1>0. rates \in [Tokens -> Nat] /\ RateStep[t] \in 26 .. 40
    BY Places DEF ChainTypeOK
  <1>1. CASE RateStep[t] = k
    <2>1. DeployMain[k] = Do("addExchangeRate", t)
      BY <1>1, Places
    <2>2. DeployMain[k].op = "addExchangeRate" /\ DeployMain[k].on = t
      BY <2>1 DEF Do
    <2>3. tx = DeployMain[k]
      BY <2>2, PlaceRequests DEF Due
    <2> QED
      BY <1>0, <2>2, <2>3 DEF SettingsEffect
  <1>2. CASE RateStep[t] # k
    <2>1. rates[t] = Buffer(t)
      <3>1. \A u \in Tokens : RateStep[u] < k => rates[u] = Buffer(u)
        BY DEF SettingsBefore
      <3>2. RateStep[t] < k
        BY <1>0, <1>2
      <3> QED
        BY ONLY <3>1, <3>2, t \in Tokens
    <2> QED
      BY <1>0, <2>1 DEF SettingsEffect
  <1> QED
    BY <1>1, <1>2

\* The request k makes the settings of the tables.
LEMMA SettingsBuilt ==
  ASSUME NEW k \in 6 .. 56, NEW a, NEW tx, Due(k, tx, a), ChainTypeOK, SettingsBefore(k),
         SettingsEffect(tx)
  PROVE  SettingsBefore(k + 1)'
  BY DiscountBuilt, HaircutBuilt, ListedBuilt, CountBuilt, RatesBuilt DEF SettingsBefore

\* createCashGroup gives the market the id its place says; other markets keep theirs.
LEMMA GroupsBuilt ==
  ASSUME NEW k \in 6 .. 56, NEW a, NEW tx, Due(k, tx, a), ChainTypeOK, MarketsBefore(k),
         MarketEffect(tx)
  PROVE  /\ cashGroups' = GroupsBefore(k + 1)
         /\ \A m \in Markets : cashGroup'[m] = IF GroupStep[m] < k + 1 THEN GroupId[m] ELSE 0
  <1>0. /\ cashGroup \in [Markets -> Nat] /\ cashGroups = GroupsBefore(k)
        /\ \A m \in Markets : /\ GroupStep[m] \in 29 .. 43
                              /\ cashGroup[m] = IF GroupStep[m] < k THEN GroupId[m] ELSE 0
    BY Places DEF ChainTypeOK, MarketsBefore
  <1>1. CASE \E m \in Markets : GroupStep[m] = k
    <2>0. PICK m \in Markets : GroupStep[m] = k
      BY <1>1
    <2>1. DeployMain[k] = Do("createCashGroup", m)
      BY <2>0, Places
    <2>2. DeployMain[k].op = "createCashGroup" /\ DeployMain[k].on = m
      BY <2>1 DEF Do
    <2>3. tx = DeployMain[k]
      BY <2>2, PlaceRequests DEF Due
    <2>4. tx.op = "createCashGroup" /\ tx.on = m
      BY <2>2, <2>3
    <2>5. cashGroups' = Append(cashGroups, m)
      BY <2>4 DEF MarketEffect
    <2>6. cashGroups' = GroupsBefore(k + 1) /\ Len(cashGroups') = GroupId[m]
      BY <1>0, <2>0, <2>5, ListsGrow
    <2>7. cashGroup[m] = 0
      BY <1>0, <2>0
    <2>8. cashGroup' = [cashGroup EXCEPT ![m] = GroupId[m]]
      BY <2>4, <2>6, <2>7 DEF MarketEffect
    <2>9. ASSUME NEW n \in Markets
          PROVE  cashGroup'[n] = IF GroupStep[n] < k + 1 THEN GroupId[n] ELSE 0
      <3>1. CASE n = m
        BY <1>0, <2>0, <2>8, <3>1
      <3>2. CASE n # m
        <4>1. GroupStep[n] # k
          BY <2>0, <3>2 DEF GroupStep, Markets
        <4>2. GroupStep[n] < k + 1 <=> GroupStep[n] < k
          BY <1>0, <4>1
        <4> QED
          BY <1>0, <2>8, <3>2, <4>2
      <3> QED
        BY <3>1, <3>2
    <2> QED
      BY <2>6, <2>9
  <1>2. CASE \A m \in Markets : GroupStep[m] # k
    <2>1. tx.op # "createCashGroup"
      BY <1>2 DEF Due, Scheduled
    <2>2. cashGroups' = cashGroups /\ cashGroup' = cashGroup
      BY <2>1 DEF MarketEffect
    <2>3. \A m \in Markets : GroupStep[m] < k + 1 <=> GroupStep[m] < k
      BY <1>0, <1>2
    <2> QED
      BY <1>0, <1>2, <2>2, <2>3, ListsGrow
  <1> QED
    BY <1>1, <1>2

\* The setters after createCashGroup set the market's parameters, which stay.
LEMMA ParametersBuilt ==
  ASSUME NEW k \in 6 .. 56, NEW a, NEW tx, Due(k, tx, a), ChainTypeOK, MarketsBefore(k),
         MarketEffect(tx), NEW m \in Markets, NEW x \in Parameters,
         GroupStep[m] + ParameterStep[x] < k + 1
  PROVE  x \in parameters'[m]
  <1>0. /\ parameters \in [Markets -> SUBSET Parameters]
        /\ GroupStep[m] \in 29 .. 43 /\ ParameterStep[x] \in 1 .. 3
    BY Places DEF ChainTypeOK, ParameterStep, Parameters
  <1>1. CASE GroupStep[m] + ParameterStep[x] = k
    <2>1. DeployMain[k] = Do(x, m)
      BY <1>1, Places DEF ParameterStep, Parameters
    <2>2. DeployMain[k].op = x /\ DeployMain[k].on = m
      BY <2>1 DEF Do
    <2>3. tx = DeployMain[k]
      BY <2>2, PlaceRequests DEF Due, Parameters
    <2> QED
      BY <1>0, <2>2, <2>3 DEF MarketEffect
  <1>2. CASE GroupStep[m] + ParameterStep[x] # k
    <2>1. x \in parameters[m]
      BY <1>0, <1>2 DEF MarketsBefore
    <2> QED
      BY <1>0, <2>1 DEF MarketEffect
  <1> QED
    BY <1>1, <1>2

\* The request k sets the cash groups up as the tables say.
LEMMA MarketsBuilt ==
  ASSUME NEW k \in 6 .. 56, NEW a, NEW tx, Due(k, tx, a), ChainTypeOK, MarketsBefore(k),
         MarketEffect(tx)
  PROVE  MarketsBefore(k + 1)'
  BY GroupsBuilt, ParametersBuilt DEF MarketsBefore

\* One more request of deploy.ts, one more part of the system.
LEMMA StepBuilt ==
  ASSUME NEW k \in 6 .. 56, NEW a, NEW tx, Due(k, tx, a), ChainTypeOK, Built(k, a), Apply(tx, Deployer)
  PROVE  Built(k + 1, a)'
  <1>1. /\ CodeEffect(tx) /\ ProxyEffect(tx, Deployer) /\ OwnerEffect(tx, Deployer)
        /\ WiringEffect(tx) /\ SettingsEffect(tx) /\ MarketEffect(tx)
    BY Effects
  <1>2. /\ ProxiesBefore(k, a) /\ OwnersBefore(k) /\ WiringBefore(k) /\ SettingsBefore(k)
        /\ MarketsBefore(k) /\ a \in DOMAIN adminOwner
    BY DEF Built
  <1>3. /\ ProxiesBefore(k + 1, a)' /\ OwnersBefore(k + 1)' /\ WiringBefore(k + 1)'
        /\ SettingsBefore(k + 1)' /\ MarketsBefore(k + 1)'
    BY <1>1, <1>2, ProxiesBuilt, OwnersBuilt, WiringBuilt, SettingsBuilt, MarketsBuilt
  <1>4. a \in DOMAIN adminOwner'
    <2>1. adminOwner \in Seq(Accounts) /\ Deployer \in Accounts
      BY DEF ChainTypeOK, Accounts
    <2>2. adminOwner' = Append(adminOwner, Deployer) => a \in DOMAIN adminOwner'
      <3>1. DOMAIN adminOwner = 1 .. Len(adminOwner) /\ Len(adminOwner) \in Nat
        BY <2>1
      <3>2. ASSUME adminOwner' = Append(adminOwner, Deployer)
            PROVE  DOMAIN adminOwner' = 1 .. Len(adminOwner) + 1
        BY <2>1, <3>2
      <3> QED
        BY <1>2, <3>1, <3>2
    <2> QED
      BY <1>1, <1>2, <2>1, <2>2 DEF OwnerEffect
  <1> QED
    BY <1>3, <1>4 DEF Built

\* Before the Directory's proxy is created nothing of the system is there.
LEMMA NothingBuilt ==
  ASSUME ChainTypeOK, NothingBeforeDirectory, implementation["Directory"] = 0, NEW a \in DOMAIN adminOwner
  PROVE  Built(6, a)
  <1>1. /\ implementation = [p \in Proxies |-> 0] /\ admin = [p \in Proxies |-> 0]
        /\ listed = <<>> /\ cashGroups = <<>> /\ cashGroup = [m \in Markets |-> 0]
    BY DEF NothingBeforeDirectory
  <1>2. ProxiesBefore(6, a)
    <2>1. \A p \in Proxies : ~(ProxyStep[p] < 6)
      BY Places
    <2> QED
      BY <1>1, <2>1 DEF ProxiesBefore
  <1>3. OwnersBefore(6)
    <2>1. \A p \in Proxies : ~(OwnerStep[p] < 6)
      BY Places
    <2> QED
      BY <2>1 DEF OwnersBefore
  <1>4. WiringBefore(6)
    <2>1. \A c \in Core : ~(SetStep[c] < 6) /\ ~(ToldStep[c] < 6)
      BY Places
    <2>2. \A m \in Markets : ~(ProxyStep[m] + 1 < 6)
      BY DEF ProxyStep, Markets
    <2> QED
      BY <2>1, <2>2 DEF WiringBefore
  <1>5. SettingsBefore(6)
    <2>1. \A t \in Tokens : ~(RateStep[t] < 6)
      BY Places
    <2> QED
      BY <1>1, <2>1 DEF SettingsBefore, ListedBefore, DiscountStep, HaircutStep
  <1>6. MarketsBefore(6)
    <2>1. \A m \in Markets : ~(GroupStep[m] < 6)
      BY Places
    <2>2. \A m \in Markets, x \in Parameters : ~(GroupStep[m] + ParameterStep[x] < 6)
      BY DEF GroupStep, ParameterStep, Markets, Parameters
    <2> QED
      BY <1>1, <2>1, <2>2 DEF MarketsBefore, GroupsBefore
  <1> QED
    BY <1>2, <1>3, <1>4, <1>5, <1>6 DEF Built

\* Once the Directory's proxy is there every proxy has its admin.
LEMMA BuiltShares ==
  ASSUME NEW s \in 7 .. 57, NEW a, ChainTypeOK', Built(s, a)'
  PROVE  implementation'["Directory"] # 0 /\ NothingBeforeDirectory' /\ ProxiesShareAdmin'
  <1>1. ProxyStep["Directory"] = 6 /\ "Directory" \in Proxies
    BY DEF ProxyStep, Proxies
  <1>2. implementation'["Directory"] # 0 /\ admin'["Directory"] = a
    BY <1>1 DEF Built, ProxiesBefore
  <1>3. a # 0
    BY DEF ChainTypeOK, Built
  <1>4. \A p \in Proxies : implementation'[p] # 0 \/ admin'[p] # 0 => admin'[p] = a
    BY DEF Built, ProxiesBefore
  <1> QED
    BY <1>2, <1>3, <1>4 DEF NothingBeforeDirectory, ProxiesShareAdmin

\* What is built when the file is saved stays built.
LEMMA BuiltStays ==
  ASSUME NEW s \in 48 .. 57, NEW a, Built(s, a)'
  PROVE  Built(48, a)'
  <1>1. ProxiesBefore(48, a)'
    <2>1. \A p \in Proxies : ProxyStep[p] < s /\ ProxyStep[p] < 48
      BY Places
    <2> QED
      BY <2>1 DEF Built, ProxiesBefore
  <1>2. OwnersBefore(48)'
    <2>1. \A p \in Proxies : ~(OwnerStep[p] < 48)
      BY Places
    <2> QED
      BY <2>1 DEF OwnersBefore
  <1>3. WiringBefore(48)'
    <2>1. \A c \in Core : SetStep[c] < s /\ ToldStep[c] < s
      BY Places
    <2>2. \A m \in Markets : ProxyStep[m] + 1 < s
      BY DEF ProxyStep, Markets
    <2> QED
      BY <2>1, <2>2 DEF Built, WiringBefore
  <1>4. SettingsBefore(48)'
    <2>1. \A t \in Tokens : RateStep[t] < s
      BY Places
    <2>2. ListedBefore(48) = ListedBefore(s)
      BY DEF ListedBefore
    <2> QED
      BY <2>1, <2>2 DEF Built, SettingsBefore, DiscountStep, HaircutStep
  <1>5. MarketsBefore(48)'
    <2>1. \A m \in Markets : GroupStep[m] < s /\ GroupStep[m] < 48
      BY Places
    <2>2. \A m \in Markets, x \in Parameters : GroupStep[m] + ParameterStep[x] < s
      BY DEF GroupStep, ParameterStep, Markets, Parameters
    <2>3. GroupsBefore(48) = GroupsBefore(s)
      BY DEF GroupsBefore
    <2> QED
      BY <2>1, <2>2, <2>3 DEF Built, MarketsBefore
  <1> QED
    BY <1>1, <1>2, <1>3, <1>4, <1>5 DEF Built

\* A system built up to the saving of the file is complete.
LEMMA BuiltComplete ==
  ASSUME NEW a, ChainTypeOK, Built(48, a)
  PROVE  Complete
  <1>1. /\ \A p \in Proxies : implementation[p] # 0
        /\ \A c \in Core, d \in Core : d \in Told[c] => c \in dependencies[d]
        /\ \A m \in Markets : MarketUses \subseteq dependencies[m]
    <2>1. \A p \in Proxies : ProxyStep[p] < 48
      BY Places
    <2>2. \A c \in Core : ToldStep[c] < 48
      BY Places
    <2>3. \A m \in Markets : ProxyStep[m] + 1 < 48
      BY DEF ProxyStep, Markets
    <2> QED
      BY <2>1, <2>2, <2>3 DEF Built, ProxiesBefore, WiringBefore
  <1>2. ASSUME NEW c \in Core
        PROVE  implementation[c] # 0 /\ Uses[c] \subseteq dependencies[c]
    <2>1. \A d \in Uses[c] : d \in Core /\ c \in Told[d]
      BY DEF Uses, Told, Core
    <2> QED
      BY <1>1, <2>1, KindsApart
  <1>3. /\ discount = SettlementDiscount
        /\ haircut["Escrow"] = LiquidityHaircut /\ haircut["Portfolios"] = LiquidityHaircut
        /\ listed = << "DAI", "USDC" >> /\ numCurrencies = Len(listed)
        /\ \A t \in Tokens : rates[t] = Buffer(t)
    <2>1. \A t \in Tokens : RateStep[t] < 48
      BY Places
    <2> QED
      BY <2>1 DEF Built, SettingsBefore, DiscountStep, HaircutStep, ListedBefore
  <1>4. Elements(listed) = Tokens
    BY <1>3 DEF Elements, Tokens
  <1>5. /\ \A m \in Markets : cashGroup[m] = GroupId[m] /\ Parameters \subseteq parameters[m]
        /\ cashGroups = << "DAI1M", "DAI3M", "USDC3M" >>
    <2>1. \A m \in Markets : GroupStep[m] < 48
      BY Places
    <2>2. \A m \in Markets, x \in Parameters : GroupStep[m] + ParameterStep[x] < 48
      BY DEF GroupStep, ParameterStep, Markets, Parameters
    <2> QED
      BY <2>1, <2>2 DEF Built, MarketsBefore, GroupsBefore
  <1>6. ASSUME NEW m \in Markets
        PROVE  /\ {"Escrow", "Portfolios", "ERC1155Trade"} \subseteq dependencies[m]
               /\ parameters[m] = Parameters
               /\ m \in Elements(cashGroups) /\ cashGroups[cashGroup[m]] = m
               /\ Underlying(m) \in Elements(listed)
    <2>1. {"Escrow", "Portfolios", "ERC1155Trade"} \subseteq dependencies[m]
      BY <1>1 DEF MarketUses
    <2>2. parameters[m] = Parameters
      BY <1>5 DEF ChainTypeOK
    <2>3. GroupId[m] \in DOMAIN cashGroups /\ cashGroups[GroupId[m]] = m
      BY <1>5 DEF GroupId, Markets
    <2>4. Underlying(m) \in Tokens
      BY DEF Underlying, Tokens
    <2> QED
      BY <1>4, <1>5, <2>1, <2>2, <2>3, <2>4 DEF Elements
  <1>7. /\ \A t \in Elements(listed) : rates[t] > discount
        /\ discount > 0 /\ haircut["Escrow"] = haircut["Portfolios"] /\ haircut["Escrow"] > 0
    BY <1>3, <1>4 DEF Tokens, Buffer, SettlementDiscount, LiquidityHaircut
  <1> QED
    BY <1>2, <1>3, <1>6, <1>7 DEF Complete

(****************************************************************************)
(* What the object remembers.                                               *)
(****************************************************************************)
LEMMA BytecodeType ==
  ASSUME TypeOK, NEW a \in Artifacts
  PROVE  Bytecode(a) \in Code
  <1>1. notional.libraries \in [Libraries -> Nat] /\ build \in [Artifacts -> 1 .. MaxVersion]
    BY DEF TypeOK, Memory
  <1>2. Link(a, notional.libraries) \in Nat
    BY <1>1 DEF Link, LinkReferences, Libraries
  <1>3. build[a] \in Nat
    BY <1>1, BoundsAssumption
  <1> QED
    BY <1>2, <1>3 DEF Bytecode, Code

\* What NotionalDeployer keeps of a request that went through, by the request's kind.
LEMMA RememberingIs ==
  ASSUME NEW tx
  PROVE  /\ tx.op = "create" =>
              Remembering(tx) =
                [notional EXCEPT
                  !.libraries = IF tx.on \in Libraries THEN [@ EXCEPT ![tx.on] = Len(code) + 1] ELSE @,
                  !.cashMarketLogic = IF tx.on = "CashMarket" THEN Len(code) + 1 ELSE @,
                  !.logic = Len(code) + 1,
                  !.hashes[tx.on] = tx.code]
         /\ tx.op = "createAdmin" => Remembering(tx) = [notional EXCEPT !.proxyAdmin = Len(adminOwner) + 1]
         /\ tx.op \notin {"create", "createAdmin"} => Remembering(tx) = notional
  BY DEF Remembering

\* Once created, always remembered.
Remembers(memory, tx) ==
  /\ memory.proxyAdmin = IF tx.op = "createAdmin" THEN Len(adminOwner) + 1 ELSE notional.proxyAdmin
  /\ memory.logic = IF tx.op = "create" THEN Len(code) + 1 ELSE notional.logic
  /\ memory.cashMarketLogic = IF tx.op = "create" /\ tx.on = "CashMarket" THEN Len(code) + 1
                              ELSE notional.cashMarketLogic

\* NotionalDeployer remembers nothing that is not on the chain.
LEMMA Remembered ==
  ASSUME NEW tx, NEW sender \in Accounts, ChainTypeOK, Known(notional), WellFormed(tx), Apply(tx, sender),
         NEW memory, memory = Remembering(tx)
  PROVE  Known(memory)' /\ Remembers(memory, tx)
  <1>1. /\ CodeEffect(tx) /\ OwnerEffect(tx, sender)
    BY Effects
  <1>2. /\ Len(code) \in Nat /\ Len(code') \in Nat /\ Len(code') >= Len(code)
        /\ Len(adminOwner) \in Nat /\ Len(adminOwner') \in Nat /\ Len(adminOwner') >= Len(adminOwner)
    <2>1. ChainTypeOK' /\ ChainGrows
      BY ChainTypes
    <2> QED
      BY <2>1 DEF ChainTypeOK, ChainGrows
  <1>3. /\ notional \in Memory /\ \A l \in Libraries : notional.libraries[l] <= Len(code)
        /\ notional.cashMarketLogic <= Len(code) /\ notional.logic <= Len(code)
        /\ notional.proxyAdmin <= Len(adminOwner)
    BY DEF Known
  <1>4. CASE tx.op = "create"
    <2>1. memory = [notional EXCEPT
                  !.libraries = IF tx.on \in Libraries THEN [@ EXCEPT ![tx.on] = Len(code) + 1] ELSE @,
                  !.cashMarketLogic = IF tx.on = "CashMarket" THEN Len(code) + 1 ELSE @,
                  !.logic = Len(code) + 1,
                  !.hashes[tx.on] = tx.code]
      BY <1>4, RememberingIs
    <2>2. code' = Append(code, tx.code) /\ tx.code \in Code /\ code \in Seq(Code)
      BY <1>1, <1>4 DEF CodeEffect, WellFormed, ChainTypeOK
    <2>3. Len(code') = Len(code) + 1
      BY <2>2
    <2>4. memory.libraries = IF tx.on \in Libraries
                             THEN [notional.libraries EXCEPT ![tx.on] = Len(code) + 1]
                             ELSE notional.libraries
      BY <2>1, <1>3 DEF Memory
    <2>5. /\ memory.cashMarketLogic = IF tx.on = "CashMarket" THEN Len(code) + 1 ELSE notional.cashMarketLogic
          /\ memory.logic = Len(code) + 1 /\ memory.proxyAdmin = notional.proxyAdmin
          /\ memory.hashes = [notional.hashes EXCEPT ![tx.on] = tx.code]
      BY <2>1, <1>3 DEF Memory
    <2>6. /\ memory.libraries \in [Libraries -> Nat]
          /\ \A l \in Libraries : memory.libraries[l] <= Len(code')
      BY <2>3, <2>4, <1>2, <1>3 DEF Memory
    <2>7. memory.hashes \in [Artifacts -> Code]
      BY <2>5, <2>2, <1>3 DEF Memory
    <2>8. memory.cashMarketLogic \in 0 .. Len(code') /\ memory.logic \in 0 .. Len(code')
      BY <2>3, <2>5, <1>2, <1>3 DEF Memory
    <2>9. memory \in Memory
      <3>1. memory = [libraries |-> memory.libraries, hashes |-> memory.hashes,
                      cashMarketLogic |-> memory.cashMarketLogic,
                      proxyAdmin |-> memory.proxyAdmin, logic |-> memory.logic]
        BY <2>1, <1>3 DEF Memory
      <3>2. /\ memory.cashMarketLogic \in Nat /\ memory.logic \in Nat /\ memory.proxyAdmin \in Nat
        BY <1>2, <1>3, <2>5, <2>8 DEF Memory
      <3> QED
        BY <2>6, <2>7, <3>1, <3>2 DEF Memory
    <2>10. memory.proxyAdmin <= Len(adminOwner')
      BY <1>2, <1>3, <2>5 DEF Memory
    <2>11. Known(memory)'
      BY <1>2, <2>6, <2>8, <2>9, <2>10 DEF Known
    <2>12. Remembers(memory, tx)
      BY <1>4, <2>5 DEF Remembers
    <2> QED
      BY <2>11, <2>12
  <1>5. CASE tx.op = "createAdmin"
    <2>1. memory = [notional EXCEPT !.proxyAdmin = Len(adminOwner) + 1]
      BY <1>5, RememberingIs
    <2>2. adminOwner' = Append(adminOwner, sender) /\ adminOwner \in Seq(Accounts)
      BY <1>1, <1>5 DEF OwnerEffect, ChainTypeOK
    <2>3. Len(adminOwner') = Len(adminOwner) + 1
      BY <2>2
    <2> QED
      BY <1>2, <1>3, <1>5, <2>1, <2>3 DEF Known, Remembers, Memory
  <1>6. CASE tx.op \notin {"create", "createAdmin"}
    <2>1. memory = notional
      BY <1>6, RememberingIs
    <2> QED
      BY <1>2, <1>3, <1>6, <2>1 DEF Known, Remembers, Memory
  <1> QED
    BY <1>4, <1>5, <1>6

\* What an object remembers stays on the chain, which only grows.
LEMMA KnownStays ==
  ASSUME ChainTypeOK, ChainTypeOK', ChainGrows, NEW memory, Known(memory)
  PROVE  Known(memory)'
  <1>1. /\ Len(code) \in Nat /\ Len(code') \in Nat /\ Len(code) <= Len(code')
        /\ Len(adminOwner) \in Nat /\ Len(adminOwner') \in Nat
        /\ Len(adminOwner) <= Len(adminOwner')
    BY DEF ChainTypeOK, ChainGrows
  <1>2. /\ memory \in Memory
        /\ \A l \in Libraries : memory.libraries[l] \in Nat /\ memory.libraries[l] <= Len(code)
        /\ memory.cashMarketLogic \in Nat /\ memory.cashMarketLogic <= Len(code)
        /\ memory.logic \in Nat /\ memory.logic <= Len(code)
        /\ memory.proxyAdmin \in Nat /\ memory.proxyAdmin <= Len(adminOwner)
    BY DEF Known, Memory
  <1>3. \A x, m, n \in Nat : x <= m /\ m <= n => x <= n
    OBVIOUS
  <1>4. \A l \in Libraries : memory.libraries[l] <= Len(code')
    BY <1>1, <1>2, <1>3
  <1>5. /\ memory.cashMarketLogic <= Len(code') /\ memory.logic <= Len(code')
        /\ memory.proxyAdmin <= Len(adminOwner')
    BY <1>1, <1>2, <1>3
  <1> QED
    BY <1>2, <1>4, <1>5 DEF Known

\* A new NotionalDeployer remembers nothing.
LEMMA EmptyKnown ==
  ASSUME ChainTypeOK
  PROVE  Known(Empty)
  <1>1. Empty \in Memory
    BY DEF Empty, Memory, None, Code, Artifacts
  <1> QED
    BY <1>1 DEF Known, Empty, ChainTypeOK

(****************************************************************************)
(* What a transaction of an upgrade leaves alone.                           *)
(****************************************************************************)
LEMMA UpgradeKeepsBuilt ==
  ASSUME NEW tx, NEW sender \in Accounts, NEW s \in 48 .. 57, NEW a, ChainTypeOK, WellFormed(tx), Apply(tx, sender),
         tx.op \in Reads \cup {"create", "upgrade"}, tx.op = "upgrade" => tx.logic # 0, Built(s, a)
  PROVE  /\ Built(s, a)'
         /\ owner' = owner /\ adminOwner' = adminOwner /\ admin' = admin /\ cashGroups' = cashGroups
  <1>1. /\ ProxyEffect(tx, sender) /\ OwnerEffect(tx, sender)
        /\ WiringEffect(tx) /\ SettingsEffect(tx) /\ MarketEffect(tx)
    BY Effects
  <1>2. /\ owner' = owner /\ adminOwner' = adminOwner /\ admin' = admin /\ cashGroups' = cashGroups
        /\ registered' = registered /\ dependencies' = dependencies /\ listed' = listed /\ rates' = rates
        /\ discount' = discount /\ haircut' = haircut /\ numCurrencies' = numCurrencies
        /\ cashGroup' = cashGroup /\ parameters' = parameters
    BY <1>1 DEF Reads, Parameters, ProxyEffect, OwnerEffect, WiringEffect, SettingsEffect, MarketEffect
  <1>3. ProxiesBefore(s, a)'
    <2>1. \A p \in Proxies : ProxyStep[p] < s /\ implementation[p] # 0 /\ admin[p] = a
      BY Places DEF Built, ProxiesBefore
    <2>2. implementation \in [Proxies -> 0 .. Len(code)]
      BY DEF ChainTypeOK
    <2>3. \A p \in Proxies : implementation'[p] # 0
      BY <1>1, <2>1, <2>2 DEF ProxyEffect, Reads
    <2> QED
      BY <1>2, <2>1, <2>3 DEF ProxiesBefore
  <1>4. /\ OwnersBefore(s)' /\ WiringBefore(s)' /\ SettingsBefore(s)' /\ MarketsBefore(s)'
        /\ a \in DOMAIN adminOwner'
    BY <1>2 DEF Built, OwnersBefore, WiringBefore, SettingsBefore, MarketsBefore
  <1> QED
    BY <1>2, <1>3, <1>4 DEF Built

(****************************************************************************)
(* What the running script sends.                                           *)
(****************************************************************************)
LEMMA TargetFacts ==
  ASSUME ScriptTypeOK, ~AllDone
  PROVE  /\ Min(Targets) \in script.step .. 7 /\ Min(Targets) \in Nat \ {0}
         /\ Target \in Artifacts /\ Target \in script.targets
         /\ \A k \in Targets : Min(Targets) <= k
  <1>1. script.step \in Nat \ {0}
    BY DEF ScriptTypeOK, Runs
  <1>2. Len(UpgradeMain) = 7 /\ \A k \in 1 .. 7 : UpgradeMain[k] \in Artifacts
    BY DEF UpgradeMain, Artifacts, Libraries, Core
  <1>3. Targets \in SUBSET Nat /\ Targets # {} /\ Targets \subseteq script.step .. 7
    BY <1>1, <1>2 DEF Targets, AllDone
  <1>4. Min(Targets) \in Targets /\ \A k \in Targets : Min(Targets) <= k
    BY <1>3, MinFacts
  <1>5. Target = UpgradeMain[Min(Targets)] /\ UpgradeMain[Min(Targets)] \in script.targets
    BY <1>4 DEF Target, Targets
  <1>6. Min(Targets) \in script.step .. 7 /\ Min(Targets) \in Nat \ {0} /\ Min(Targets) \in 1 .. 7
    <2> DEFINE n == Min(Targets)
               s == script.step
    <2>1. n \in s .. 7 /\ s \in Nat \ {0}
      BY <1>1, <1>3, <1>4
    <2> HIDE DEF n, s
    <2>2. n \in s .. 7 /\ n \in Nat \ {0} /\ n \in 1 .. 7
      BY <2>1
    <2> QED
      BY <2>2 DEF n, s
  <1>7. Target \in Artifacts /\ Target \in script.targets
    BY <1>2, <1>5, <1>6
  <1> QED
    BY <1>4, <1>6, <1>7

\* What upgrade.ts sends for a proxy, by the stage of its turn.
LEMMA UpgradeRequestIs ==
  ASSUME NEW a, NEW proxy, NEW stage, NEW dryRun
  PROVE  /\ stage = "check" => UpgradeRequest(a, proxy, stage, dryRun) =
              IF UpgradeCheckCodeHash(a) /\ ~dryRun THEN Request(Do("create", a)) ELSE Do("none", a)
         /\ stage = "upgrade" => UpgradeRequest(a, proxy, stage, dryRun) =
              [op |-> "upgrade", on |-> proxy, admin |-> notional.proxyAdmin, logic |-> NewLogic(a)]
         /\ stage \notin {"check", "upgrade"} => UpgradeRequest(a, proxy, stage, dryRun) = Do("read", proxy)
  <1>1. stage = "check" => UpgradeRequest(a, proxy, stage, dryRun) =
              IF UpgradeCheckCodeHash(a) /\ ~dryRun THEN Request(Do("create", a)) ELSE Do("none", a)
    BY DEF UpgradeRequest
  <1>2. stage = "upgrade" => UpgradeRequest(a, proxy, stage, dryRun) =
              [op |-> "upgrade", on |-> proxy, admin |-> notional.proxyAdmin, logic |-> NewLogic(a)]
    BY DEF UpgradeRequest
  <1>3. stage \notin {"check", "upgrade"} => UpgradeRequest(a, proxy, stage, dryRun) = Do("read", proxy)
    BY DEF UpgradeRequest
  <1> QED
    BY <1>1, <1>2, <1>3

\* What upgrade.ts sends, by what is left to do.
LEMMA UpgradeSendsIs ==
  /\ AllDone => UpgradeSends = Do(IF script.dryRun THEN "none" ELSE "save", "file")
  /\ ~AllDone /\ Target \in Libraries => UpgradeSends = DeployLibrary(Target, script.dryRun)
  /\ ~AllDone /\ Target \notin Libraries =>
       UpgradeSends = UpgradeRequest(Target, Proxy, script.stage, script.dryRun)
  BY DEF UpgradeSends

\* The stage of a proxy's turn after an answer, by the target.
LEMMA StageAfterIs ==
  /\ Target \in Libraries => StageAfter = "done"
  /\ Target \notin Libraries /\ OnMarket =>
       StageAfter = AfterUpgradeCashMarket(Proxy, script.stage, script.wallet, script.dryRun)
  /\ Target \notin Libraries /\ ~OnMarket =>
       StageAfter = AfterUpgradeContract(Target, script.stage, script.wallet, script.dryRun)
  <1>1. Target \in Libraries => StageAfter = "done"
    BY DEF StageAfter, OnMarket, Libraries
  <1>2. Target \notin Libraries /\ OnMarket =>
          StageAfter = AfterUpgradeCashMarket(Proxy, script.stage, script.wallet, script.dryRun)
    BY DEF StageAfter
  <1>3. Target \notin Libraries /\ ~OnMarket =>
          StageAfter = AfterUpgradeContract(Target, script.stage, script.wallet, script.dryRun)
    BY DEF StageAfter
  <1> QED
    BY <1>1, <1>2, <1>3

\* The turn of a market, whose new logic is created once for all the groups.
LEMMA AfterUpgradeCashMarketIs ==
  ASSUME NEW proxy, NEW stage, NEW wallet, NEW dryRun
  PROVE  /\ stage = "check" => AfterUpgradeCashMarket(proxy, stage, wallet, dryRun) = "compare"
         /\ stage = "compare" => AfterUpgradeCashMarket(proxy, stage, wallet, dryRun) =
              IF implementation[proxy] # notional.cashMarketLogic THEN "owner" ELSE "done"
         /\ stage \notin {"check", "compare"} =>
              AfterUpgradeCashMarket(proxy, stage, wallet, dryRun) = AfterUpgradeProxy(stage, wallet, dryRun)
  BY DEF AfterUpgradeCashMarket

\* A library or a contract that is created.
LEMMA CreateRequest ==
  ASSUME NEW a
  PROVE  Request(Do("create", a)) = [op |-> "create", on |-> a, code |-> Bytecode(a)]
  <1> DEFINE step == Do("create", a)
  <1>1. step.op = "create" /\ step.on = a
    BY DEF Do
  <1> HIDE DEF step
  <1>2. Request(step) = [op |-> "create", on |-> step.on, code |-> Bytecode(step.on)]
    BY <1>1, RequestIs
  <1> QED
    BY <1>1, <1>2 DEF step

\* The requests of an upgrade, by kind.
Upgrade(tx) ==
  /\ tx.op \in Reads \cup {"create", "upgrade"}
  /\ tx.op = "create" => /\ ~AllDone /\ tx.on = Target /\ tx.code = Bytecode(Target) /\ ~script.dryRun
                         /\ Target \in Libraries \/ (script.stage = "check" /\ UpgradeCheckCodeHash(Target))
  /\ tx.op = "upgrade" => /\ ~AllDone /\ script.stage = "upgrade" /\ tx.on = Proxy
                          /\ tx.admin = notional.proxyAdmin /\ tx.logic = NewLogic(Target)
  /\ tx.op = "save" => AllDone /\ ~script.dryRun
  /\ AllDone /\ ~script.dryRun => tx.op = "save"
  /\ ~AllDone /\ ~script.dryRun
     /\ (Target \in Libraries \/ (script.stage = "check" /\ UpgradeCheckCodeHash(Target))) => tx.op = "create"

\* Every request of upgrade.ts is of one of the kinds of Upgrade.
LEMMA UpgradeKinds ==
  Upgrade(UpgradeSends)
  <1> DEFINE tx == UpgradeSends
  <1>1. CASE AllDone
    <2>1. tx = Do(IF script.dryRun THEN "none" ELSE "save", "file")
      BY <1>1, UpgradeSendsIs
    <2>2. tx.op = IF script.dryRun THEN "none" ELSE "save"
      BY <2>1 DEF Do
    <2> HIDE DEF tx
    <2>3. Upgrade(tx)
      BY <1>1, <2>2 DEF Upgrade, Reads
    <2> QED
      BY <2>3 DEF tx
  <1>2. CASE ~AllDone /\ Target \in Libraries
    <2>1. tx = DeployLibrary(Target, script.dryRun)
      BY <1>2, UpgradeSendsIs
    <2>2. CASE script.dryRun
      <3>1. tx.op = "none"
        BY <2>1, <2>2 DEF DeployLibrary, Do
      <3> HIDE DEF tx
      <3>2. Upgrade(tx)
        BY <1>2, <3>1, <2>2 DEF Upgrade, Reads
      <3> QED
        BY <3>2 DEF tx
    <2>3. CASE ~script.dryRun
      <3>1. tx = [op |-> "create", on |-> Target, code |-> Bytecode(Target)]
        BY <2>1, <2>3, CreateRequest DEF DeployLibrary
      <3>2. tx.op = "create" /\ tx.on = Target /\ tx.code = Bytecode(Target)
        BY <3>1
      <3> HIDE DEF tx
      <3>3. Upgrade(tx)
        BY <1>2, <2>3, <3>2 DEF Upgrade, Reads
      <3> QED
        BY <3>3 DEF tx
    <2> QED
      BY <2>2, <2>3
  <1>3. CASE ~AllDone /\ Target \notin Libraries
    <2>1. tx = UpgradeRequest(Target, Proxy, script.stage, script.dryRun)
      BY <1>3, UpgradeSendsIs
    <2>2. CASE script.stage = "check" /\ UpgradeCheckCodeHash(Target) /\ ~script.dryRun
      <3>1. tx = Request(Do("create", Target))
        BY <2>1, <2>2, UpgradeRequestIs
      <3>2. tx = [op |-> "create", on |-> Target, code |-> Bytecode(Target)]
        BY <3>1, CreateRequest
      <3>3. tx.op = "create" /\ tx.on = Target /\ tx.code = Bytecode(Target)
        BY <3>2
      <3> HIDE DEF tx
      <3>4. Upgrade(tx)
        BY <1>3, <2>2, <3>3 DEF Upgrade, Reads
      <3> QED
        BY <3>4 DEF tx
    <2>3. CASE script.stage = "check" /\ ~(UpgradeCheckCodeHash(Target) /\ ~script.dryRun)
      <3>1. tx = Do("none", Target)
        BY <2>1, <2>3, UpgradeRequestIs
      <3>2. tx.op = "none"
        BY <3>1 DEF Do
      <3> HIDE DEF tx
      <3>3. Upgrade(tx)
        BY <1>3, <3>2, <2>3 DEF Upgrade, Reads
      <3> QED
        BY <3>3 DEF tx
    <2>4. CASE script.stage = "upgrade"
      <3>1. tx = [op |-> "upgrade", on |-> Proxy, admin |-> notional.proxyAdmin, logic |-> NewLogic(Target)]
        BY <2>1, <2>4, UpgradeRequestIs
      <3>2. /\ tx.op = "upgrade" /\ tx.on = Proxy /\ tx.admin = notional.proxyAdmin
            /\ tx.logic = NewLogic(Target)
        BY <3>1
      <3> HIDE DEF tx
      <3>3. Upgrade(tx)
        BY <1>3, <2>4, <3>2 DEF Upgrade, Reads
      <3> QED
        BY <3>3 DEF tx
    <2>5. CASE script.stage \notin {"check", "upgrade"}
      <3>1. tx = Do("read", Proxy)
        BY <2>1, <2>5, UpgradeRequestIs
      <3>2. tx.op = "read"
        BY <3>1 DEF Do
      <3> HIDE DEF tx
      <3>3. Upgrade(tx)
        BY <1>3, <3>2, <2>5 DEF Upgrade, Reads
      <3> QED
        BY <3>3 DEF tx
    <2> QED
      BY <2>2, <2>3, <2>4, <2>5
  <1> QED
    BY <1>1, <1>2, <1>3

\* The invariant implies the type invariant.
LEMMA TypeHolds ==
  ASSUME IInv
  PROVE  TypeOK
  <1>1. /\ script.program \in {"none", "deploy", "upgrade"}
        /\ script.stage \in Stages /\ script.failed \in 0 .. Attempts - 1
        /\ script.targets \subseteq Artifacts /\ script.wallet \in Accounts
    BY DEF IInv, RunOK, ScriptTypeOK, Runs
  <1>2. notional \in Memory /\ file \in Memory
    BY DEF IInv, SystemOK, RunOK, Known
  <1> QED
    BY <1>1, <1>2 DEF IInv, SystemOK, TypeOK

(****************************************************************************)
(* The requests sent are well formed.                                       *)
(****************************************************************************)
LEMMA RequestWellFormed ==
  ASSUME TypeOK, Known(notional), NEW k \in 1 .. 56
  PROVE  WellFormed(Request(DeployMain[k]))
  <1> DEFINE tx == Request(DeployMain[k])
  <1>1. Scheduled(k, tx) /\ Filled(tx)
    BY RequestScheduled
  <1> HIDE DEF tx
  <1>2. tx.op = "create" => tx.code \in Code
    BY <1>1, BytecodeType DEF Scheduled, Filled
  <1>3. /\ notional.logic \in 0 .. Len(code) /\ notional.cashMarketLogic \in 0 .. Len(code)
        /\ notional.proxyAdmin \in 0 .. Len(adminOwner)
    BY DEF Known, Memory, TypeOK, ChainTypeOK
  <1>4. WellFormed(tx)
    BY <1>1, <1>2, <1>3 DEF Scheduled, Filled, WellFormed
  <1> QED
    BY <1>4 DEF tx

\* The requests of upgrade.ts are well formed.
LEMMA UpgradeWellFormed ==
  ASSUME TypeOK, ScriptTypeOK, Known(notional), NEW tx, Upgrade(tx)
  PROVE  WellFormed(tx)
  <1>1. tx.op = "create" => tx.code \in Code
    BY TargetFacts, BytecodeType DEF Upgrade
  <1>2. /\ notional.logic \in 0 .. Len(code) /\ notional.cashMarketLogic \in 0 .. Len(code)
    BY DEF Known, Memory, TypeOK, ChainTypeOK
  <1>3. tx.op = "upgrade" => tx.logic \in 0 .. Len(code)
    BY <1>2 DEF Upgrade, NewLogic
  <1>4. tx.op \in {"none", "read", "save", "create", "upgrade"}
    BY DEF Upgrade, Reads
  <1> QED
    BY <1>1, <1>3, <1>4 DEF WellFormed

(****************************************************************************)
(* A request of deploy.ts that goes through.                                *)
(****************************************************************************)
\* Before the Directory's proxy only contracts and a ProxyAdmin are created.
LEMMA EarlyRequest ==
  ASSUME NEW k \in 1 .. 5, NEW tx, tx = Request(DeployMain[k]), NEW sender, Apply(tx, sender),
         NothingBeforeDirectory, ProxiesShareAdmin
  PROVE  NothingBeforeDirectory' /\ ProxiesShareAdmin'
  <1>1. /\ ProxyEffect(tx, sender) /\ OwnerEffect(tx, sender)
        /\ WiringEffect(tx) /\ SettingsEffect(tx) /\ MarketEffect(tx)
    BY Effects
  <1>2. DeployMain[k].op \in {"create", "createAdmin"}
    BY DEF DeployMain, DeployLibraries, DeployProxies, SetUp, Tell, ListSteps, DeployCashMarket, TransferOwner, Do
  <1>3. tx.op \in {"create", "createAdmin"}
    BY <1>2, RequestScheduled
  <1>4. /\ implementation' = implementation /\ admin' = admin
        /\ owner' = owner /\ cashGroups' = cashGroups
        /\ registered' = registered /\ dependencies' = dependencies /\ listed' = listed /\ rates' = rates
        /\ discount' = discount /\ haircut' = haircut /\ numCurrencies' = numCurrencies
        /\ cashGroup' = cashGroup /\ parameters' = parameters
    BY <1>1, <1>3 DEF Parameters, ProxyEffect, OwnerEffect, WiringEffect, SettingsEffect, MarketEffect
  <1> QED
    BY <1>4 DEF NothingBeforeDirectory, ProxiesShareAdmin

\* The request at the Directory's proxy or later finds built what comes before it.
LEMMA DeployFinds ==
  ASSUME IInv, Deploying, NEW k \in 6 .. 56, k = script.step, NEW sender,
         Permitted(Request(DeployMain[k]), sender)
  PROVE  Built(k, notional.proxyAdmin) /\ Due(k, Request(DeployMain[k]), notional.proxyAdmin)
  <1>1. /\ notional.logic # 0 /\ notional.cashMarketLogic # 0 /\ notional.proxyAdmin # 0
        /\ k > 6 => Built(k, notional.proxyAdmin)
    <2>2. DeployedSoFar /\ script.step \in 6 .. 56
      BY DEF IInv, RunOK
    <2>3. notional.logic # 0 /\ notional.cashMarketLogic # 0 /\ notional.proxyAdmin # 0
      <3>1. script.step > 1 /\ script.step > 3 /\ script.step > 4
        BY <2>2
      <3> QED
        BY <2>2, <3>1 DEF DeployedSoFar
    <2>4. k > 6 => Built(k, notional.proxyAdmin)
      BY <2>2 DEF DeployedSoFar
    <2> QED
      BY <2>3, <2>4
  <1>2. Due(k, Request(DeployMain[k]), notional.proxyAdmin)
    <2>1. Scheduled(k, Request(DeployMain[k])) /\ Filled(Request(DeployMain[k]))
      <3>1. k \in 1 .. 56
        OBVIOUS
      <3> QED
        BY <3>1, RequestScheduled
    <2> QED
      BY <1>1, <2>1 DEF Due
  <1>3. CASE k = 6
    <2>1. ProxyStep["Directory"] = 6 /\ "Directory" \in Proxies /\ "Directory" \notin Markets
      BY DEF ProxyStep, Proxies, Markets
    <2>2. Request(DeployMain[6]).op = "createProxy" /\ Request(DeployMain[6]).on = "Directory"
      BY <2>1, PlaceRequests
    <2>3. implementation["Directory"] = 0
      BY <1>3, <2>1, <2>2 DEF Permitted, ProxyPermits
    <2>4. notional.proxyAdmin \in DOMAIN adminOwner
      BY <1>1 DEF IInv, RunOK, SystemOK, Known, Memory, ChainTypeOK
    <2> QED
      BY <1>2, <1>3, <2>3, <2>4, NothingBuilt DEF IInv, SystemOK
  <1> QED
    BY <1>1, <1>2, <1>3

DeployGoes(k, a) ==
  /\ ChainTypeOK' /\ ChainGrows /\ NothingBeforeDirectory' /\ ProxiesShareAdmin'
  /\ k > 5 => Built(k + 1, a)'
  /\ \A x \in DOMAIN adminOwner' : adminOwner'[x] # Deployer => k = 56

\* A request of deploy.ts that goes through keeps what there is before the Directory's proxy,
\* the shared ProxyAdmin and what is built.
LEMMA DeployChain ==
  ASSUME IInv, Deploying, NEW k, k = script.step, NEW a, a = notional.proxyAdmin,
         Permitted(Sends, script.wallet), Apply(Sends, script.wallet)
  PROVE  /\ k \in 1 .. 56 /\ Sends = Request(DeployMain[k]) /\ WellFormed(Sends)
         /\ script.wallet = Deployer /\ DeployGoes(k, a)
  <1>1. k \in 1 .. 56 /\ script.wallet = Deployer /\ Sends = Request(DeployMain[k])
    <2>1. script.step \in Nat \ {0} /\ script.step <= 56 /\ script.wallet = Deployer
      BY DEF IInv, RunOK, ScriptTypeOK, Runs, DeployedSoFar
    <2>2. Sends = Request(DeployMain[script.step])
      BY DEF Sends, Deploying
    <2> QED
      BY <2>1, <2>2
  <1> DEFINE tx == Request(DeployMain[k])
  <1>2. /\ Permitted(tx, Deployer) /\ Apply(tx, Deployer) /\ WellFormed(tx)
        /\ Scheduled(k, tx) /\ Filled(tx)
    BY <1>1, RequestWellFormed, RequestScheduled, TypeHolds DEF IInv, RunOK
  <1>3. ChainTypeOK' /\ ChainGrows
    BY <1>2, ChainTypes DEF IInv, SystemOK, Accounts
  <1>4. k > 5 => Built(k + 1, a)'
    <2> SUFFICES ASSUME k > 5 PROVE Built(k + 1, a)'
      OBVIOUS
    <2>1. k \in 6 .. 56
      BY <1>1
    <2>2. Built(k, a) /\ Due(k, tx, a)
      BY <1>2, <2>1, DeployFinds
    <2> HIDE DEF tx
    <2> QED
      BY <1>2, <2>1, <2>2, StepBuilt DEF IInv, SystemOK
  <1>5. NothingBeforeDirectory' /\ ProxiesShareAdmin'
    <2>1. CASE k \in 1 .. 5
      BY <1>2, <2>1, EarlyRequest DEF IInv, SystemOK
    <2>2. CASE k \in 6 .. 56
      <3>1. k + 1 \in 7 .. 57 /\ Built(k + 1, a)'
        BY <1>4, <2>2
      <3> QED
        BY <1>3, <3>1, BuiltShares
    <2> QED
      BY <1>1, <2>1, <2>2
  <1>6. \A x \in DOMAIN adminOwner' : adminOwner'[x] # Deployer => k = 56
    <2> HIDE DEF tx
    <2>1. adminOwner \in Seq(Accounts) /\ Deployer \in Accounts /\ OwnerEffect(tx, Deployer)
      BY <1>2, Effects DEF IInv, SystemOK, ChainTypeOK, Accounts
    <2>2. \A x \in DOMAIN adminOwner : adminOwner[x] = Deployer
      BY DEF IInv, RunOK, DeployedSoFar
    <2>3. tx.op = "transferAdmin" => k = 56
      BY <1>2 DEF Scheduled, AdminStep
    <2>4. ASSUME tx.op = "createAdmin", NEW x \in DOMAIN adminOwner'
          PROVE  adminOwner'[x] = Deployer
      BY <2>1, <2>2, <2>4 DEF OwnerEffect
    <2> QED
      BY <2>1, <2>2, <2>3, <2>4 DEF OwnerEffect
  <1> QED
    BY <1>1, <1>2, <1>3, <1>4, <1>5, <1>6 DEF DeployGoes

(****************************************************************************)
(* The invariant is kept.                                                   *)
(****************************************************************************)
LEMMA IdleTypes ==
  /\ Idle \in Runs
  /\ Idle.program = "none" /\ Idle.step = 1 /\ Idle.group = 1 /\ Idle.stage = "check"
  BY AttemptsAssumption DEF Idle, Runs, Stages, Accounts

\* A run starts with its first request, the first group and the first stage.
LEMMA StartTypes ==
  ASSUME NEW program \in {"none", "deploy", "upgrade"}, NEW wallet \in Accounts,
         NEW targets \in SUBSET Artifacts, NEW dryRun \in BOOLEAN
  PROVE  /\ Start(program, wallet, targets, dryRun) \in Runs
         /\ Start(program, wallet, targets, dryRun).program = program
         /\ Start(program, wallet, targets, dryRun).wallet = wallet
         /\ Start(program, wallet, targets, dryRun).step = 1
         /\ Start(program, wallet, targets, dryRun).group = 1
         /\ Start(program, wallet, targets, dryRun).stage = "check"
  BY IdleTypes DEF Start, Runs

\* deploy.ts starts with its first request, signed by the deployer.
LEMMA DeployStarts ==
  /\ Start("deploy", Deployer, {}, FALSE) \in Runs
  /\ Start("deploy", Deployer, {}, FALSE).program = "deploy"
  /\ Start("deploy", Deployer, {}, FALSE).step = 1
  /\ Start("deploy", Deployer, {}, FALSE).wallet = Deployer
  <1> DEFINE begun(dryRun) == Start("deploy", Deployer, {}, dryRun)
  <1>1. /\ Deployer \in Accounts /\ {} \in SUBSET Artifacts
        /\ "deploy" \in {"none", "deploy", "upgrade"} /\ FALSE \in BOOLEAN
    BY DEF Accounts
  <1>2. \A dryRun \in BOOLEAN : /\ begun(dryRun) \in Runs /\ begun(dryRun).program = "deploy"
                               /\ begun(dryRun).step = 1 /\ begun(dryRun).wallet = Deployer
    BY <1>1, StartTypes
  <1> HIDE DEF begun
  <1>3. /\ begun(FALSE) \in Runs /\ begun(FALSE).program = "deploy"
        /\ begun(FALSE).step = 1 /\ begun(FALSE).wallet = Deployer
    BY ONLY <1>1, <1>2
  <1> QED
    BY ONLY <1>3 DEF begun

\* The first run of deploy.ts starts from an empty chain and no file.
LEMMA InitInvariant ==
  ASSUME Init
  PROVE  IInv
  <1>1. ChainTypeOK
    BY DEF Init, ChainInit, ChainTypeOK
  <1>2. ~Saved /\ Known(notional) /\ Known(file)
    <2>1. Empty.proxyAdmin = 0
      BY DEF Empty
    <2> QED
      BY <1>1, <2>1, EmptyKnown DEF Init, Saved
  <1>3. NothingBeforeDirectory /\ ProxiesShareAdmin
    BY DEF Init, ChainInit, NothingBeforeDirectory, ProxiesShareAdmin
  <1>4. SavedIsBuilt /\ AdminsMoveLast /\ LeftWhenSaved
    BY <1>2 DEF Init, ChainInit, SavedIsBuilt, AdminsMoveLast, LeftWhenSaved
  <1>5. /\ build \in [Artifacts -> 1 .. MaxVersion] /\ leftToOwner \in [Proxies -> 0 .. Len(code)]
        /\ deploys \in 1 .. MaxDeploys /\ upgrades \in 0 .. MaxUpgrades
    BY BoundsAssumption DEF Init, ChainInit
  <1>6. /\ ScriptTypeOK /\ script.program = "deploy" /\ script.step = 1 /\ script.wallet = Deployer
    <2>1. script = Start("deploy", Deployer, {}, FALSE)
      BY DEF Init
    <2>2. /\ Start("deploy", Deployer, {}, FALSE) \in Runs
          /\ Start("deploy", Deployer, {}, FALSE).program = "deploy"
          /\ Start("deploy", Deployer, {}, FALSE).step = 1
          /\ Start("deploy", Deployer, {}, FALSE).wallet = Deployer
      BY DeployStarts
    <2> QED
      BY <2>1, <2>2 DEF ScriptTypeOK
  <1>7. DeployedSoFar /\ UpgradesSaved
    <2>1. /\ ~Upgrading /\ script.step <= 56
          /\ ~(script.step > SaveStep) /\ ~(script.step > 1) /\ ~(script.step > 3)
          /\ ~(script.step > 4) /\ ~(script.step > 6)
      BY <1>6 DEF Upgrading, SaveStep
    <2>2. \A a \in DOMAIN adminOwner : adminOwner[a] = Deployer
      BY DEF Init, ChainInit
    <2> QED
      BY <1>2, <1>6, <2>1, <2>2 DEF DeployedSoFar, UpgradesSaved
  <1> QED
    BY <1>1, <1>2, <1>3, <1>4, <1>5, <1>6, <1>7 DEF IInv, SystemOK, RunOK

\* A step that leaves the chain and the saved file alone.
LEMMA SystemSame ==
  ASSUME SystemOK, UNCHANGED <<chain, file, leftToOwner>>,
         build' \in [Artifacts -> 1 .. MaxVersion],
         deploys' \in 1 .. MaxDeploys, upgrades' \in 0 .. MaxUpgrades
  PROVE  SystemOK'
  <1>1. /\ code' = code /\ implementation' = implementation /\ admin' = admin
        /\ adminOwner' = adminOwner /\ owner' = owner /\ cashGroups' = cashGroups
        /\ registered' = registered /\ dependencies' = dependencies /\ listed' = listed /\ rates' = rates
        /\ discount' = discount /\ haircut' = haircut /\ numCurrencies' = numCurrencies
        /\ cashGroup' = cashGroup /\ parameters' = parameters
        /\ file' = file /\ leftToOwner' = leftToOwner
    BY DEF chain, proxyVars, wiring, settings, marketVars
  <1>2. ChainTypeOK'
    BY <1>1 DEF SystemOK, ChainTypeOK
  <1>3. NothingBeforeDirectory' /\ ProxiesShareAdmin' /\ Known(file)'
    BY <1>1 DEF SystemOK, NothingBeforeDirectory, ProxiesShareAdmin, Known
  <1>4. SavedIsBuilt' /\ AdminsMoveLast' /\ LeftWhenSaved'
    BY <1>1 DEF SystemOK, SavedIsBuilt, AdminsMoveLast, LeftWhenSaved, Saved, Built, ProxiesBefore,
                OwnersBefore, WiringBefore, SettingsBefore, MarketsBefore
  <1> QED
    BY <1>1, <1>2, <1>3, <1>4 DEF SystemOK

\* A run that has ended.
LEMMA IdleRun ==
  ASSUME ChainTypeOK', script' = Idle, notional' = Empty
  PROVE  RunOK'
  <1>1. Empty \in Memory
    BY DEF Empty, Memory, None, Code, Artifacts
  <1>2. Known(notional)'
    BY <1>1 DEF Known, Empty, ChainTypeOK
  <1>3. ScriptTypeOK' /\ script'.program = "none"
    BY IdleTypes DEF ScriptTypeOK, Runs
  <1>4. DeployedSoFar' /\ UpgradesSaved'
    BY <1>3 DEF DeployedSoFar, UpgradesSaved, Deploying, Upgrading
  <1> QED
    BY <1>2, <1>3, <1>4 DEF RunOK

\* A run that is cut short leaves the rest alone.
LEMMA QuitInvariant ==
  ASSUME IInv, NEW upgraded, Quit(upgraded), UNCHANGED <<chain, leftToOwner>>
  PROVE  IInv'
  <1>1. SystemOK'
    BY SystemSame DEF IInv, SystemOK, Quit
  <1>2. RunOK'
    BY <1>1, IdleRun DEF SystemOK, Quit
  <1> QED
    BY <1>1, <1>2 DEF IInv

\* What is saved of the object.
LEMMA SavedMemory ==
  ASSUME NEW memory, Known(memory)', NEW saved, saved = [memory EXCEPT !.logic = 0], ChainTypeOK'
  PROVE  /\ Known(saved)' /\ saved.proxyAdmin = memory.proxyAdmin
         /\ saved.cashMarketLogic = memory.cashMarketLogic
         /\ saved.hashes = memory.hashes /\ saved.libraries = memory.libraries
  <1>1. memory \in Memory
    BY DEF Known
  <1>2. saved \in Memory /\ saved.logic = 0 /\ saved.libraries = memory.libraries
        /\ saved.cashMarketLogic = memory.cashMarketLogic /\ saved.proxyAdmin = memory.proxyAdmin
        /\ saved.hashes = memory.hashes
    BY <1>1 DEF Memory
  <1> QED
    BY <1>2 DEF Known, ChainTypeOK

\* A logic contract left to the admin's owner is one of the chain's.
LEMMA LeftStays ==
  ASSUME ChainTypeOK, ChainTypeOK', ChainGrows, leftToOwner \in [Proxies -> 0 .. Len(code)]
  PROVE  leftToOwner \in [Proxies -> 0 .. Len(code')]
  <1>1. Len(code) \in Nat /\ Len(code') \in Nat /\ Len(code) <= Len(code')
    BY DEF ChainTypeOK, ChainGrows
  <1>2. \A m, n \in Nat : m <= n => 0 .. m \subseteq 0 .. n
    OBVIOUS
  <1>3. 0 .. Len(code) \subseteq 0 .. Len(code')
    BY <1>1, <1>2
  <1> QED
    BY <1>3

----------------------------------------------------------------------------
\* A request of deploy.ts has been mined; if it was the last one but the hand-over, the file is written.
LEMMA DeploySystem ==
  ASSUME IInv, Deploying, NEW k, k = script.step, NEW a, a = notional.proxyAdmin,
         Permitted(Sends, script.wallet), Apply(Sends, script.wallet),
         UNCHANGED <<build, deploys, upgrades, leftToOwner>>,
         NEW old, old = file, NEW memory, memory = file',
         \/ memory = old
         \/ k = 47 /\ memory.proxyAdmin = a /\ Known(memory)' /\ memory.cashMarketLogic # 0
  PROVE  SystemOK' /\ (Saved' <=> k > 46 /\ (k = 47 => memory # old))
  <1>1. /\ k \in 1 .. 56 /\ Sends = Request(DeployMain[k]) /\ WellFormed(Sends)
        /\ script.wallet = Deployer /\ DeployGoes(k, a)
    BY DeployChain
  <1>2. /\ ChainTypeOK' /\ ChainGrows /\ NothingBeforeDirectory' /\ ProxiesShareAdmin'
        /\ k > 5 => Built(k + 1, a)'
        /\ \A x \in DOMAIN adminOwner' : adminOwner'[x] # Deployer => k = 56
    BY <1>1 DEF DeployGoes
  <1>3. /\ ChainTypeOK /\ Known(file) /\ Known(notional) /\ SavedIsBuilt /\ LeftWhenSaved
        /\ leftToOwner \in [Proxies -> 0 .. Len(code)]
        /\ Saved <=> k > 47
        /\ k > 47 => file.proxyAdmin = a
        /\ k > 4 => a # 0
    BY DEF IInv, SystemOK, RunOK, DeployedSoFar, SaveStep
  <1>4. Known(file)'
    <2>1. memory = old => Known(memory)'
      BY <1>2, <1>3, KnownStays
    <2>2. Known(memory)'
      BY <2>1
    <2> QED
      BY <2>2 DEF Known
  <1>5. leftToOwner' \in [Proxies -> 0 .. Len(code')]
    BY <1>2, <1>3, LeftStays
  <1>6. k >= 47 => Built(48, a)'
    <2> SUFFICES ASSUME k >= 47 PROVE Built(48, a)'
      OBVIOUS
    <2>1. k + 1 \in 48 .. 57 /\ Built(k + 1, a)'
      BY <1>1, <1>2
    <2> QED
      BY <2>1, BuiltStays
  <1>7. k = 56 => \A p \in Proxies : owner'[p] = NewOwner
    <2> SUFFICES ASSUME k = 56 PROVE \A p \in Proxies : owner'[p] = NewOwner
      OBVIOUS
    <2>1. Built(57, a)'
      BY <1>2
    <2>2. \A p \in Proxies : OwnerStep[p] < 57
      BY Places
    <2> QED
      BY <2>1, <2>2 DEF Built, OwnersBefore
  <1>8. /\ Saved' <=> k > 46 /\ (k = 47 => memory # old)
        /\ Saved' => k >= 47 /\ memory.proxyAdmin = a /\ memory.cashMarketLogic # 0
    <2>1. CASE memory = old
      <3>1. Saved' <=> k > 47
        BY <1>3, <2>1 DEF Saved
      <3>2. k > 47 => memory.proxyAdmin = a /\ memory.cashMarketLogic # 0
        BY <1>3, <2>1 DEF SavedIsBuilt
      <3> QED
        BY <1>1, <2>1, <3>1, <3>2
    <2>2. CASE memory # old
      <3>1. k = 47 /\ memory.proxyAdmin = a /\ memory.cashMarketLogic # 0 /\ a # 0
        BY <1>3, <2>2
      <3>2. Saved'
        BY <3>1 DEF Saved
      <3> QED
        BY <2>2, <3>1, <3>2
    <2> QED
      BY <2>1, <2>2
  <1>9. SavedIsBuilt'
    <2>1. Saved' => Built(48, a)' /\ file'.proxyAdmin = a /\ file'.cashMarketLogic # 0
      BY <1>6, <1>8
    <2> QED
      BY <2>1 DEF SavedIsBuilt, SaveStep, Built, ProxiesBefore, OwnersBefore, WiringBefore,
                  SettingsBefore, MarketsBefore
  <1>10. AdminsMoveLast' /\ LeftWhenSaved'
    <2>1. k = 56 => Saved'
      BY <1>8
    <2>2. Saved => Saved'
      <3>1. k > 47 => k > 46 /\ k # 47
        BY <1>1
      <3> QED
        BY <1>3, <1>8, <3>1
    <2> QED
      BY <1>2, <1>3, <1>7, <2>1, <2>2 DEF AdminsMoveLast, LeftWhenSaved
  <1>11. /\ build' \in [Artifacts -> 1 .. MaxVersion]
         /\ deploys' \in 1 .. MaxDeploys /\ upgrades' \in 0 .. MaxUpgrades
    BY DEF IInv, SystemOK
  <1> QED
    BY <1>2, <1>4, <1>5, <1>8, <1>9, <1>10, <1>11 DEF SystemOK

\* How the run of deploy.ts goes on after its request k, and what kind of request that was.
LEMMA DeploySends ==
  ASSUME IInv, Deploying, NEW k, k = script.step
  PROVE  /\ k \in 1 .. 56 /\ Sends = Request(DeployMain[k])
         /\ Sends.op # "upgrade" /\ LeftAfter(Sends) = leftToOwner
         /\ Sends.op = "save" <=> k = 47
         /\ Sends.op = "create" <=> k \in {1, 2, 3, 5, 7, 9, 11, 13}
         /\ k = 3 => Sends.on = "CashMarket"
         /\ Sends.op = "createAdmin" <=> k = 4
         /\ k = 56 => Advanced = Idle
         /\ k # 56 => Advanced = [script EXCEPT !.step = @ + 1] /\ Advanced # Idle
  <1>1. k \in 1 .. 56 /\ script.program = "deploy"
    BY DEF IInv, RunOK, ScriptTypeOK, Runs, DeployedSoFar, Deploying
  <1>2. Sends = Request(DeployMain[k])
    BY DEF Sends, Deploying
  <1> DEFINE step == DeployMain[k]
             tx == Request(step)
  <1>3. Scheduled(k, tx) /\ tx.op = IF step.op = "transferGroup" THEN "transferOwnership" ELSE step.op
    BY <1>1, RequestScheduled
  <1>4. /\ step.op = "create" <=> k \in {1, 2, 3, 5, 7, 9, 11, 13}
        /\ step.op = "createAdmin" <=> k = 4
        /\ step.op = "save" <=> k = 47
        /\ k = 3 => step = Do("create", "CashMarket")
    BY <1>1, MainPlaces
  <1>5. k = 3 => tx.on = "CashMarket"
    BY <1>4, CreateRequest
  <1> HIDE DEF step, tx
  <1>6. tx.op # "upgrade"
    BY <1>3 DEF Scheduled
  <1>7. LeftAfter(tx) = leftToOwner
    BY <1>1, <1>6 DEF LeftAfter, LeavesToOwner
  <1>8. /\ k = 56 => Advanced = Idle
        /\ k # 56 => Advanced = [script EXCEPT !.step = @ + 1]
    BY <1>1, MainLength DEF Advanced
  <1>9. [script EXCEPT !.step = @ + 1] # Idle
    <2>1. [script EXCEPT !.step = @ + 1].program = "deploy"
      BY <1>1 DEF IInv, RunOK, ScriptTypeOK, Runs
    <2> QED
      BY <2>1, IdleTypes
  <1>10. /\ tx.op = "save" <=> k = 47
         /\ tx.op = "create" <=> k \in {1, 2, 3, 5, 7, 9, 11, 13}
         /\ tx.op = "createAdmin" <=> k = 4
    BY <1>3, <1>4
  <1> QED
    BY <1>1, <1>2, <1>5, <1>6, <1>7, <1>8, <1>9, <1>10 DEF tx, step

\* The run of deploy.ts has one more request behind it, and the object remembers its contract.
LEMMA DeployRun ==
  ASSUME IInv, Deploying, NEW k, k = script.step, k # 56, NEW a, a = notional.proxyAdmin,
         Permitted(Sends, script.wallet), Apply(Sends, script.wallet),
         NEW memory, memory = Remembering(Sends), notional' = memory,
         NEW upgraded \in BOOLEAN,
         script' = [Advanced EXCEPT !.failed = 0, !.upgraded = upgraded],
         Saved' <=> k > 46, k = 47 => file'.proxyAdmin = a, k # 47 => file' = file
  PROVE  RunOK'
  <1>1. /\ k \in 1 .. 55 /\ Sends = Request(DeployMain[k])
        /\ Advanced = [script EXCEPT !.step = @ + 1]
        /\ Sends.op = "create" <=> k \in {1, 2, 3, 5, 7, 9, 11, 13}
        /\ k = 3 => Sends.on = "CashMarket"
        /\ Sends.op = "createAdmin" <=> k = 4
    BY DeploySends
  <1>2. WellFormed(Sends) /\ script.wallet = Deployer /\ DeployGoes(k, a)
    BY DeployChain
  <1>3. Known(memory)' /\ Remembers(memory, Sends)
    BY <1>2, Remembered DEF IInv, SystemOK, RunOK, Accounts
  <1>4. /\ ScriptTypeOK' /\ script'.step = k + 1 /\ script'.wallet = Deployer /\ script'.program = "deploy"
    <2>1. script \in Runs
      BY DEF IInv, RunOK, ScriptTypeOK
    <2>2. 0 \in 0 .. Attempts - 1 /\ script.step + 1 \in Nat \ {0}
      BY <2>1, AttemptsAssumption DEF Runs
    <2>3. script' = [[script EXCEPT !.step = @ + 1] EXCEPT !.failed = 0, !.upgraded = upgraded]
      BY <1>1
    <2> QED
      BY <1>2, <2>1, <2>2, <2>3 DEF ScriptTypeOK, Runs, Deploying
  <1>5. /\ k > 46 => memory.proxyAdmin = a
        /\ memory.logic # 0
        /\ k > 2 => memory.cashMarketLogic # 0
        /\ k > 3 => memory.proxyAdmin # 0
        /\ k > 5 => memory.proxyAdmin = a
    <2>1. /\ k > 1 => notional.logic # 0
          /\ k > 3 => notional.cashMarketLogic # 0
          /\ k > 4 => a # 0
      BY DEF IInv, RunOK, DeployedSoFar
    <2>2. Len(code) \in Nat /\ Len(adminOwner) \in Nat
      BY DEF IInv, SystemOK, ChainTypeOK
    <2>3. /\ memory.proxyAdmin = IF k = 4 THEN Len(adminOwner) + 1 ELSE a
          /\ memory.logic = IF Sends.op = "create" THEN Len(code) + 1 ELSE notional.logic
          /\ memory.cashMarketLogic = IF Sends.op = "create" /\ Sends.on = "CashMarket" THEN Len(code) + 1
                                      ELSE notional.cashMarketLogic
      BY <1>1, <1>3 DEF Remembers
    <2>4. memory.logic # 0
      <3>1. k = 1 => Sends.op = "create"
        BY <1>1
      <3>2. k = 1 \/ k > 1
        BY <1>1
      <3> QED
        BY <2>1, <2>2, <2>3, <3>1, <3>2
    <2>5. k > 2 => memory.cashMarketLogic # 0
      <3>1. k = 3 => Sends.op = "create" /\ Sends.on = "CashMarket"
        BY <1>1
      <3>2. k > 2 => k = 3 \/ k > 3
        BY <1>1
      <3> QED
        BY <2>1, <2>2, <2>3, <3>1, <3>2
    <2>6. k > 3 => memory.proxyAdmin # 0
      <3>1. k > 3 => k = 4 \/ k > 4
        BY <1>1
      <3> QED
        BY <2>1, <2>2, <2>3, <3>1
    <2>7. k > 5 => memory.proxyAdmin = a
      BY <2>3
    <2> QED
      BY <1>1, <2>4, <2>5, <2>6, <2>7
  <1>6. /\ k > 47 => file.proxyAdmin = a
    BY DEF IInv, RunOK, DeployedSoFar, SaveStep
  <1>7. DeployedSoFar'
    <2>1. \A x \in DOMAIN adminOwner' : adminOwner'[x] = Deployer
      BY <1>1, <1>2 DEF DeployGoes
    <2>2. k > 5 => Built(k + 1, a)'
      BY <1>2 DEF DeployGoes
    <2>3. k + 1 > 6 => Built(script.step, notional.proxyAdmin)'
      <3>1. SUFFICES ASSUME k > 5 PROVE Built(script.step, notional.proxyAdmin)'
        BY <1>1
      <3>2. script'.step = k + 1 /\ notional'.proxyAdmin = a /\ Built(k + 1, a)'
        BY <1>4, <1>5, <2>2, <3>1
      <3> QED
        BY ONLY <3>2 DEF Built, ProxiesBefore, OwnersBefore, WiringBefore, SettingsBefore, MarketsBefore
    <2>4. k + 1 > 47 => file'.proxyAdmin = notional'.proxyAdmin
      BY <1>1, <1>5, <1>6
    <2>5. /\ k + 1 > 3 => notional'.cashMarketLogic # 0
          /\ k + 1 > 4 => notional'.proxyAdmin # 0
          /\ notional'.logic # 0
          /\ Saved' <=> k + 1 > 47
          /\ k + 1 <= 56
      BY <1>1, <1>5
    <2> QED
      BY <1>4, <2>1, <2>3, <2>4, <2>5 DEF DeployedSoFar, SaveStep
  <1>8. UpgradesSaved'
    BY <1>4 DEF UpgradesSaved, Upgrading
  <1>9. Known(notional)'
    BY <1>3 DEF Known
  <1> QED
    BY <1>4, <1>7, <1>8, <1>9 DEF RunOK

\* deploy.ts goes on when its request has been mined and answered.
LEMMA DeployAnswered ==
  ASSUME IInv, Deploying, Answered
  PROVE  IInv'
  <1>0. PICK k, a : k = script.step /\ a = notional.proxyAdmin
    OBVIOUS
  <1>1. /\ k \in 1 .. 56 /\ LeftAfter(Sends) = leftToOwner
        /\ Sends.op = "save" <=> k = 47
        /\ k = 56 <=> Advanced = Idle
        /\ Sends.op = "save" => Sends.op \notin {"create", "createAdmin"}
    BY <1>0, DeploySends
  <1>2. /\ Permitted(Sends, script.wallet) /\ Apply(Sends, script.wallet)
        /\ notional' = IF k = 56 THEN Empty ELSE Remembering(Sends)
        /\ IF k = 47 THEN file' = [notional EXCEPT !.logic = 0] ELSE file' = file
        /\ script' = IF k = 56 THEN Idle
               ELSE [Advanced EXCEPT !.failed = 0, !.upgraded = @ \/ Upgrades]
        /\ leftToOwner' = leftToOwner
        /\ UNCHANGED <<build, deploys, upgrades, leftToOwner>>
    BY <1>1 DEF Answered, SaveAddresses
  <1>3. PICK old, memory : old = file /\ memory = file'
    OBVIOUS
  <1>4. DeployGoes(k, a) /\ WellFormed(Sends) /\ script.wallet = Deployer
    BY <1>0, <1>2, DeployChain
  <1>5. k = 47 => memory.proxyAdmin = a /\ Known(memory)' /\ memory.cashMarketLogic # 0 /\ a # 0
    <2> SUFFICES ASSUME k = 47 PROVE memory.proxyAdmin = a /\ Known(memory)' /\ memory.cashMarketLogic # 0 /\ a # 0
      OBVIOUS
    <2>1. PICK m : m = notional
      OBVIOUS
    <2>2. memory = [m EXCEPT !.logic = 0]
      BY <1>2, <1>3, <2>1
    <2>3. Known(m)' /\ ChainTypeOK'
      BY <1>4, <2>1, KnownStays DEF DeployGoes, IInv, SystemOK, RunOK
    <2>4. Known(memory)' /\ memory.proxyAdmin = m.proxyAdmin /\ memory.cashMarketLogic = m.cashMarketLogic
      BY <2>2, <2>3, SavedMemory
    <2>5. notional.cashMarketLogic # 0 /\ a # 0
      BY <1>0 DEF IInv, RunOK, DeployedSoFar
    <2> QED
      BY <1>0, <2>1, <2>4, <2>5
  <1>6. SystemOK' /\ (Saved' <=> k > 46 /\ (k = 47 => memory # old))
    <2>1. memory = old \/ (k = 47 /\ memory.proxyAdmin = a /\ Known(memory)' /\ memory.cashMarketLogic # 0)
      BY <1>2, <1>3, <1>5
    <2> QED
      BY <1>0, <1>2, <1>3, <2>1, DeploySystem
  <1>7. k = 47 => memory # old
    <2>1. k = 47 => ~Saved
      BY <1>0 DEF IInv, RunOK, DeployedSoFar, SaveStep
    <2> QED
      BY <1>3, <1>5, <2>1 DEF Saved
  <1>8. CASE k = 56
    <2>1. RunOK'
      BY <1>2, <1>6, <1>8, IdleRun DEF SystemOK
    <2> QED
      BY <1>6, <2>1 DEF IInv
  <1>9. CASE k # 56
    <2>1. PICK r, upgraded : r = Remembering(Sends) /\ upgraded = (Advanced.upgraded \/ Upgrades)
      OBVIOUS
    <2>2. script' = [Advanced EXCEPT !.failed = 0, !.upgraded = upgraded]
      BY <1>2, <1>9, <2>1
    <2>3. upgraded \in BOOLEAN
      BY <2>1
    <2>4. RunOK'
      BY <1>0, <1>1, <1>2, <1>3, <1>5, <1>6, <1>7, <1>9, <2>1, <2>2, <2>3, DeployRun
    <2> QED
      BY <1>6, <2>4 DEF IInv
  <1> QED
    BY <1>8, <1>9

\* deploy.ts dies after its request has been mined: only what it remembered is lost.
LEMMA DeployKilled ==
  ASSUME IInv, Deploying, Permitted(Sends, script.wallet), Apply(Sends, script.wallet),
         leftToOwner' = LeftAfter(Sends), NEW upgraded, Quit(upgraded)
  PROVE  IInv'
  <1>0. PICK k, a : k = script.step /\ a = notional.proxyAdmin
    OBVIOUS
  <1>1. LeftAfter(Sends) = leftToOwner
    BY <1>0, DeploySends
  <1>2. PICK old, memory : old = file /\ memory = file'
    OBVIOUS
  <1>3. memory = old /\ UNCHANGED <<build, deploys, upgrades, leftToOwner>>
    BY <1>1, <1>2 DEF Quit
  <1>4. SystemOK'
    BY <1>0, <1>2, <1>3, DeploySystem
  <1>5. RunOK'
    BY <1>4, IdleRun DEF SystemOK, Quit
  <1> QED
    BY <1>4, <1>5 DEF IInv

\* An upgrade's request has been mined, or its run has saved the object.
LEMMA UpgradeSystem ==
  ASSUME IInv, Upgrading, NEW tx, Upgrade(tx), Apply(tx, script.wallet), leftToOwner' = LeftAfter(tx),
         UNCHANGED <<build, deploys, upgrades>>,
         NEW old, old = file, NEW memory, memory = file',
         memory # old => memory.proxyAdmin = old.proxyAdmin /\ Known(memory)' /\ memory.cashMarketLogic # 0
  PROVE  SystemOK' /\ Saved' /\ ChainGrows /\ cashGroups' = cashGroups /\ WellFormed(tx)
  <1>1. /\ SystemOK /\ RunOK /\ ChainTypeOK /\ Known(file) /\ SavedIsBuilt /\ ScriptTypeOK /\ Known(notional)
        /\ leftToOwner \in [Proxies -> 0 .. Len(code)] /\ TypeOK /\ script.wallet \in Accounts
    BY TypeHolds DEF IInv, SystemOK, RunOK, ScriptTypeOK, Runs
  <1>2. /\ Saved /\ file.proxyAdmin # 0 /\ notional.cashMarketLogic # 0
        /\ script.stage \in {"owner", "upgrade"} /\ ~AllDone => NewLogic(Target) # 0
    BY <1>1 DEF RunOK, UpgradesSaved, Saved
  <1>3. WellFormed(tx) /\ tx.op \in Reads \cup {"create", "upgrade"} /\ (tx.op = "upgrade" => tx.logic # 0)
    BY <1>1, <1>2, UpgradeWellFormed DEF Upgrade
  <1>4. ChainTypeOK' /\ ChainGrows
    BY <1>1, <1>3, ChainTypes
  <1>5. PICK a : a = file.proxyAdmin
    OBVIOUS
  <1>6. Built(48, a)
    BY <1>1, <1>2, <1>5 DEF SavedIsBuilt, SaveStep
  <1>7. /\ Built(48, a)'
        /\ owner' = owner /\ adminOwner' = adminOwner /\ admin' = admin /\ cashGroups' = cashGroups
    BY <1>1, <1>3, <1>6, UpgradeKeepsBuilt
  <1>8. /\ Known(memory)' /\ memory.proxyAdmin = a /\ memory.cashMarketLogic # 0
    <2>1. CASE memory = old
      <3>1. Known(memory)'
        BY <1>1, <1>4, <2>1, KnownStays
      <3>2. memory.proxyAdmin = a /\ memory.cashMarketLogic # 0
        BY <1>1, <1>2, <1>5, <2>1 DEF SavedIsBuilt
      <3> QED
        BY <3>1, <3>2
    <2>2. CASE memory # old
      BY <1>5, <2>2
    <2> QED
      BY <2>1, <2>2
  <1>9. Saved' /\ Known(file)'
    BY <1>2, <1>5, <1>8 DEF Saved, Known
  <1>10. SavedIsBuilt'
    BY <1>7, <1>8 DEF SavedIsBuilt, SaveStep, Built, ProxiesBefore, OwnersBefore, WiringBefore,
                  SettingsBefore, MarketsBefore
  <1>11. NothingBeforeDirectory' /\ ProxiesShareAdmin'
    <2>1. 48 \in 7 .. 57
      OBVIOUS
    <2> QED
      BY <1>4, <1>7, <2>1, BuiltShares
  <1>12. AdminsMoveLast' /\ LeftWhenSaved'
    BY <1>1, <1>2, <1>7, <1>9 DEF SystemOK, AdminsMoveLast, LeftWhenSaved
  <1>13. leftToOwner' \in [Proxies -> 0 .. Len(code')]
    <2>1. leftToOwner \in [Proxies -> 0 .. Len(code')]
      BY <1>1, <1>4, LeftStays
    <2>2. /\ NewLogic(Target) \in 0 .. Len(code') /\ 0 \in 0 .. Len(code')
      <3>1. Len(code) \in Nat /\ Len(code') \in Nat /\ Len(code) <= Len(code')
        BY <1>1, <1>4 DEF ChainTypeOK, ChainGrows
      <3>2. /\ notional.cashMarketLogic \in Nat /\ notional.cashMarketLogic <= Len(code)
            /\ notional.logic \in Nat /\ notional.logic <= Len(code)
        BY <1>1 DEF Known, Memory
      <3>3. NewLogic(Target) \in Nat /\ NewLogic(Target) <= Len(code)
        BY <3>2 DEF NewLogic
      <3> QED
        BY ONLY <3>1, <3>3
    <2> QED
      BY <2>1, <2>2 DEF LeftAfter
  <1>14. /\ build' \in [Artifacts -> 1 .. MaxVersion]
         /\ deploys' \in 1 .. MaxDeploys /\ upgrades' \in 0 .. MaxUpgrades
    BY <1>1 DEF SystemOK
  <1> QED
    BY <1>3, <1>4, <1>7, <1>9, <1>10, <1>11, <1>12, <1>13, <1>14 DEF SystemOK

\* What follows a stage.
LEMMA StageFollows ==
  ASSUME ScriptTypeOK
  PROVE  /\ StageAfter \in Stages \cup {"done"}
         /\ StageAfter \in {"owner", "upgrade"} /\ Target # "CashMarket" =>
              \/ script.stage = "check" /\ StageAfter = "owner" /\ UpgradeCheckCodeHash(Target) /\ ~script.dryRun
              \/ script.stage = "owner" /\ StageAfter = "upgrade"
  <1>1. script.stage \in Stages
    BY DEF ScriptTypeOK, Runs
  <1>2. CASE Target \in Libraries
    BY <1>2, StageAfterIs
  <1>3. CASE Target \notin Libraries /\ OnMarket
    <2>1. StageAfter = AfterUpgradeCashMarket(Proxy, script.stage, script.wallet, script.dryRun)
      BY <1>3, StageAfterIs
    <2>2. CASE script.stage = "check"
      BY <1>3, <2>1, <2>2, AfterUpgradeCashMarketIs DEF Stages, OnMarket
    <2>3. CASE script.stage = "compare"
      <3>1. StageAfter = IF implementation[Proxy] # notional.cashMarketLogic THEN "owner" ELSE "done"
        BY <2>1, <2>3, AfterUpgradeCashMarketIs
      <3> QED
        BY <1>3, <3>1 DEF Stages, OnMarket
    <2>4. CASE script.stage \notin {"check", "compare"}
      <3>1. StageAfter = AfterUpgradeProxy(script.stage, script.wallet, script.dryRun)
        BY <2>1, <2>4, AfterUpgradeCashMarketIs
      <3> QED
        BY <1>3, <3>1 DEF Stages, OnMarket, AfterUpgradeProxy
    <2> QED
      BY <2>2, <2>3, <2>4
  <1>4. CASE Target \notin Libraries /\ ~OnMarket
    <2>1. StageAfter = AfterUpgradeContract(Target, script.stage, script.wallet, script.dryRun)
      BY <1>4, StageAfterIs
    <2> QED
      BY <2>1 DEF AfterUpgradeContract, AfterUpgradeProxy, Stages
  <1> QED
    BY <1>2, <1>3, <1>4

\* The same contracts are still to come.
LEMMA SameTargets ==
  ASSUME script'.step = script.step, script'.targets = script.targets
  PROVE  Targets' = Targets /\ AllDone' = AllDone /\ Target' = Target
  BY DEF Targets, AllDone, Target, UpgradeMain

\* The run of upgrade.ts goes on with what it remembers.
LEMMA UpgradeRun ==
  ASSUME IInv, Upgrading, NEW tx, Upgrade(tx), Apply(tx, script.wallet), WellFormed(tx),
         ~AllDone, ChainTypeOK', Saved', cashGroups' = cashGroups, file' = file,
         NEW memory, memory = Remembering(tx), notional' = memory,
         NEW upgraded \in BOOLEAN,
         script' = [UpgradeAdvanced EXCEPT !.failed = 0, !.upgraded = upgraded]
  PROVE  RunOK'
  <1>1. /\ ScriptTypeOK /\ Known(notional) /\ ChainTypeOK /\ script.wallet \in Accounts
        /\ notional.proxyAdmin = file.proxyAdmin /\ notional.cashMarketLogic # 0
        /\ script.group <= Len(cashGroups)
        /\ script.stage \in {"owner", "upgrade"} => NewLogic(Target) # 0
    BY DEF IInv, SystemOK, RunOK, ScriptTypeOK, Runs, UpgradesSaved
  <1>2. Known(memory)' /\ Remembers(memory, tx)
    BY <1>1, Remembered
  <1>3. /\ memory.proxyAdmin = file.proxyAdmin /\ memory.cashMarketLogic # 0
        /\ tx.op = "create" => memory.logic # 0
        /\ tx.op # "create" => memory.logic = notional.logic
    <2>1. Len(code) \in Nat /\ tx.op # "createAdmin"
      BY <1>1 DEF ChainTypeOK, Upgrade, Reads
    <2> QED
      BY <1>1, <1>2, <2>1 DEF Remembers
  <1>4. Known(notional)'
    BY <1>2 DEF Known
  <1>5. script \in Runs
    BY <1>1 DEF ScriptTypeOK, Runs
  <1>6. 0 \in 0 .. Attempts - 1 /\ "check" \in Stages /\ script.program = "upgrade"
    BY AttemptsAssumption DEF Stages, Upgrading
  <1>7. CASE StageAfter # "done"
    <2>1. UpgradeAdvanced = [script EXCEPT !.stage = StageAfter]
      BY <1>7 DEF UpgradeAdvanced
    <2>2. StageAfter \in Stages
      BY <1>1, <1>7, StageFollows
    <2>3. /\ ScriptTypeOK' /\ script'.program = "upgrade" /\ script'.stage = StageAfter
          /\ script'.group = script.group /\ script'.step = script.step /\ script'.targets = script.targets
      BY <1>5, <1>6, <2>1, <2>2 DEF ScriptTypeOK, Runs
    <2>4. script'.stage \in {"owner", "upgrade"} => NewLogic(Target)' # 0
      <3>1. Target' = Target
        BY <2>3, SameTargets
      <3>2. CASE Target = "CashMarket"
        BY <1>3, <3>1, <3>2 DEF NewLogic
      <3>3. CASE Target # "CashMarket"
        <4> SUFFICES ASSUME StageAfter \in {"owner", "upgrade"} PROVE memory.logic # 0
          BY <2>3, <3>1, <3>3 DEF NewLogic
        <4>1. CASE script.stage = "check" /\ UpgradeCheckCodeHash(Target) /\ ~script.dryRun
          BY <1>3, <4>1 DEF Upgrade
        <4>2. CASE script.stage = "owner"
          <5>1. Target \notin Libraries
            BY <1>7, StageAfterIs
          <5>2. tx.op # "create"
            BY <4>2, <5>1 DEF Upgrade
          <5>3. notional.logic # 0
            BY <1>1, <3>3, <4>2 DEF NewLogic
          <5> QED
            BY <1>3, <5>2, <5>3
        <4> QED
          BY <1>1, <3>3, <4>1, <4>2, StageFollows
      <3> QED
        BY <3>2, <3>3
    <2> QED
      BY <1>1, <1>3, <1>4, <2>3, <2>4 DEF RunOK, DeployedSoFar, UpgradesSaved, Deploying
  <1>8. CASE StageAfter = "done" /\ OnMarket /\ script.group < Len(cashGroups)
    <2>1. UpgradeAdvanced = [script EXCEPT !.stage = "check", !.group = @ + 1]
      BY <1>8 DEF UpgradeAdvanced
    <2>2. script.group + 1 \in Nat \ {0} /\ script.group + 1 <= Len(cashGroups)
      <3>1. script.group \in Nat /\ Len(cashGroups) \in Nat
        BY <1>1, <1>5 DEF ChainTypeOK, Runs
      <3> QED
        BY <1>8, <3>1
    <2>3. /\ ScriptTypeOK' /\ script'.program = "upgrade" /\ script'.stage = "check"
          /\ script'.group = script.group + 1
      BY <1>5, <1>6, <2>1, <2>2 DEF ScriptTypeOK, Runs
    <2> QED
      BY <1>1, <1>3, <1>4, <2>2, <2>3 DEF RunOK, DeployedSoFar, UpgradesSaved, Deploying
  <1>9. CASE StageAfter = "done" /\ ~(OnMarket /\ script.group < Len(cashGroups))
    <2>1. UpgradeAdvanced = [script EXCEPT !.stage = "check", !.group = 1, !.step = Min(Targets) + 1]
      BY <1>9 DEF UpgradeAdvanced
    <2>2. Min(Targets) + 1 \in Nat \ {0} /\ 1 \in Nat \ {0}
      BY <1>1, TargetFacts
    <2>3. /\ ScriptTypeOK' /\ script'.program = "upgrade" /\ script'.stage = "check"
          /\ script'.group = 1
      BY <1>5, <1>6, <2>1, <2>2 DEF ScriptTypeOK, Runs
    <2>4. 1 <= Len(cashGroups)
      BY <1>1, <1>5 DEF ChainTypeOK, Runs
    <2> QED
      BY <1>1, <1>3, <1>4, <2>3, <2>4 DEF RunOK, DeployedSoFar, UpgradesSaved, Deploying
  <1> QED
    BY <1>7, <1>8, <1>9

\* upgrade.ts goes on when its request has been mined and answered.
LEMMA UpgradeAnswered ==
  ASSUME IInv, Upgrading, Answered
  PROVE  IInv'
  <1>0. PICK tx, old, memory, m, r : /\ tx = UpgradeSends /\ old = file /\ memory = file'
                                     /\ m = notional /\ r = Remembering(tx)
    OBVIOUS
  <1>1. /\ Sends = tx /\ Upgrade(tx) /\ Advanced = UpgradeAdvanced
    BY <1>0, UpgradeKinds DEF Sends, Upgrading, Advanced
  <1>2. /\ Apply(tx, script.wallet) /\ leftToOwner' = LeftAfter(tx)
        /\ notional' = IF UpgradeAdvanced = Idle THEN Empty ELSE r
        /\ IF tx.op = "save" THEN file' = [notional EXCEPT !.logic = 0] ELSE file' = file
        /\ script' = IF UpgradeAdvanced = Idle THEN Idle
               ELSE [UpgradeAdvanced EXCEPT !.failed = 0, !.upgraded = @ \/ Upgrades]
        /\ UNCHANGED <<build, deploys, upgrades>>
    BY <1>0, <1>1 DEF Answered, SaveAddresses
  <1>3. /\ Known(notional) /\ ChainTypeOK /\ notional.proxyAdmin = file.proxyAdmin /\ notional.cashMarketLogic # 0
        /\ script.wallet \in Accounts /\ ScriptTypeOK /\ TypeOK
    BY TypeHolds DEF IInv, SystemOK, RunOK, ScriptTypeOK, Runs, UpgradesSaved
  <1>4. memory # old => memory.proxyAdmin = old.proxyAdmin /\ Known(memory)' /\ memory.cashMarketLogic # 0
    <2> SUFFICES ASSUME memory # old
                 PROVE  memory.proxyAdmin = old.proxyAdmin /\ Known(memory)' /\ memory.cashMarketLogic # 0
      OBVIOUS
    <2>1. memory = [m EXCEPT !.logic = 0] /\ tx.op = "save"
      BY <1>0, <1>2
    <2>2. WellFormed(tx)
      BY <1>1, <1>3, UpgradeWellFormed
    <2>3. ChainTypeOK' /\ ChainGrows
      BY <1>2, <1>3, <2>2, ChainTypes
    <2>4. Known(m)'
      BY <1>0, <1>3, <2>3, KnownStays
    <2>5. Known(memory)' /\ memory.proxyAdmin = m.proxyAdmin /\ memory.cashMarketLogic = m.cashMarketLogic
      BY <2>1, <2>3, <2>4, SavedMemory
    <2> QED
      BY <1>0, <1>3, <2>5
  <1>5. SystemOK' /\ Saved' /\ cashGroups' = cashGroups /\ WellFormed(tx)
    BY <1>0, <1>1, <1>2, <1>4, UpgradeSystem
  <1>6. CASE AllDone
    <2>1. UpgradeAdvanced = Idle
      BY <1>6 DEF UpgradeAdvanced
    <2>2. RunOK'
      BY <1>2, <1>5, <2>1, IdleRun DEF SystemOK
    <2> QED
      BY <1>5, <2>2 DEF IInv
  <1>7. CASE ~AllDone
    <2>1. UpgradeAdvanced.program = "upgrade" /\ UpgradeAdvanced # Idle
      <3>1. /\ [script EXCEPT !.stage = StageAfter].program = "upgrade"
            /\ [script EXCEPT !.stage = "check", !.group = @ + 1].program = "upgrade"
            /\ [script EXCEPT !.stage = "check", !.group = 1, !.step = Min(Targets) + 1].program = "upgrade"
        BY <1>3 DEF ScriptTypeOK, Runs, Upgrading
      <3>2. UpgradeAdvanced.program = "upgrade"
        BY <1>7, <3>1 DEF UpgradeAdvanced
      <3> QED
        BY <3>2, IdleTypes
    <2>2. PICK upgraded : upgraded = (UpgradeAdvanced.upgraded \/ Upgrades)
      OBVIOUS
    <2>3. upgraded \in BOOLEAN
      BY <2>2
    <2>4. script' = [UpgradeAdvanced EXCEPT !.failed = 0, !.upgraded = upgraded]
      BY <1>2, <2>1, <2>2
    <2>5. notional' = r
      BY <1>2, <2>1
    <2>6. file' = file
      BY <1>1, <1>2, <1>7 DEF Upgrade
    <2>7. RunOK'
      BY <1>0, <1>1, <1>2, <1>5, <1>7, <2>3, <2>4, <2>5, <2>6, UpgradeRun DEF SystemOK
    <2> QED
      BY <1>5, <2>7 DEF IInv
  <1> QED
    BY <1>6, <1>7

\* upgrade.ts dies after its request has been mined.
LEMMA UpgradeKilled ==
  ASSUME IInv, Upgrading, Apply(Sends, script.wallet), leftToOwner' = LeftAfter(Sends),
         NEW upgraded, Quit(upgraded)
  PROVE  IInv'
  <1>1. PICK tx, old, memory : tx = UpgradeSends /\ old = file /\ memory = file'
    OBVIOUS
  <1>2. /\ Sends = tx /\ Upgrade(tx) /\ memory = old /\ UNCHANGED <<build, deploys, upgrades>>
    BY <1>1, UpgradeKinds DEF Sends, Upgrading, Quit
  <1>3. SystemOK'
    BY <1>1, <1>2, UpgradeSystem
  <1>4. RunOK'
    BY <1>3, IdleRun DEF SystemOK, Quit
  <1> QED
    BY <1>3, <1>4 DEF IInv

\* A refused request is sent again or, when the attempts are used up, ends the run.
LEMMA RateLimitedInvariant ==
  ASSUME IInv, RateLimited
  PROVE  IInv'
  <1>1. CASE script.failed + 1 < Attempts
    <2>1. /\ script' = [script EXCEPT !.failed = @ + 1]
          /\ UNCHANGED <<chain, leftToOwner, notional, build, file, dirty, deploys, upgrades, failures, lost>>
      BY <1>1 DEF RateLimited
    <2>2. SystemOK'
      BY <2>1, SystemSame DEF IInv, SystemOK
    <2>3. script \in Runs
      BY DEF IInv, RunOK, ScriptTypeOK
    <2>4. script.failed + 1 \in 0 .. Attempts - 1
      BY <1>1, <2>3, AttemptsAssumption DEF Runs
    <2>5. /\ ScriptTypeOK'
          /\ script'.program = script.program /\ script'.step = script.step /\ script'.group = script.group
          /\ script'.stage = script.stage /\ script'.wallet = script.wallet /\ script'.targets = script.targets
      BY <2>1, <2>3, <2>4 DEF ScriptTypeOK, Runs
    <2>6. /\ code' = code /\ implementation' = implementation /\ admin' = admin
          /\ adminOwner' = adminOwner /\ owner' = owner /\ cashGroups' = cashGroups
          /\ registered' = registered /\ dependencies' = dependencies /\ listed' = listed /\ rates' = rates
          /\ discount' = discount /\ haircut' = haircut /\ numCurrencies' = numCurrencies
          /\ cashGroup' = cashGroup /\ parameters' = parameters /\ notional' = notional /\ file' = file
      BY <2>1 DEF chain, proxyVars, wiring, settings, marketVars
    <2>7. Known(notional)'
      BY <2>6 DEF IInv, RunOK, Known
    <2>8. DeployedSoFar'
      BY <2>5, <2>6 DEF IInv, RunOK, DeployedSoFar, Deploying, Saved, Built, ProxiesBefore,
                  OwnersBefore, WiringBefore, SettingsBefore, MarketsBefore
    <2>9. Target' = Target /\ AllDone' = AllDone
      BY <2>5, SameTargets
    <2>10. UpgradesSaved'
      BY <2>5, <2>6, <2>9 DEF IInv, RunOK, UpgradesSaved, Upgrading, Saved, NewLogic
    <2> QED
      BY <2>2, <2>5, <2>7, <2>8, <2>10 DEF IInv, RunOK
  <1>2. CASE ~(script.failed + 1 < Attempts)
    BY <1>2, QuitInvariant DEF RateLimited
  <1> QED
    BY <1>1, <1>2

\* A run that is killed leaves the chain and the file as they are.
LEMMA KilledInvariant ==
  ASSUME IInv, Killed
  PROVE  IInv'
  <1>1. CASE UNCHANGED <<chain, leftToOwner>> /\ Quit(script.upgraded)
    BY <1>1, QuitInvariant
  <1>2. CASE /\ Permitted(Sends, script.wallet) /\ Apply(Sends, script.wallet)
             /\ leftToOwner' = LeftAfter(Sends)
             /\ Quit(script.upgraded \/ Upgrades)
    <2>1. Deploying \/ Upgrading
      BY DEF Killed, Running, Deploying, Upgrading, IInv, RunOK, ScriptTypeOK, Runs
    <2>2. PICK upgraded : upgraded = (script.upgraded \/ Upgrades)
      OBVIOUS
    <2>3. Quit(upgraded)
      BY <1>2, <2>2 DEF Quit
    <2> QED
      BY <1>2, <2>1, <2>3, DeployKilled, UpgradeKilled
  <1> QED
    BY <1>1, <1>2 DEF Killed

\* Every step of a running script keeps the invariant.
LEMMA ScriptInvariant ==
  ASSUME IInv, ScriptStep
  PROVE  IInv'
  <1>1. CASE Answered
    <2>1. Deploying \/ Upgrading
      BY <1>1 DEF Answered, Running, Deploying, Upgrading, IInv, RunOK, ScriptTypeOK, Runs
    <2> QED
      BY <1>1, <2>1, DeployAnswered, UpgradeAnswered
  <1>2. CASE Reverted
    BY <1>2, QuitInvariant DEF Reverted
  <1>3. CASE RateLimited
    BY <1>3, RateLimitedInvariant
  <1>4. CASE Killed
    BY <1>4, KilledInvariant
  <1> QED
    BY <1>1, <1>2, <1>3, <1>4 DEF ScriptStep

\* deploy.ts is started again only when there is no file: no admin has been given away then.
LEMMA StartDeployInvariant ==
  ASSUME IInv, StartDeploy
  PROVE  IInv'
  <1>1. deploys' \in 1 .. MaxDeploys
    BY BoundsAssumption DEF StartDeploy, IInv, SystemOK
  <1>2. SystemOK' /\ adminOwner' = adminOwner
    BY <1>1, SystemSame DEF IInv, SystemOK, StartDeploy, chain
  <1>3. /\ ScriptTypeOK' /\ script'.program = "deploy" /\ script'.step = 1 /\ script'.wallet = Deployer
    <2>1. script' = Start("deploy", Deployer, {}, FALSE)
      BY DEF StartDeploy
    <2>2. /\ Start("deploy", Deployer, {}, FALSE) \in Runs
          /\ Start("deploy", Deployer, {}, FALSE).program = "deploy"
          /\ Start("deploy", Deployer, {}, FALSE).step = 1
          /\ Start("deploy", Deployer, {}, FALSE).wallet = Deployer
      BY DeployStarts
    <2> QED
      BY <2>1, <2>2 DEF ScriptTypeOK
  <1>4. ~Saved' /\ \A a \in DOMAIN adminOwner' : adminOwner'[a] = Deployer
    BY <1>2 DEF StartDeploy, Saved, IInv, SystemOK, AdminsMoveLast
  <1>5. DeployedSoFar'
    BY <1>3, <1>4 DEF DeployedSoFar, SaveStep
  <1>6. UpgradesSaved'
    BY <1>3 DEF UpgradesSaved, Upgrading
  <1>7. Known(notional)'
    <2>1. code' = code /\ adminOwner' = adminOwner /\ notional' = notional
      BY DEF StartDeploy, chain
    <2> QED
      BY <2>1 DEF IInv, RunOK, Known
  <1> QED
    BY <1>2, <1>3, <1>5, <1>6, <1>7 DEF IInv, RunOK

\* upgrade.ts starts from the file, which is of a complete system.
LEMMA StartUpgradeInvariant ==
  ASSUME IInv, NEW wallet \in Accounts, NEW targets \in TargetLists, NEW dryRun \in BOOLEAN,
         StartUpgrade(wallet, targets, dryRun)
  PROVE  IInv'
  <1>1. upgrades' \in 0 .. MaxUpgrades
    BY BoundsAssumption DEF StartUpgrade, IInv, SystemOK
  <1>2. SystemOK'
    BY <1>1, SystemSame DEF IInv, SystemOK, StartUpgrade
  <1>3. targets \in SUBSET Artifacts
    BY TargetsAssumption
  <1>4. /\ ScriptTypeOK' /\ script'.program = "upgrade" /\ script'.group = 1 /\ script'.stage = "check"
    <2>1. script' = Start("upgrade", wallet, targets, dryRun)
      BY DEF StartUpgrade
    <2>2. "upgrade" \in {"none", "deploy", "upgrade"}
      OBVIOUS
    <2> DEFINE start == Start("upgrade", wallet, targets, dryRun)
    <2>3. /\ start \in Runs
          /\ start.program = "upgrade" /\ start.group = 1 /\ start.stage = "check"
      BY <1>3, <2>2, StartTypes
    <2> HIDE DEF start
    <2> QED
      BY <2>1, <2>3 DEF ScriptTypeOK, start
  <1>5. DeployedSoFar'
    BY <1>4 DEF DeployedSoFar, Deploying
  <1>6. /\ notional' = file /\ file' = file /\ Saved' /\ cashGroups' = cashGroups
        /\ code' = code /\ adminOwner' = adminOwner /\ Saved
    BY DEF StartUpgrade, RestoreFromFile, Saved, chain, marketVars
  <1>7. Known(notional)'
    BY <1>6 DEF IInv, SystemOK, Known
  <1>8. file.cashMarketLogic # 0 /\ cashGroups = << "DAI1M", "DAI3M", "USDC3M" >>
    BY <1>6 DEF IInv, SystemOK, SavedIsBuilt, SaveStep, Built, MarketsBefore, GroupsBefore
  <1>9. UpgradesSaved'
    BY <1>4, <1>6, <1>8 DEF UpgradesSaved
  <1> QED
    BY <1>2, <1>4, <1>5, <1>7, <1>9 DEF IInv, RunOK

\* Nothing but the build changes, between runs.
LEMMA BetweenRuns ==
  ASSUME IInv, ~Running, UNCHANGED <<chain, notional, file, script, deploys, upgrades, leftToOwner>>,
         build' \in [Artifacts -> 1 .. MaxVersion]
  PROVE  IInv'
  <1>1. SystemOK'
    BY SystemSame DEF IInv, SystemOK
  <1>2. code' = code /\ adminOwner' = adminOwner /\ notional' = notional /\ script' = script
    BY DEF chain
  <1>3. Known(notional)' /\ ScriptTypeOK'
    BY <1>2 DEF IInv, RunOK, Known, ScriptTypeOK, Runs
  <1>4. DeployedSoFar' /\ UpgradesSaved'
    BY <1>2 DEF Running, DeployedSoFar, UpgradesSaved, Deploying, Upgrading
  <1> QED
    BY <1>1, <1>3, <1>4 DEF IInv, RunOK

\* The ProxyAdmin's owner upgrades a proxy to the logic that was left to it.
LEMMA OwnerUpgradesInvariant ==
  ASSUME IInv, NEW p \in Proxies, OwnerUpgrades(p)
  PROVE  IInv'
  <1>1. PICK tx, sender, a, s, r : /\ tx = [op |-> "upgrade", on |-> p, admin |-> admin[p], logic |-> leftToOwner[p]]
                                /\ sender = adminOwner[admin[p]] /\ a = file.proxyAdmin /\ s = script.step
                                /\ r = notional.proxyAdmin
    OBVIOUS
  <1>2. /\ tx.op = "upgrade" /\ tx.on = p /\ tx.logic = leftToOwner[p] /\ leftToOwner[p] # 0
        /\ Apply(tx, sender) /\ leftToOwner' = [leftToOwner EXCEPT ![p] = 0]
        /\ UNCHANGED <<build, notional, file, script, dirty, deploys, upgrades, failures, lost>>
    BY <1>1 DEF OwnerUpgrades
  <1>3. /\ ChainTypeOK /\ Known(file) /\ Known(notional) /\ leftToOwner \in [Proxies -> 0 .. Len(code)]
        /\ SavedIsBuilt /\ LeftWhenSaved
    BY DEF IInv, SystemOK, RunOK
  <1>4. Saved /\ Built(48, a)
    BY <1>1, <1>2, <1>3 DEF LeftWhenSaved, SavedIsBuilt, SaveStep
  <1>5. sender \in Accounts
    <2>1. ProxyStep[p] < 48
      BY Places
    <2>2. admin[p] = a /\ a \in DOMAIN adminOwner
      BY <1>4, <2>1 DEF Built, ProxiesBefore
    <2>3. adminOwner \in Seq(Accounts)
      BY <1>3 DEF ChainTypeOK
    <2> QED
      BY <1>1, <2>2, <2>3
  <1>6. WellFormed(tx) /\ tx.op \in Reads \cup {"create", "upgrade"} /\ (tx.op = "upgrade" => tx.logic # 0)
    BY <1>2, <1>3 DEF WellFormed, Reads
  <1>7. ChainTypeOK' /\ ChainGrows
    BY <1>2, <1>3, <1>5, <1>6, ChainTypes
  <1>8. /\ owner' = owner /\ adminOwner' = adminOwner /\ admin' = admin /\ cashGroups' = cashGroups
        /\ Built(48, a)'
        /\ s \in 48 .. 57 /\ Built(s, r) => Built(s, r)'
    <2>1. 48 \in 48 .. 57
      OBVIOUS
    <2> QED
      BY <1>2, <1>3, <1>4, <1>5, <1>6, <2>1, UpgradeKeepsBuilt
  <1>9. SystemOK'
    <2>1. PICK memory : memory = file
      OBVIOUS
    <2>2. Known(memory)'
      BY <1>3, <1>7, <2>1, KnownStays
    <2>3. Known(file)' /\ Saved'
      BY <1>2, <1>4, <2>1, <2>2 DEF Known, Saved
    <2>4. leftToOwner' \in [Proxies -> 0 .. Len(code')]
      <3>1. leftToOwner \in [Proxies -> 0 .. Len(code')]
        BY <1>3, <1>7, LeftStays
      <3>2. 0 \in 0 .. Len(code')
        BY <1>7 DEF ChainTypeOK
      <3> QED
        BY <1>2, <3>1, <3>2
    <2>5. NothingBeforeDirectory' /\ ProxiesShareAdmin'
      <3>1. 48 \in 7 .. 57
        OBVIOUS
      <3> QED
        BY <1>7, <1>8, <3>1, BuiltShares
    <2>6. SavedIsBuilt'
      <3>1. file'.proxyAdmin = a /\ file'.cashMarketLogic # 0 /\ Built(48, a)'
        BY <1>1, <1>2, <1>3, <1>4, <1>8 DEF SavedIsBuilt
      <3> QED
        BY ONLY <3>1 DEF SavedIsBuilt, SaveStep, Built, ProxiesBefore, OwnersBefore, WiringBefore,
                         SettingsBefore, MarketsBefore
    <2>7. AdminsMoveLast' /\ LeftWhenSaved'
      BY <1>4, <1>8, <2>3 DEF IInv, SystemOK, AdminsMoveLast, LeftWhenSaved
    <2>8. /\ build' \in [Artifacts -> 1 .. MaxVersion]
          /\ deploys' \in 1 .. MaxDeploys /\ upgrades' \in 0 .. MaxUpgrades
      BY <1>2 DEF IInv, SystemOK
    <2> QED
      BY <1>7, <2>3, <2>4, <2>5, <2>6, <2>7, <2>8 DEF SystemOK
  <1>10. RunOK'
    <2>1. PICK memory : memory = notional
      OBVIOUS
    <2>2. Known(memory)'
      BY <1>3, <1>7, <2>1, KnownStays
    <2>3. Known(notional)' /\ ScriptTypeOK'
      BY <1>2, <2>1, <2>2 DEF Known, IInv, RunOK, ScriptTypeOK, Runs
    <2>4. ASSUME Deploying
          PROVE  DeployedSoFar'
      <3>1. DeployedSoFar /\ s \in 48 .. 57 /\ s = script.step
        BY <1>1, <1>4, <2>4 DEF IInv, RunOK, DeployedSoFar, SaveStep, ScriptTypeOK, Runs
      <3>2. Built(s, r)'
        BY <1>1, <1>8, <2>4, <3>1 DEF DeployedSoFar
      <3>3. Built(script.step, notional.proxyAdmin)'
        <4>1. script'.step = s /\ notional'.proxyAdmin = r
          BY <1>1, <1>2
        <4> QED
          BY ONLY <3>2, <4>1 DEF Built, ProxiesBefore, OwnersBefore, WiringBefore,
                         SettingsBefore, MarketsBefore
      <3> QED
        BY <1>2, <1>8, <2>4, <3>1, <3>3 DEF DeployedSoFar, Deploying, Saved
    <2>5. ~Deploying => DeployedSoFar'
      BY <1>2 DEF DeployedSoFar, Deploying
    <2>6. UpgradesSaved'
      <3>1. Target' = Target /\ AllDone' = AllDone
        BY <1>2, SameTargets
      <3> QED
        BY <1>2, <1>8, <3>1 DEF IInv, RunOK, UpgradesSaved, Upgrading, Saved, NewLogic
    <2> QED
      BY <2>3, <2>4, <2>5, <2>6 DEF RunOK
  <1> QED
    BY <1>9, <1>10 DEF IInv

\* The invariant depends on the specification's variables only.
LEMMA StutterInvariant ==
  ASSUME IInv, UNCHANGED vars
  PROVE  IInv'
  <1>1. /\ code' = code /\ implementation' = implementation /\ admin' = admin
        /\ adminOwner' = adminOwner /\ owner' = owner /\ cashGroups' = cashGroups
        /\ registered' = registered /\ dependencies' = dependencies /\ listed' = listed /\ rates' = rates
        /\ discount' = discount /\ haircut' = haircut /\ numCurrencies' = numCurrencies
        /\ cashGroup' = cashGroup /\ parameters' = parameters /\ notional' = notional /\ file' = file
        /\ script' = script
    BY DEF vars, chain, proxyVars, wiring, settings, marketVars
  <1>2. SystemOK'
    BY SystemSame DEF IInv, SystemOK, vars
  <1>3. Known(notional)' /\ ScriptTypeOK'
    BY <1>1 DEF IInv, RunOK, Known, ScriptTypeOK, Runs
  <1>4. DeployedSoFar'
    BY <1>1 DEF IInv, RunOK, DeployedSoFar, Deploying, Saved, Built, ProxiesBefore,
                OwnersBefore, WiringBefore, SettingsBefore, MarketsBefore
  <1>5. Target' = Target /\ AllDone' = AllDone
    BY <1>1, SameTargets
  <1>6. UpgradesSaved'
    BY <1>1, <1>5 DEF IInv, RunOK, UpgradesSaved, Upgrading, Saved, NewLogic
  <1> QED
    BY <1>2, <1>3, <1>4, <1>6 DEF IInv, RunOK

\* Every step keeps the invariant.
LEMMA NextInvariant ==
  ASSUME IInv, [Next]_vars
  PROVE  IInv'
  <1>1. CASE ScriptStep
    BY <1>1, ScriptInvariant
  <1>2. CASE StartDeploy
    BY <1>2, StartDeployInvariant
  <1>3. ASSUME NEW w \in Accounts, NEW t \in TargetLists, NEW d \in BOOLEAN, StartUpgrade(w, t, d)
        PROVE  IInv'
    BY <1>3, StartUpgradeInvariant
  <1>4. ASSUME NEW a \in Edited, Compile(a)
        PROVE  IInv'
    <2>1. build' \in [Artifacts -> 1 .. MaxVersion]
      <3>1. build \in [Artifacts -> 1 .. MaxVersion] /\ a \in Artifacts
        BY TargetsAssumption DEF IInv, SystemOK
      <3>2. build[a] + 1 \in 1 .. MaxVersion
        BY <1>4, <3>1, BoundsAssumption DEF Compile
      <3> QED
        BY <1>4, <3>1, <3>2 DEF Compile
    <2> QED
      BY <1>4, <2>1, BetweenRuns DEF Compile
  <1>5. CASE Commit
    BY <1>5, BetweenRuns DEF Commit, IInv, SystemOK
  <1>6. ASSUME NEW p \in Proxies, OwnerUpgrades(p)
        PROVE  IInv'
    BY <1>6, OwnerUpgradesInvariant
  <1>7. CASE UNCHANGED vars
    BY <1>7, StutterInvariant
  <1> QED
    BY <1>1, <1>2, <1>3, <1>4, <1>5, <1>6, <1>7 DEF Next

----------------------------------------------------------------------------
\* The inductive invariant holds throughout.
THEOREM LifecycleInvariant == Spec => []IInv
  <1>1. Init => IInv
    BY InitInvariant
  <1>2. IInv /\ [Next]_vars => IInv'
    BY NextInvariant
  <1> QED
    BY <1>1, <1>2, PTL DEF Spec

\* The chain, the scripts' objects, the file and the run are always of their types.
THEOREM LifecycleTypeCorrect == Spec => []TypeOK
  <1>1. IInv => TypeOK
    BY TypeHolds
  <1> QED
    BY <1>1, LifecycleInvariant, PTL

\* Every proxy there is always has the ProxyAdmin of the Directory's proxy, however often
\* deploy.ts is killed, started again and upgrade.ts run.
THEOREM OneAdminAlways == Spec => []OneAdmin
  <1>1. IInv => OneAdmin
    BY DEF IInv, SystemOK, ProxiesShareAdmin, OneAdmin
  <1> QED
    BY <1>1, LifecycleInvariant, PTL

\* Whenever the new owner has the ProxyAdmin, the right to upgrade, every proxy belongs to it:
\* deploy.ts gives the ProxyAdmin away last.
THEOREM UpgradePowerAlwaysMovesLast == Spec => []UpgradePowerMovesLast
  <1>1. IInv => UpgradePowerMovesLast
    <2> SUFFICES ASSUME IInv, implementation["Directory"] # 0, adminOwner[admin["Directory"]] = NewOwner
                 PROVE  \A p \in Proxies : owner[p] = NewOwner
      BY DEF UpgradePowerMovesLast
    <2>1. admin["Directory"] # 0 /\ "Directory" \in Proxies
      BY DEF IInv, SystemOK, ProxiesShareAdmin, Proxies
    <2>2. admin["Directory"] \in DOMAIN adminOwner
      BY <2>1 DEF IInv, SystemOK, ChainTypeOK
    <2> QED
      BY <2>2, AccountsAssumption DEF IInv, SystemOK, AdminsMoveLast
  <1> QED
    BY <1>1, LifecycleInvariant, PTL

\* Whenever there is a file, the system it describes is complete: the wiring, the settings, the
\* groups and their parameters.
THEOREM SavedIsAlwaysComplete == Spec => []SavedIsComplete
  <1>1. IInv => SavedIsComplete
    <2> SUFFICES ASSUME IInv, Saved PROVE Complete
      BY DEF SavedIsComplete
    <2>1. ChainTypeOK /\ Built(48, file.proxyAdmin)
      BY DEF IInv, SystemOK, SavedIsBuilt, SaveStep
    <2> QED
      BY <2>1, BuiltComplete
  <1> QED
    BY <1>1, LifecycleInvariant, PTL

(****************************************************************************)
(* What the file and the object tell of the chain.                          *)
(****************************************************************************)
Linked == DOMAIN LinkReferences

\* The hash of an artifact is of its bytecode, no newer than the build, or of nothing.
HashForm(memory) ==
  \A a \in Artifacts :
    /\ memory.hashes[a].version <= build[a] /\ memory.hashes[a].link <= Len(code)
    /\ memory.hashes[a].version # 0 => memory.hashes[a].name = a
    /\ a \notin Linked => memory.hashes[a].link = 0

\* What is linked into a contract was there before.
LinksBound == \A i \in 1 .. Len(code) : code[i].link <= Len(code)

\* The file and the object have hashes of that form.
FormOK == HashForm(notional) /\ HashForm(file) /\ LinksBound

\* The hashes that go with the addresses are of what is there.
HashesOK(memory) ==
  /\ \A l \in Libraries :
       memory.libraries[l] # 0 => code[memory.libraries[l]] = memory.hashes[l]
  /\ memory.cashMarketLogic # 0 => code[memory.cashMarketLogic] = memory.hashes["CashMarket"]

\* The proxy has the code of the hash, or its admin's owner has been left to give it that.
Settled(p, memory) ==
  /\ leftToOwner[p] # 0 \/ code[implementation[p]] = memory.hashes[ArtifactOf(p)]
  /\ leftToOwner[p] # 0 => code[leftToOwner[p]] = memory.hashes[ArtifactOf(p)]

\* A run that names the proxy's contract, and its library if there is one, upgrades it anew.
Behind(p, memory) ==
  p \in Linked \/ memory.hashes[ArtifactOf(p)].version < build[ArtifactOf(p)]

\* After a lost run a proxy may have something newer than the hash tells.
Accounted(p, memory) == Settled(p, memory) \/ (lost /\ Behind(p, memory))

\* The run has compared the hash of the proxy's artifact and is not done with the proxy.
MarketsTurn == ~AllDone /\ OnMarket /\ (script.group > 1 \/ script.stage # "check")
ContractsTurn == ~AllDone /\ Target \in Core /\ script.stage # "check"

\* The run is at the proxy, or will come to it after the comparison.
Turn(p) == \/ ContractsTurn /\ p = Target
           \/ MarketsTurn /\ p \in Markets /\ GroupId[p] >= script.group

\* Places in UpgradeMain.
UpgradePlace == [Liquidation |-> 1, RiskFramework |-> 2, Escrow |-> 3, ERC1155Token |-> 4,
                 ERC1155Trade |-> 5, Portfolios |-> 6, CashMarket |-> 7]

\* The run may still come to the contract.
Ahead(p) == UpgradePlace[p] >= script.step /\ ~(ContractsTurn /\ p = Target)

\* A market that the run has not come to has not the run's logic, if that is new.
Awaits(m) ==
  IF notional.cashMarketLogic = file.cashMarketLogic
  THEN leftToOwner[m] # 0 => code[leftToOwner[m]] = file.hashes["CashMarket"]
  ELSE notional.cashMarketLogic \notin {implementation[m], leftToOwner[m]}

\* The markets' hash, since their turn: the build's, and the file's was older if it was not this one.
MarketsHash ==
  IF MarketsTurn \/ script.step > 7
  THEN /\ notional.hashes["CashMarket"] = Bytecode("CashMarket")
       /\ notional.cashMarketLogic # file.cashMarketLogic =>
            file.hashes["CashMarket"].version < build["CashMarket"]
  ELSE /\ notional.hashes["CashMarket"] = file.hashes["CashMarket"]
       /\ notional.cashMarketLogic = file.cashMarketLogic

\* The run of upgrade.ts has not saved yet what it has upgraded.
UpgradeTells ==
  /\ \A p \in Proxies : Accounted(p, notional) \/ Turn(p)
  /\ \A m \in Markets : Turn(m) => Awaits(m)
  /\ MarketsHash
  /\ ContractsTurn => code[notional.logic] = notional.hashes[Target] /\ Behind(Target, file)
  /\ \A p \in Core : Ahead(p) => notional.hashes[p] = file.hashes[p]

\* The hashes deploy.ts remembers are of what it has deployed.
DeployTells ==
  /\ script.step > 1 => notional.libraries["Liquidation"] # 0
  /\ script.step > 2 => notional.libraries["RiskFramework"] # 0
  /\ \A p \in Proxies : ProxyStep[p] < script.step /\ script.step \in 7 .. SaveStep =>
       code[implementation[p]] = notional.hashes[ArtifactOf(p)]
  /\ \A p \in Proxies \ Markets : script.step = ProxyStep[p] => code[notional.logic] = notional.hashes[p]

\* A dry run upgrades nothing; a library has one stage, a contract no market's.
StagesOK ==
  Upgrading => /\ \A l \in Libraries : notional.libraries[l] # 0
               /\ script.dryRun => ~script.upgraded /\ script.stage # "upgrade"
               /\ ~AllDone /\ Target \in Libraries => script.stage = "check"
               /\ ~AllDone /\ Target \in Core => script.stage # "compare" /\ script.group = 1

\* A run has upgraded a proxy, or left that to the owner, and has not saved it.
Unsaved == lost \/ (Upgrading /\ script.upgraded)

\* A proxy has what the file tells, or a run has upgraded it that did not save, and a run that
\* names it will find its hash behind the build.
FileSettled ==
  Saved => \A p \in Proxies : Settled(p, file) \/ (Unsaved /\ Behind(p, file))

\* What the file tells of the chain at every step, and what the running script's object tells.
FileTells ==
  /\ HashesOK(notional) /\ HashesOK(file)
  /\ Saved => \A l \in Libraries : file.libraries[l] # 0
  /\ FileSettled /\ StagesOK
  /\ Deploying => DeployTells
  /\ Upgrading /\ ~script.dryRun => UpgradeTells

\* A run of upgrade.ts has the build's hash of what it has upgraded, and what is linked with a
\* library that it has created anew differs from that.
Renewed(p) ==
  LET l == LinkReferences[p] IN
  l \in script.targets /\ UpgradePlace[l] < script.step =>
    IF p \in script.targets /\ UpgradePlace[p] < script.step
    THEN Settled(p, notional)
    ELSE (ContractsTurn /\ p = Target) \/ notional.hashes[p].link # notional.libraries[l]

\* The hash of a contract the run has come to is of the build.
HashCurrent ==
  /\ \A p \in Core : p \in script.targets /\ UpgradePlace[p] < script.step => notional.hashes[p] = Bytecode(p)
  /\ ContractsTurn => notional.hashes[Target] = Bytecode(Target)

\* What an upgrade has in effect of the build before it ends.
BuildInEffect ==
  Upgrading => /\ script.targets \in TargetLists
               /\ ~script.dryRun => HashCurrent /\ \A p \in Linked : Renewed(p)

\* The version of the library that is linked into a contract.
Version(i) == IF code[i].link = 0 THEN 0 ELSE code[code[i].link].version
\* The version of the library of a contract that the memory tells.
LibraryVersion(p, memory) == IF p \in Linked THEN memory.hashes[LinkReferences[p]].version ELSE 0

\* The proxy's library is no newer than is told, and one left to the owner is between the two.
LinksOK(p, memory) ==
  /\ Version(implementation[p]) <= LibraryVersion(p, memory)
  /\ leftToOwner[p] # 0 => /\ Version(implementation[p]) <= Version(leftToOwner[p])
                           /\ Version(leftToOwner[p]) <= LibraryVersion(p, memory)

\* What was saved, unless a run has upgraded a proxy since.
FileLinks ==
  Saved /\ ~lost /\ ~(Upgrading /\ script.upgraded) => \A p \in Proxies : LinksOK(p, file)

\* The object of an upgrade that is not lost tells of the libraries.
RunLinks == Upgrading /\ ~script.dryRun /\ ~lost => \A p \in Proxies : LinksOK(p, notional)

\* The hash of a contract that deploy.ts has created is linked with the library it has deployed.
DeployLinks ==
  Deploying => \A p \in Linked : script.step \in ProxyStep[p] .. SaveStep =>
    notional.hashes[p].link = notional.libraries[LinkReferences[p]]

\* No proxy has a newer library than the file or the object tells, and what was left to an
\* admin's owner has no older one than the proxy.
LinksForward == FileLinks /\ RunLinks /\ DeployLinks

\* The code that is there stays where it is.
CodeKept == \A i \in 1 .. Len(code) : code'[i] = code[i]

\* A proxy is left alone, or gets from its admin's owner what was left to it.
ProxyKept(p) ==
  \/ implementation'[p] = implementation[p] /\ leftToOwner'[p] = leftToOwner[p]
  \/ leftToOwner[p] # 0 /\ implementation'[p] = leftToOwner[p] /\ leftToOwner'[p] = 0

\* A transaction leaves the code that is there, and a creation adds its code.
LEMMA CodeStays ==
  ASSUME ChainTypeOK, NEW tx, NEW sender, Apply(tx, sender)
  PROVE  CodeKept /\ (tx.op = "create" => code'[Len(code) + 1] = tx.code)
  <1>1. code \in Seq(Code) /\ code' = IF tx.op = "create" THEN Append(code, tx.code) ELSE code
    BY Effects DEF ChainTypeOK, CodeEffect
  <1>2. CASE tx.op = "create"
    <2>1. code' = Append(code, tx.code) /\ Len(code) \in Nat
      BY <1>1, <1>2
    <2> QED
      BY <1>1, <2>1 DEF CodeKept
  <1>3. CASE tx.op # "create"
    BY <1>1, <1>3 DEF CodeKept
  <1> QED
    BY <1>2, <1>3

\* The hashes that were of what is there stay so.
LEMMA HashesStay ==
  ASSUME NEW memory, Known(memory), HashesOK(memory), CodeKept, ChainTypeOK
  PROVE  HashesOK(memory)'
  <1>1. /\ \A l \in Libraries : memory.libraries[l] \in Nat /\ memory.libraries[l] <= Len(code)
        /\ memory.cashMarketLogic \in Nat /\ memory.cashMarketLogic <= Len(code) /\ Len(code) \in Nat
    BY DEF Known, Memory, ChainTypeOK
  <1>2. ASSUME NEW i \in Nat, i <= Len(code), i # 0
        PROVE  code'[i] = code[i]
    BY <1>1, <1>2 DEF CodeKept
  <1>3. \A l \in Libraries :
          memory.libraries[l] # 0 => code'[memory.libraries[l]] = memory.hashes[l]
    BY <1>1, <1>2 DEF HashesOK
  <1>4. memory.cashMarketLogic # 0 => code'[memory.cashMarketLogic] = memory.hashes["CashMarket"]
    BY <1>1, <1>2 DEF HashesOK
  <1> QED
    BY <1>3, <1>4 DEF HashesOK

\* A proxy that has what a hash tells keeps it.
LEMMA SettledStays ==
  ASSUME NEW p \in Proxies, NEW memory, Settled(p, memory), CodeKept, ProxyKept(p),
         implementation[p] \in 1 .. Len(code), leftToOwner[p] \in 0 .. Len(code), Len(code) \in Nat
  PROVE  Settled(p, memory)'
  <1>1. leftToOwner[p] # 0 => leftToOwner[p] \in 1 .. Len(code)
    OBVIOUS
  <1>2. /\ code'[implementation[p]] = code[implementation[p]]
        /\ leftToOwner[p] # 0 => code'[leftToOwner[p]] = code[leftToOwner[p]]
    BY <1>1 DEF CodeKept
  <1> QED
    BY <1>2 DEF Settled, ProxyKept

\* Once there is a file every proxy has a logic contract.
LEMMA SavedProxies ==
  ASSUME IInv, Saved, NEW p \in Proxies
  PROVE  /\ implementation[p] \in 1 .. Len(code) /\ leftToOwner[p] \in 0 .. Len(code)
         /\ Len(code) \in Nat
  <1>1. ProxyStep[p] < 48
    BY Places
  <1>2. implementation[p] # 0
    BY <1>1 DEF IInv, SystemOK, SavedIsBuilt, SaveStep, Built, ProxiesBefore
  <1>3. implementation[p] \in 0 .. Len(code) /\ leftToOwner[p] \in 0 .. Len(code) /\ Len(code) \in Nat
    BY DEF IInv, SystemOK, ChainTypeOK
  <1> QED
    BY <1>2, <1>3

\* What NotionalDeployer remembers of a request, hash included, is what is there.
LEMMA HashesRemembered ==
  ASSUME NEW tx, NEW sender, ChainTypeOK, Known(notional), HashesOK(notional), Apply(tx, sender),
         tx.op = "create" => tx.on \in Artifacts /\ tx.code \in Code,
         NEW memory, memory = Remembering(tx)
  PROVE  /\ HashesOK(memory)'
         /\ \A l \in Libraries : /\ notional.libraries[l] # 0 => memory.libraries[l] # 0
                                 /\ tx.op = "create" /\ tx.on = l => memory.libraries[l] = Len(code) + 1
                                 /\ ~(tx.op = "create" /\ tx.on = l) =>
                                      memory.libraries[l] = notional.libraries[l]
         /\ \A a \in Artifacts : memory.hashes[a] = IF tx.op = "create" /\ tx.on = a THEN tx.code
                                                    ELSE notional.hashes[a]
         /\ tx.op = "create" => memory.logic = Len(code) + 1 /\ code'[Len(code) + 1] = tx.code
         /\ tx.op # "create" => memory.logic = notional.logic
         /\ memory.cashMarketLogic = IF tx.op = "create" /\ tx.on = "CashMarket" THEN Len(code) + 1
                                     ELSE notional.cashMarketLogic
  <1>1. notional \in Memory /\ Len(code) \in Nat /\ Libraries \subseteq Artifacts /\ "CashMarket" \in Artifacts
        /\ "CashMarket" \notin Libraries
    BY DEF Known, ChainTypeOK, Artifacts, Libraries
  <1>2. CodeKept /\ (tx.op = "create" => code'[Len(code) + 1] = tx.code)
    BY CodeStays
  <1>3. PICK old : old = notional
    OBVIOUS
  <1>4. HashesOK(old)'
    BY <1>2, <1>3, HashesStay
  <1>5. CASE tx.op = "create"
    <2> DEFINE address == Len(code) + 1
               a == tx.on
    <2>1. memory = [notional EXCEPT
           !.libraries = IF a \in Libraries THEN [@ EXCEPT ![a] = address] ELSE @,
           !.cashMarketLogic = IF a = "CashMarket" THEN address ELSE @,
           !.logic = address,
           !.hashes[a] = tx.code]
      BY <1>5, RememberingIs
    <2>2. a \in Artifacts /\ address # 0 /\ tx.code \in Code
      BY <1>1, <1>5
    <2>3. /\ memory.libraries = IF a \in Libraries THEN [notional.libraries EXCEPT ![a] = address]
                                ELSE notional.libraries
          /\ memory.cashMarketLogic = IF a = "CashMarket" THEN address ELSE notional.cashMarketLogic
          /\ memory.logic = address
          /\ memory.hashes = [notional.hashes EXCEPT ![a] = tx.code]
      BY <1>1, <2>1, <2>2 DEF Memory
    <2>4. /\ notional.libraries \in [Libraries -> Nat] /\ notional.hashes \in [Artifacts -> Code]
      BY <1>1 DEF Memory
    <2> HIDE DEF address, a
    <2>5. \A l \in Libraries : memory.libraries[l] = IF l = a THEN address ELSE notional.libraries[l]
      BY <2>3, <2>4
    <2>6. \A b \in Artifacts : memory.hashes[b] = IF b = a THEN tx.code ELSE notional.hashes[b]
      BY <2>2, <2>3, <2>4
    <2>7. code'[address] = tx.code
      BY <1>2, <1>5 DEF address
    <2>8. \A l \in Libraries : notional.libraries[l] # 0 => code'[notional.libraries[l]] = notional.hashes[l]
      BY <1>3, <1>4 DEF HashesOK
    <2>9. notional.cashMarketLogic # 0 => code'[notional.cashMarketLogic] = notional.hashes["CashMarket"]
      BY <1>3, <1>4 DEF HashesOK
    <2>10. \A l \in Libraries : memory.libraries[l] # 0 => code'[memory.libraries[l]] = memory.hashes[l]
      BY <1>1, <2>5, <2>6, <2>7, <2>8
    <2>11. memory.cashMarketLogic # 0 => code'[memory.cashMarketLogic] = memory.hashes["CashMarket"]
      BY <1>1, <2>3, <2>6, <2>7, <2>9
    <2>12. HashesOK(memory)'
      BY <2>10, <2>11 DEF HashesOK
    <2> QED
      BY <1>5, <2>2, <2>3, <2>5, <2>6, <2>7, <2>12 DEF address, a
  <1>6. CASE tx.op # "create"
    <2>1. /\ memory.libraries = notional.libraries /\ memory.hashes = notional.hashes
          /\ memory.logic = notional.logic /\ memory.cashMarketLogic = notional.cashMarketLogic
      <3>1. CASE tx.op = "createAdmin"
        <4>1. memory = [notional EXCEPT !.proxyAdmin = Len(adminOwner) + 1]
          BY <3>1, RememberingIs
        <4> QED
          BY <1>1, <4>1 DEF Memory
      <3>2. CASE tx.op # "createAdmin"
        BY <1>6, <3>2, RememberingIs
      <3> QED
        BY <3>1, <3>2
    <2>2. HashesOK(memory)'
      BY <1>3, <1>4, <2>1 DEF HashesOK
    <2> QED
      BY <1>6, <2>1, <2>2
  <1> QED
    BY <1>5, <1>6

\* A new object has no addresses.
LEMMA EmptyHashes == HashesOK(Empty)
  BY DEF HashesOK, Empty

----------------------------------------------------------------------------
\* Artifacts are compiled anew, and no older version comes back.
BuildGrows == \A a \in Artifacts : build'[a] >= build[a]

\* A build that stays has grown.
LEMMA BuildStays ==
  ASSUME IInv, build' = build
  PROVE  BuildGrows
  BY DEF IInv, SystemOK, BuildGrows

\* A hash keeps its form when code is added and artifacts are compiled.
LEMMA HashFormStays ==
  ASSUME IInv, NEW memory \in Memory, HashForm(memory), BuildGrows, Len(code) <= Len(code'), IInv'
  PROVE  HashForm(memory)'
  <1>1. /\ Len(code) \in Nat /\ Len(code') \in Nat /\ Len(code) <= Len(code')
        /\ build \in [Artifacts -> 1 .. MaxVersion] /\ build' \in [Artifacts -> 1 .. MaxVersion]
        /\ MaxVersion \in Nat
    <2>1. ChainTypeOK /\ build \in [Artifacts -> 1 .. MaxVersion]
      BY DEF IInv, SystemOK
    <2>2. ChainTypeOK' /\ build' \in [Artifacts -> 1 .. MaxVersion]
      BY DEF IInv, SystemOK
    <2>3. Len(code) \in Nat /\ Len(code') \in Nat
      BY <2>1, <2>2 DEF ChainTypeOK
    <2> QED
      BY <2>1, <2>2, <2>3, BoundsAssumption
  <1>2. ASSUME NEW a \in Artifacts
        PROVE  memory.hashes[a].version <= build'[a] /\ memory.hashes[a].link <= Len(code')
    <2>1. /\ memory.hashes[a].version \in Nat /\ memory.hashes[a].link \in Nat
          /\ build[a] \in Nat /\ build'[a] \in Nat
      BY <1>1 DEF Memory, Code
    <2>2. /\ memory.hashes[a].version <= build[a] /\ memory.hashes[a].link <= Len(code)
          /\ build[a] <= build'[a]
      BY DEF HashForm, BuildGrows
    <2> DEFINE v == memory.hashes[a].version
               l == memory.hashes[a].link
    <2> HIDE DEF v, l
    <2>3. v <= build'[a] /\ l <= Len(code')
      BY <1>1, <2>1, <2>2 DEF v, l
    <2> QED
      BY <2>3 DEF v, l
  <1> QED
    BY <1>2 DEF HashForm

\* A request that creates something carries the artifact's bytecode.
LEMMA SendsBytecode ==
  ASSUME IInv, Running, Sends.op = "create"
  PROVE  Sends.on \in Artifacts /\ Sends.code = Bytecode(Sends.on) /\ WellFormed(Sends)
  <1>1. TypeOK /\ ScriptTypeOK /\ Known(notional)
    BY TypeHolds DEF IInv, RunOK
  <1>2. Deploying \/ Upgrading
    BY DEF Running, Deploying, Upgrading, IInv, RunOK, ScriptTypeOK, Runs
  <1>3. CASE Deploying
    <2>1. PICK k : k = script.step
      OBVIOUS
    <2>2. k \in 1 .. 56 /\ Sends = Request(DeployMain[k])
      BY <1>3, <2>1, DeploySends
    <2>3. Scheduled(k, Sends) /\ Filled(Sends) /\ WellFormed(Sends)
      BY <1>1, <2>2, RequestScheduled, RequestWellFormed
    <2> QED
      BY <2>3 DEF Scheduled, Filled
  <1>4. CASE Upgrading
    <2>1. Upgrade(Sends)
      BY <1>4, UpgradeKinds DEF Sends, Upgrading
    <2>2. WellFormed(Sends)
      BY <1>1, <2>1, UpgradeWellFormed
    <2> QED
      BY <1>1, <2>1, <2>2, TargetFacts DEF Upgrade
  <1> QED
    BY <1>2, <1>3, <1>4

\* The bytecode of an artifact is named for it and refers to its library, if it has one.
LEMMA BytecodeForm ==
  ASSUME IInv, NEW a \in Artifacts
  PROVE  /\ Bytecode(a).name = a /\ Bytecode(a).version = build[a] /\ Bytecode(a) \in Code
         /\ Bytecode(a).link \in Nat /\ Bytecode(a).link <= Len(code)
         /\ a \notin Linked => Bytecode(a).link = 0
         /\ a \in Linked => Bytecode(a).link = notional.libraries[LinkReferences[a]]
  <1>1. Bytecode(a) \in Code
    BY TypeHolds, BytecodeType
  <1>2. Bytecode(a).link = Link(a, notional.libraries)
    BY DEF Bytecode
  <1>3. a \in Linked => LinkReferences[a] \in Libraries
    BY DEF Linked, LinkReferences, Libraries
  <1>4. /\ a \notin Linked => Bytecode(a).link = 0
        /\ a \in Linked => Bytecode(a).link = notional.libraries[LinkReferences[a]]
    BY <1>2 DEF Link, Linked
  <1>5. Len(code) \in Nat /\ 0 <= Len(code)
    BY DEF IInv, SystemOK, ChainTypeOK
  <1>6. Bytecode(a).link <= Len(code)
    BY <1>3, <1>4, <1>5 DEF IInv, RunOK, Known
  <1>7. Bytecode(a).link \in Nat
    BY <1>1 DEF Code
  <1> QED
    BY <1>1, <1>4, <1>6, <1>7 DEF Bytecode

\* A transaction of a script leaves no link to what is not there.
LEMMA LinksStayBound ==
  ASSUME IInv, LinksBound, NEW tx, NEW sender, Apply(tx, sender), ChainTypeOK', Len(code) <= Len(code'),
         tx.op = "create" => tx.on \in Artifacts /\ tx.code = Bytecode(tx.on)
  PROVE  LinksBound'
  <1>1. ChainTypeOK /\ Len(code) \in Nat /\ Len(code') \in Nat /\ Len(code) <= Len(code')
    <2>1. ChainTypeOK
      BY DEF IInv, SystemOK
    <2>2. Len(code) \in Nat /\ Len(code') \in Nat
      BY <2>1 DEF ChainTypeOK
    <2> QED
      BY <2>1, <2>2
  <1>2. code' = IF tx.op = "create" THEN Append(code, tx.code) ELSE code
    BY Effects DEF CodeEffect
  <1>3. CodeKept /\ (tx.op = "create" => code'[Len(code) + 1] = tx.code)
    BY <1>1, CodeStays
  <1>4. ASSUME NEW i \in 1 .. Len(code)
        PROVE  code'[i].link <= Len(code')
    <2>1. code'[i] = code[i] /\ code[i].link <= Len(code)
      BY <1>3 DEF CodeKept, LinksBound
    <2>2. code[i] \in Code
      BY <1>1 DEF ChainTypeOK
    <2>3. code[i].link \in Nat
      BY <2>2 DEF Code
    <2> DEFINE l == code[i].link
    <2> HIDE DEF l
    <2>4. l <= Len(code')
      BY <1>1, <2>1, <2>3 DEF l
    <2> QED
      BY <2>1, <2>4 DEF l
  <1>5. CASE tx.op = "create"
    <2>1. code'[Len(code) + 1] = Bytecode(tx.on) /\ Bytecode(tx.on).link \in Nat
          /\ Bytecode(tx.on).link <= Len(code)
      BY <1>3, <1>5, BytecodeForm
    <2> DEFINE l == Bytecode(tx.on).link
    <2> HIDE DEF l
    <2>2. l <= Len(code')
      BY <1>1, <2>1 DEF l
    <2>3. code'[Len(code) + 1].link <= Len(code')
      BY <2>1, <2>2 DEF l
    <2>4. code \in Seq(Code) /\ tx.code \in Code
      BY <1>1, <1>5, BytecodeForm DEF ChainTypeOK
    <2>5. Len(code') = Len(code) + 1
      BY <1>2, <1>5, <2>4
    <2> QED
      BY <1>1, <1>4, <2>3, <2>5 DEF LinksBound
  <1>6. CASE tx.op # "create"
    BY <1>2, <1>4, <1>6 DEF LinksBound
  <1> QED
    BY <1>5, <1>6

\* What a script remembers keeps the form.
LEMMA RememberedForm ==
  ASSUME IInv, FormOK, IInv', Running, NEW tx, tx = Sends, Apply(tx, script.wallet), BuildGrows, Len(code) <= Len(code'),
         NEW memory, memory = Remembering(tx), memory \in Memory
  PROVE  HashForm(memory)'
  <1>1. ChainTypeOK /\ Known(notional) /\ notional \in Memory
    BY DEF IInv, RunOK, SystemOK, Known
  <1>2. tx.op = "create" => tx.on \in Artifacts /\ tx.code = Bytecode(tx.on) /\ tx.code \in Code
    BY SendsBytecode, BytecodeForm
  <1>3. \A a \in Artifacts : memory.hashes[a] = IF tx.op = "create" /\ tx.on = a THEN tx.code
                                                ELSE notional.hashes[a]
    <2>1. CASE tx.op = "create"
      <3>0. memory = [notional EXCEPT
                 !.libraries = IF tx.on \in Libraries THEN [@ EXCEPT ![tx.on] = Len(code) + 1] ELSE @,
                 !.cashMarketLogic = IF tx.on = "CashMarket" THEN Len(code) + 1 ELSE @,
                 !.logic = Len(code) + 1,
                 !.hashes[tx.on] = tx.code]
        BY <2>1, RememberingIs
      <3>1. memory.hashes = [notional.hashes EXCEPT ![tx.on] = tx.code]
        BY <1>1, <1>2, <3>0 DEF Memory
      <3>2. notional.hashes \in [Artifacts -> Code]
        BY <1>1 DEF Memory
      <3> QED
        BY <1>2, <2>1, <3>1, <3>2
    <2>2. CASE tx.op # "create"
      <3>1. CASE tx.op = "createAdmin"
        <4>1. memory = [notional EXCEPT !.proxyAdmin = Len(adminOwner) + 1]
          BY <3>1, RememberingIs
        <4>2. memory.hashes = notional.hashes
          BY <1>1, <4>1 DEF Memory
        <4> QED
          BY <2>2, <4>2
      <3>2. CASE tx.op # "createAdmin"
        BY <2>2, <3>2, RememberingIs
      <3> QED
        BY <2>2, <3>1, <3>2
    <2> QED
      BY <2>1, <2>2
  <1>4. HashForm(memory)
    <2> SUFFICES ASSUME NEW a \in Artifacts
                 PROVE  /\ memory.hashes[a].version <= build[a] /\ memory.hashes[a].link <= Len(code)
                        /\ memory.hashes[a].version # 0 => memory.hashes[a].name = a
                        /\ a \notin Linked => memory.hashes[a].link = 0
      BY DEF HashForm
    <2>1. CASE tx.op = "create" /\ tx.on = a
      <3>1. memory.hashes[a] = Bytecode(a)
        BY <1>2, <1>3, <2>1
      <3>2. build[a] <= build[a]
        BY BoundsAssumption DEF IInv, SystemOK
      <3> QED
        BY <3>1, <3>2, BytecodeForm
    <2>2. CASE ~(tx.op = "create" /\ tx.on = a)
      <3>1. memory.hashes[a] = notional.hashes[a]
        BY <1>3, <2>2
      <3> QED
        BY <3>1 DEF FormOK, HashForm
    <2> QED
      BY <2>1, <2>2
  <1> QED
    BY <1>4, HashFormStays

\* What a transaction does to the code that is there.
LEMMA CodeGrows ==
  ASSUME IInv, NEW tx, NEW sender, Apply(tx, sender), tx.op = "create" => tx.code \in Code
  PROVE  Len(code) <= Len(code') /\ Len(code) \in Nat
  <1>1. code \in Seq(Code) /\ code' = IF tx.op = "create" THEN Append(code, tx.code) ELSE code
    BY Effects DEF IInv, SystemOK, ChainTypeOK, CodeEffect
  <1>2. CASE tx.op = "create"
    <2>1. code' = Append(code, tx.code) /\ tx.code \in Code
      BY <1>1, <1>2
    <2> QED
      BY <1>1, <2>1
  <1>3. CASE tx.op # "create"
    BY <1>1, <1>3
  <1> QED
    BY <1>2, <1>3

\* A form is a matter of the code, the build and the memory.
LEMMA FormStays ==
  ASSUME IInv, IInv', FormOK, BuildGrows, Len(code) <= Len(code'), LinksBound',
         NEW new, notional' = new, HashForm(new)',
         NEW saved, file' = saved, HashForm(saved)'
  PROVE  FormOK'
  BY DEF FormOK, HashForm

\* The hashes of an object that knows nothing have the form.
LEMMA EmptyForm ==
  ASSUME IInv'
  PROVE  HashForm(Empty)'
  <1>1. /\ build' \in [Artifacts -> 1 .. MaxVersion] /\ Len(code') \in Nat /\ MaxVersion \in Nat
    BY BoundsAssumption DEF IInv, SystemOK, ChainTypeOK
  <1>2. ASSUME NEW a \in Artifacts
        PROVE  Empty.hashes[a].version = 0 /\ Empty.hashes[a].link = 0
    BY DEF Empty, None
  <1>3. \A a \in Artifacts : 0 <= build'[a] /\ 0 <= Len(code')
    BY <1>1
  <1> QED
    BY <1>2, <1>3 DEF HashForm

\* Links and forms stay when the code does.
LEMMA FormsStay ==
  ASSUME IInv, IInv', FormOK, BuildGrows, code' = code
  PROVE  /\ LinksBound' /\ Len(code) <= Len(code')
         /\ \A memory \in {notional, file} : HashForm(memory)'
  <1>1. Len(code) \in Nat
    BY DEF IInv, SystemOK, ChainTypeOK
  <1>2. Len(code) <= Len(code')
    BY <1>1
  <1>3. LinksBound'
    BY DEF FormOK, LinksBound
  <1>4. ASSUME NEW memory \in {notional, file}
        PROVE  HashForm(memory)'
    <2>1. memory \in Memory /\ HashForm(memory)
      BY DEF IInv, RunOK, SystemOK, Known, FormOK
    <2> QED
      BY <1>2, <2>1, HashFormStays
  <1> QED
    BY <1>2, <1>3, <1>4

\* A request that went through keeps links and the saved hashes' form.
LEMMA SentForm ==
  ASSUME IInv, IInv', FormOK, Running, Apply(Sends, script.wallet), build' = build
  PROVE  /\ LinksBound' /\ Len(code) <= Len(code') /\ BuildGrows
         /\ \A memory \in {notional, file} : HashForm(memory)'
  <1>1. PICK tx : tx = Sends
    OBVIOUS
  <1>2. tx.op = "create" => tx.on \in Artifacts /\ tx.code = Bytecode(tx.on) /\ tx.code \in Code
    BY <1>1, SendsBytecode, BytecodeForm
  <1>3. Len(code) <= Len(code') /\ BuildGrows
    BY <1>1, <1>2, CodeGrows, BuildStays
  <1>4. LinksBound'
    BY <1>1, <1>2, <1>3, LinksStayBound DEF FormOK, IInv, SystemOK
  <1>5. ASSUME NEW memory \in {notional, file}
        PROVE  HashForm(memory)'
    <2>1. memory \in Memory /\ HashForm(memory)
      BY DEF IInv, RunOK, SystemOK, Known, FormOK
    <2> QED
      BY <1>3, <2>1, HashFormStays
  <1> QED
    BY <1>3, <1>4, <1>5

\* A request that is mined and answered keeps the form.
LEMMA AnsweredForm ==
  ASSUME IInv, IInv', FormOK, Answered
  PROVE  FormOK'
  <1>1. PICK tx, old, r, oldFile : tx = Sends /\ old = notional /\ r = Remembering(tx) /\ oldFile = file
    OBVIOUS
  <1>2. /\ Running /\ Apply(tx, script.wallet) /\ build' = build
        /\ notional' = IF Advanced = Idle THEN Empty ELSE r
        /\ IF tx.op = "save" THEN file' = [old EXCEPT !.logic = 0] ELSE file' = oldFile
    BY <1>1 DEF Answered, SaveAddresses
  <1>3. /\ LinksBound' /\ Len(code) <= Len(code') /\ BuildGrows
        /\ HashForm(old)' /\ HashForm(oldFile)'
    BY <1>1, <1>2, SentForm
  <1>4. PICK new : new = notional'
    OBVIOUS
  <1>5. HashForm(new)'
    <2>1. CASE Advanced = Idle
      <3>1. new = Empty
        BY <1>2, <1>4, <2>1
      <3> QED
        BY <3>1, EmptyForm
    <2>2. CASE Advanced # Idle
      <3>1. new = r
        BY <1>2, <1>4, <2>2
      <3>2. new \in Memory
        BY <1>4 DEF IInv, RunOK, Known
      <3>3. HashForm(r)'
        BY <1>1, <1>2, <1>3, <3>1, <3>2, RememberedForm
      <3> QED
        BY <3>1, <3>3
    <2> QED
      BY <2>1, <2>2
  <1>6. PICK saved : saved = file'
    OBVIOUS
  <1>7. HashForm(saved)'
    <2>1. CASE tx.op = "save"
      <3>1. saved = [old EXCEPT !.logic = 0]
        BY <1>2, <1>6, <2>1
      <3>2. saved.hashes = old.hashes
        BY <1>1, <3>1 DEF IInv, RunOK, Known, Memory
      <3> QED
        BY <1>3, <3>2 DEF HashForm
    <2>2. CASE tx.op # "save"
      BY <1>2, <1>3, <1>6, <2>2
    <2> QED
      BY <2>1, <2>2
  <1> QED
    BY <1>3, <1>4, <1>5, <1>6, <1>7, FormStays

\* A run that is killed keeps the form, whether its request is mined or not.
LEMMA KilledForm ==
  ASSUME IInv, IInv', FormOK, Killed
  PROVE  FormOK'
  <1>1. PICK new, saved : new = Empty /\ saved = file
    OBVIOUS
  <1>2. Running /\ notional' = new /\ file' = saved /\ build' = build
    BY <1>1 DEF Killed, Quit
  <1>3. BuildGrows
    BY <1>2, BuildStays
  <1>4. LinksBound' /\ Len(code) <= Len(code') /\ HashForm(saved)'
    <2>1. CASE UNCHANGED <<chain, leftToOwner>>
      <3>1. code' = code
        BY <2>1 DEF chain
      <3> QED
        BY <1>1, <1>3, <3>1, FormsStay
    <2>2. CASE Apply(Sends, script.wallet)
      BY <1>1, <1>2, <2>2, SentForm
    <2> QED
      BY <2>1, <2>2 DEF Killed
  <1>5. HashForm(new)'
    BY <1>1, EmptyForm
  <1> QED
    BY <1>2, <1>3, <1>4, <1>5, FormStays

\* Nothing is created and the object is what it was, what the file is, or new.
LEMMA UncreatedForm ==
  ASSUME IInv, IInv', FormOK, code' = code, BuildGrows, file' = file,
         notional' \in {notional, file, Empty}
  PROVE  FormOK'
  <1>1. PICK new, saved : new = notional' /\ saved = file
    OBVIOUS
  <1>2. LinksBound' /\ Len(code) <= Len(code') /\ HashForm(saved)'
    BY <1>1, FormsStay
  <1>3. HashForm(new)'
    BY <1>1, FormsStay, EmptyForm
  <1> QED
    BY <1>1, <1>2, <1>3, FormStays

\* The form holds when nothing is deployed.
LEMMA InitForm ==
  ASSUME Init
  PROVE  FormOK
  <1>1. notional = Empty /\ file = Empty /\ code = << >> /\ build = [a \in Artifacts |-> 1]
    BY DEF Init, ChainInit
  <1>2. \A a \in Artifacts : Empty.hashes[a].version = 0 /\ Empty.hashes[a].link = 0
    BY DEF Empty, None
  <1> QED
    BY <1>1, <1>2 DEF FormOK, HashForm, LinksBound

\* A compilation makes a version newer.
LEMMA CompileGrows ==
  ASSUME IInv, NEW a \in Edited, Compile(a)
  PROVE  BuildGrows
  <1>1. build \in [Artifacts -> 1 .. MaxVersion] /\ build' = [build EXCEPT ![a] = @ + 1] /\ MaxVersion \in Nat
    BY BoundsAssumption DEF IInv, SystemOK, Compile
  <1> QED
    BY <1>1 DEF BuildGrows

\* Every step keeps the form of hashes and links.
LEMMA NextForm ==
  ASSUME IInv, IInv', FormOK, [Next]_vars
  PROVE  FormOK'
  <1>1. CASE Answered
    BY <1>1, AnsweredForm
  <1>2. CASE Reverted
    BY <1>2, BuildStays, UncreatedForm DEF Reverted, Quit, chain
  <1>3. CASE RateLimited
    BY <1>3, BuildStays, UncreatedForm DEF RateLimited, Quit, chain
  <1>4. CASE Killed
    BY <1>4, KilledForm
  <1>5. CASE StartDeploy
    BY <1>5, BuildStays, UncreatedForm DEF StartDeploy, chain
  <1>6. ASSUME NEW w \in Accounts, NEW t \in TargetLists, NEW d \in BOOLEAN, StartUpgrade(w, t, d)
        PROVE  FormOK'
    BY <1>6, BuildStays, UncreatedForm DEF StartUpgrade, RestoreFromFile, chain
  <1>7. ASSUME NEW a \in Edited, Compile(a)
        PROVE  FormOK'
    BY <1>7, CompileGrows, UncreatedForm DEF Compile, chain
  <1>8. CASE Commit
    BY <1>8, BuildStays, UncreatedForm DEF Commit, chain
  <1>9. ASSUME NEW p \in Proxies, OwnerUpgrades(p)
        PROVE  FormOK'
    <2>1. PICK tx, sender : /\ tx = [op |-> "upgrade", on |-> p, admin |-> admin[p], logic |-> leftToOwner[p]]
                            /\ sender = adminOwner[admin[p]]
      OBVIOUS
    <2>2. tx.op = "upgrade" /\ Apply(tx, sender) /\ UNCHANGED <<build, notional, file>>
      BY <1>9, <2>1 DEF OwnerUpgrades
    <2>3. code' = code
      BY <2>2, Effects DEF CodeEffect
    <2> QED
      BY <2>2, <2>3, BuildStays, UncreatedForm
  <1>10. CASE UNCHANGED vars
    BY <1>10, BuildStays, UncreatedForm DEF vars, chain
  <1> QED
    BY <1>1, <1>2, <1>3, <1>4, <1>5, <1>6, <1>7, <1>8, <1>9, <1>10 DEF Next, ScriptStep

\* A hash that is behind the build stays behind it.
LEMMA BehindStays ==
  ASSUME IInv, IInv', NEW memory \in Memory, NEW p \in Proxies, Behind(p, memory), BuildGrows
  PROVE  Behind(p, memory)'
  <1>1. CASE p \in Linked
    BY <1>1 DEF Behind
  <1>2. CASE p \notin Linked
    <2>1. PICK a, v : a = ArtifactOf(p) /\ v = memory.hashes[a].version
      OBVIOUS
    <2>2. a \in Artifacts /\ build[a] \in Nat /\ build'[a] \in Nat
      <3>1. ArtifactOf(p) \in Artifacts
        BY DEF ArtifactOf, Artifacts, Proxies, Core, Markets
      <3> QED
        BY <2>1, <3>1, BoundsAssumption DEF IInv, SystemOK
    <2>3. v \in Nat
      BY <2>1, <2>2 DEF Memory, Code
    <2>4. v < build[a] /\ build[a] <= build'[a]
      BY <1>2, <2>1, <2>2 DEF Behind, BuildGrows
    <2>5. v < build'[a]
      BY <2>2, <2>3, <2>4
    <2> QED
      BY <2>1, <2>5 DEF Behind
  <1> QED
    BY <1>1, <1>2

\* A proxy's account in the file goes on: it is left alone, or has what the file tells, or a
\* run has upgraded it whose hash the build has left behind.
Goes(p) == ProxyKept(p) \/ Settled(p, file)' \/ (Unsaved' /\ Behind(p, file))

\* What was saved still tells the chain after a step that only adds code and makes upgrades
\* that are accounted for.
LEMMA FileStays ==
  ASSUME IInv, IInv', FileTells, file' = file, CodeKept, BuildGrows, Unsaved => Unsaved',
         Saved => \A p \in Proxies : Goes(p)
  PROVE  HashesOK(file)' /\ (Saved => \A l \in Libraries : file.libraries[l] # 0)' /\ FileSettled'
  <1>1. PICK memory : memory = file
    OBVIOUS
  <1>2. ChainTypeOK /\ Known(memory) /\ HashesOK(memory) /\ memory \in Memory
    BY <1>1 DEF IInv, SystemOK, FileTells, Known
  <1>3. HashesOK(memory)'
    BY <1>2, HashesStay
  <1>4. HashesOK(file)'
    BY <1>1, <1>3 DEF HashesOK
  <1>5. (Saved => \A l \in Libraries : file.libraries[l] # 0)'
    BY DEF FileTells, Saved
  <1>6. ASSUME Saved, NEW p \in Proxies
        PROVE  Settled(p, memory)' \/ (Unsaved' /\ Behind(p, memory)')
    <2>1. CASE Unsaved' /\ Behind(p, memory)
      BY <1>2, <2>1, BehindStays
    <2>2. CASE Settled(p, file)'
      BY <1>1, <2>2 DEF Settled
    <2>3. CASE ProxyKept(p) /\ Settled(p, memory)
      <3>1. /\ implementation[p] \in 1 .. Len(code) /\ leftToOwner[p] \in 0 .. Len(code)
            /\ Len(code) \in Nat
        BY <1>6, SavedProxies
      <3> QED
        BY <2>3, <3>1, SettledStays
    <2>4. Settled(p, memory) \/ (Unsaved /\ Behind(p, memory))
      BY <1>1, <1>6 DEF FileTells, FileSettled
    <2>5. ProxyKept(p) \/ Settled(p, file)' \/ (Unsaved' /\ Behind(p, memory))
      BY <1>1, <1>6 DEF Goes
    <2> QED
      BY <2>1, <2>2, <2>3, <2>4, <2>5
  <1>7. FileSettled'
    <2> SUFFICES ASSUME Saved', NEW p \in Proxies
                 PROVE  Settled(p, file)' \/ (Unsaved' /\ Behind(p, file)')
      BY DEF FileSettled
    <2>1. Saved
      BY DEF Saved
    <2>2. Settled(p, memory)' \/ (Unsaved' /\ Behind(p, memory)')
      BY <1>6, <2>1
    <2>3. CASE Settled(p, memory)'
      BY <1>1, <2>3 DEF Settled
    <2>4. CASE Unsaved' /\ Behind(p, memory)'
      BY <1>1, <2>4 DEF Behind
    <2> QED
      BY <2>2, <2>3, <2>4
  <1> QED
    BY <1>4, <1>5, <1>7

\* A run that ends before it saved leaves a file that still tells the chain, or is lost.
LEMMA QuitTells ==
  ASSUME IInv, IInv', FileTells, NEW upgraded, Quit(upgraded), script.upgraded => upgraded, CodeKept,
         Saved => \A p \in Proxies : Goes(p)
  PROVE  FileTells'
  <1>1. /\ file' = file /\ notional' = Empty /\ script'.program = "none" /\ lost' = (lost \/ upgraded)
        /\ build' = build
    BY IdleTypes DEF Quit
  <1>2. HashesOK(notional)'
    BY <1>1 DEF HashesOK, Empty
  <1>3. Unsaved => Unsaved'
    BY <1>1 DEF Unsaved
  <1>4. HashesOK(file)' /\ (Saved => \A l \in Libraries : file.libraries[l] # 0)' /\ FileSettled'
    BY <1>1, <1>3, BuildStays, FileStays
  <1>5. StagesOK' /\ ~Deploying' /\ ~Upgrading'
    BY <1>1 DEF StagesOK, Upgrading, Deploying
  <1> QED
    BY <1>2, <1>4, <1>5 DEF FileTells

\* A request that goes through changes no proxy of a saved system, except an upgrade.
LEMMA SavedRequests ==
  ASSUME IInv, Running, Permitted(Sends, script.wallet), Apply(Sends, script.wallet), Saved,
         Sends.op # "upgrade"
  PROVE  implementation' = implementation
  <1>1. implementation' = IF Sends.op \in {"createProxy", "upgrade"}
                          THEN [implementation EXCEPT ![Sends.on] = Sends.logic] ELSE implementation
    BY Effects DEF ProxyEffect
  <1>2. Deploying \/ Upgrading
    BY DEF Running, Deploying, Upgrading, IInv, RunOK, ScriptTypeOK, Runs
  <1>3. CASE Deploying
    <2>1. PICK k : k = script.step
      OBVIOUS
    <2>2. k \in 1 .. 56 /\ Sends = Request(DeployMain[k])
      BY <1>3, <2>1, DeploySends
    <2>3. k > 47
      BY <1>3, <2>1 DEF IInv, RunOK, DeployedSoFar, SaveStep
    <2>4. Scheduled(k, Sends)
      BY <2>2, RequestScheduled
    <2>5. Sends.op # "createProxy"
      <3>1. \A p \in Proxies : ProxyStep[p] \in 6 .. 41
        BY Places
      <3> QED
        BY <2>3, <2>4, <3>1 DEF Scheduled
    <2> QED
      BY <1>1, <2>5
  <1>4. CASE Upgrading
    <2>1. Upgrade(Sends)
      BY <1>4, UpgradeKinds DEF Sends, Upgrading
    <2> QED
      BY <1>1, <2>1 DEF Upgrade, Reads
  <1> QED
    BY <1>2, <1>3, <1>4

\* A run that is cut short between requests changes nothing on the chain.
LEMMA QuitsTell ==
  ASSUME IInv, IInv', FileTells, UNCHANGED <<chain, leftToOwner>>, Quit(script.upgraded)
  PROVE  FileTells'
  <1>1. code' = code /\ implementation' = implementation /\ leftToOwner' = leftToOwner
    BY DEF chain, proxyVars
  <1>2. CodeKept /\ \A p \in Proxies : Goes(p)
    BY <1>1 DEF CodeKept, ProxyKept, Goes
  <1>3. PICK upgraded : upgraded = script.upgraded
    OBVIOUS
  <1> QED
    BY <1>2, <1>3, QuitTells

\* The run of a script is where it was.
SameRun ==
  /\ notional' = notional /\ script'.program = script.program /\ script'.step = script.step
  /\ script'.group = script.group /\ script'.stage = script.stage
  /\ script'.targets = script.targets /\ script'.dryRun = script.dryRun
  /\ script'.upgraded = script.upgraded

\* A run that is where it was is at the same target, and the turns are the same.
LEMMA SameTurns ==
  ASSUME SameRun
  PROVE  /\ Target' = Target /\ AllDone' = AllDone /\ MarketsTurn' = MarketsTurn
         /\ ContractsTurn' = ContractsTurn /\ (Deploying' <=> Deploying) /\ (Upgrading' <=> Upgrading)
         /\ \A p \in Proxies : (Turn(p)' <=> Turn(p)) /\ (Ahead(p)' <=> Ahead(p))
  <1>1. Target' = Target /\ AllDone' = AllDone
    BY SameTargets DEF SameRun
  <1>2. MarketsTurn' = MarketsTurn /\ ContractsTurn' = ContractsTurn
    BY <1>1 DEF SameRun, MarketsTurn, ContractsTurn, OnMarket
  <1>3. \A p \in Proxies : (Turn(p)' <=> Turn(p)) /\ (Ahead(p)' <=> Ahead(p))
    BY <1>1, <1>2 DEF SameRun, Turn, Ahead, UpgradePlace
  <1> QED
    BY <1>1, <1>2, <1>3 DEF SameRun, Deploying, Upgrading

\* The logic of a contract whose turn it is has been created.
LEMMA TurnsLogic ==
  ASSUME IInv, FileTells, Upgrading, ContractsTurn
  PROVE  notional.logic \in 1 .. Len(code)
  <1>1. Target \in Core /\ script.stage \in {"owner", "upgrade"} /\ ~AllDone
    BY DEF ContractsTurn, FileTells, StagesOK, IInv, RunOK, ScriptTypeOK, Runs, Stages
  <1>2. NewLogic(Target) # 0 /\ Target # "CashMarket"
    BY <1>1 DEF IInv, RunOK, UpgradesSaved, Core
  <1> QED
    BY <1>2 DEF NewLogic, IInv, RunOK, SystemOK, Known, Memory, ChainTypeOK

\* What deploy.ts tells stays true while its run is where it was.
LEMMA SameDeployTells ==
  ASSUME IInv, FileTells, Deploying, SameRun, CodeKept, ~Saved => implementation' = implementation
  PROVE  DeployTells'
  <1>1. PICK k, memory : k = script.step /\ memory = notional
    OBVIOUS
  <1>2. DeployTells /\ ChainTypeOK /\ DeployedSoFar /\ Known(notional)
    BY DEF FileTells, IInv, RunOK, SystemOK
  <1>3. k \in Nat /\ script'.step = k /\ notional' = memory /\ Len(code) \in Nat
    BY <1>1, <1>2 DEF SameRun, IInv, RunOK, ScriptTypeOK, Runs, ChainTypeOK
  <1>4. ASSUME NEW p \in Proxies, ProxyStep[p] < k, k \in 7 .. 47
        PROVE  code'[implementation'[p]] = memory.hashes[ArtifactOf(p)]
    <2>1. ~Saved /\ Built(k, notional.proxyAdmin)
      BY <1>1, <1>2, <1>4 DEF DeployedSoFar, SaveStep
    <2>2. implementation[p] # 0 /\ implementation'[p] = implementation[p]
      BY <1>4, <2>1 DEF Built, ProxiesBefore
    <2>3. implementation[p] \in 1 .. Len(code)
      BY <1>2, <1>3, <2>2 DEF ChainTypeOK
    <2>4. code[implementation[p]] = memory.hashes[ArtifactOf(p)]
      BY <1>1, <1>2, <1>4 DEF DeployTells, SaveStep
    <2> QED
      BY <2>2, <2>3, <2>4 DEF CodeKept
  <1>5. ASSUME NEW p \in Proxies \ Markets, k = ProxyStep[p]
        PROVE  code'[memory.logic] = memory.hashes[p]
    <2>1. k > 1
      BY <1>5, Places
    <2>2. memory.logic # 0 /\ memory.logic \in Nat /\ memory.logic <= Len(code)
      BY <1>1, <1>2, <2>1 DEF DeployedSoFar, Known, Memory
    <2>3. code[memory.logic] = memory.hashes[p]
      BY <1>1, <1>2, <1>5 DEF DeployTells
    <2> QED
      BY <1>3, <2>2, <2>3 DEF CodeKept
  <1>6. /\ k > 1 => memory.libraries["Liquidation"] # 0
        /\ k > 2 => memory.libraries["RiskFramework"] # 0
    BY <1>1, <1>2 DEF DeployTells
  <1> QED
    BY <1>3, <1>4, <1>5, <1>6 DEF DeployTells, SaveStep

\* What is accounted for in the object stays so.
LEMMA AccountedStays ==
  ASSUME IInv, Saved, CodeKept, NEW p \in Proxies, ProxyKept(p), build' = build, lost' = lost,
         NEW memory, notional' = memory, Accounted(p, notional),
         memory.hashes[ArtifactOf(p)] = notional.hashes[ArtifactOf(p)]
  PROVE  Accounted(p, notional)'
  <1>1. CASE Settled(p, notional)
    <2>1. Settled(p, memory)
      BY <1>1 DEF Settled
    <2>2. Settled(p, memory)'
      BY <2>1, SettledStays, SavedProxies
    <2> QED
      BY <2>2 DEF Settled, Accounted
  <1>2. CASE lost /\ Behind(p, notional)
    BY <1>2 DEF Behind, Accounted
  <1> QED
    BY <1>1, <1>2 DEF Accounted

\* The bytecode of the markets' logic refers to no library, so it is one all along a run.
LEMMA MarketBytecode ==
  ASSUME build' = build
  PROVE  Bytecode("CashMarket")' = Bytecode("CashMarket")
  <1>1. "CashMarket" \notin DOMAIN LinkReferences
    BY DEF LinkReferences
  <1> QED
    BY <1>1 DEF Bytecode, Link

\* The markets' hash is what it was, if the object, the file and the run are.
LEMMA MarketsHashSame ==
  ASSUME MarketsHash, build' = build, file' = file,
         notional'.cashMarketLogic = notional.cashMarketLogic,
         notional'.hashes["CashMarket"] = notional.hashes["CashMarket"],
         (MarketsTurn \/ script.step > 7)' <=> MarketsTurn \/ script.step > 7
  PROVE  MarketsHash'
  BY MarketBytecode DEF MarketsHash

\* What upgrade.ts tells stays true while its run is where it was, also when an admin's owner
\* makes an upgrade that was left to it.
LEMMA SameUpgradeTells ==
  ASSUME IInv, FileTells, Upgrading, ~script.dryRun, SameRun, CodeKept, build' = build, lost' = lost,
         file' = file, \A p \in Proxies : ProxyKept(p)
  PROVE  UpgradeTells'
  <1>1. PICK memory : memory = notional
    OBVIOUS
  <1>2. UpgradeTells /\ notional' = notional /\ Saved /\ Len(code) \in Nat
    BY DEF FileTells, SameRun, IInv, RunOK, UpgradesSaved, SystemOK, ChainTypeOK
  <1>3. ASSUME NEW p \in Proxies
        PROVE  Accounted(p, notional)' \/ Turn(p)'
    <2>1. CASE Turn(p)
      BY <2>1, SameTurns
    <2>2. CASE Accounted(p, notional)
      <3>1. Accounted(p, notional)'
        BY <1>1, <1>2, <2>2, AccountedStays
      <3> QED
        BY <3>1
    <2> QED
      BY <1>1, <1>2, <2>1, <2>2 DEF UpgradeTells
  <1>4. ASSUME NEW m \in Markets, Turn(m)'
        PROVE  Awaits(m)'
    <2>1. m \in Proxies
      BY KindsApart
    <2>2. Awaits(m) /\ ProxyKept(m) /\ leftToOwner[m] \in 0 .. Len(code)
      BY <1>2, <1>4, <2>1, SameTurns, SavedProxies DEF UpgradeTells
    <2>3. leftToOwner[m] # 0 => code'[leftToOwner[m]] = code[leftToOwner[m]]
      BY <1>2, <2>2 DEF CodeKept
    <2>4. leftToOwner'[m] \in {0, leftToOwner[m]} /\ implementation'[m] \in {implementation[m], leftToOwner[m]}
      BY <2>2 DEF ProxyKept
    <2>5. /\ notional'.cashMarketLogic = notional.cashMarketLogic
          /\ file'.cashMarketLogic = file.cashMarketLogic
          /\ notional.cashMarketLogic # 0
      BY <1>2 DEF IInv, RunOK, UpgradesSaved
    <2>6. CASE notional.cashMarketLogic = file.cashMarketLogic
      <3>1. leftToOwner'[m] # 0 => code'[leftToOwner'[m]] = file'.hashes["CashMarket"]
        BY <2>2, <2>3, <2>4, <2>6 DEF Awaits
      <3> QED
        BY <2>5, <2>6, <3>1 DEF Awaits
    <2>7. CASE notional.cashMarketLogic # file.cashMarketLogic
      <3>1. notional'.cashMarketLogic \notin {implementation'[m], leftToOwner'[m]}
        BY <2>2, <2>4, <2>5, <2>7 DEF Awaits
      <3> QED
        BY <2>5, <2>7, <3>1 DEF Awaits
    <2> QED
      BY <2>6, <2>7
  <1>5. MarketsHash'
    <2>1. MarketsTurn' = MarketsTurn /\ script'.step = script.step
      BY SameTurns DEF SameRun
    <2> QED
      BY <1>2, <2>1, MarketsHashSame DEF UpgradeTells
  <1>6. ContractsTurn' => (code[notional.logic] = notional.hashes[Target] /\ Behind(Target, file))'
    <2> SUFFICES ASSUME ContractsTurn'
                 PROVE  (code[notional.logic] = notional.hashes[Target] /\ Behind(Target, file))'
      OBVIOUS
    <2>1. ContractsTurn /\ Target' = Target
      BY SameTurns
    <2>2. notional.logic \in 1 .. Len(code)
      BY <2>1, TurnsLogic
    <2> QED
      BY <1>2, <2>1, <2>2 DEF UpgradeTells, CodeKept, Behind
  <1>7. \A p \in Core : Ahead(p)' => notional'.hashes[p] = file'.hashes[p]
    BY <1>2, SameTurns, KindsApart DEF UpgradeTells
  <1> QED
    BY <1>3, <1>4, <1>5, <1>6, <1>7 DEF UpgradeTells

\* While a run stays where it is, what the file and the object tell stays true.
LEMMA SameTells ==
  ASSUME IInv, IInv', FileTells, SameRun, CodeKept, file' = file, lost' = lost, BuildGrows,
         Upgrading => build' = build,
         Saved => \A p \in Proxies : ProxyKept(p),
         ~Saved => implementation' = implementation
  PROVE  FileTells'
  <1>1. HashesOK(file)' /\ (Saved => \A l \in Libraries : file.libraries[l] # 0)' /\ FileSettled'
    <2>1. Unsaved => Unsaved'
      BY SameTurns DEF SameRun, Unsaved
    <2> QED
      BY <2>1, FileStays DEF Goes
  <1>2. HashesOK(notional)'
    <2>1. PICK memory : memory = notional
      OBVIOUS
    <2>2. HashesOK(memory)'
      BY <2>1, HashesStay DEF IInv, RunOK, SystemOK, FileTells
    <2> QED
      BY <2>1, <2>2 DEF HashesOK, SameRun
  <1>3. StagesOK'
    BY SameTurns DEF FileTells, StagesOK, SameRun
  <1>4. Deploying' => DeployTells'
    BY SameTurns, SameDeployTells
  <1>5. Upgrading' /\ ~script'.dryRun => UpgradeTells'
    <2>1. Upgrading => Saved
      BY DEF IInv, RunOK, UpgradesSaved
    <2> QED
      BY <2>1, SameTurns, SameUpgradeTells DEF SameRun
  <1> QED
    BY <1>1, <1>2, <1>3, <1>4, <1>5 DEF FileTells

\* Nothing but the build, the run's count of refusals and the counters changes.
LEMMA StillTells ==
  ASSUME IInv, IInv', FileTells, SameRun, UNCHANGED <<chain, file, leftToOwner, lost>>, BuildGrows,
         Upgrading => build' = build
  PROVE  FileTells'
  <1>1. code' = code /\ implementation' = implementation /\ leftToOwner' = leftToOwner
    BY DEF chain, proxyVars
  <1>2. CodeKept /\ \A p \in Proxies : ProxyKept(p)
    BY <1>1 DEF CodeKept, ProxyKept
  <1> QED
    BY <1>1, <1>2, SameTells

\* A refusal with 429 changes nothing but the count, or ends the run.
LEMMA RateLimitedTells ==
  ASSUME IInv, IInv', FileTells, RateLimited
  PROVE  FileTells'
  <1>1. CASE script.failed + 1 < Attempts
    <2>1. /\ script' = [script EXCEPT !.failed = @ + 1]
          /\ UNCHANGED <<chain, leftToOwner, notional, build, file, lost>>
      BY <1>1 DEF RateLimited
    <2>2. script \in Runs
      BY DEF IInv, RunOK, ScriptTypeOK
    <2>3. SameRun
      BY <2>1, <2>2 DEF SameRun, Runs
    <2> QED
      BY <2>1, <2>3, BuildStays, StillTells
  <1>2. CASE ~(script.failed + 1 < Attempts)
    BY <1>2, QuitsTell DEF RateLimited
  <1> QED
    BY <1>1, <1>2

\* A compilation between runs touches nothing of what is told.
LEMMA ScriptlessTells ==
  ASSUME IInv, IInv', FileTells, UNCHANGED <<chain, notional, file, script, leftToOwner, lost>>,
         BuildGrows, Running => build' = build
  PROVE  FileTells'
  <1>1. SameRun
    BY DEF SameRun
  <1>2. Upgrading => Running
    BY DEF Upgrading, Running
  <1> QED
    BY <1>1, <1>2, StillTells

\* The owner's upgrade gives the proxy what was left to it.
LEMMA OwnerUpgradesTells ==
  ASSUME IInv, IInv', FileTells, NEW p \in Proxies, OwnerUpgrades(p)
  PROVE  FileTells'
  <1>1. PICK tx, sender : /\ tx = [op |-> "upgrade", on |-> p, admin |-> admin[p], logic |-> leftToOwner[p]]
                          /\ sender = adminOwner[admin[p]]
    OBVIOUS
  <1>2. /\ tx.op = "upgrade" /\ tx.on = p /\ tx.logic = leftToOwner[p] /\ leftToOwner[p] # 0
        /\ Apply(tx, sender) /\ leftToOwner' = [leftToOwner EXCEPT ![p] = 0]
        /\ UNCHANGED <<build, notional, file, script, lost>>
    BY <1>1 DEF OwnerUpgrades
  <1>3. /\ ChainTypeOK /\ leftToOwner \in [Proxies -> 0 .. Len(code)] /\ Saved
        /\ implementation \in [Proxies -> 0 .. Len(code)]
    BY <1>2 DEF IInv, SystemOK, LeftWhenSaved, ChainTypeOK
  <1>4. CodeKept
    BY <1>2, <1>3, CodeStays
  <1>5. implementation' = [implementation EXCEPT ![p] = leftToOwner[p]]
    BY <1>2, Effects DEF ProxyEffect
  <1>6. \A q \in Proxies : ProxyKept(q)
    BY <1>2, <1>3, <1>5 DEF ProxyKept
  <1>7. SameRun
    BY <1>2 DEF SameRun
  <1> QED
    BY <1>2, <1>3, <1>4, <1>6, <1>7, BuildStays, SameTells

\* deploy.ts starts with a new object, and there is no file yet.
LEMMA StartDeployTells ==
  ASSUME IInv, IInv', FileTells, StartDeploy
  PROVE  FileTells'
  <1>1. /\ script' = Start("deploy", Deployer, {}, FALSE) /\ ~Saved
        /\ code' = code /\ notional' = notional /\ file' = file
    BY DEF StartDeploy, chain
  <1>2. script'.program = "deploy" /\ script'.step = 1
    BY <1>1, DeployStarts
  <1>3. HashesOK(notional)' /\ HashesOK(file)'
    BY <1>1 DEF FileTells, HashesOK
  <1>4. ~Saved' /\ ~Upgrading' /\ FileSettled' /\ StagesOK'
    BY <1>1, <1>2 DEF Saved, Upgrading, FileSettled, StagesOK
  <1>5. DeployTells'
    <2>1. \A p \in Proxies : ~(ProxyStep[p] < 1) /\ ProxyStep[p] # 1
      BY Places
    <2> QED
      BY <1>2, <2>1 DEF DeployTells, SaveStep
  <1> QED
    BY <1>3, <1>4, <1>5 DEF FileTells

\* upgrade.ts starts with the file, so the object tells what the file told.
LEMMA StartUpgradeTells ==
  ASSUME IInv, IInv', FileTells, NEW wallet \in Accounts, NEW targets \in TargetLists, NEW dryRun \in BOOLEAN,
         StartUpgrade(wallet, targets, dryRun)
  PROVE  FileTells'
  <1>1. PICK old : old = file
    OBVIOUS
  <1>2. /\ script' = Start("upgrade", wallet, targets, dryRun) /\ ~Running /\ Saved
        /\ code' = code /\ implementation' = implementation /\ leftToOwner' = leftToOwner
        /\ notional' = old /\ file' = old /\ lost' = lost /\ build' = build
    BY <1>1 DEF StartUpgrade, RestoreFromFile, chain, proxyVars
  <1>3. /\ script'.program = "upgrade" /\ script'.step = 1 /\ script'.group = 1 /\ script'.stage = "check"
        /\ script'.upgraded = FALSE
    <2>1. "upgrade" \in {"none", "deploy", "upgrade"} /\ targets \in SUBSET Artifacts
      BY TargetsAssumption
    <2> DEFINE start == Start("upgrade", wallet, targets, dryRun)
    <2>2. start.program = "upgrade" /\ start.step = 1 /\ start.group = 1 /\ start.stage = "check"
      BY <2>1, StartTypes
    <2>3. start.upgraded = FALSE
      BY DEF Start, Idle
    <2> HIDE DEF start
    <2> QED
      BY <1>2, <2>2, <2>3 DEF start
  <1>4. HashesOK(notional)' /\ HashesOK(file)' /\ (Saved => \A l \in Libraries : file.libraries[l] # 0)'
    BY <1>1, <1>2 DEF FileTells, HashesOK, Saved
  <1>5. \A p \in Proxies : Settled(p, old) \/ (lost /\ Behind(p, old))
    BY <1>1, <1>2 DEF FileTells, FileSettled, Unsaved, Running, Upgrading
  <1>6. FileSettled'
    <2>1. \A p \in Proxies : Settled(p, file)' \/ (Unsaved' /\ Behind(p, file)')
      BY <1>2, <1>5 DEF Settled, Behind, Unsaved
    <2> QED
      BY <2>1 DEF FileSettled
  <1>7. StagesOK' /\ ~Deploying' /\ ~MarketsTurn' /\ ~ContractsTurn'
    <2>1. \A l \in Libraries : notional'.libraries[l] # 0
      BY <1>1, <1>2 DEF FileTells
    <2>2. ~Deploying' /\ ~MarketsTurn' /\ ~ContractsTurn'
      BY <1>3 DEF Deploying, MarketsTurn, ContractsTurn
    <2>3. /\ script'.dryRun => ~script'.upgraded /\ script'.stage # "upgrade"
          /\ ~AllDone' /\ Target' \in Libraries => script'.stage = "check"
          /\ ~AllDone' /\ Target' \in Core => script'.stage # "compare" /\ script'.group = 1
      BY <1>3
    <2> QED
      BY <2>1, <2>2, <2>3 DEF StagesOK
  <1>8. UpgradeTells'
    <2>1. \A p \in Proxies : Accounted(p, notional)'
      BY <1>2, <1>5 DEF Settled, Behind, Accounted
    <2>2. \A m \in Markets : ~Turn(m)'
      BY <1>7 DEF Turn
    <2>3. ~(script'.step > 7) /\ notional' = file'
      BY <1>2, <1>3
    <2> QED
      BY <1>7, <2>1, <2>2, <2>3 DEF UpgradeTells, MarketsHash
  <1> QED
    BY <1>4, <1>6, <1>7, <1>8 DEF FileTells

\* deploy.ts creates a contract's code just before the contract's proxy.
LEMMA CreatesPlaced ==
  /\ DeployMain[1] = Do("create", "Liquidation") /\ DeployMain[2] = Do("create", "RiskFramework")
  /\ \A p \in Proxies \ Markets :
       ProxyStep[p] - 1 \in {5, 7, 9, 11, 13} /\ DeployMain[ProxyStep[p] - 1] = Do("create", p)
  /\ \A k \in {5, 7, 9, 11, 13} : \E p \in Proxies \ Markets : k = ProxyStep[p] - 1
  <1>1. Proxies \ Markets = {"Directory", "Escrow", "Portfolios", "ERC1155Token", "ERC1155Trade"}
    BY DEF Proxies, Markets, Core
  <1>2. /\ ProxyStep["Directory"] - 1 = 5 /\ ProxyStep["Escrow"] - 1 = 7 /\ ProxyStep["Portfolios"] - 1 = 9
        /\ ProxyStep["ERC1155Token"] - 1 = 11 /\ ProxyStep["ERC1155Trade"] - 1 = 13
    BY DEF ProxyStep
  <1> USE DEF DeployMain, DeployLibraries, DeployProxies, SetUp, Tell, ListSteps, DeployCashMarket,
              TransferOwner, Do
  <1>3. DeployMain[1] = Do("create", "Liquidation") /\ DeployMain[2] = Do("create", "RiskFramework")
    OBVIOUS
  <1>4. DeployMain[5] = Do("create", "Directory") /\ DeployMain[7] = Do("create", "Escrow")
    OBVIOUS
  <1>5. DeployMain[9] = Do("create", "Portfolios") /\ DeployMain[11] = Do("create", "ERC1155Token")
    OBVIOUS
  <1>6. DeployMain[13] = Do("create", "ERC1155Trade")
    OBVIOUS
  <1> HIDE DEF DeployMain, Do
  <1>7. ASSUME NEW p \in Proxies \ Markets
        PROVE  ProxyStep[p] - 1 \in {5, 7, 9, 11, 13} /\ DeployMain[ProxyStep[p] - 1] = Do("create", p)
    BY ONLY <1>1, <1>2, <1>4, <1>5, <1>6, p \in Proxies \ Markets
  <1>8. \A k \in {5, 7, 9, 11, 13} : \E p \in Proxies \ Markets : k = ProxyStep[p] - 1
    BY ONLY <1>1, <1>2
  <1> QED
    BY ONLY <1>3, <1>7, <1>8

\* What deploy.ts creates at k: the libraries and the markets' logic first, then the contract
\* whose proxy is next.
LEMMA DeployCreates ==
  ASSUME NEW k \in 1 .. 56, NEW tx, tx = Request(DeployMain[k])
  PROVE  /\ tx.op = "create" => tx.on \in Artifacts
         /\ k = 1 => tx.op = "create" /\ tx.on = "Liquidation"
         /\ k = 2 => tx.op = "create" /\ tx.on = "RiskFramework"
         /\ tx.op = "create" /\ k > 3 => tx.on \in Proxies \ Markets /\ ProxyStep[tx.on] = k + 1
         /\ \A p \in Proxies \ Markets : ProxyStep[p] = k + 1 => tx.op = "create" /\ tx.on = p
  <1>1. ASSUME NEW a, DeployMain[k] = Do("create", a)
        PROVE  tx.op = "create" /\ tx.on = a
    <2>1. tx = [op |-> "create", on |-> a, code |-> Bytecode(a)]
      BY <1>1, CreateRequest
    <2> QED
      BY <2>1
  <1>2. Scheduled(k, tx) /\ (tx.op = "create" <=> DeployMain[k].op = "create")
    BY RequestScheduled
  <1>3. \A p \in Proxies \ Markets : ProxyStep[p] = k + 1 => tx.op = "create" /\ tx.on = p
    <2> SUFFICES ASSUME NEW p \in Proxies \ Markets, ProxyStep[p] = k + 1
                 PROVE  tx.op = "create" /\ tx.on = p
      OBVIOUS
    <2>1. DeployMain[ProxyStep[p] - 1] = Do("create", p)
      BY CreatesPlaced
    <2>2. ProxyStep[p] - 1 = k
      OBVIOUS
    <2> QED
      BY <1>1, <2>1, <2>2
  <1>4. tx.op = "create" /\ k > 3 => tx.on \in Proxies \ Markets /\ ProxyStep[tx.on] = k + 1
    <2> SUFFICES ASSUME tx.op = "create", k > 3
                 PROVE  tx.on \in Proxies \ Markets /\ ProxyStep[tx.on] = k + 1
      OBVIOUS
    <2>1. k \in {5, 7, 9, 11, 13}
      BY <1>2, MainPlaces
    <2>2. PICK p \in Proxies \ Markets : k = ProxyStep[p] - 1
      BY <2>1, CreatesPlaced
    <2>3. ProxyStep[p] = k + 1
      BY <2>2, Places
    <2> QED
      BY <1>3, <2>3
  <1>5. /\ k = 1 => tx.op = "create" /\ tx.on = "Liquidation"
        /\ k = 2 => tx.op = "create" /\ tx.on = "RiskFramework"
    BY <1>1, CreatesPlaced
  <1> QED
    BY <1>2, <1>3, <1>4, <1>5 DEF Scheduled

\* The proxy that deploy.ts creates gets the code it created last, a market that of all markets.
LEMMA DeployProxyGets ==
  ASSUME NEW k \in 1 .. 56, NEW tx, tx = Request(DeployMain[k]), NEW p \in Proxies, ProxyStep[p] = k
  PROVE  /\ tx.op = "createProxy" /\ tx.on = p
         /\ tx.logic = IF p \in Markets THEN notional.cashMarketLogic ELSE notional.logic
  <1>1. DeployMain[k] = Do("createProxy", p)
    BY Places
  <1>2. DeployMain[k].op = "createProxy" /\ DeployMain[k].on = p
    BY <1>1 DEF Do
  <1> DEFINE step == DeployMain[k]
  <1> HIDE DEF step
  <1>3. Request(step) = [op |-> "createProxy", on |-> step.on, admin |-> notional.proxyAdmin,
                logic |-> IF step.on \in Markets THEN notional.cashMarketLogic ELSE notional.logic]
    BY <1>2, RequestIs DEF step
  <1> QED
    BY <1>2, <1>3 DEF step

\* A proxy's artifact is one, and no library.
LEMMA ArtifactsOfProxies == \A p \in Proxies : ArtifactOf(p) \in Artifacts \ Libraries
  BY DEF ArtifactOf, Artifacts, Libraries, Proxies, Core, Markets

\* After its request k the hashes deploy.ts remembers are of what it has deployed up to then.
LEMMA DeployKeepsTelling ==
  ASSUME IInv, FileTells, Deploying, NEW k, k = script.step, k # 56,
         NEW tx, tx = Sends, Permitted(tx, script.wallet), Apply(tx, script.wallet),
         NEW memory, memory = Remembering(tx), notional' = memory, script'.step = k + 1
  PROVE  DeployTells' /\ HashesOK(memory)'
  <1>1. /\ k \in 1 .. 56 /\ tx = Request(DeployMain[k])
        /\ tx.op = "create" <=> k \in {1, 2, 3, 5, 7, 9, 11, 13}
    BY DeploySends
  <1>2. /\ ChainTypeOK /\ Known(notional) /\ HashesOK(notional) /\ DeployTells /\ DeployedSoFar
        /\ TypeOK
    BY TypeHolds DEF IInv, SystemOK, RunOK, FileTells
  <1>3. WellFormed(tx)
    BY <1>1, <1>2, RequestWellFormed
  <1>4. /\ tx.op = "create" => tx.on \in Artifacts /\ tx.code \in Code
        /\ k = 1 => tx.op = "create" /\ tx.on = "Liquidation"
        /\ k = 2 => tx.op = "create" /\ tx.on = "RiskFramework"
        /\ tx.op = "create" /\ k > 3 => tx.on \in Proxies \ Markets /\ ProxyStep[tx.on] = k + 1
        /\ \A p \in Proxies \ Markets : ProxyStep[p] = k + 1 => tx.op = "create" /\ tx.on = p
    <2>1. tx.op = "create" => tx.code \in Code
      BY <1>3 DEF WellFormed
    <2>2. /\ tx.op = "create" => tx.on \in Artifacts
          /\ k = 1 => tx.op = "create" /\ tx.on = "Liquidation"
          /\ k = 2 => tx.op = "create" /\ tx.on = "RiskFramework"
          /\ tx.op = "create" /\ k > 3 => tx.on \in Proxies \ Markets /\ ProxyStep[tx.on] = k + 1
          /\ \A p \in Proxies \ Markets : ProxyStep[p] = k + 1 => tx.op = "create" /\ tx.on = p
      BY ONLY <1>1, k \in 1 .. 56, DeployCreates
    <2> QED
      BY <2>1, <2>2
  <1>5. /\ HashesOK(memory)'
        /\ \A l \in Libraries : /\ notional.libraries[l] # 0 => memory.libraries[l] # 0
                                /\ tx.op = "create" /\ tx.on = l => memory.libraries[l] = Len(code) + 1
        /\ \A a \in Artifacts : memory.hashes[a] = IF tx.op = "create" /\ tx.on = a THEN tx.code
                                                    ELSE notional.hashes[a]
        /\ tx.op = "create" => memory.logic = Len(code) + 1 /\ code'[Len(code) + 1] = tx.code
        /\ tx.op # "create" => memory.logic = notional.logic
    BY <1>2, <1>4, HashesRemembered
  <1>6. CodeKept /\ Len(code) \in Nat
    BY <1>2, CodeStays DEF ChainTypeOK
  <1>7. /\ k + 1 > 1 => memory.libraries["Liquidation"] # 0
        /\ k + 1 > 2 => memory.libraries["RiskFramework"] # 0
    <2>1. Len(code) + 1 # 0 /\ "Liquidation" \in Libraries /\ "RiskFramework" \in Libraries
      BY <1>6 DEF Libraries
    <2>2. /\ k > 1 => notional.libraries["Liquidation"] # 0
          /\ k > 2 => notional.libraries["RiskFramework"] # 0
      BY <1>2 DEF DeployTells
    <2>3. (k = 1 \/ k > 1) /\ (k + 1 > 2 => k = 2 \/ k > 2)
      BY <1>1
    <2> QED
      BY <1>4, <1>5, <2>1, <2>2, <2>3
  <1>8. implementation' = IF tx.op \in {"createProxy", "upgrade"}
                          THEN [implementation EXCEPT ![tx.on] = tx.logic] ELSE implementation
    BY Effects DEF ProxyEffect
  <1>9. ASSUME NEW p \in Proxies, ProxyStep[p] < k + 1, k + 1 \in 7 .. 47
        PROVE  code'[implementation'[p]] = memory.hashes[ArtifactOf(p)]
    <2>1. ProxyStep[p] \in Nat /\ ArtifactOf(p) \in Artifacts /\ implementation \in [Proxies -> 0 .. Len(code)]
      <3>1. ProxyStep[p] \in 6 .. 41
        BY Places
      <3>2. ProxyStep[p] \in Nat
        BY <3>1
      <3>3. implementation \in [Proxies -> 0 .. Len(code)]
        BY <1>2 DEF ChainTypeOK
      <3> QED
        BY <3>2, <3>3, ArtifactsOfProxies
    <2>2. CASE ProxyStep[p] = k
      <3>1. /\ tx.op = "createProxy" /\ tx.on = p
            /\ tx.logic = IF p \in Markets THEN notional.cashMarketLogic ELSE notional.logic
        BY <1>1, <2>2, DeployProxyGets
      <3>2. implementation'[p] = tx.logic /\ memory.hashes[ArtifactOf(p)] = notional.hashes[ArtifactOf(p)]
        BY <1>5, <1>8, <2>1, <3>1
      <3>3. k > 1 /\ k > 3
        BY <1>1, <1>9
      <3>4. /\ notional.logic \in 1 .. Len(code) /\ notional.cashMarketLogic \in 1 .. Len(code)
        BY <1>2, <1>6, <3>3 DEF DeployedSoFar, Known, Memory
      <3>5. code[tx.logic] = notional.hashes[ArtifactOf(p)]
        <4>1. CASE p \in Markets
          BY <1>2, <3>1, <3>4, <4>1 DEF HashesOK, ArtifactOf
        <4>2. CASE p \notin Markets
          BY <1>2, <2>2, <3>1, <4>2 DEF DeployTells, ArtifactOf
        <4> QED
          BY <4>1, <4>2
      <3>6. tx.logic \in 1 .. Len(code)
        BY <3>1, <3>4
      <3> QED
        BY <1>6, <3>2, <3>5, <3>6 DEF CodeKept
    <2>3. CASE ProxyStep[p] # k
      <3>1. ProxyStep[p] < k /\ k \in 7 .. 47
        <4>1. ProxyStep[p] \in 6 .. 41
          BY Places
        <4> DEFINE s == ProxyStep[p]
        <4>2. s \in 6 .. 41 /\ s < k + 1 /\ s # k /\ k + 1 \in 7 .. 47 /\ k \in 1 .. 56
          BY <1>1, <1>9, <2>3, <4>1
        <4> HIDE DEF s
        <4>3. s < k /\ k \in 7 .. 47
          BY ONLY <4>2
        <4> QED
          BY <4>3 DEF s
      <3>2. Scheduled(k, tx)
        BY <1>1, RequestScheduled
      <3>3. implementation'[p] = implementation[p]
        BY <1>8, <2>1, <2>3, <3>2 DEF Scheduled
      <3>4. implementation[p] \in 1 .. Len(code)
        <4>1. implementation[p] # 0
          BY <1>2, <3>1 DEF DeployedSoFar, Built, ProxiesBefore
        <4> QED
          BY <1>6, <2>1, <4>1
      <3>5. ~(tx.op = "create" /\ tx.on = ArtifactOf(p))
        <4> SUFFICES ASSUME tx.op = "create", tx.on = ArtifactOf(p) PROVE FALSE
          OBVIOUS
        <4>1. tx.on \in Proxies \ Markets /\ ProxyStep[tx.on] = k + 1
          BY <1>4, <3>1
        <4>2. tx.on = p
          BY <4>1 DEF ArtifactOf, Proxies, Core, Markets
        <4> QED
          BY <1>1, <3>1, <4>1, <4>2
      <3>6. code[implementation[p]] = memory.hashes[ArtifactOf(p)]
        BY <1>2, <1>5, <2>1, <3>1, <3>5 DEF DeployTells, SaveStep
      <3> QED
        BY <1>6, <3>3, <3>4, <3>6 DEF CodeKept
    <2> QED
      BY <2>2, <2>3
  <1>10. ASSUME NEW p \in Proxies \ Markets, k + 1 = ProxyStep[p]
         PROVE  code'[memory.logic] = memory.hashes[p]
    <2>1. tx.op = "create" /\ tx.on = p /\ p \in Artifacts
      BY <1>4, <1>10
    <2> QED
      BY <1>5, <2>1
  <1> QED
    BY <1>5, <1>7, <1>9, <1>10 DEF DeployTells, SaveStep

\* deploy.ts writes a file that tells the chain.
LEMMA DeploySaves ==
  ASSUME IInv, FileTells, Deploying, NEW k, k = 47, k = script.step, implementation' = implementation,
         leftToOwner' = leftToOwner, code' = code,
         NEW memory, memory.libraries = notional.libraries, memory.hashes = notional.hashes,
         memory.cashMarketLogic = notional.cashMarketLogic
  PROVE  /\ HashesOK(memory)' /\ \A l \in Libraries : memory.libraries[l] # 0
         /\ \A p \in Proxies : Settled(p, memory)'
  <1>1. /\ ChainTypeOK /\ Known(notional) /\ HashesOK(notional) /\ DeployTells /\ DeployedSoFar
        /\ LeftWhenSaved /\ ~Saved
    BY DEF IInv, SystemOK, RunOK, FileTells, DeployedSoFar, SaveStep
  <1>2. HashesOK(memory)'
    BY <1>1 DEF HashesOK
  <1>3. \A l \in Libraries : memory.libraries[l] # 0
    BY <1>1 DEF DeployTells, Libraries
  <1>4. ASSUME NEW p \in Proxies
        PROVE  Settled(p, memory)'
    <2>1. leftToOwner[p] = 0
      BY <1>1 DEF LeftWhenSaved
    <2>2. ProxyStep[p] < 47
      BY Places
    <2>3. code[implementation[p]] = notional.hashes[ArtifactOf(p)]
      BY <1>1, <2>2 DEF DeployTells, SaveStep
    <2> QED
      BY <2>1, <2>3 DEF Settled
  <1> QED
    BY <1>2, <1>3, <1>4

\* deploy.ts goes on: what it has deployed its object tells.
LEMMA DeployAnsweredTells ==
  ASSUME IInv, IInv', FileTells, Deploying, Answered
  PROVE  FileTells'
  <1>0. PICK k, tx, old, r : k = script.step /\ tx = Sends /\ old = notional /\ r = Remembering(tx)
    OBVIOUS
  <1>1. /\ k \in 1 .. 56 /\ LeftAfter(tx) = leftToOwner
        /\ tx.op # "upgrade"
        /\ tx.op = "save" <=> k = 47
        /\ k = 56 => Advanced = Idle
        /\ k # 56 => Advanced = [script EXCEPT !.step = @ + 1] /\ Advanced # Idle
    BY <1>0, DeploySends
  <1>2. /\ Permitted(tx, script.wallet) /\ Apply(tx, script.wallet)
        /\ notional' = IF k = 56 THEN Empty ELSE r
        /\ IF k = 47 THEN file' = [old EXCEPT !.logic = 0] ELSE file' = file
        /\ script' = IF k = 56 THEN Idle
               ELSE [[script EXCEPT !.step = @ + 1] EXCEPT !.failed = 0, !.upgraded = @ \/ Upgrades]
        /\ leftToOwner' = leftToOwner /\ lost' = lost /\ build' = build
    BY <1>0, <1>1 DEF Answered, SaveAddresses
  <1>3. script \in Runs /\ ChainTypeOK
    BY DEF IInv, RunOK, ScriptTypeOK, SystemOK
  <1>4. CodeKept
    BY <1>2, <1>3, CodeStays
  <1>5. /\ k # 56 => script'.program = "deploy" /\ script'.step = k + 1
        /\ k = 56 => script'.program = "none"
    <2>1. k = 56 => script'.program = "none"
      BY <1>2, IdleTypes
    <2>2. k # 56 => script'.program = "deploy" /\ script'.step = k + 1
      BY <1>0, <1>2, <1>3 DEF Runs, Deploying
    <2> QED
      BY <2>1, <2>2
  <1>6. ~Upgrading' /\ StagesOK' /\ ~Upgrading /\ (Deploying' => k # 56)
    BY <1>5 DEF Upgrading, Deploying, StagesOK
  <1>7. HashesOK(notional)' /\ (Deploying' => DeployTells')
    <2>1. CASE k = 56
      BY <1>2, <1>6, <2>1 DEF HashesOK, Empty
    <2>2. CASE k # 56
      <3>1. DeployTells' /\ HashesOK(r)'
        BY <1>0, <1>2, <1>5, <2>2, DeployKeepsTelling
      <3> QED
        BY <1>2, <2>2, <3>1 DEF HashesOK
    <2> QED
      BY <2>1, <2>2
  <1>8. CASE k = 47
    <2>1. PICK memory : memory = [old EXCEPT !.logic = 0]
      OBVIOUS
    <2>2. code' = code /\ implementation' = implementation
      BY <1>1, <1>2, <1>8, Effects DEF CodeEffect, ProxyEffect
    <2>3. /\ HashesOK(memory)' /\ \A l \in Libraries : memory.libraries[l] # 0
          /\ \A p \in Proxies : Settled(p, memory)'
      <3>1. leftToOwner' = leftToOwner /\ k = script.step
        BY <1>0, <1>2
      <3>2. /\ memory.libraries = notional.libraries /\ memory.hashes = notional.hashes
            /\ memory.cashMarketLogic = notional.cashMarketLogic
        BY <1>0, <2>1 DEF IInv, RunOK, Known, Memory
      <3> QED
        BY <1>8, <2>2, <3>1, <3>2, DeploySaves
    <2>4. HashesOK(file)' /\ \A l \in Libraries : file'.libraries[l] # 0
      BY <1>2, <1>8, <2>1, <2>3 DEF HashesOK
    <2>5. FileSettled'
      BY <1>2, <1>8, <2>1, <2>3 DEF FileSettled, Settled
    <2> QED
      BY <1>6, <1>7, <2>4, <2>5 DEF FileTells
  <1>9. CASE k # 47
    <2>1. ASSUME Saved, NEW p \in Proxies PROVE ProxyKept(p)
      <3>1. Running
        BY DEF Running, Deploying
      <3>2. implementation' = implementation
        BY <1>0, <1>1, <1>2, <2>1, <3>1, SavedRequests
      <3> QED
        BY <1>2, <3>2 DEF ProxyKept
    <2>2. HashesOK(file)' /\ (Saved => \A l \in Libraries : file.libraries[l] # 0)' /\ FileSettled'
      <3>1. Unsaved => Unsaved'
        BY <1>2, <1>6 DEF Unsaved
      <3> QED
        BY <1>2, <1>4, <1>9, <2>1, <3>1, BuildStays, FileStays DEF Goes
    <2> QED
      BY <1>6, <1>7, <2>2 DEF FileTells
  <1> QED
    BY <1>8, <1>9

\* What upgrade.ts has to do is a library, a contract of the Directory, or the markets,
\* which come last.
LEMMA TargetKinds ==
  ASSUME ScriptTypeOK, ~AllDone
  PROVE  /\ Target \in Libraries \cup Core \cup {"CashMarket"}
         /\ Min(Targets) \in 1 .. 7 /\ script.step <= 7
         /\ OnMarket <=> Min(Targets) = 7
  <1>1. Min(Targets) \in script.step .. 7 /\ script.step \in Nat \ {0}
    BY TargetFacts DEF ScriptTypeOK, Runs
  <1>2. PICK n, s : n = Min(Targets) /\ s = script.step
    OBVIOUS
  <1>3. n \in 1 .. 7 /\ s <= 7
    BY ONLY <1>1, <1>2
  <1>4. Target = UpgradeMain[n]
    BY <1>2 DEF Target
  <1>5. /\ UpgradeMain[n] \in Libraries \cup Core \cup {"CashMarket"}
        /\ UpgradeMain[n] = "CashMarket" <=> n = 7
    BY <1>3 DEF UpgradeMain, Libraries, Core
  <1> QED
    BY <1>2, <1>3, <1>4, <1>5 DEF OnMarket

\* The markets' turn: the cash groups are the markets in the order of their ids.
LEMMA MarketOfGroup ==
  ASSUME IInv, Upgrading
  PROVE  /\ Len(cashGroups) = 3 /\ script.group \in 1 .. 3
         /\ cashGroups[script.group] \in Markets
         /\ \A m \in Markets : GroupId[m] \in 1 .. 3 /\ (GroupId[m] = script.group <=> m = cashGroups[script.group])
  <1>1. Saved /\ script.group <= Len(cashGroups) /\ script.group \in Nat \ {0}
    BY DEF IInv, RunOK, UpgradesSaved, ScriptTypeOK, Runs
  <1>2. cashGroups = << "DAI1M", "DAI3M", "USDC3M" >>
    BY <1>1 DEF IInv, SystemOK, SavedIsBuilt, SaveStep, Built, MarketsBefore, GroupsBefore
  <1>3. Len(cashGroups) = 3 /\ cashGroups[1] = "DAI1M" /\ cashGroups[2] = "DAI3M" /\ cashGroups[3] = "USDC3M"
    BY <1>2
  <1>4. script.group \in 1 .. 3
    BY <1>1, <1>3
  <1>5. GroupId["DAI1M"] = 1 /\ GroupId["DAI3M"] = 2 /\ GroupId["USDC3M"] = 3
    BY DEF GroupId
  <1>6. script.group = 1 \/ script.group = 2 \/ script.group = 3
    BY <1>4
  <1> QED
    BY <1>3, <1>4, <1>5, <1>6 DEF Markets

\* The proxy that upgrade.ts is at, and its artifact.
LEMMA ProxyFacts ==
  ASSUME IInv, Upgrading, ~AllDone, Target \notin Libraries
  PROVE  /\ Proxy \in Proxies /\ ArtifactOf(Proxy) = Target
         /\ Target \in Core => Proxy = Target /\ ~OnMarket
         /\ OnMarket => Proxy \in Markets /\ GroupId[Proxy] = script.group
  <1>1. Target \in Core \cup {"CashMarket"}
    BY TargetKinds DEF IInv, RunOK
  <1>2. CASE Target = "CashMarket"
    <2>1. Proxy = cashGroups[script.group] /\ Proxy \in Markets
      BY <1>2, MarketOfGroup DEF Proxy, OnMarket
    <2> QED
      BY <1>2, <2>1, KindsApart, MarketOfGroup DEF ArtifactOf, Core
  <1>3. CASE Target \in Core
    <2>1. ~OnMarket
      BY <1>3 DEF OnMarket, Core
    <2>2. Proxy = Target
      BY <2>1 DEF Proxy
    <2> QED
      BY <1>3, <2>1, <2>2, KindsApart DEF ArtifactOf
  <1> QED
    BY <1>1, <1>2, <1>3

\* The stage of a turn decides what upgrade.ts sends.
LEMMA UpgradeStages ==
  ASSUME ~AllDone, Target \notin Libraries
  PROVE  /\ UpgradeSends.op = "upgrade" <=> script.stage = "upgrade"
         /\ UpgradeSends.op = "create" =>
              script.stage = "check" /\ UpgradeCheckCodeHash(Target) /\ ~script.dryRun
  <1>1. UpgradeSends = UpgradeRequest(Target, Proxy, script.stage, script.dryRun)
    BY UpgradeSendsIs
  <1>2. PICK tx : tx = UpgradeSends
    OBVIOUS
  <1>3. CASE script.stage = "upgrade"
    <2>1. tx = [op |-> "upgrade", on |-> Proxy, admin |-> notional.proxyAdmin, logic |-> NewLogic(Target)]
      BY <1>1, <1>2, <1>3, UpgradeRequestIs
    <2>2. tx.op = "upgrade"
      BY <2>1
    <2> QED
      BY <1>2, <1>3, <2>2
  <1>4. CASE script.stage # "upgrade"
    <2>1. Upgrade(tx)
      BY <1>2, UpgradeKinds
    <2>2. tx.op # "upgrade"
      BY <1>4, <2>1 DEF Upgrade
    <2> QED
      BY <1>2, <1>4, <2>1, <2>2 DEF Upgrade
  <1> QED
    BY <1>3, <1>4

\* Where the run of upgrade.ts goes on: at the next stage, the next market or the next contract.
LEMMA UpgradeMoves ==
  ASSUME IInv, Upgrading, ~AllDone, NEW upgraded \in BOOLEAN,
         script' = [UpgradeAdvanced EXCEPT !.failed = 0, !.upgraded = upgraded]
  PROVE  /\ script'.program = "upgrade" /\ script'.targets = script.targets
         /\ script'.dryRun = script.dryRun /\ script'.upgraded = upgraded
         /\ StageAfter # "done" =>
              script'.stage = StageAfter /\ script'.group = script.group /\ script'.step = script.step
         /\ StageAfter = "done" /\ OnMarket /\ script.group < 3 =>
              script'.stage = "check" /\ script'.group = script.group + 1 /\ script'.step = script.step
         /\ StageAfter = "done" /\ ~(OnMarket /\ script.group < 3) =>
              script'.stage = "check" /\ script'.group = 1 /\ script'.step = Min(Targets) + 1
  <1>1. script \in Runs /\ script.program = "upgrade" /\ Len(cashGroups) = 3
    BY MarketOfGroup DEF IInv, RunOK, ScriptTypeOK, Upgrading
  <1>2. CASE StageAfter # "done"
    <2>1. UpgradeAdvanced = [script EXCEPT !.stage = StageAfter]
      BY <1>2 DEF UpgradeAdvanced
    <2> QED
      BY <1>1, <1>2, <2>1 DEF Runs
  <1>3. CASE StageAfter = "done" /\ OnMarket /\ script.group < 3
    <2>1. UpgradeAdvanced = [script EXCEPT !.stage = "check", !.group = @ + 1]
      BY <1>1, <1>3 DEF UpgradeAdvanced
    <2> QED
      BY <1>1, <1>3, <2>1 DEF Runs
  <1>4. CASE StageAfter = "done" /\ ~(OnMarket /\ script.group < 3)
    <2>1. UpgradeAdvanced = [script EXCEPT !.stage = "check", !.group = 1, !.step = Min(Targets) + 1]
      BY <1>1, <1>4 DEF UpgradeAdvanced
    <2> QED
      BY <1>1, <1>4, <2>1 DEF Runs
  <1> QED
    BY <1>2, <1>3, <1>4

\* What the object remembers of the request of an upgrade.
LEMMA UpgradeRemembers ==
  ASSUME IInv, FileTells, Upgrading, ~AllDone, NEW tx, tx = UpgradeSends, Apply(tx, script.wallet),
         NEW memory, memory = Remembering(tx)
  PROVE  /\ CodeKept /\ HashesOK(memory)' /\ \A l \in Libraries : memory.libraries[l] # 0
         /\ \A a \in Artifacts : tx.op # "create" \/ a # Target => memory.hashes[a] = notional.hashes[a]
         /\ tx.op = "create" => /\ memory.hashes[Target] = Bytecode(Target) /\ memory.logic = Len(code) + 1
                                /\ code'[Len(code) + 1] = Bytecode(Target)
         /\ tx.op # "create" => memory.logic = notional.logic
         /\ memory.cashMarketLogic = IF tx.op = "create" /\ OnMarket THEN Len(code) + 1
                                     ELSE notional.cashMarketLogic
  <1>1. /\ ChainTypeOK /\ Known(notional) /\ HashesOK(notional) /\ TypeOK /\ ScriptTypeOK
        /\ \A l \in Libraries : notional.libraries[l] # 0
    BY TypeHolds DEF IInv, SystemOK, RunOK, FileTells, StagesOK
  <1>2. tx.op = "create" => tx.on = Target /\ tx.code = Bytecode(Target)
    BY UpgradeKinds DEF Upgrade
  <1>3. Target \in Artifacts /\ Bytecode(Target) \in Code /\ Len(code) + 1 # 0
    BY <1>1, TargetFacts, BytecodeType DEF ChainTypeOK
  <1>4. /\ HashesOK(memory)'
        /\ \A l \in Libraries : /\ notional.libraries[l] # 0 => memory.libraries[l] # 0
                                /\ tx.op = "create" /\ tx.on = l => memory.libraries[l] = Len(code) + 1
        /\ \A a \in Artifacts : memory.hashes[a] = IF tx.op = "create" /\ tx.on = a THEN tx.code
                                                   ELSE notional.hashes[a]
        /\ tx.op = "create" => memory.logic = Len(code) + 1 /\ code'[Len(code) + 1] = tx.code
        /\ tx.op # "create" => memory.logic = notional.logic
        /\ memory.cashMarketLogic = IF tx.op = "create" /\ tx.on = "CashMarket" THEN Len(code) + 1
                                    ELSE notional.cashMarketLogic
    BY <1>1, <1>2, <1>3, HashesRemembered
  <1>5. CodeKept
    BY <1>1, CodeStays
  <1> QED
    BY <1>1, <1>2, <1>3, <1>4, <1>5 DEF OnMarket

\* What an upgrade changes of the proxies: the one it is at, when its turn comes to an end.
LEMMA UpgradeProxies ==
  ASSUME IInv, FileTells, Upgrading, ~AllDone, ~script.dryRun, NEW tx, tx = UpgradeSends,
         Apply(tx, script.wallet), leftToOwner' = LeftAfter(tx)
  PROVE  /\ \A p \in Proxies : Target \in Libraries \/ p # Proxy \/ script.stage \notin {"owner", "upgrade"} =>
              implementation'[p] = implementation[p] /\ leftToOwner'[p] = leftToOwner[p]
         /\ Target \notin Libraries /\ script.stage = "upgrade" =>
              implementation'[Proxy] = NewLogic(Target) /\ leftToOwner'[Proxy] = 0
         /\ Target \notin Libraries /\ script.stage = "owner" =>
              /\ implementation'[Proxy] = implementation[Proxy]
              /\ leftToOwner'[Proxy] = IF IsAdminOwner(script.wallet) THEN leftToOwner[Proxy]
                                       ELSE NewLogic(Target)
  <1>1. implementation \in [Proxies -> 0 .. Len(code)] /\ leftToOwner \in [Proxies -> 0 .. Len(code)]
    BY DEF IInv, SystemOK, ChainTypeOK
  <1>2. Upgrade(tx)
    BY UpgradeKinds
  <1>3. /\ tx.op = "upgrade" => tx.on = Proxy /\ tx.logic = NewLogic(Target) /\ script.stage = "upgrade"
        /\ tx.op # "createProxy"
    BY <1>2 DEF Upgrade, Reads
  <1>4. implementation' = IF tx.op = "upgrade" THEN [implementation EXCEPT ![Proxy] = NewLogic(Target)]
                          ELSE implementation
    BY <1>3, Effects DEF ProxyEffect
  <1>5. leftToOwner' = IF tx.op = "upgrade" THEN [leftToOwner EXCEPT ![Proxy] = 0]
                       ELSE IF script.stage = "owner" /\ ~IsAdminOwner(script.wallet)
                       THEN [leftToOwner EXCEPT ![Proxy] = NewLogic(Target)] ELSE leftToOwner
    BY <1>3 DEF LeftAfter, LeavesToOwner, Upgrading
  <1>6. Target \in Libraries => script.stage = "check"
    BY DEF FileTells, StagesOK
  <1>7. Target \notin Libraries => Proxy \in Proxies /\ (tx.op = "upgrade" <=> script.stage = "upgrade")
    BY ProxyFacts, UpgradeStages
  <1>8. ASSUME NEW p \in Proxies, Target \in Libraries \/ p # Proxy \/ script.stage \notin {"owner", "upgrade"}
        PROVE  implementation'[p] = implementation[p] /\ leftToOwner'[p] = leftToOwner[p]
    BY <1>1, <1>3, <1>4, <1>5, <1>6, <1>8
  <1>9. ASSUME Target \notin Libraries, script.stage = "upgrade"
        PROVE  implementation'[Proxy] = NewLogic(Target) /\ leftToOwner'[Proxy] = 0
    BY <1>1, <1>4, <1>5, <1>7, <1>9
  <1>10. ASSUME Target \notin Libraries, script.stage = "owner"
         PROVE  /\ implementation'[Proxy] = implementation[Proxy]
                /\ leftToOwner'[Proxy] = IF IsAdminOwner(script.wallet) THEN leftToOwner[Proxy]
                                         ELSE NewLogic(Target)
    BY <1>1, <1>4, <1>5, <1>7, <1>10
  <1> QED
    BY <1>8, <1>9, <1>10

\* What a script does to the proxies of a saved system is told by the file, or will be made up for.
LEMMA RequestGoes ==
  ASSUME IInv, FileTells, Running, Permitted(Sends, script.wallet), Apply(Sends, script.wallet),
         leftToOwner' = LeftAfter(Sends), file' = file, Saved, Upgrades => Unsaved', NEW p \in Proxies
  PROVE  Goes(p)
  <1>1. CASE ~Upgrades
    <2>1. Sends.op # "upgrade" /\ ~LeavesToOwner
      BY <1>1 DEF Upgrades
    <2>2. implementation' = implementation
      BY <2>1, SavedRequests
    <2>3. leftToOwner' = leftToOwner
      BY <2>1 DEF LeftAfter
    <2> QED
      BY <2>2, <2>3 DEF ProxyKept, Goes
  <1>2. CASE Upgrades
    <2>1. PICK tx, t, q : tx = UpgradeSends /\ t = Target /\ q = Proxy
      OBVIOUS
    <2>2. Upgrading
      <3>1. Deploying \/ Upgrading
        BY DEF Running, Deploying, Upgrading, IInv, RunOK, ScriptTypeOK, Runs
      <3>2. ASSUME Deploying PROVE FALSE
        <4>1. Sends.op # "upgrade"
          BY <3>2, DeploySends
        <4>2. ~LeavesToOwner
          BY <3>2 DEF Deploying, LeavesToOwner
        <4> QED
          BY <1>2, <4>1, <4>2 DEF Upgrades
      <3> QED
        BY <3>1, <3>2
    <2>3. Sends = tx /\ Upgrade(tx)
      BY <2>1, <2>2, UpgradeKinds DEF Sends, Upgrading
    <2>4. ~AllDone /\ ~script.dryRun /\ script.stage \in {"owner", "upgrade"}
      BY <1>2, <2>2, <2>3 DEF Upgrades, LeavesToOwner, Upgrade, FileTells, StagesOK
    <2>5. Target \notin Libraries /\ UpgradeTells /\ Target \in Core \cup {"CashMarket"}
      BY <2>2, <2>4, TargetKinds DEF FileTells, StagesOK, IInv, RunOK
    <2>6. /\ q \in Proxies /\ ArtifactOf(q) = t /\ (t \in Core => q = t)
          /\ t = "CashMarket" => q \in Markets
      BY <2>1, <2>2, <2>4, <2>5, ProxyFacts DEF OnMarket
    <2>7. /\ p # q => implementation'[p] = implementation[p] /\ leftToOwner'[p] = leftToOwner[p]
          /\ script.stage = "upgrade" => implementation'[q] = NewLogic(Target) /\ leftToOwner'[q] = 0
          /\ script.stage = "owner" =>
               /\ implementation'[q] = implementation[q]
               /\ leftToOwner'[q] = IF IsAdminOwner(script.wallet) THEN leftToOwner[q] ELSE NewLogic(Target)
      BY <2>1, <2>2, <2>3, <2>4, <2>5, UpgradeProxies
    <2>8. CASE p # q
      BY <2>7, <2>8 DEF ProxyKept, Goes
    <2>9. CASE p = q /\ t \in Core
      <3>1. ContractsTurn
        BY <2>1, <2>4, <2>9 DEF ContractsTurn
      <3>2. Behind(p, file)
        BY <2>1, <2>5, <2>6, <2>9, <3>1 DEF UpgradeTells
      <3> QED
        BY <1>2, <3>2 DEF Goes
    <2>10. CASE p = q /\ t = "CashMarket" /\ notional.cashMarketLogic # file.cashMarketLogic
      <3>1. MarketsTurn
        BY <2>1, <2>4, <2>10 DEF MarketsTurn, OnMarket
      <3>2. file.hashes["CashMarket"].version < build["CashMarket"]
        BY <2>5, <2>10, <3>1 DEF UpgradeTells, MarketsHash
      <3>3. Behind(p, file)
        BY <2>6, <2>10, <3>2 DEF Behind
      <3> QED
        BY <1>2, <3>3 DEF Goes
    <2>11. CASE p = q /\ t = "CashMarket" /\ notional.cashMarketLogic = file.cashMarketLogic
      <3>1. PICK logic : logic = file.cashMarketLogic
        OBVIOUS
      <3>2. logic # 0 /\ logic \in Nat /\ logic <= Len(code) /\ Len(code) \in Nat
        BY <3>1 DEF IInv, SystemOK, SavedIsBuilt, Known, Memory, ChainTypeOK
      <3>3. code[logic] = file.hashes["CashMarket"] /\ NewLogic(Target) = logic
        BY <2>1, <2>11, <3>1, <3>2 DEF FileTells, HashesOK, NewLogic
      <3>4. CodeKept
        BY CodeStays DEF IInv, SystemOK
      <3>5. code'[logic] = file.hashes["CashMarket"]
        BY <3>2, <3>3, <3>4 DEF CodeKept
      <3>6. CASE script.stage = "upgrade"
        <4>1. Settled(p, file)'
          BY <2>6, <2>7, <2>11, <3>3, <3>5, <3>6 DEF Settled
        <4> QED
          BY <4>1 DEF Goes
      <3>7. CASE script.stage = "owner" /\ ~IsAdminOwner(script.wallet)
        <4>1. Settled(p, file)'
          BY <2>6, <2>7, <2>11, <3>2, <3>3, <3>5, <3>7 DEF Settled
        <4> QED
          BY <4>1 DEF Goes
      <3>8. CASE script.stage = "owner" /\ IsAdminOwner(script.wallet)
        BY <2>7, <2>11, <3>8 DEF ProxyKept, Goes
      <3> QED
        BY <2>4, <3>6, <3>7, <3>8
    <2> QED
      BY <2>1, <2>5, <2>8, <2>9, <2>10, <2>11
  <1> QED
    BY <1>1, <1>2

\* A killed run may have been at any request, mined or not.
LEMMA KilledTells ==
  ASSUME IInv, IInv', FileTells, Killed
  PROVE  FileTells'
  <1>1. CASE UNCHANGED <<chain, leftToOwner>> /\ Quit(script.upgraded)
    BY <1>1, QuitsTell
  <1>2. CASE /\ Permitted(Sends, script.wallet) /\ Apply(Sends, script.wallet)
             /\ leftToOwner' = LeftAfter(Sends)
             /\ Quit(script.upgraded \/ Upgrades)
    <2>1. PICK upgraded : upgraded = (script.upgraded \/ Upgrades)
      OBVIOUS
    <2>2. Quit(upgraded) /\ (script.upgraded => upgraded)
      BY <1>2, <2>1 DEF Quit
    <2>3. CodeKept
      BY <1>2, CodeStays DEF IInv, SystemOK
    <2>4. Upgrades => Unsaved'
      BY <2>1, <2>2 DEF Quit, Unsaved
    <2>5. ASSUME Saved, NEW p \in Proxies
          PROVE  Goes(p)
      BY <1>2, <2>2, <2>4, <2>5, RequestGoes DEF Killed, Quit
    <2> QED
      BY <2>2, <2>3, <2>5, QuitTells
  <1> QED
    BY <1>1, <1>2 DEF Killed

\* A run of upgrade.ts that has more to do than to save goes on.
UpgradeGoesOn(tx, memory, upgraded) ==
  /\ Upgrading /\ ~AllDone /\ tx = UpgradeSends /\ Apply(tx, script.wallet)
  /\ leftToOwner' = LeftAfter(tx) /\ memory = Remembering(tx) /\ notional' = memory
  /\ upgraded \in BOOLEAN /\ script' = [UpgradeAdvanced EXCEPT !.failed = 0, !.upgraded = upgraded]
  /\ file' = file /\ build' = build /\ lost' = lost

\* What has a place in UpgradeMain.
Placed == Libraries \cup Core \cup {"CashMarket"}

\* The places of upgrade.ts are those of UpgradeMain.
LEMMA PlacesApart ==
  /\ \A a \in Placed : UpgradePlace[a] \in 1 .. 7 /\ UpgradeMain[UpgradePlace[a]] = a
  /\ \A k \in 1 .. 7 : UpgradeMain[k] \in Placed /\ UpgradePlace[UpgradeMain[k]] = k
  /\ \A l \in Libraries : UpgradePlace[l] \in 1 .. 2
  /\ \A c \in Core : UpgradePlace[c] \in 3 .. 6
  <1>1. Placed = {"Liquidation", "RiskFramework", "Escrow", "ERC1155Token", "ERC1155Trade",
                  "Portfolios", "CashMarket"}
    BY DEF Placed, Libraries, Core
  <1>2. /\ UpgradePlace["Liquidation"] = 1 /\ UpgradePlace["RiskFramework"] = 2 /\ UpgradePlace["Escrow"] = 3
        /\ UpgradePlace["ERC1155Token"] = 4 /\ UpgradePlace["ERC1155Trade"] = 5
        /\ UpgradePlace["Portfolios"] = 6 /\ UpgradePlace["CashMarket"] = 7
    BY DEF UpgradePlace
  <1>3. /\ UpgradeMain[1] = "Liquidation" /\ UpgradeMain[2] = "RiskFramework" /\ UpgradeMain[3] = "Escrow"
        /\ UpgradeMain[4] = "ERC1155Token" /\ UpgradeMain[5] = "ERC1155Trade"
        /\ UpgradeMain[6] = "Portfolios" /\ UpgradeMain[7] = "CashMarket"
    BY DEF UpgradeMain
  <1>4. \A a \in Placed : UpgradePlace[a] \in 1 .. 7 /\ UpgradeMain[UpgradePlace[a]] = a
    BY ONLY <1>1, <1>2, <1>3
  <1>5. \A k \in 1 .. 7 : UpgradeMain[k] \in Placed /\ UpgradePlace[UpgradeMain[k]] = k
    BY ONLY <1>1, <1>2, <1>3
  <1>6. (\A l \in Libraries : UpgradePlace[l] \in 1 .. 2) /\ \A c \in Core : UpgradePlace[c] \in 3 .. 6
    BY ONLY <1>2 DEF Libraries, Core
  <1> QED
    BY <1>4, <1>5, <1>6

\* The run goes on to the next of what it was called with.
TurnOver == StageAfter = "done" /\ ~(OnMarket /\ script.group < 3)

\* Nothing that the run was called with is passed over.
LEMMA PlacesGoOn ==
  ASSUME IInv, NEW tx, NEW memory, NEW upgraded, UpgradeGoesOn(tx, memory, upgraded)
  PROVE  /\ Target \in Placed /\ Target \in script.targets /\ Min(Targets) = UpgradePlace[Target]
         /\ script.step \in Nat /\ script.step <= UpgradePlace[Target] /\ script'.targets = script.targets
         /\ TurnOver => script'.step = UpgradePlace[Target] + 1
         /\ ~TurnOver => script'.step = script.step
         /\ \A a \in Placed : a \in script.targets /\ a # Target =>
              (UpgradePlace[a] < script'.step <=> UpgradePlace[a] < script.step)
  <1>1. ScriptTypeOK /\ ~AllDone /\ Upgrading /\ script.step \in Nat \ {0}
    BY DEF UpgradeGoesOn, IInv, RunOK, ScriptTypeOK, Runs
  <1>2. PICK n, s : n = Min(Targets) /\ s = script.step
    OBVIOUS
  <1>3. n \in s .. 7 /\ n \in 1 .. 7 /\ Target \in script.targets /\ \A k \in Targets : n <= k
    BY <1>1, <1>2, TargetFacts, TargetKinds
  <1>4. Target = UpgradeMain[n]
    BY <1>2 DEF Target
  <1>5. Target \in Placed /\ UpgradePlace[Target] = n
    BY <1>3, <1>4, PlacesApart
  <1>6. s \in Nat /\ s <= n
    BY <1>1, <1>2, <1>3
  <1>7. /\ script'.targets = script.targets
        /\ TurnOver => script'.step = n + 1
        /\ ~TurnOver => script'.step = s
    BY <1>1, <1>2, UpgradeMoves DEF UpgradeGoesOn, TurnOver
  <1>8. ASSUME NEW a \in Placed, a \in script.targets, a # Target
        PROVE  UpgradePlace[a] < script'.step <=> UpgradePlace[a] < script.step
    <2>1. PICK k : k = UpgradePlace[a]
      OBVIOUS
    <2>2. k \in 1 .. 7 /\ UpgradeMain[k] = a
      BY <1>8, <2>1, PlacesApart
    <2>3. k # n
      BY <1>4, <1>8, <2>2
    <2>4. k \in s .. 7 => k \in Targets
      BY <1>2, <1>8, <2>2 DEF Targets, UpgradeMain
    <2>5. k < s \/ n < k
      BY <1>3, <1>6, <2>2, <2>3, <2>4
    <2>6. n \in Nat /\ k \in Nat /\ (script'.step = n + 1 \/ script'.step = s)
      BY <1>3, <1>7, <2>2
    <2>7. k < script'.step <=> k < s
      BY <1>6, <2>5, <2>6
    <2> QED
      BY <1>2, <2>1, <2>7
  <1>9. script.step \in Nat /\ script.step <= UpgradePlace[Target] /\ Min(Targets) = UpgradePlace[Target]
    BY <1>2, <1>5, <1>6
  <1>10. TurnOver => script'.step = UpgradePlace[Target] + 1
    BY <1>5, <1>7
  <1>11. ~TurnOver => script'.step = script.step
    BY <1>2, <1>7
  <1> QED
    BY <1>3, <1>5, <1>7, <1>8, <1>9, <1>10, <1>11

\* What the run may still come to has the file's hash.
LEMMA AheadGoesOn ==
  ASSUME IInv, FileTells, ~script.dryRun, NEW tx, NEW memory, NEW upgraded,
         UpgradeGoesOn(tx, memory, upgraded), NEW p \in Core, Ahead(p)'
  PROVE  Ahead(p) /\ p # Target /\ notional'.hashes[p] = file'.hashes[p]
  <1>1. /\ UpgradeTells /\ ~AllDone /\ Upgrading /\ notional' = memory /\ file' = file
    BY DEF FileTells, UpgradeGoesOn
  <1>2. PICK s, n, k : s = script.step /\ n = UpgradePlace[Target] /\ k = UpgradePlace[p]
    OBVIOUS
  <1>3. /\ s \in Nat /\ n \in Nat /\ s <= n /\ k \in Nat
        /\ script'.targets = script.targets
        /\ TurnOver => script'.step = n + 1
        /\ ~TurnOver => script'.step = s
        /\ k >= script'.step
    BY <1>2, PlacesGoOn, PlacesApart DEF Ahead
  <1>4. k >= s /\ (TurnOver => k # n)
    BY <1>3
  <1>5. p # Target
    <2>1. CASE TurnOver
      BY <1>2, <1>3, <1>4, <2>1
    <2>2. CASE ~TurnOver
      <3> SUFFICES ASSUME p = Target PROVE FALSE
        OBVIOUS
      <3>1. ~OnMarket /\ StageAfter # "done"
        BY <2>2 DEF OnMarket, Core, TurnOver
      <3>2. script'.stage = StageAfter /\ script'.step = script.step
        BY <1>1, <3>1, UpgradeMoves DEF UpgradeGoesOn
      <3>3. Target' = Target /\ AllDone' = AllDone
        BY <1>3, <3>2, SameTargets
      <3>4. Target \notin Libraries
        BY DEF Libraries, Core
      <3>5. StageAfter = AfterUpgradeContract(Target, script.stage, script.wallet, script.dryRun)
        BY <3>1, <3>4, StageAfterIs
      <3>6. StageAfter # "check"
        BY <3>5 DEF AfterUpgradeContract, AfterUpgradeProxy
      <3>7. ContractsTurn'
        BY <1>1, <3>2, <3>3, <3>6 DEF ContractsTurn
      <3> QED
        BY <3>3, <3>7 DEF Ahead
    <2> QED
      BY <2>1, <2>2
  <1>6. Ahead(p)
    BY <1>2, <1>4, <1>5 DEF Ahead
  <1>7. p \in Artifacts
    BY DEF Core, Artifacts
  <1>8. memory.hashes[p] = notional.hashes[p]
    BY <1>1, <1>5, <1>7, UpgradeRemembers DEF UpgradeGoesOn
  <1> QED
    BY <1>1, <1>5, <1>6, <1>8 DEF UpgradeTells

\* A hash that differs from the bytecode of an artifact that is linked with nothing is older.
LEMMA HashOlder ==
  ASSUME IInv, NEW memory \in Memory, HashForm(memory), NEW a \in Artifacts, a \notin Linked,
         memory.hashes[a] # Bytecode(a)
  PROVE  memory.hashes[a].version < build[a]
  <1>1. PICK h, b, n : h = memory.hashes[a] /\ b = Bytecode(a) /\ n = build[a]
    OBVIOUS
  <1>2. h \in Code /\ b \in Code
    BY <1>1, BytecodeForm DEF Memory
  <1>3. b.name = a /\ b.version = n /\ b.link = 0
    BY <1>1, BytecodeForm
  <1>4. h.version <= n /\ h.link = 0 /\ (h.version # 0 => h.name = a)
    BY <1>1 DEF HashForm
  <1>5. n \in Nat /\ n > 0 /\ h.version \in Nat
    BY <1>1, <1>2, BoundsAssumption DEF IInv, SystemOK, Code
  <1>6. h.version # n
    <2> SUFFICES ASSUME h.version = n PROVE FALSE
      OBVIOUS
    <2>1. h.name = b.name /\ h.version = b.version /\ h.link = b.link
      BY <1>3, <1>4, <1>5
    <2>2. h = b
      BY <1>2, <2>1 DEF Code
    <2> QED
      BY <1>1, <2>2
  <1>7. h.version < n
    BY <1>4, <1>5, <1>6
  <1> QED
    BY <1>1, <1>7

\* A proxy that has what its hash tells keeps it, whatever is upgraded beside it.
LEMMA SettledGoesOn ==
  ASSUME IInv, Saved, CodeKept, NEW p \in Proxies, NEW memory, notional' = memory,
         implementation'[p] = implementation[p], leftToOwner'[p] = leftToOwner[p],
         Settled(p, notional), memory.hashes[ArtifactOf(p)] = notional.hashes[ArtifactOf(p)]
  PROVE  Settled(p, notional)'
  <1>1. Settled(p, memory)
    BY DEF Settled
  <1>2. Settled(p, memory)'
    BY <1>1, SettledStays, SavedProxies DEF ProxyKept
  <1> QED
    BY <1>2 DEF Settled

\* Before the markets' turn their hash and their logic are those of the file.
LEMMA MarketsHashStays ==
  ASSUME IInv, FileTells, ~script.dryRun, NEW tx, NEW memory, NEW upgraded,
         UpgradeGoesOn(tx, memory, upgraded), ~OnMarket
  PROVE  /\ ~MarketsTurn' /\ ~(script'.step > 7)
         /\ MarketsHash'
  <1>1. UpgradeTells /\ ScriptTypeOK /\ ~AllDone /\ Upgrading /\ Saved
    BY DEF FileTells, UpgradeGoesOn, IInv, RunOK, UpgradesSaved
  <1>2. ~MarketsTurn /\ script.step <= 7 /\ Min(Targets) \in 1 .. 7 /\ Min(Targets) # 7 /\ script.step \in Nat
    BY <1>1, TargetKinds DEF MarketsTurn, ScriptTypeOK, Runs
  <1>3. ~(script.step > 7) /\ ~(Min(Targets) + 1 > 7)
    <2> DEFINE n == Min(Targets)
               s == script.step
    <2>1. n \in 1 .. 7 /\ n # 7 /\ s <= 7 /\ s \in Nat
      BY <1>2
    <2> HIDE DEF n, s
    <2>2. ~(s > 7) /\ ~(n + 1 > 7)
      BY ONLY <2>1
    <2> QED
      BY <2>2 DEF n, s
  <1>4. MarketsHash
    BY <1>1 DEF UpgradeTells
  <1>5. memory.hashes["CashMarket"] = notional.hashes["CashMarket"] /\ memory.cashMarketLogic = notional.cashMarketLogic
    <2>1. "CashMarket" \in Artifacts /\ "CashMarket" # Target
      BY DEF Artifacts, OnMarket
    <2> QED
      BY <1>1, <2>1, UpgradeRemembers DEF UpgradeGoesOn
  <1>6. ~MarketsTurn' /\ ~(script'.step > 7)
    <2>1. CASE StageAfter # "done"
      <3>1. script'.step = script.step /\ script'.targets = script.targets
        BY <1>1, <2>1, UpgradeMoves DEF UpgradeGoesOn
      <3>2. Target' = Target
        BY <3>1, SameTargets
      <3> QED
        BY <1>3, <3>1, <3>2 DEF MarketsTurn, OnMarket
    <2>2. CASE StageAfter = "done"
      <3>1. script'.stage = "check" /\ script'.group = 1 /\ script'.step = Min(Targets) + 1
        BY <1>1, <2>2, UpgradeMoves DEF UpgradeGoesOn
      <3> QED
        BY <1>3, <3>1 DEF MarketsTurn
    <2> QED
      BY <2>1, <2>2
  <1>7. MarketsHash'
    <2>1. /\ notional'.hashes["CashMarket"] = notional.hashes["CashMarket"]
          /\ notional'.cashMarketLogic = notional.cashMarketLogic
          /\ build' = build /\ file' = file
      BY <1>5 DEF UpgradeGoesOn
    <2>2. (MarketsTurn \/ script.step > 7)' <=> MarketsTurn \/ script.step > 7
      BY <1>2, <1>3, <1>6
    <2> QED
      BY <1>4, <2>1, <2>2, MarketsHashSame
  <1> QED
    BY <1>6, <1>7

\* A library is created, and nothing changes behind the proxies.
LEMMA LibraryTells ==
  ASSUME IInv, FileTells, ~script.dryRun, NEW tx, NEW memory, NEW upgraded,
         UpgradeGoesOn(tx, memory, upgraded), Target \in Libraries
  PROVE  UpgradeTells'
  <1>1. UpgradeTells /\ ~AllDone /\ Upgrading /\ Saved /\ ~OnMarket /\ Target \notin Core /\ notional' = memory
    BY DEF FileTells, UpgradeGoesOn, IInv, RunOK, UpgradesSaved, OnMarket, Libraries, Core
  <1>2. StageAfter = "done"
    BY StageAfterIs
  <1>3. script'.stage = "check"
    BY <1>1, <1>2, UpgradeMoves DEF UpgradeGoesOn
  <1>4. ~MarketsTurn' /\ ~ContractsTurn'
    BY <1>1, <1>3, MarketsHashStays DEF ContractsTurn
  <1>5. ASSUME NEW p \in Proxies
        PROVE  Accounted(p, notional)'
    <2>1. ~Turn(p)
      BY <1>1 DEF Turn, MarketsTurn, ContractsTurn
    <2>2. Accounted(p, notional)
      BY <1>1, <2>1 DEF UpgradeTells
    <2>3. implementation'[p] = implementation[p] /\ leftToOwner'[p] = leftToOwner[p]
      BY <1>1, UpgradeProxies DEF UpgradeGoesOn
    <2>4. CodeKept /\ memory.hashes[ArtifactOf(p)] = notional.hashes[ArtifactOf(p)]
      <3>1. ArtifactOf(p) \in Artifacts /\ ArtifactOf(p) # Target
        BY ArtifactsOfProxies
      <3> QED
        BY <1>1, <3>1, UpgradeRemembers DEF UpgradeGoesOn
    <2> QED
      BY <1>1, <2>2, <2>3, <2>4, AccountedStays DEF ProxyKept, UpgradeGoesOn
  <1>6. \A p \in Proxies : ~Turn(p)'
    BY <1>4 DEF Turn
  <1>7. \A m \in Markets : ~Turn(m)'
    BY <1>4 DEF Turn
  <1> QED
    BY <1>1, <1>4, <1>5, <1>7, MarketsHashStays, AheadGoesOn DEF UpgradeTells

\* After its first stage the contract's new logic is there, and the object has its hash.
LEMMA CoreLogic ==
  ASSUME IInv, FileTells, ~script.dryRun, NEW tx, NEW memory, NEW upgraded,
         UpgradeGoesOn(tx, memory, upgraded), Target \in Core, script.stage # "check", NEW t, t = Target
  PROVE  /\ code[notional.logic] = notional.hashes[t] /\ notional.logic \in 1 .. Len(code)
         /\ memory.hashes[t] = notional.hashes[t] /\ memory.logic = notional.logic
         /\ CodeKept /\ t \in Proxies /\ Proxy = t /\ ArtifactOf(t) = t /\ NewLogic(Target) = notional.logic
  <1>1. UpgradeTells /\ ~AllDone /\ Upgrading /\ Target \notin Libraries
    BY DEF FileTells, UpgradeGoesOn, Libraries, Core
  <1>2. Proxy = t /\ t \in Proxies /\ ~OnMarket /\ ArtifactOf(t) = t /\ NewLogic(Target) = notional.logic
    BY <1>1, ProxyFacts DEF NewLogic, OnMarket
  <1>3. ContractsTurn
    BY <1>1 DEF ContractsTurn
  <1>4. tx.op # "create"
    BY <1>1, UpgradeStages DEF UpgradeGoesOn
  <1>5. t \in Artifacts
    BY <1>2, ArtifactsOfProxies
  <1>6. CodeKept /\ memory.hashes[t] = notional.hashes[t] /\ memory.logic = notional.logic
    BY <1>1, <1>2, <1>4, <1>5, UpgradeRemembers DEF UpgradeGoesOn
  <1> QED
    BY <1>1, <1>2, <1>3, <1>6, TurnsLogic DEF UpgradeTells

\* When the turn is over the proxy has the new logic, or the admin's owner is left to give it.
LEMMA CoreSettles ==
  ASSUME IInv, FileTells, ~script.dryRun, NEW tx, NEW memory, NEW upgraded,
         UpgradeGoesOn(tx, memory, upgraded), Target \in Core, script.stage # "check",
         StageAfter = "done", NEW t, t = Target
  PROVE  Settled(t, notional)'
  <1>1. /\ ~AllDone /\ Upgrading /\ Target \notin Libraries /\ notional' = memory /\ ~OnMarket
        /\ script.stage \in {"owner", "upgrade"}
    BY DEF FileTells, UpgradeGoesOn, IInv, RunOK, Libraries, Core, StagesOK, ScriptTypeOK, Runs, Stages, OnMarket
  <1>2. /\ code[notional.logic] = notional.hashes[t] /\ notional.logic \in 1 .. Len(code)
        /\ memory.hashes[t] = notional.hashes[t] /\ CodeKept
        /\ Proxy = t /\ ArtifactOf(t) = t /\ NewLogic(Target) = notional.logic
    BY CoreLogic
  <1>3. CASE script.stage = "owner"
    <2>1. StageAfter = AfterUpgradeContract(Target, script.stage, script.wallet, script.dryRun)
      BY <1>1, StageAfterIs
    <2>2. ~IsAdminOwner(script.wallet)
      BY <1>3, <2>1 DEF AfterUpgradeContract, AfterUpgradeProxy
    <2>3. implementation'[t] = implementation[t] /\ leftToOwner'[t] = notional.logic
      BY <1>1, <1>2, <1>3, <2>2, UpgradeProxies DEF UpgradeGoesOn
    <2> QED
      BY <1>1, <1>2, <2>3 DEF Settled, CodeKept
  <1>4. CASE script.stage = "upgrade"
    <2>1. implementation'[t] = notional.logic /\ leftToOwner'[t] = 0
      BY <1>1, <1>2, <1>4, UpgradeProxies DEF UpgradeGoesOn
    <2> QED
      BY <1>1, <1>2, <2>1 DEF Settled, CodeKept
  <1> QED
    BY <1>1, <1>3, <1>4

\* The turn of a contract of the Directory: its new logic is created, and the proxy gets it or
\* the admin's owner is left to give it.
LEMMA CoreTells ==
  ASSUME IInv, FormOK, FileTells, ~script.dryRun, NEW tx, NEW memory, NEW upgraded,
         UpgradeGoesOn(tx, memory, upgraded), Target \in Core
  PROVE  UpgradeTells'
  <1>0. PICK t : t = Target
    OBVIOUS
  <1>1. /\ UpgradeTells /\ ~AllDone /\ Upgrading /\ Saved /\ Target \notin Libraries /\ notional' = memory
        /\ script.stage \in {"check", "owner", "upgrade"} /\ Len(code) \in Nat
    BY DEF FileTells, UpgradeGoesOn, IInv, RunOK, UpgradesSaved, Libraries, Core, StagesOK, ScriptTypeOK,
           Runs, Stages, SystemOK, ChainTypeOK
  <1>2. t = Target /\ Proxy = t /\ t \in Proxies /\ ~OnMarket /\ ArtifactOf(t) = t /\ NewLogic(Target) = notional.logic
    BY <1>0, <1>1, ProxyFacts DEF NewLogic, OnMarket
  <1>3. StageAfter = AfterUpgradeContract(Target, script.stage, script.wallet, script.dryRun)
    BY <1>1, <1>2, StageAfterIs
  <1>4. ~MarketsTurn' /\ \A m \in Markets : ~Turn(m)'
    <2>1. ~MarketsTurn'
      BY <1>2, MarketsHashStays
    <2>2. \A m \in Markets : ~(ContractsTurn' /\ m = Target')
      BY KindsApart DEF ContractsTurn
    <2> QED
      BY <2>1, <2>2 DEF Turn
  <1>5. CodeKept
    BY <1>1, UpgradeRemembers DEF UpgradeGoesOn
  <1>6. ASSUME NEW p \in Proxies, p # t
        PROVE  Accounted(p, notional)'
    <2>1. ~Turn(p)
      BY <1>2, <1>6 DEF Turn, MarketsTurn, ContractsTurn
    <2>2. Accounted(p, notional)
      BY <1>1, <2>1 DEF UpgradeTells
    <2>3. implementation'[p] = implementation[p] /\ leftToOwner'[p] = leftToOwner[p]
      BY <1>1, <1>2, <1>6, UpgradeProxies DEF UpgradeGoesOn
    <2>4. memory.hashes[ArtifactOf(p)] = notional.hashes[ArtifactOf(p)]
      <3>1. ArtifactOf(p) \in Artifacts /\ ArtifactOf(p) # t
        <4>1. "CashMarket" \notin Core
          BY DEF Core
        <4> QED
          BY <1>2, <1>6, <4>1, ArtifactsOfProxies DEF ArtifactOf
      <3> QED
        BY <1>1, <1>2, <3>1, UpgradeRemembers DEF UpgradeGoesOn
    <2> QED
      BY <1>1, <1>5, <2>2, <2>3, <2>4, AccountedStays DEF ProxyKept, UpgradeGoesOn
  <1>7. CASE StageAfter = "done"
    <2>1. script'.stage = "check"
      BY <1>1, <1>2, <1>7, UpgradeMoves DEF UpgradeGoesOn
    <2>2. ~ContractsTurn'
      BY <2>1 DEF ContractsTurn
    <2>3. Accounted(t, notional)'
      <3>1. CASE script.stage = "check"
        <4>1. ~UpgradeCheckCodeHash(Target)
          BY <1>3, <1>7, <3>1 DEF AfterUpgradeContract
        <4>2. tx.op # "create"
          BY <1>1, <4>1, UpgradeStages DEF UpgradeGoesOn
        <4>3. memory.hashes[t] = notional.hashes[t]
          BY <1>1, <1>2, <4>2, UpgradeRemembers, ArtifactsOfProxies DEF UpgradeGoesOn
        <4>4. implementation'[t] = implementation[t] /\ leftToOwner'[t] = leftToOwner[t]
          BY <1>1, <1>2, <3>1, UpgradeProxies DEF UpgradeGoesOn
        <4>5. Accounted(t, notional)
          <5>1. ~Turn(t)
            BY <1>2, <3>1 DEF Turn, MarketsTurn, ContractsTurn
          <5> QED
            BY <1>1, <1>2, <5>1 DEF UpgradeTells
        <4> QED
          BY <1>1, <1>2, <1>5, <4>3, <4>4, <4>5, AccountedStays DEF ProxyKept, UpgradeGoesOn
      <3>2. CASE script.stage # "check"
        BY <1>2, <1>7, <3>2, CoreSettles DEF Accounted
      <3> QED
        BY <3>1, <3>2
    <2>4. \A p \in Proxies : Accounted(p, notional)'
      BY <1>6, <2>3
    <2> QED
      BY <1>2, <1>4, <2>2, <2>4, MarketsHashStays, AheadGoesOn DEF UpgradeTells
  <1>8. CASE StageAfter # "done"
    <2>1. script'.stage = StageAfter /\ script'.step = script.step /\ script'.targets = script.targets
      BY <1>1, <1>8, UpgradeMoves DEF UpgradeGoesOn
    <2>2. Target' = Target /\ AllDone' = AllDone
      BY <2>1, SameTargets
    <2>3. \/ script.stage = "check" /\ StageAfter = "owner" /\ UpgradeCheckCodeHash(Target)
          \/ script.stage = "owner" /\ StageAfter = "upgrade"
      BY <1>1, <1>3, <1>8 DEF AfterUpgradeContract, AfterUpgradeProxy
    <2>4. ContractsTurn' /\ Turn(t)'
      BY <1>1, <1>2, <2>1, <2>2, <2>3 DEF ContractsTurn, Turn
    <2>5. code'[memory.logic] = memory.hashes[t]
      <3>1. CASE script.stage = "check"
        <4>1. tx.op = "create"
          <5>1. Upgrade(tx)
            BY UpgradeKinds DEF UpgradeGoesOn
          <5> QED
            BY <1>1, <2>3, <3>1, <5>1 DEF Upgrade
        <4> QED
          BY <1>1, <1>2, <4>1, UpgradeRemembers DEF UpgradeGoesOn
      <3>2. CASE script.stage # "check"
        BY <1>2, <3>2, CoreLogic DEF CodeKept
      <3> QED
        BY <3>1, <3>2
    <2>6. \A p \in Proxies : Accounted(p, notional)' \/ Turn(p)'
      BY <1>6, <2>4
    <2>7. Behind(t, file)
      <3>1. CASE script.stage = "check"
        <4>1. t \in Core /\ t \in Artifacts /\ notional.hashes[t] # Bytecode(t)
          BY <1>2, <2>3, <3>1, ArtifactsOfProxies DEF UpgradeCheckCodeHash
        <4>2. Ahead(t)
          <5>1. UpgradePlace[t] >= script.step
            BY <1>2, PlacesGoOn, PlacesApart
          <5> QED
            BY <3>1, <5>1 DEF Ahead, ContractsTurn
        <4>3. notional.hashes[t] = file.hashes[t]
          BY <1>1, <4>1, <4>2 DEF UpgradeTells
        <4>4. t \notin Linked => file.hashes[t].version < build[t]
          BY <4>1, <4>3, HashOlder DEF FormOK, IInv, SystemOK, Known
        <4> QED
          BY <1>2, <4>4 DEF Behind
      <3>2. CASE script.stage # "check"
        BY <1>1, <1>2, <3>2 DEF UpgradeTells, ContractsTurn
      <3> QED
        BY <3>1, <3>2
    <2>8. (ContractsTurn => code[notional.logic] = notional.hashes[Target] /\ Behind(Target, file))'
      <3>1. Behind(t, file)'
        BY <2>7 DEF Behind, UpgradeGoesOn
      <3> QED
        BY <1>1, <1>2, <2>2, <2>5, <3>1 DEF Behind
    <2> QED
      BY <1>2, <1>4, <2>6, <2>8, MarketsHashStays, AheadGoesOn DEF UpgradeTells
  <1> QED
    BY <1>7, <1>8

\* A market whose turn is to come still has not the run's logic.
LEMMA AwaitsGoesOn ==
  ASSUME IInv, Saved, CodeKept, NEW m \in Markets, Awaits(m), file' = file,
         implementation'[m] = implementation[m], leftToOwner'[m] = leftToOwner[m],
         notional'.cashMarketLogic = notional.cashMarketLogic
  PROVE  Awaits(m)'
  <1>1. leftToOwner[m] \in 0 .. Len(code) /\ Len(code) \in Nat
    BY SavedProxies, KindsApart
  <1>2. leftToOwner[m] # 0 => code'[leftToOwner[m]] = code[leftToOwner[m]]
    BY <1>1 DEF CodeKept
  <1> QED
    BY <1>2 DEF Awaits

\* What the lemmas on the markets' turn share.
LEMMA MarketsFacts ==
  ASSUME IInv, FileTells, ~script.dryRun, NEW tx, NEW memory, NEW upgraded,
         UpgradeGoesOn(tx, memory, upgraded), OnMarket, NEW m, m = Proxy
  PROVE  /\ UpgradeTells /\ ~AllDone /\ Upgrading /\ Saved /\ Target \notin Libraries /\ notional' = memory
         /\ m \in Markets /\ m \in Proxies /\ GroupId[m] = script.group /\ ArtifactOf(m) = "CashMarket"
         /\ NewLogic(Target) = notional.cashMarketLogic /\ CodeKept /\ ~ContractsTurn /\ ~ContractsTurn'
         /\ notional.cashMarketLogic \in 1 .. Len(code)
         /\ script.stage \in Stages
         /\ tx.op = "create" <=> script.stage = "check" /\ UpgradeCheckCodeHash("CashMarket")
  <1>1. /\ UpgradeTells /\ ~AllDone /\ Upgrading /\ Saved /\ Target \notin Libraries /\ Target \notin Core
        /\ notional' = memory /\ Target = "CashMarket" /\ script.stage \in Stages
    BY DEF FileTells, UpgradeGoesOn, IInv, RunOK, UpgradesSaved, OnMarket, Libraries, Core, ScriptTypeOK, Runs
  <1>2. m \in Markets /\ m \in Proxies /\ GroupId[m] = script.group /\ ArtifactOf(m) = "CashMarket"
    BY <1>1, ProxyFacts
  <1>3. NewLogic(Target) = notional.cashMarketLogic
    BY <1>1 DEF NewLogic
  <1>4. CodeKept
    BY <1>1, UpgradeRemembers DEF UpgradeGoesOn
  <1>5. notional.cashMarketLogic \in 1 .. Len(code)
    BY <1>1 DEF IInv, RunOK, UpgradesSaved, Known, Memory, SystemOK, ChainTypeOK
  <1>6. ~ContractsTurn /\ ~ContractsTurn'
    <2>1. CASE StageAfter = "done"
      <3>1. script'.stage = "check"
        BY <1>1, <2>1, UpgradeMoves DEF UpgradeGoesOn
      <3> QED
        BY <1>1, <3>1 DEF ContractsTurn
    <2>2. CASE StageAfter # "done"
      <3>1. script'.step = script.step /\ script'.targets = script.targets
        BY <1>1, <2>2, UpgradeMoves DEF UpgradeGoesOn
      <3>2. Target' = Target
        BY <3>1, SameTargets
      <3> QED
        BY <1>1, <3>2 DEF ContractsTurn
    <2> QED
      BY <2>1, <2>2
  <1>7. tx.op = "create" <=> script.stage = "check" /\ UpgradeCheckCodeHash("CashMarket")
    <2>1. Upgrade(tx)
      BY UpgradeKinds DEF UpgradeGoesOn
    <2> QED
      BY <1>1, <2>1 DEF Upgrade
  <1> QED
    BY <1>1, <1>2, <1>3, <1>4, <1>5, <1>6, <1>7

\* The proxies that are no markets keep what they have.
LEMMA OthersAccounted ==
  ASSUME IInv, FileTells, ~script.dryRun, NEW tx, NEW memory, NEW upgraded,
         UpgradeGoesOn(tx, memory, upgraded), OnMarket, NEW p \in Proxies, p \notin Markets
  PROVE  Accounted(p, notional)'
  <1>1. PICK m : m = Proxy
    OBVIOUS
  <1>2. /\ UpgradeTells /\ ~AllDone /\ Upgrading /\ Saved /\ notional' = memory /\ m \in Markets
        /\ CodeKept /\ ~ContractsTurn
    BY <1>1, MarketsFacts
  <1>3. ~Turn(p)
    BY <1>2 DEF Turn
  <1>4. Accounted(p, notional)
    BY <1>2, <1>3 DEF UpgradeTells
  <1>5. implementation'[p] = implementation[p] /\ leftToOwner'[p] = leftToOwner[p]
    BY <1>1, <1>2, UpgradeProxies DEF UpgradeGoesOn
  <1>6. memory.hashes[ArtifactOf(p)] = notional.hashes[ArtifactOf(p)]
    <2>1. ArtifactOf(p) \in Artifacts /\ ArtifactOf(p) # Target
      BY ArtifactsOfProxies DEF ArtifactOf, OnMarket, Proxies, Core
    <2> QED
      BY <1>2, <2>1, UpgradeRemembers DEF UpgradeGoesOn
  <1> QED
    BY <1>2, <1>4, <1>5, <1>6, AccountedStays DEF ProxyKept, UpgradeGoesOn

\* A market's turn goes on, and nothing changes.
LEMMA MarketGoesOn ==
  ASSUME IInv, FileTells, ~script.dryRun, NEW tx, NEW memory, NEW upgraded,
         UpgradeGoesOn(tx, memory, upgraded), OnMarket, MarketsTurn, StageAfter # "done",
         StageAfter # "check", tx.op # "create",
         \A p \in Proxies : implementation'[p] = implementation[p] /\ leftToOwner'[p] = leftToOwner[p]
  PROVE  UpgradeTells'
  <1>1. PICK m : m = Proxy
    OBVIOUS
  <1>2. /\ UpgradeTells /\ ~AllDone /\ Upgrading /\ Saved /\ notional' = memory
        /\ CodeKept /\ ~ContractsTurn /\ ~ContractsTurn' /\ file' = file /\ build' = build
    BY <1>1, MarketsFacts DEF UpgradeGoesOn
  <1>3. /\ script'.stage = StageAfter /\ script'.group = script.group
        /\ script'.step = script.step /\ script'.targets = script.targets
    BY <1>2, UpgradeMoves DEF UpgradeGoesOn
  <1>4. Target' = Target /\ AllDone' = AllDone
    BY <1>3, SameTargets
  <1>5. MarketsTurn'
    BY <1>2, <1>3, <1>4 DEF MarketsTurn, OnMarket
  <1>6. \A p \in Proxies : Turn(p) => Turn(p)'
    BY <1>2, <1>3, <1>5 DEF Turn
  <1>7. \A p \in Markets : Turn(p)' => Turn(p)
    BY <1>2, <1>3 DEF Turn
  <1>8. /\ \A a \in Artifacts : memory.hashes[a] = notional.hashes[a]
        /\ memory.cashMarketLogic = notional.cashMarketLogic
    BY <1>2, UpgradeRemembers DEF UpgradeGoesOn
  <1>9. ASSUME NEW p \in Proxies
        PROVE  Accounted(p, notional)' \/ Turn(p)'
    <2>1. CASE Accounted(p, notional)
      <3>1. Accounted(p, notional)'
        BY <1>2, <1>8, <2>1, AccountedStays, ArtifactsOfProxies DEF ProxyKept, UpgradeGoesOn
      <3> QED
        BY <3>1
    <2>2. CASE Turn(p)
      BY <1>6, <2>2
    <2> QED
      BY <1>2, <2>1, <2>2 DEF UpgradeTells
  <1>10. ASSUME NEW q \in Markets, Turn(q)'
         PROVE  Awaits(q)'
    <2>1. Awaits(q)
      BY <1>2, <1>7, <1>10 DEF UpgradeTells
    <2> QED
      BY <1>2, <1>8, <2>1, AwaitsGoesOn, KindsApart
  <1>11. MarketsHash'
    <2>1. "CashMarket" \in Artifacts
      BY DEF Artifacts
    <2> QED
      BY <1>2, <1>5, <1>8, <2>1, MarketsHashSame DEF UpgradeTells
  <1>12. \A p \in Core : Ahead(p)' => notional'.hashes[p] = file'.hashes[p]
    BY AheadGoesOn
  <1> QED
    BY <1>2, <1>5, <1>9, <1>10, <1>11, <1>12 DEF UpgradeTells

\* A market's turn is over, and it has what the hash tells.
LEMMA MarketOver ==
  ASSUME IInv, FileTells, ~script.dryRun, NEW tx, NEW memory, NEW upgraded,
         UpgradeGoesOn(tx, memory, upgraded), OnMarket, MarketsTurn, StageAfter = "done",
         tx.op # "create", NEW m, m = Proxy, Settled(m, notional)'
  PROVE  UpgradeTells'
  <1>1. /\ UpgradeTells /\ ~AllDone /\ Upgrading /\ Saved /\ notional' = memory
        /\ CodeKept /\ ~ContractsTurn /\ ~ContractsTurn' /\ file' = file /\ build' = build
        /\ m \in Markets /\ GroupId[m] = script.group /\ ScriptTypeOK
    BY MarketsFacts DEF UpgradeGoesOn, IInv, RunOK
  <1>2. /\ \A a \in Artifacts : memory.hashes[a] = notional.hashes[a]
        /\ memory.cashMarketLogic = notional.cashMarketLogic
    BY <1>1, UpgradeRemembers DEF UpgradeGoesOn
  <1>3. MarketsTurn' \/ script'.step > 7 => MarketsHash'
    <2>1. "CashMarket" \in Artifacts
      BY DEF Artifacts
    <2> QED
      BY <1>1, <1>2, <2>1, MarketsHashSame DEF UpgradeTells
  <1>4. \A p \in Proxies : p # m => implementation'[p] = implementation[p] /\ leftToOwner'[p] = leftToOwner[p]
    BY <1>1, UpgradeProxies DEF UpgradeGoesOn
  <1>5. ASSUME NEW p \in Proxies, p # m, Accounted(p, notional)
        PROVE  Accounted(p, notional)'
    <2>1. memory.hashes[ArtifactOf(p)] = notional.hashes[ArtifactOf(p)]
      BY <1>2, ArtifactsOfProxies
    <2> QED
      BY <1>1, <1>4, <1>5, <2>1, AccountedStays DEF ProxyKept, UpgradeGoesOn
  <1>6. Accounted(m, notional)'
    BY DEF Accounted
  <1>7. \A p \in Core : Ahead(p)' => notional'.hashes[p] = file'.hashes[p]
    BY AheadGoesOn
  <1>8. ASSUME NEW q \in Markets, q # m, Awaits(q)
        PROVE  Awaits(q)'
    BY <1>1, <1>2, <1>4, <1>8, AwaitsGoesOn, KindsApart
  <1>9. /\ script.group \in 1 .. 3
        /\ \A q \in Markets : GroupId[q] \in 1 .. 3 /\ (GroupId[q] = script.group <=> q = m)
    BY <1>1, MarketOfGroup DEF Proxy
  <1>10. CASE script.group < 3
    <2>1. /\ script'.stage = "check" /\ script'.group = script.group + 1
          /\ script'.step = script.step /\ script'.targets = script.targets
      BY <1>1, <1>10, UpgradeMoves DEF UpgradeGoesOn
    <2>2. Target' = Target /\ AllDone' = AllDone
      BY <2>1, SameTargets
    <2>3. MarketsTurn'
      BY <1>1, <1>9, <2>1, <2>2 DEF MarketsTurn, OnMarket
    <2>4. \A q \in Markets : GroupId[q] >= script.group + 1 <=> GroupId[q] >= script.group /\ q # m
      BY <1>9
    <2>5. \A p \in Proxies : Turn(p) /\ p # m => Turn(p)'
      BY <1>1, <2>1, <2>3, <2>4 DEF Turn
    <2>6. \A q \in Markets : Turn(q)' => Turn(q) /\ q # m
      BY <1>1, <2>1, <2>4 DEF Turn
    <2>7. \A p \in Proxies : Accounted(p, notional)' \/ Turn(p)'
      BY <1>1, <1>5, <1>6, <2>5 DEF UpgradeTells
    <2>8. \A q \in Markets : Turn(q)' => Awaits(q)'
      BY <1>1, <1>8, <2>6 DEF UpgradeTells
    <2> QED
      BY <1>1, <1>3, <1>7, <2>3, <2>7, <2>8 DEF UpgradeTells
  <1>11. CASE ~(script.group < 3)
    <2>1. script'.stage = "check" /\ script'.group = 1 /\ script'.step = Min(Targets) + 1
      BY <1>1, <1>11, UpgradeMoves DEF UpgradeGoesOn
    <2>2. script'.step > 7
      BY <1>1, <2>1, TargetKinds
    <2>3. ~MarketsTurn'
      BY <2>1 DEF MarketsTurn
    <2>4. \A p \in Proxies : Turn(p) => p = m
      BY <1>1, <1>9, <1>11 DEF Turn
    <2>5. \A p \in Proxies : Accounted(p, notional)'
      BY <1>1, <1>5, <1>6, <2>4 DEF UpgradeTells
    <2>6. \A q \in Markets : ~Turn(q)'
      BY <1>1, <2>3 DEF Turn
    <2> QED
      BY <1>1, <1>3, <1>7, <2>2, <2>5, <2>6 DEF UpgradeTells
  <1> QED
    BY <1>10, <1>11

\* The first market is found changed or not; its new logic is the markets', and no market has it yet.
LEMMA FirstMarketTells ==
  ASSUME IInv, FormOK, FileTells, ~script.dryRun, NEW tx, NEW memory, NEW upgraded,
         UpgradeGoesOn(tx, memory, upgraded), OnMarket, ~MarketsTurn, StageAfter = "compare"
  PROVE  UpgradeTells'
  <1>1. PICK m : m = Proxy
    OBVIOUS
  <1>2. /\ UpgradeTells /\ ~AllDone /\ Upgrading /\ Saved /\ notional' = memory
        /\ CodeKept /\ ~ContractsTurn /\ ~ContractsTurn' /\ file' = file /\ build' = build
        /\ script.stage = "check" /\ script.group = 1 /\ Target = "CashMarket"
        /\ tx.op = "create" <=> UpgradeCheckCodeHash("CashMarket")
        /\ script.step <= 7 /\ Len(code) \in Nat
    <2>1. script.stage = "check" /\ script.group = 1
      <3>1. script.group \in 1 .. 3 /\ ~(script.group > 1) /\ script.stage = "check"
        BY MarketOfGroup DEF MarketsTurn, UpgradeGoesOn
      <3> QED
        BY <3>1
    <2>2. script.step <= 7 /\ Len(code) \in Nat
      BY TargetKinds DEF IInv, RunOK, UpgradeGoesOn, SystemOK, ChainTypeOK
    <2> QED
      BY <1>1, <2>1, <2>2, MarketsFacts DEF OnMarket, UpgradeGoesOn
  <1>3. /\ script'.stage = "compare" /\ script'.group = script.group
        /\ script'.step = script.step /\ script'.targets = script.targets
    BY <1>2, UpgradeMoves DEF UpgradeGoesOn
  <1>4. Target' = Target /\ AllDone' = AllDone
    BY <1>3, SameTargets
  <1>5. MarketsTurn'
    BY <1>2, <1>3, <1>4 DEF MarketsTurn, OnMarket
  <1>6. \A q \in Markets : q \in Proxies /\ Turn(q)'
    <2>1. \A q \in Markets : GroupId[q] >= 1
      BY DEF GroupId, Markets
    <2> QED
      BY <1>2, <1>3, <1>5, <2>1, KindsApart DEF Turn
  <1>7. \A p \in Proxies : implementation'[p] = implementation[p] /\ leftToOwner'[p] = leftToOwner[p]
    BY <1>2, UpgradeProxies DEF UpgradeGoesOn
  <1>8. /\ notional.hashes["CashMarket"] = file.hashes["CashMarket"]
        /\ notional.cashMarketLogic = file.cashMarketLogic
    <2>1. ~(script.step > 7)
      BY <1>2 DEF IInv, RunOK, ScriptTypeOK, Runs
    <2> QED
      BY <1>2, <2>1 DEF UpgradeTells, MarketsHash
  <1>9. /\ tx.op = "create" => memory.hashes["CashMarket"] = Bytecode("CashMarket")
                               /\ memory.cashMarketLogic = Len(code) + 1
        /\ tx.op # "create" => memory.hashes["CashMarket"] = notional.hashes["CashMarket"]
                               /\ memory.cashMarketLogic = notional.cashMarketLogic
    <2>1. "CashMarket" \in Artifacts
      BY DEF Artifacts
    <2> QED
      BY <1>2, <2>1, UpgradeRemembers DEF UpgradeGoesOn
  <1>10. memory.hashes["CashMarket"] = Bytecode("CashMarket")
    BY <1>2, <1>9 DEF UpgradeCheckCodeHash
  <1>11. MarketsHash'
    <2>1. notional'.hashes["CashMarket"] = Bytecode("CashMarket")'
      BY <1>2, <1>10, MarketBytecode
    <2>2. tx.op = "create" => file.hashes["CashMarket"].version < build["CashMarket"]
      <3>1. "CashMarket" \in Artifacts /\ "CashMarket" \notin Linked
        BY DEF Artifacts, Linked, LinkReferences
      <3> QED
        BY <1>2, <1>8, <3>1, HashOlder DEF FormOK, IInv, SystemOK, Known, UpgradeCheckCodeHash
    <2>3. notional'.cashMarketLogic # file'.cashMarketLogic => tx.op = "create"
      BY <1>2, <1>8, <1>9
    <2> QED
      BY <1>2, <1>5, <2>1, <2>2, <2>3 DEF MarketsHash
  <1>12. ASSUME NEW q \in Markets
         PROVE  Awaits(q)'
    <2>1. ~Turn(q) /\ q \in Proxies /\ ArtifactOf(q) = "CashMarket" /\ q \notin Linked
      BY <1>2, <1>6 DEF Turn, ArtifactOf, Linked, LinkReferences, Markets
    <2>2. Accounted(q, notional)
      BY <1>2, <2>1 DEF UpgradeTells
    <2>3. implementation[q] \in 1 .. Len(code) /\ leftToOwner[q] \in 0 .. Len(code)
      BY <1>2, <2>1, SavedProxies
    <2>4. implementation'[q] = implementation[q] /\ leftToOwner'[q] = leftToOwner[q]
      BY <1>7, <2>1
    <2>5. CASE tx.op = "create"
      <3>1. file'.cashMarketLogic \in Nat /\ file'.cashMarketLogic <= Len(code)
        BY <1>2 DEF IInv, SystemOK, Known, Memory
      <3>2. PICK n, l, f : n = Len(code) /\ l = notional'.cashMarketLogic /\ f = file'.cashMarketLogic
        OBVIOUS
      <3>3. l = n + 1 /\ f \in Nat /\ f <= n /\ n \in Nat
        BY <1>2, <1>9, <2>5, <3>1, <3>2
      <3>4. l # f /\ l \notin {implementation[q], leftToOwner[q]}
        BY <2>3, <3>2, <3>3
      <3> QED
        BY <2>4, <3>2, <3>4 DEF Awaits
    <2>6. CASE tx.op # "create"
      <3>1. notional.hashes["CashMarket"] = Bytecode("CashMarket")
        BY <1>2, <2>6 DEF UpgradeCheckCodeHash
      <3>2. "CashMarket" \in Artifacts
        BY DEF Artifacts
      <3>3. PICK v, n : v = notional.hashes["CashMarket"].version /\ n = build["CashMarket"]
        OBVIOUS
      <3>4. v = n /\ n \in Nat
        BY <3>1, <3>2, <3>3, BytecodeForm, BoundsAssumption DEF IInv, SystemOK
      <3>5. ~(v < n)
        BY <3>4
      <3>6. ~Behind(q, notional)
        BY <2>1, <3>3, <3>5 DEF Behind
      <3>7. Settled(q, notional)
        BY <2>2, <3>6 DEF Accounted
      <3>8. leftToOwner'[q] # 0 => code'[leftToOwner'[q]] = file'.hashes["CashMarket"]
        BY <1>2, <1>8, <2>1, <2>3, <2>4, <3>7 DEF Settled, CodeKept
      <3>9. notional'.cashMarketLogic = file'.cashMarketLogic
        BY <1>2, <1>8, <1>9, <2>6
      <3> QED
        BY <3>8, <3>9 DEF Awaits
    <2> QED
      BY <2>5, <2>6
  <1>13. \A p \in Proxies : Accounted(p, notional)' \/ Turn(p)'
    BY <1>6, OthersAccounted
  <1>14. \A p \in Core : Ahead(p)' => notional'.hashes[p] = file'.hashes[p]
    BY AheadGoesOn
  <1> QED
    BY <1>2, <1>5, <1>11, <1>12, <1>13, <1>14 DEF UpgradeTells

\* The markets' turn: each is given the run's logic, or its admin's owner is left to give it.
LEMMA MarketsTell ==
  ASSUME IInv, FormOK, FileTells, ~script.dryRun, NEW tx, NEW memory, NEW upgraded,
         UpgradeGoesOn(tx, memory, upgraded), OnMarket
  PROVE  UpgradeTells'
  <1>1. PICK m : m = Proxy
    OBVIOUS
  <1>2. /\ UpgradeTells /\ ~AllDone /\ Upgrading /\ Saved /\ Target \notin Libraries /\ notional' = memory
        /\ m \in Markets /\ m \in Proxies /\ GroupId[m] = script.group /\ ArtifactOf(m) = "CashMarket"
        /\ NewLogic(Target) = notional.cashMarketLogic /\ CodeKept /\ ~ContractsTurn
        /\ notional.cashMarketLogic \in 1 .. Len(code)
        /\ script.stage \in Stages
        /\ tx.op = "create" <=> script.stage = "check" /\ UpgradeCheckCodeHash("CashMarket")
    BY <1>1, MarketsFacts
  <1>3. StageAfter = AfterUpgradeCashMarket(m, script.stage, script.wallet, script.dryRun)
    BY <1>1, <1>2, StageAfterIs
  <1>4. \A p \in Proxies : p # m \/ script.stage \notin {"owner", "upgrade"} =>
          implementation'[p] = implementation[p] /\ leftToOwner'[p] = leftToOwner[p]
    BY <1>1, <1>2, UpgradeProxies DEF UpgradeGoesOn
  <1>5. script.stage # "check" => /\ tx.op # "create" /\ MarketsTurn
                                  /\ memory.hashes["CashMarket"] = notional.hashes["CashMarket"]
                                  /\ code'[notional.cashMarketLogic] = memory.hashes["CashMarket"]
                                  /\ code[notional.cashMarketLogic] = memory.hashes["CashMarket"]
    <2> SUFFICES ASSUME script.stage # "check"
                 PROVE  /\ tx.op # "create" /\ MarketsTurn
                        /\ memory.hashes["CashMarket"] = notional.hashes["CashMarket"]
                        /\ code'[notional.cashMarketLogic] = memory.hashes["CashMarket"]
                        /\ code[notional.cashMarketLogic] = memory.hashes["CashMarket"]
      OBVIOUS
    <2>1. tx.op # "create" /\ MarketsTurn
      BY <1>2 DEF MarketsTurn
    <2>2. "CashMarket" \in Artifacts
      BY DEF Artifacts
    <2>3. memory.hashes["CashMarket"] = notional.hashes["CashMarket"]
      BY <1>2, <2>1, <2>2, UpgradeRemembers DEF UpgradeGoesOn
    <2>4. notional.cashMarketLogic # 0 /\ code[notional.cashMarketLogic] = notional.hashes["CashMarket"]
      BY <1>2 DEF FileTells, HashesOK
    <2> QED
      BY <1>2, <2>1, <2>3, <2>4 DEF CodeKept
  <1>6. CASE script.stage = "check"
    <2>1. StageAfter = "compare"
      BY <1>3, <1>6, AfterUpgradeCashMarketIs
    <2>2. CASE MarketsTurn
      <3>1. ~UpgradeCheckCodeHash("CashMarket")
        BY <1>2, <2>2 DEF UpgradeTells, MarketsHash, UpgradeCheckCodeHash
      <3> QED
        BY <1>2, <1>4, <1>6, <2>1, <2>2, <3>1, MarketGoesOn
    <2> QED
      BY <2>1, <2>2, FirstMarketTells
  <1>7. CASE script.stage = "compare" /\ implementation[m] # notional.cashMarketLogic
    <2>1. StageAfter = "owner"
      BY <1>3, <1>7, AfterUpgradeCashMarketIs
    <2> QED
      BY <1>4, <1>5, <1>7, <2>1, MarketGoesOn
  <1>8. CASE script.stage = "compare" /\ implementation[m] = notional.cashMarketLogic
    <2>1. StageAfter = "done"
      BY <1>3, <1>8, AfterUpgradeCashMarketIs
    <2>2. Turn(m) /\ MarketsTurn
      BY <1>2, <1>5, <1>8 DEF Turn, IInv, RunOK, ScriptTypeOK, Runs
    <2>3. Awaits(m)
      BY <1>2, <2>2 DEF UpgradeTells
    <2>4. notional.cashMarketLogic = file.cashMarketLogic
      BY <1>8, <2>3 DEF Awaits
    <2>5. file.hashes["CashMarket"] = memory.hashes["CashMarket"]
      BY <1>2, <1>5, <1>8, <2>4 DEF FileTells, HashesOK
    <2>6. leftToOwner[m] \in 0 .. Len(code) /\ Len(code) \in Nat
      BY <1>2, SavedProxies
    <2>7. /\ implementation'[m] = notional.cashMarketLogic /\ leftToOwner'[m] = leftToOwner[m]
      BY <1>2, <1>4, <1>8
    <2>8. leftToOwner'[m] # 0 => code'[leftToOwner'[m]] = memory.hashes["CashMarket"]
      BY <2>3, <2>4, <2>5, <2>6, <2>7, <1>2 DEF Awaits, CodeKept
    <2>9. Settled(m, notional)'
      BY <1>2, <1>5, <1>8, <2>7, <2>8 DEF Settled
    <2> QED
      BY <1>1, <1>5, <1>8, <2>1, <2>9, MarketOver
  <1>9. CASE script.stage = "owner" /\ IsAdminOwner(script.wallet)
    <2>1. StageAfter = "upgrade"
      BY <1>3, <1>9, AfterUpgradeCashMarketIs DEF AfterUpgradeProxy
    <2>2. implementation'[m] = implementation[m] /\ leftToOwner'[m] = leftToOwner[m]
      BY <1>1, <1>2, <1>9, UpgradeProxies DEF UpgradeGoesOn
    <2> QED
      BY <1>4, <1>5, <1>9, <2>1, <2>2, MarketGoesOn
  <1>10. CASE script.stage = "owner" /\ ~IsAdminOwner(script.wallet)
    <2>1. StageAfter = "done"
      BY <1>3, <1>10, AfterUpgradeCashMarketIs DEF AfterUpgradeProxy
    <2>2. leftToOwner'[m] = notional.cashMarketLogic /\ notional.cashMarketLogic # 0
      BY <1>1, <1>2, <1>10, UpgradeProxies DEF UpgradeGoesOn
    <2>3. Settled(m, notional)'
      BY <1>2, <1>5, <1>10, <2>2 DEF Settled
    <2> QED
      BY <1>1, <1>5, <1>10, <2>1, <2>3, MarketOver
  <1>11. CASE script.stage = "upgrade"
    <2>1. StageAfter = "done"
      BY <1>3, <1>11, AfterUpgradeCashMarketIs DEF AfterUpgradeProxy
    <2>2. implementation'[m] = notional.cashMarketLogic /\ leftToOwner'[m] = 0
      BY <1>1, <1>2, <1>11, UpgradeProxies DEF UpgradeGoesOn
    <2>3. Settled(m, notional)'
      BY <1>2, <1>5, <1>11, <2>2 DEF Settled
    <2> QED
      BY <1>1, <1>5, <1>11, <2>1, <2>3, MarketOver
  <1> QED
    BY <1>2, <1>6, <1>7, <1>8, <1>9, <1>10, <1>11 DEF Stages

\* A dry run stays one, and the stages are those of what the run has come to.
LEMMA StagesGoOn ==
  ASSUME IInv, FileTells, Upgrading, ~AllDone, NEW tx, tx = UpgradeSends, Apply(tx, script.wallet),
         NEW memory, memory = Remembering(tx), notional' = memory,
         NEW upgraded \in BOOLEAN, upgraded => script.upgraded \/ tx.op = "upgrade" \/ LeavesToOwner,
         script' = [UpgradeAdvanced EXCEPT !.failed = 0, !.upgraded = upgraded]
  PROVE  StagesOK'
  <1>1. /\ script'.program = "upgrade" /\ script'.targets = script.targets
        /\ script'.dryRun = script.dryRun /\ script'.upgraded = upgraded
        /\ StageAfter # "done" =>
             script'.stage = StageAfter /\ script'.group = script.group /\ script'.step = script.step
        /\ StageAfter = "done" /\ OnMarket /\ script.group < 3 =>
             script'.stage = "check" /\ script'.group = script.group + 1 /\ script'.step = script.step
        /\ StageAfter = "done" /\ ~(OnMarket /\ script.group < 3) =>
             script'.stage = "check" /\ script'.group = 1 /\ script'.step = Min(Targets) + 1
    BY UpgradeMoves
  <1>2. /\ script.dryRun => ~script.upgraded /\ script.stage # "upgrade"
        /\ Target \in Libraries => script.stage = "check"
        /\ Target \in Core => script.stage # "compare" /\ script.group = 1
    BY DEF FileTells, StagesOK
  <1>3. \A l \in Libraries : notional'.libraries[l] # 0
    BY UpgradeRemembers
  <1>4. Target \in Core => ~OnMarket /\ Target \notin Libraries
    BY DEF Core, OnMarket, Libraries
  <1>5. script.dryRun => StageAfter # "upgrade"
    <2>1. CASE Target \in Libraries
      BY <2>1, StageAfterIs
    <2>2. CASE Target \notin Libraries /\ OnMarket
      <3>1. StageAfter = AfterUpgradeCashMarket(Proxy, script.stage, script.wallet, script.dryRun)
        BY <2>2, StageAfterIs
      <3> QED
        BY <3>1, AfterUpgradeCashMarketIs DEF AfterUpgradeProxy
    <2>3. CASE Target \notin Libraries /\ ~OnMarket
      <3>1. StageAfter = AfterUpgradeContract(Target, script.stage, script.wallet, script.dryRun)
        BY <2>3, StageAfterIs
      <3> QED
        BY <3>1 DEF AfterUpgradeContract, AfterUpgradeProxy
    <2> QED
      BY <2>1, <2>2, <2>3
  <1>6. Target \in Core => StageAfter # "compare"
    <2> SUFFICES ASSUME Target \in Core PROVE StageAfter # "compare"
      OBVIOUS
    <2>1. StageAfter = AfterUpgradeContract(Target, script.stage, script.wallet, script.dryRun)
      BY <1>4, StageAfterIs
    <2> QED
      BY <2>1 DEF AfterUpgradeContract, AfterUpgradeProxy
  <1>7. script'.dryRun => ~script'.upgraded /\ script'.stage # "upgrade"
    <2>1. tx.op = "upgrade" => script.stage = "upgrade"
      BY UpgradeKinds DEF Upgrade
    <2>2. script.dryRun => ~upgraded
      BY <1>2, <2>1 DEF LeavesToOwner
    <2> QED
      BY <1>1, <1>5, <2>2
  <1>8. CASE StageAfter # "done"
    <2>1. Target' = Target
      BY <1>1, <1>8, SameTargets
    <2>2. Target \notin Libraries
      BY <1>8, StageAfterIs
    <2>3. Target' \in Core => script'.stage # "compare" /\ script'.group = 1
      BY <1>1, <1>2, <1>6, <1>8, <2>1
    <2> QED
      BY <1>3, <1>7, <2>1, <2>2, <2>3 DEF StagesOK
  <1>9. CASE StageAfter = "done" /\ OnMarket /\ script.group < 3
    <2>1. Target' = Target /\ script'.stage = "check"
      BY <1>1, <1>9, SameTargets
    <2> QED
      BY <1>3, <1>4, <1>7, <1>9, <2>1 DEF StagesOK
  <1>10. CASE StageAfter = "done" /\ ~(OnMarket /\ script.group < 3)
    <2>1. script'.stage = "check" /\ script'.group = 1
      BY <1>1, <1>10
    <2> QED
      BY <1>3, <1>7, <2>1 DEF StagesOK
  <1> QED
    BY <1>8, <1>9, <1>10

\* The last step of upgrade.ts: the file tells what the run has done, or stays after a dry run.
LEMMA UpgradeSaves ==
  ASSUME IInv, IInv', FileTells, Upgrading, AllDone, NEW tx, tx = UpgradeSends, Apply(tx, script.wallet),
         leftToOwner' = LeftAfter(tx), lost' = lost, build' = build, notional' = Empty,
         script'.program = "none",
         NEW old, old = notional,
         IF tx.op = "save" THEN file' = [old EXCEPT !.logic = 0] ELSE file' = file
  PROVE  FileTells'
  <1>1. ChainTypeOK /\ Known(notional) /\ HashesOK(notional)
    BY DEF IInv, SystemOK, RunOK, FileTells
  <1>2. Upgrade(tx)
    BY UpgradeKinds
  <1>3. tx.op \in Reads /\ (tx.op = "save" <=> ~script.dryRun)
    BY <1>2 DEF Upgrade
  <1>4. tx.op \notin {"create", "createProxy", "upgrade"}
    BY <1>3 DEF Reads
  <1>5. code' = code /\ implementation' = implementation /\ leftToOwner' = leftToOwner
    BY <1>4, Effects DEF CodeEffect, ProxyEffect, LeftAfter, LeavesToOwner
  <1>6. CodeKept /\ \A p \in Proxies : ProxyKept(p)
    BY <1>5 DEF CodeKept, ProxyKept
  <1>7. HashesOK(notional)' /\ StagesOK' /\ ~Deploying' /\ ~Upgrading'
    BY DEF HashesOK, Empty, StagesOK, Deploying, Upgrading
  <1>8. CASE script.dryRun
    <2>1. file' = file /\ ~script.upgraded
      BY <1>3, <1>8 DEF FileTells, StagesOK
    <2>2. HashesOK(file)' /\ (Saved => \A l \in Libraries : file.libraries[l] # 0)' /\ FileSettled'
      <3>1. Unsaved => Unsaved'
        BY <2>1 DEF Unsaved
      <3> QED
        BY <1>6, <2>1, <3>1, BuildStays, FileStays DEF Goes
    <2> QED
      BY <1>7, <2>2 DEF FileTells
  <1>9. CASE ~script.dryRun
    <2>1. PICK memory : memory = [old EXCEPT !.logic = 0]
      OBVIOUS
    <2>2. /\ memory.libraries = old.libraries /\ memory.hashes = old.hashes
          /\ memory.cashMarketLogic = old.cashMarketLogic
      BY <1>1, <2>1 DEF Known, Memory
    <2>3. file' = memory
      BY <1>3, <1>9, <2>1
    <2>4. HashesOK(old)'
      BY <1>1, <1>6, HashesStay
    <2>5. HashesOK(file)'
      BY <2>2, <2>3, <2>4 DEF HashesOK
    <2>6. \A l \in Libraries : file'.libraries[l] # 0
      BY <2>2, <2>3 DEF FileTells, StagesOK
    <2>7. ASSUME NEW p \in Proxies
          PROVE  Settled(p, file)' \/ (Unsaved' /\ Behind(p, file)')
      <3>1. ~Turn(p)
        BY DEF Turn, MarketsTurn, ContractsTurn
      <3>2. Accounted(p, old)
        BY <1>9, <3>1 DEF FileTells, UpgradeTells
      <3>3. CASE Settled(p, old)
        BY <1>5, <2>2, <2>3, <3>3 DEF Settled
      <3>4. CASE lost /\ Behind(p, old)
        BY <2>2, <2>3, <3>4 DEF Behind, Unsaved
      <3> QED
        BY <3>2, <3>3, <3>4 DEF Accounted
    <2>8. FileSettled'
      BY <2>7 DEF FileSettled
    <2> QED
      BY <1>7, <2>5, <2>6, <2>8 DEF FileTells
  <1> QED
    BY <1>8, <1>9

\* A request of upgrade.ts that is answered, but for the last.
LEMMA AnsweredGoesOn ==
  ASSUME IInv, Upgrading, ~AllDone, Answered, NEW tx, tx = UpgradeSends,
         NEW memory, memory = Remembering(tx), NEW upgraded, upgraded = (script.upgraded \/ Upgrades)
  PROVE  /\ UpgradeGoesOn(tx, memory, upgraded)
         /\ Sends = tx /\ Running /\ Permitted(tx, script.wallet) /\ tx.op # "save"
         /\ Upgrading' /\ script'.upgraded = upgraded /\ script'.dryRun = script.dryRun
  <1>1. Sends = tx /\ Upgrade(tx) /\ Advanced = UpgradeAdvanced
    BY UpgradeKinds DEF Sends, Upgrading, Advanced
  <1>2. tx.op # "save"
    BY <1>1 DEF Upgrade
  <1>3. /\ UpgradeAdvanced.program = "upgrade" /\ UpgradeAdvanced # Idle
        /\ UpgradeAdvanced.upgraded = script.upgraded
    <2>1. script \in Runs /\ script.program = "upgrade"
      BY DEF IInv, RunOK, ScriptTypeOK, Upgrading
    <2>2. /\ [script EXCEPT !.stage = StageAfter].program = "upgrade"
          /\ [script EXCEPT !.stage = "check", !.group = @ + 1].program = "upgrade"
          /\ [script EXCEPT !.stage = "check", !.group = 1, !.step = Min(Targets) + 1].program = "upgrade"
          /\ [script EXCEPT !.stage = StageAfter].upgraded = script.upgraded
          /\ [script EXCEPT !.stage = "check", !.group = @ + 1].upgraded = script.upgraded
          /\ [script EXCEPT !.stage = "check", !.group = 1, !.step = Min(Targets) + 1].upgraded = script.upgraded
      BY <2>1 DEF Runs
    <2>3. UpgradeAdvanced.program = "upgrade" /\ UpgradeAdvanced.upgraded = script.upgraded
      BY <2>2 DEF UpgradeAdvanced
    <2> QED
      BY <2>3, IdleTypes
  <1>4. /\ Permitted(tx, script.wallet) /\ Apply(tx, script.wallet) /\ leftToOwner' = LeftAfter(tx)
        /\ notional' = memory /\ file' = file /\ build' = build /\ lost' = lost /\ Running
        /\ script' = [UpgradeAdvanced EXCEPT !.failed = 0, !.upgraded = @ \/ Upgrades]
    BY <1>1, <1>2, <1>3 DEF Answered
  <1>5. upgraded \in BOOLEAN /\ script' = [UpgradeAdvanced EXCEPT !.failed = 0, !.upgraded = upgraded]
    BY <1>3, <1>4
  <1>6. UpgradeGoesOn(tx, memory, upgraded)
    BY <1>4, <1>5 DEF UpgradeGoesOn
  <1>7. Upgrading' /\ script'.upgraded = upgraded /\ script'.dryRun = script.dryRun
    BY <1>5, UpgradeMoves DEF Upgrading
  <1> QED
    BY <1>1, <1>2, <1>4, <1>6, <1>7

\* upgrade.ts goes on: what it has done the object tells, and the file the rest.
LEMMA UpgradeAnsweredTells ==
  ASSUME IInv, IInv', FormOK, FileTells, Upgrading, Answered
  PROVE  FileTells'
  <1>0. PICK tx, old, r : tx = UpgradeSends /\ old = notional /\ r = Remembering(tx)
    OBVIOUS
  <1>1. Sends = tx /\ Upgrade(tx) /\ Advanced = UpgradeAdvanced
    BY <1>0, UpgradeKinds DEF Sends, Upgrading, Advanced
  <1>2. /\ Permitted(tx, script.wallet) /\ Apply(tx, script.wallet) /\ leftToOwner' = LeftAfter(tx)
        /\ notional' = IF UpgradeAdvanced = Idle THEN Empty ELSE r
        /\ IF tx.op = "save" THEN file' = [old EXCEPT !.logic = 0] ELSE file' = file
        /\ script' = IF UpgradeAdvanced = Idle THEN Idle
               ELSE [UpgradeAdvanced EXCEPT !.failed = 0, !.upgraded = @ \/ Upgrades]
        /\ build' = build /\ lost' = lost /\ Running
    BY <1>0, <1>1 DEF Answered, SaveAddresses
  <1>3. CASE AllDone
    <2>1. UpgradeAdvanced = Idle
      BY <1>3 DEF UpgradeAdvanced
    <2>2. notional' = Empty /\ script'.program = "none"
      BY <1>2, <2>1, IdleTypes
    <2> QED
      BY <1>0, <1>2, <1>3, <2>2, UpgradeSaves
  <1>4. CASE ~AllDone
    <2>1. PICK upgraded : upgraded = (script.upgraded \/ Upgrades)
      OBVIOUS
    <2>2. UpgradeGoesOn(tx, r, upgraded) /\ Upgrading' /\ script'.upgraded = upgraded
          /\ script'.dryRun = script.dryRun
      BY <1>0, <1>4, <2>1, AnsweredGoesOn
    <2>3. upgraded \in BOOLEAN /\ notional' = r
      BY <2>2 DEF UpgradeGoesOn
    <2>4. script' = [UpgradeAdvanced EXCEPT !.failed = 0, !.upgraded = upgraded] /\ file' = file
      BY <2>2 DEF UpgradeGoesOn
    <2>5. CodeKept /\ HashesOK(r)'
      BY <1>0, <1>2, <1>4, UpgradeRemembers
    <2>6. HashesOK(notional)'
      BY <2>3, <2>5 DEF HashesOK
    <2>7. StagesOK'
      <3>1. upgraded => script.upgraded \/ tx.op = "upgrade" \/ LeavesToOwner
        BY <1>1, <2>1 DEF Upgrades
      <3> QED
        BY <1>0, <1>2, <1>4, <2>3, <2>4, <3>1, StagesGoOn
    <2>8. HashesOK(file)' /\ (Saved => \A l \in Libraries : file.libraries[l] # 0)' /\ FileSettled'
      <3>1. (Unsaved => Unsaved') /\ (Upgrades => Unsaved')
        BY <1>2, <2>1, <2>2 DEF Unsaved
      <3>2. ASSUME Saved, NEW p \in Proxies
            PROVE  Goes(p)
        BY <1>1, <1>2, <2>4, <3>1, <3>2, RequestGoes
      <3> QED
        BY <1>2, <2>4, <2>5, <3>1, <3>2, BuildStays, FileStays
    <2>9. ~script'.dryRun => UpgradeTells'
      <3> SUFFICES ASSUME ~script.dryRun PROVE UpgradeTells'
        BY <2>2
      <3>1. Target \in Libraries \/ Target \in Core \/ OnMarket
        BY <1>4, TargetKinds DEF IInv, RunOK, OnMarket
      <3> QED
        BY <2>2, <3>1, LibraryTells, CoreTells, MarketsTell
    <2>10. ~Deploying'
      BY <2>2 DEF Deploying, Upgrading
    <2> QED
      BY <2>6, <2>7, <2>8, <2>9, <2>10 DEF FileTells
  <1> QED
    BY <1>3, <1>4

\* There is nothing to tell of before the first request.
LEMMA InitTells ==
  Init => FileTells
  <1> SUFFICES ASSUME Init PROVE FileTells
    OBVIOUS
  <1>1. script.program = "deploy" /\ script.step = 1 /\ notional = Empty /\ file = Empty
    BY DeployStarts DEF Init
  <1>2. HashesOK(notional) /\ HashesOK(file) /\ ~Saved
    BY <1>1, EmptyHashes DEF Saved, Empty
  <1>3. StagesOK /\ FileSettled /\ ~Upgrading
    BY <1>1, <1>2 DEF StagesOK, Upgrading, FileSettled
  <1>4. DeployTells
    <2>1. \A p \in Proxies : ~(ProxyStep[p] < 1) /\ ProxyStep[p] # 1
      BY Places
    <2> QED
      BY <1>1, <2>1 DEF DeployTells, SaveStep
  <1> QED
    BY <1>2, <1>3, <1>4 DEF FileTells

\* Every step keeps what the file and the object tell of the chain.
LEMMA NextTells ==
  ASSUME IInv, IInv', FormOK, FileTells, [Next]_vars
  PROVE  FileTells'
  <1>1. CASE Answered
    <2>1. Deploying \/ Upgrading
      BY <1>1 DEF Answered, Running, Deploying, Upgrading, IInv, RunOK, ScriptTypeOK, Runs
    <2> QED
      BY <1>1, <2>1, DeployAnsweredTells, UpgradeAnsweredTells
  <1>2. CASE Reverted
    BY <1>2, QuitsTell DEF Reverted
  <1>3. CASE RateLimited
    BY <1>3, RateLimitedTells
  <1>4. CASE Killed
    BY <1>4, KilledTells
  <1>5. CASE StartDeploy
    BY <1>5, StartDeployTells
  <1>6. ASSUME NEW w \in Accounts, NEW t \in TargetLists, NEW d \in BOOLEAN, StartUpgrade(w, t, d)
        PROVE  FileTells'
    BY <1>6, StartUpgradeTells
  <1>7. ASSUME NEW a \in Edited, Compile(a)
        PROVE  FileTells'
    BY <1>7, CompileGrows, ScriptlessTells DEF Compile
  <1>8. CASE Commit
    BY <1>8, BuildStays, ScriptlessTells DEF Commit
  <1>9. ASSUME NEW p \in Proxies, OwnerUpgrades(p)
        PROVE  FileTells'
    BY <1>9, OwnerUpgradesTells
  <1>10. CASE UNCHANGED vars
    BY <1>10, BuildStays, ScriptlessTells DEF vars
  <1> QED
    BY <1>1, <1>2, <1>3, <1>4, <1>5, <1>6, <1>7, <1>8, <1>9, <1>10 DEF Next, ScriptStep

\* What the file tells is always so: between runs it has the code behind every proxy, of every
\* library and of the markets' logic, but for what an admin's owner was left to do, and unless
\* a run that had upgraded a proxy was lost.
THEOREM FileAlwaysTellsTheChain == Spec => []FileTellsTheChain
  <1>1. Init => IInv /\ FormOK /\ FileTells
    BY InitInvariant, InitForm, InitTells
  <1>2. IInv /\ FormOK /\ FileTells /\ [Next]_vars => (IInv /\ FormOK /\ FileTells)'
    BY NextInvariant, NextForm, NextTells
  <1>3. IInv /\ FileTells => FileTellsTheChain
    <2> SUFFICES ASSUME IInv, FileTells, ~Running, Saved, ~lost
                 PROVE  /\ \A p \in Proxies : \/ code[implementation[p]] = file.hashes[ArtifactOf(p)]
                                              \/ leftToOwner[p] # 0
                        /\ \A l \in Libraries : code[file.libraries[l]] = file.hashes[l]
                        /\ code[file.cashMarketLogic] = file.hashes["CashMarket"]
      BY DEF FileTellsTheChain
    <2>1. \A p \in Proxies : Settled(p, file)
      BY DEF FileTells, FileSettled, Unsaved, Running, Upgrading
    <2>2. file.cashMarketLogic # 0 /\ \A l \in Libraries : file.libraries[l] # 0
      BY DEF FileTells, IInv, SystemOK, SavedIsBuilt
    <2> QED
      BY <2>1, <2>2 DEF FileTells, HashesOK, Settled
  <1> QED
    BY <1>1, <1>2, <1>3, PTL DEF Spec

\* The contracts that are linked with a library are core contracts, and no libraries.
LEMMA LinkedContracts ==
  /\ Linked \subseteq Core /\ Core \subseteq Proxies \cap Artifacts /\ Libraries \subseteq Artifacts
  /\ \A p \in Linked : LinkReferences[p] \in Libraries
  /\ \A c \in Core : c \notin Libraries /\ c # "CashMarket" /\ ArtifactOf(c) = c /\ c \in Placed
  /\ \A l \in Libraries : l \in Placed /\ l # "CashMarket"
  BY DEF Linked, LinkReferences, Core, Proxies, Artifacts, Libraries, ArtifactOf, Markets, Placed

\* Bytecode is what it was, if the build and the library are.
LEMMA BytecodeSame ==
  ASSUME build' = build, NEW a,
         a \in Linked => notional'.libraries[LinkReferences[a]] = notional.libraries[LinkReferences[a]]
  PROVE  Bytecode(a)' = Bytecode(a)
  BY DEF Bytecode, Link, Linked, LinkReferences

\* What an upgrade remembers of libraries and hashes.
LEMMA LibrariesRemembered ==
  ASSUME IInv, FileTells, ~script.dryRun, NEW tx, NEW memory, NEW upgraded,
         UpgradeGoesOn(tx, memory, upgraded)
  PROVE  /\ \A l \in Libraries : l # Target => memory.libraries[l] = notional.libraries[l]
         /\ Target \in Libraries => memory.libraries[Target] = Len(code) + 1
         /\ Target \in Libraries => memory.hashes[Target] = Bytecode(Target)
         /\ \A a \in Artifacts : a # Target => memory.hashes[a] = notional.hashes[a]
         /\ notional' = memory /\ Len(code) \in Nat
  <1>1. /\ ChainTypeOK /\ Known(notional) /\ HashesOK(notional) /\ TypeOK /\ ScriptTypeOK
        /\ Upgrading /\ ~AllDone /\ tx = UpgradeSends /\ Apply(tx, script.wallet)
        /\ memory = Remembering(tx) /\ notional' = memory /\ Len(code) \in Nat
    <2>1. /\ ChainTypeOK /\ Known(notional) /\ ScriptTypeOK /\ TypeOK
      BY TypeHolds DEF IInv, SystemOK, RunOK
    <2>2. /\ Upgrading /\ ~AllDone /\ tx = UpgradeSends /\ Apply(tx, script.wallet)
          /\ memory = Remembering(tx) /\ notional' = memory
      BY DEF UpgradeGoesOn
    <2>3. HashesOK(notional) /\ Len(code) \in Nat
      BY <2>1 DEF FileTells, ChainTypeOK
    <2> QED
      BY <2>1, <2>2, <2>3
  <1>2. /\ tx.op = "create" => tx.on = Target /\ tx.code = Bytecode(Target)
        /\ Target \in Libraries => tx.op = "create"
    BY <1>1, UpgradeKinds DEF Upgrade
  <1>3. Target \in Artifacts /\ Bytecode(Target) \in Code
    BY <1>1, TargetFacts, BytecodeType
  <1>4. /\ \A l \in Libraries : /\ tx.op = "create" /\ tx.on = l => memory.libraries[l] = Len(code) + 1
                                /\ ~(tx.op = "create" /\ tx.on = l) =>
                                     memory.libraries[l] = notional.libraries[l]
        /\ \A a \in Artifacts : memory.hashes[a] = IF tx.op = "create" /\ tx.on = a THEN tx.code
                                                   ELSE notional.hashes[a]
    BY <1>1, <1>2, <1>3, HashesRemembered
  <1> QED
    BY <1>1, <1>2, <1>3, <1>4

\* Once a contract's hash has been compared it is the build's.
LEMMA CoreHash ==
  ASSUME IInv, FileTells, ~script.dryRun, HashCurrent, NEW tx, NEW memory, NEW upgraded,
         UpgradeGoesOn(tx, memory, upgraded), Target \in Core, NEW t, t = Target
  PROVE  notional'.hashes[t] = Bytecode(t)
  <1>1. /\ ~AllDone /\ Upgrading /\ notional' = memory /\ Target \notin Libraries /\ t \in Artifacts
        /\ tx = UpgradeSends
    BY LinkedContracts DEF UpgradeGoesOn
  <1>2. tx.op # "create" => memory.hashes[t] = notional.hashes[t]
    BY <1>1, UpgradeRemembers DEF UpgradeGoesOn
  <1>3. tx.op = "create" => memory.hashes[t] = Bytecode(t)
    BY <1>1, UpgradeRemembers DEF UpgradeGoesOn
  <1>4. tx.op # "create" => notional.hashes[t] = Bytecode(t)
    <2> SUFFICES ASSUME tx.op # "create" PROVE notional.hashes[t] = Bytecode(t)
      OBVIOUS
    <2>1. CASE script.stage = "check"
      <3>1. Upgrade(tx)
        BY <1>1, UpgradeKinds
      <3> QED
        BY <1>1, <2>1, <3>1 DEF Upgrade, UpgradeCheckCodeHash
    <2>2. CASE script.stage # "check"
      BY <1>1, <2>2 DEF HashCurrent, ContractsTurn
    <2> QED
      BY <2>1, <2>2
  <1> QED
    BY <1>1, <1>2, <1>3, <1>4

\* The hashes of the contracts the run is done with are the build's.
LEMMA CurrentGoesOn ==
  ASSUME IInv, FileTells, ~script.dryRun, HashCurrent, NEW tx, NEW memory, NEW upgraded,
         UpgradeGoesOn(tx, memory, upgraded)
  PROVE  HashCurrent'
  <1>1. PICK t, s, n : t = Target /\ s = script.step /\ n = UpgradePlace[t]
    OBVIOUS
  <1>2. /\ ~AllDone /\ Upgrading /\ notional' = memory /\ build' = build
        /\ t \in Placed /\ s \in Nat /\ s <= n /\ script'.targets = script.targets
        /\ TurnOver => script'.step = n + 1
        /\ ~TurnOver => script'.step = s
    BY <1>1, PlacesGoOn DEF UpgradeGoesOn
  <1>3. n \in 1 .. 7
    BY <1>1, <1>2, PlacesApart
  <1>4. CASE t \in Libraries
    <2>1. StageAfter = "done" /\ ~OnMarket
      BY <1>1, <1>4, StageAfterIs, LinkedContracts DEF OnMarket
    <2>2. script'.stage = "check"
      BY <1>2, <2>1, UpgradeMoves DEF UpgradeGoesOn
    <2>3. ~ContractsTurn'
      BY <2>2 DEF ContractsTurn
    <2>4. n \in 1 .. 2 /\ script'.step = n + 1
      BY <1>1, <1>2, <1>4, <2>1, PlacesApart DEF TurnOver
    <2>5. ASSUME NEW p \in Core
          PROVE  ~(UpgradePlace[p] < script'.step)
      <3>1. UpgradePlace[p] \in 3 .. 6
        BY PlacesApart
      <3> QED
        BY <2>4, <3>1
    <2> QED
      BY <2>3, <2>5 DEF HashCurrent
  <1>5. CASE t \notin Libraries
    <2>1. ASSUME NEW a
          PROVE  Bytecode(a)' = Bytecode(a)
      BY <1>1, <1>2, <1>5, LibrariesRemembered, LinkedContracts, BytecodeSame
    <2>2. ASSUME NEW p \in Core, p \in script.targets, UpgradePlace[p] < script'.step
          PROVE  notional'.hashes[p] = Bytecode(p)'
      <3>1. CASE p # t
        <4>1. UpgradePlace[p] < script.step
          BY <1>1, <2>2, <3>1, PlacesGoOn, LinkedContracts
        <4>2. memory.hashes[p] = notional.hashes[p]
          BY <1>1, <3>1, LibrariesRemembered, LinkedContracts
        <4> QED
          BY <1>2, <2>1, <2>2, <4>1, <4>2 DEF HashCurrent
      <3>2. CASE p = t
        <4>1. notional'.hashes[t] = Bytecode(t)
          BY <1>1, <2>2, <3>2, CoreHash
        <4> QED
          BY <2>1, <3>2, <4>1
      <3> QED
        BY <3>1, <3>2
    <2>3. ContractsTurn' => (notional.hashes[Target] = Bytecode(Target))'
      <3> SUFFICES ASSUME ContractsTurn' PROVE notional'.hashes[Target'] = Bytecode(Target)'
        OBVIOUS
      <3>1. StageAfter # "done"
        <4> SUFFICES ASSUME StageAfter = "done" PROVE FALSE
          OBVIOUS
        <4>1. script'.stage = "check"
          BY <1>2, UpgradeMoves DEF UpgradeGoesOn
        <4> QED
          BY <4>1 DEF ContractsTurn
      <3>2. script'.step = script.step
        BY <1>2, <3>1, UpgradeMoves DEF UpgradeGoesOn
      <3>3. Target' = t
        BY <1>1, <1>2, <3>2, SameTargets
      <3>4. Target \in Core
        BY <1>1, <3>3 DEF ContractsTurn, Core
      <3>5. notional'.hashes[t] = Bytecode(t)
        BY <1>1, <3>4, CoreHash
      <3>6. Bytecode(Target)' = Bytecode(t)
        <4>1. Bytecode(t)' = Bytecode(t)
          BY <2>1
        <4>2. Bytecode(Target)' = Bytecode(t)'
          BY <3>3 DEF Bytecode, Link, LinkReferences
        <4> QED
          BY <4>1, <4>2
      <3> QED
        BY <3>3, <3>5, <3>6
    <2> QED
      BY <1>2, <2>2, <2>3 DEF HashCurrent
  <1> QED
    BY <1>4, <1>5

\* A library's creation leaves the contract that is linked with it to be created; its own turn
\* settles it.
LEMMA RenewedGoesOn ==
  ASSUME IInv, FormOK, FileTells, ~script.dryRun, HashCurrent, NEW tx, NEW memory, NEW upgraded,
         UpgradeGoesOn(tx, memory, upgraded), NEW p \in Linked, Renewed(p)
  PROVE  Renewed(p)'
  <1>1. PICK t, s, n, l : t = Target /\ s = script.step /\ n = UpgradePlace[t] /\ l = LinkReferences[p]
    OBVIOUS
  <1>2. /\ ~AllDone /\ Upgrading /\ Saved /\ notional' = memory /\ build' = build
        /\ t \in Placed /\ t \in script.targets /\ s \in Nat /\ s <= n /\ script'.targets = script.targets
        /\ TurnOver => script'.step = n + 1
        /\ ~TurnOver => script'.step = s
    BY <1>1, PlacesGoOn DEF UpgradeGoesOn, IInv, RunOK, UpgradesSaved
  <1>3. /\ p \in Core /\ p \in Proxies /\ p \in Artifacts /\ p \in Placed /\ ArtifactOf(p) = p
        /\ l \in Libraries /\ l \in Placed /\ p \notin Libraries /\ p # l
    BY <1>1, LinkedContracts
  <1>4. n \in 1 .. 7 /\ UpgradePlace[p] \in 3 .. 6 /\ UpgradePlace[l] \in 1 .. 2
    BY <1>1, <1>2, <1>3, PlacesApart
  <1>5. CASE t = l
    <2>1. TurnOver
      BY <1>1, <1>3, <1>5, StageAfterIs, LinkedContracts DEF TurnOver, OnMarket
    <2>2. ~(UpgradePlace[p] < script'.step)
      BY <1>1, <1>2, <1>4, <1>5, <2>1
    <2>3. memory.libraries[l] = Len(code) + 1 /\ memory.hashes[p] = notional.hashes[p] /\ Len(code) \in Nat
      BY <1>1, <1>3, <1>5, LibrariesRemembered
    <2>4. notional.hashes[p].link <= Len(code) /\ notional.hashes[p].link \in Nat
      BY <1>3 DEF FormOK, HashForm, IInv, RunOK, Known, Memory, Code
    <2>5. memory.hashes[p].link # memory.libraries[l]
      <3>1. PICK h, b : h = notional.hashes[p].link /\ b = Len(code)
        OBVIOUS
      <3>2. h # b + 1
        BY <2>3, <2>4, <3>1
      <3> QED
        BY <2>3, <3>1, <3>2
    <2> QED
      BY <1>1, <1>2, <2>2, <2>5 DEF Renewed
  <1>6. CASE t # l
    <2>1. /\ memory.libraries[l] = notional.libraries[l]
          /\ l \in script.targets => (UpgradePlace[l] < script'.step <=> UpgradePlace[l] < script.step)
      BY <1>1, <1>3, <1>6, LibrariesRemembered, PlacesGoOn
    <2>2. CASE p # t
      <3>1. /\ p \in script.targets => (UpgradePlace[p] < script'.step <=> UpgradePlace[p] < script.step)
            /\ memory.hashes[p] = notional.hashes[p]
        BY <1>1, <1>3, <2>2, LibrariesRemembered, PlacesGoOn
      <3>2. Settled(p, notional) => Settled(p, notional)'
        <4> SUFFICES ASSUME Settled(p, notional) PROVE Settled(p, notional)'
          OBVIOUS
        <4>1. CodeKept
          BY <1>2, UpgradeRemembers DEF UpgradeGoesOn
        <4>2. implementation'[p] = implementation[p] /\ leftToOwner'[p] = leftToOwner[p]
          <5>1. t \in Libraries \/ p # Proxy
            <6>1. t \notin Libraries => ArtifactOf(Proxy) = t
              BY <1>1, <1>2, ProxyFacts
            <6> QED
              BY <1>3, <2>2, <6>1
          <5> QED
            BY <1>1, <1>2, <1>3, <5>1, UpgradeProxies DEF UpgradeGoesOn
        <4> QED
          BY <1>2, <1>3, <3>1, <4>1, <4>2, SettledGoesOn
      <3> QED
        BY <1>1, <1>2, <2>1, <2>2, <3>1, <3>2 DEF Renewed
    <2>3. CASE p = t /\ ~TurnOver
      <3>1. StageAfter # "done" /\ ~OnMarket /\ Target \notin Libraries
        BY <1>1, <1>3, <2>3, LinkedContracts DEF TurnOver, OnMarket
      <3>2. script'.stage = StageAfter /\ script'.step = script.step
        BY <1>2, <3>1, UpgradeMoves DEF UpgradeGoesOn
      <3>3. Target' = t /\ AllDone' = AllDone
        BY <1>1, <1>2, <3>2, SameTargets
      <3>4. StageAfter # "check"
        <4>1. StageAfter = AfterUpgradeContract(Target, script.stage, script.wallet, script.dryRun)
          BY <3>1, StageAfterIs
        <4> QED
          BY <4>1 DEF AfterUpgradeContract, AfterUpgradeProxy
      <3>5. (ContractsTurn /\ p = Target)'
        BY <1>2, <1>3, <2>3, <3>2, <3>3, <3>4 DEF ContractsTurn, Core
      <3>6. ~(UpgradePlace[p] < script'.step)
        BY <1>1, <1>2, <1>4, <2>3
      <3> QED
        BY <3>5, <3>6 DEF Renewed
    <2>4. CASE p = t /\ TurnOver
      <3>1. StageAfter = "done" /\ ~OnMarket /\ Target \in Core /\ Target \notin Libraries
        BY <1>1, <1>3, <2>4, LinkedContracts DEF TurnOver, OnMarket
      <3>2. UpgradePlace[p] < script'.step /\ ~(UpgradePlace[p] < script.step)
        BY <1>1, <1>2, <1>4, <2>4
      <3>3. CASE script.stage # "check"
        <4>1. Settled(p, notional)'
          BY <1>1, <2>4, <3>1, <3>3, CoreSettles
        <4> QED
          BY <1>1, <1>2, <2>4, <3>2, <4>1 DEF Renewed
      <3>4. CASE script.stage = "check"
        <4>1. StageAfter = AfterUpgradeContract(Target, script.stage, script.wallet, script.dryRun)
          BY <3>1, StageAfterIs
        <4>2. notional.hashes[p] = Bytecode(p)
          BY <1>1, <2>4, <3>1, <3>4, <4>1 DEF AfterUpgradeContract, UpgradeCheckCodeHash
        <4>3. notional.hashes[p].link = notional.libraries[l]
          BY <1>1, <1>3, <4>2, BytecodeForm
        <4>4. ~ContractsTurn
          BY <3>4 DEF ContractsTurn
        <4>5. ~(l \in script.targets /\ UpgradePlace[l] < script.step)
          BY <1>1, <3>2, <4>3, <4>4 DEF Renewed
        <4> QED
          BY <1>1, <1>2, <2>1, <4>5 DEF Renewed
      <3> QED
        BY <3>3, <3>4
    <2> QED
      BY <2>2, <2>3, <2>4
  <1> QED
    BY <1>5, <1>6

\* The run of upgrade.ts is where it was.
UpgradeKept ==
  /\ Upgrading /\ SameRun /\ CodeKept /\ build' = build /\ file' = file /\ lost' = lost
  /\ \A p \in Proxies : ProxyKept(p)

\* The owner's upgrade gives the proxy what was left to it, and changes nothing else.
LEMMA OwnerKeeps ==
  ASSUME IInv, NEW p \in Proxies, OwnerUpgrades(p)
  PROVE  /\ CodeKept /\ \A q \in Proxies : ProxyKept(q)
         /\ UNCHANGED <<build, notional, file, script, lost>>
  <1>1. PICK tx, sender : /\ tx = [op |-> "upgrade", on |-> p, admin |-> admin[p], logic |-> leftToOwner[p]]
                          /\ sender = adminOwner[admin[p]]
    OBVIOUS
  <1>2. /\ tx.op = "upgrade" /\ tx.on = p /\ tx.logic = leftToOwner[p] /\ leftToOwner[p] # 0
        /\ Apply(tx, sender) /\ leftToOwner' = [leftToOwner EXCEPT ![p] = 0]
        /\ UNCHANGED <<build, notional, file, script, lost>>
    BY <1>1 DEF OwnerUpgrades
  <1>3. /\ ChainTypeOK /\ leftToOwner \in [Proxies -> 0 .. Len(code)]
        /\ implementation \in [Proxies -> 0 .. Len(code)]
    BY DEF IInv, SystemOK, ChainTypeOK
  <1>4. CodeKept
    BY <1>2, <1>3, CodeStays
  <1>5. implementation' = [implementation EXCEPT ![p] = leftToOwner[p]]
    BY <1>2, Effects DEF ProxyEffect
  <1>6. \A q \in Proxies : ProxyKept(q)
    BY <1>2, <1>3, <1>5 DEF ProxyKept
  <1> QED
    BY <1>2, <1>4, <1>6

\* A step with upgrade.ts at work after it starts the run, is a request of it but for the last,
\* or leaves it where it was.
LEMMA UpgradeSteps ==
  ASSUME IInv, [Next]_vars, Upgrading'
  PROVE  \/ \E w \in Accounts, t \in TargetLists, d \in BOOLEAN : StartUpgrade(w, t, d)
         \/ Upgrading /\ ~AllDone /\ Answered
         \/ UpgradeKept
  <1>2. ASSUME NEW upgraded, Quit(upgraded)
        PROVE  FALSE
    <2>1. script'.program = "none"
      BY <1>2, IdleTypes DEF Quit
    <2> QED
      BY <2>1 DEF Upgrading
  <1>3. CASE UNCHANGED <<code, implementation, leftToOwner, build, file, lost>> /\ SameRun
    <2>1. Upgrading /\ CodeKept /\ \A p \in Proxies : ProxyKept(p)
      BY <1>3 DEF SameRun, Upgrading, CodeKept, ProxyKept
    <2> QED
      BY <1>3, <2>1 DEF UpgradeKept
  <1>4. CASE Answered
    <2>1. Deploying \/ Upgrading
      BY <1>4 DEF Answered, Running, Deploying, Upgrading, IInv, RunOK, ScriptTypeOK, Runs
    <2>2. script' = IF Advanced = Idle THEN Idle
                    ELSE [Advanced EXCEPT !.failed = 0, !.upgraded = @ \/ Upgrades]
      BY <1>4 DEF Answered
    <2>3. Advanced # Idle
      BY <2>2, IdleTypes DEF Upgrading
    <2>4. script \in Runs
      BY DEF IInv, RunOK, ScriptTypeOK
    <2>5. ~Deploying
      <3> SUFFICES ASSUME Deploying PROVE FALSE
        OBVIOUS
      <3>1. Advanced = [script EXCEPT !.step = @ + 1]
        BY <2>3 DEF Advanced, Deploying
      <3>2. script'.program = script.program
        BY <2>2, <2>3, <2>4, <3>1 DEF Runs
      <3> QED
        BY <3>2 DEF Deploying, Upgrading
    <2>6. ~AllDone
      BY <2>1, <2>3, <2>5 DEF Advanced, Upgrading, UpgradeAdvanced
    <2> QED
      BY <1>4, <2>1, <2>5, <2>6
  <1>5. CASE Reverted
    BY <1>2, <1>5 DEF Reverted
  <1>6. CASE RateLimited
    <2>1. CASE script.failed + 1 < Attempts
      <3>1. /\ script' = [script EXCEPT !.failed = @ + 1]
            /\ UNCHANGED <<chain, leftToOwner, notional, build, file, lost>>
        BY <1>6, <2>1 DEF RateLimited
      <3>2. script \in Runs
        BY DEF IInv, RunOK, ScriptTypeOK
      <3>3. SameRun
        BY <3>1, <3>2 DEF SameRun, Runs
      <3> QED
        BY <1>3, <3>1, <3>3 DEF chain, proxyVars
    <2>2. CASE ~(script.failed + 1 < Attempts)
      BY <1>2, <1>6, <2>2 DEF RateLimited
    <2> QED
      BY <2>1, <2>2
  <1>7. CASE Killed
    BY <1>2, <1>7 DEF Killed
  <1>8. CASE StartDeploy
    <2>1. script'.program = "deploy"
      BY <1>8, DeployStarts DEF StartDeploy
    <2> QED
      BY <2>1 DEF Upgrading
  <1>9. ASSUME NEW a \in Edited, Compile(a)
        PROVE  FALSE
    BY <1>9 DEF Compile, Upgrading, Running
  <1>10. CASE Commit
    BY <1>10 DEF Commit, Upgrading, Running
  <1>11. ASSUME NEW p \in Proxies, OwnerUpgrades(p)
         PROVE  UpgradeKept
    BY <1>11, OwnerKeeps DEF SameRun, UpgradeKept, Upgrading
  <1>12. CASE UNCHANGED vars
    BY <1>3, <1>12 DEF vars, chain, proxyVars, SameRun
  <1> QED
    BY <1>4, <1>5, <1>6, <1>7, <1>8, <1>9, <1>10, <1>11, <1>12 DEF Next, ScriptStep

\* A run that is where it was has in effect what it had.
LEMMA SameBuild ==
  ASSUME IInv, BuildInEffect, UpgradeKept
  PROVE  BuildInEffect'
  <1>1. /\ SameRun /\ Upgrading /\ CodeKept /\ build' = build /\ Saved
        /\ \A p \in Proxies : ProxyKept(p)
    BY DEF UpgradeKept, IInv, RunOK, UpgradesSaved
  <1>2. /\ Target' = Target /\ (ContractsTurn' <=> ContractsTurn) /\ script'.targets = script.targets
        /\ script'.step = script.step /\ script'.dryRun = script.dryRun /\ notional' = notional
    BY <1>1, SameTurns DEF SameRun
  <1>3. ASSUME NEW a
        PROVE  Bytecode(a)' = Bytecode(a)
    BY <1>1, <1>2, BytecodeSame
  <1>4. Bytecode(Target)' = Bytecode(Target)
    <2>1. PICK t : t = Target
      OBVIOUS
    <2>2. Bytecode(t)' = Bytecode(t)
      BY <1>3
    <2>3. Bytecode(Target)' = Bytecode(t)'
      BY <1>2, <2>1 DEF Bytecode, Link, LinkReferences
    <2> QED
      BY <2>1, <2>2, <2>3
  <1>5. HashCurrent => HashCurrent'
    BY <1>2, <1>3, <1>4 DEF HashCurrent, UpgradePlace
  <1>6. ASSUME NEW p \in Linked, Renewed(p)
        PROVE  Renewed(p)'
    <2>1. p \in Proxies
      BY LinkedContracts
    <2>2. PICK memory : memory = notional
      OBVIOUS
    <2>3. Settled(p, memory) => Settled(p, memory)'
      BY <1>1, <2>1, SettledStays, SavedProxies
    <2>4. Settled(p, notional) => Settled(p, notional)'
      BY <1>2, <2>2, <2>3 DEF Settled
    <2> QED
      BY <1>2, <1>6, <2>4 DEF Renewed, UpgradePlace, LinkReferences
  <1> QED
    BY <1>1, <1>2, <1>5, <1>6 DEF BuildInEffect

\* At the start nothing is behind the run.
LEMMA StartBuild ==
  ASSUME NEW wallet \in Accounts, NEW targets \in TargetLists, NEW dryRun \in BOOLEAN,
         StartUpgrade(wallet, targets, dryRun)
  PROVE  BuildInEffect'
  <1>1. "upgrade" \in {"none", "deploy", "upgrade"} /\ targets \in SUBSET Artifacts
    BY TargetsAssumption
  <1> DEFINE start == Start("upgrade", wallet, targets, dryRun)
  <1>2. start.step = 1 /\ start.stage = "check"
    BY <1>1, StartTypes
  <1>3. start.targets = targets
    BY DEF Start, Idle
  <1>4. script' = start
    BY DEF StartUpgrade
  <1> HIDE DEF start
  <1>5. script'.step = 1 /\ script'.stage = "check" /\ script'.targets \in TargetLists
    BY <1>2, <1>3, <1>4
  <1>6. ~ContractsTurn'
    BY <1>5 DEF ContractsTurn
  <1>7. \A p \in Core \cup Libraries : ~(UpgradePlace[p] < 1)
    BY PlacesApart
  <1>8. HashCurrent'
    BY <1>5, <1>6, <1>7 DEF HashCurrent
  <1>9. ASSUME NEW p \in Linked
        PROVE  Renewed(p)'
    BY <1>5, <1>7, LinkedContracts DEF Renewed
  <1> QED
    BY <1>5, <1>8, <1>9 DEF BuildInEffect

\* Every step keeps the build in effect as far as a run has come.
LEMMA NextBuild ==
  ASSUME IInv, IInv', FormOK, FileTells, BuildInEffect, [Next]_vars
  PROVE  BuildInEffect'
  <1>1. CASE ~Upgrading'
    BY <1>1 DEF BuildInEffect
  <1>2. ASSUME NEW w \in Accounts, NEW t \in TargetLists, NEW d \in BOOLEAN, StartUpgrade(w, t, d)
        PROVE  BuildInEffect'
    BY <1>2, StartBuild
  <1>3. CASE Upgrading /\ ~AllDone /\ Answered
    <2>1. PICK tx, memory, upgraded : /\ tx = UpgradeSends /\ memory = Remembering(tx)
                                      /\ upgraded = (script.upgraded \/ Upgrades)
      OBVIOUS
    <2>2. UpgradeGoesOn(tx, memory, upgraded) /\ script'.dryRun = script.dryRun
      BY <1>3, <2>1, AnsweredGoesOn
    <2>3. script'.targets \in TargetLists
      <3>1. script'.targets = script.targets
        BY <2>2, PlacesGoOn
      <3> QED
        BY <1>3, <3>1 DEF BuildInEffect
    <2>4. ASSUME ~script.dryRun
          PROVE  HashCurrent' /\ \A p \in Linked : Renewed(p)'
      BY <1>3, <2>2, <2>4, CurrentGoesOn, RenewedGoesOn DEF BuildInEffect
    <2> QED
      BY <2>2, <2>3, <2>4 DEF BuildInEffect
  <1>4. CASE UpgradeKept
    BY <1>4, SameBuild
  <1> QED
    BY <1>1, <1>2, <1>3, <1>4, UpgradeSteps

\* What a run that is done was called with is behind it.
LEMMA DoneWith ==
  ASSUME IInv, AllDone, NEW a \in Placed, a \in script.targets
  PROVE  UpgradePlace[a] < script.step
  <1>1. PICK k, s : k = UpgradePlace[a] /\ s = script.step
    OBVIOUS
  <1>2. k \in 1 .. 7 /\ UpgradeMain[k] = a /\ s \in Nat
    BY <1>1, PlacesApart DEF IInv, RunOK, ScriptTypeOK, Runs
  <1>3. k \notin s .. 7
    BY <1>1, <1>2 DEF AllDone, Targets, UpgradeMain
  <1>4. k < s
    BY <1>2, <1>3
  <1> QED
    BY <1>1, <1>4

\* At the end of a run the build of each contract it was called with is behind the proxy or left
\* to the admin's owner, unless a lost run misled it.
LEMMA UpgradeEnds ==
  ASSUME IInv, FileTells, BuildInEffect, Upgrading, ~script.dryRun, AllDone, NEW p \in Upgraded
  PROVE  InEffect(p) \/ leftToOwner[p] # 0 \/ Misled(p)
  <1>1. PICK a : a = ArtifactOf(p)
    OBVIOUS
  <1>2. /\ p \in Proxies /\ a \in script.targets /\ UpgradeTells /\ HashCurrent
        /\ \A q \in Linked : Renewed(q)
        /\ script.targets \subseteq Artifacts \ {"Directory"}
    BY <1>1, TargetsAssumption DEF Upgraded, FileTells, BuildInEffect
  <1>3. a \in Core \cup {"CashMarket"} /\ a \in Placed /\ a \in Artifacts
    <2>1. a \in Artifacts \ Libraries
      BY <1>1, <1>2, ArtifactsOfProxies
    <2> QED
      BY <1>2, <2>1 DEF Artifacts, Placed
  <1>4. UpgradePlace[a] < script.step
    BY <1>2, <1>3, DoneWith
  <1>5. notional.hashes[a] = Bytecode(a)
    <2>1. CASE a \in Core
      BY <1>2, <1>4, <2>1 DEF HashCurrent
    <2>2. CASE a = "CashMarket"
      <3>1. UpgradePlace[a] = 7
        BY <2>2 DEF UpgradePlace
      <3>2. script.step > 7
        BY <1>4, <3>1 DEF IInv, RunOK, ScriptTypeOK, Runs
      <3> QED
        BY <1>2, <2>2, <3>2 DEF UpgradeTells, MarketsHash
    <2> QED
      BY <1>3, <2>1, <2>2
  <1>6. Settled(p, notional) \/ (lost /\ Behind(p, notional))
    <2>1. ~Turn(p)
      BY DEF Turn, MarketsTurn, ContractsTurn
    <2> QED
      BY <1>2, <2>1 DEF UpgradeTells, Accounted
  <1>7. CASE Settled(p, notional)
    BY <1>1, <1>5, <1>7 DEF Settled, InEffect
  <1>8. CASE lost /\ Behind(p, notional) /\ p \notin Linked
    <2>1. Bytecode(a).version = build[a] /\ build[a] \in Nat
      BY <1>3, BytecodeForm, BoundsAssumption DEF IInv, SystemOK
    <2>2. build[a] < build[a]
      BY <1>1, <1>5, <1>8, <2>1 DEF Behind
    <2> QED
      BY <2>1, <2>2
  <1>9. CASE lost /\ p \in Linked
    <2>1. PICK l : l = LinkReferences[p]
      OBVIOUS
    <2>2. CASE l \in script.targets
      <3>1. ArtifactOf(p) = p /\ l \in Placed
        BY <1>9, <2>1, LinkedContracts
      <3>2. UpgradePlace[l] < script.step
        BY <2>2, <3>1, DoneWith
      <3>3. Settled(p, notional)
        BY <1>1, <1>2, <1>4, <1>9, <2>1, <2>2, <3>1, <3>2 DEF Renewed
      <3> QED
        BY <1>7, <3>3
    <2>3. CASE l \notin script.targets
      BY <1>9, <2>1, <2>3 DEF Misled, Linked
    <2> QED
      BY <2>2, <2>3
  <1> QED
    BY <1>6, <1>7, <1>8, <1>9

\* No upgrade runs at the start.
LEMMA InitBuild ==
  Init => BuildInEffect
  BY DeployStarts DEF Init, BuildInEffect, Upgrading

\* A run of upgrade.ts that reaches its end always has the build of every contract it names
\* behind the proxy, or has left it to the admin's owner, but for a contract whose library it
\* does not name after a run was lost.
THEOREM UpgradeAlwaysTakesEffect == Spec => UpgradeTakesEffect
  <1>1. Init => IInv /\ FormOK /\ FileTells /\ BuildInEffect
    BY InitInvariant, InitForm, InitTells, InitBuild
  <1>2. IInv /\ FormOK /\ FileTells /\ BuildInEffect /\ [Next]_vars
          => (IInv /\ FormOK /\ FileTells /\ BuildInEffect)'
    BY NextInvariant, NextForm, NextTells, NextBuild
  <1>3. IInv /\ FormOK /\ FileTells /\ BuildInEffect /\ [Next]_vars =>
          [FinishesUpgrade =>
             \A p \in Upgraded : InEffect(p) \/ leftToOwner[p] # 0 \/ Misled(p)]_vars
    BY UpgradeEnds DEF FinishesUpgrade, Upgrading
  <1> QED
    BY <1>1, <1>2, <1>3, PTL DEF Spec, UpgradeTakesEffect

\* The library behind a contract stays what it is when code is added.
LEMMA VersionStays ==
  ASSUME IInv, FormOK, CodeKept, NEW i \in 1 .. Len(code)
  PROVE  Version(i) \in Nat /\ Version(i)' = Version(i)
  <1>1. PICK l : l = code[i].link
    OBVIOUS
  <1>2. /\ code \in Seq(Code) /\ Len(code) \in Nat /\ code[i] \in Code /\ code'[i] = code[i]
        /\ l <= Len(code)
    BY <1>1 DEF IInv, SystemOK, ChainTypeOK, CodeKept, FormOK, LinksBound
  <1>3. l \in Nat
    BY <1>1, <1>2 DEF Code
  <1>4. l # 0 => l \in 1 .. Len(code)
    BY <1>2, <1>3
  <1>5. l # 0 => code'[l] = code[l] /\ code[l] \in Code
    BY <1>2, <1>4 DEF CodeKept
  <1>6. l # 0 => code[l].version \in Nat
    BY <1>5 DEF Code
  <1>7. Version(i) = IF l = 0 THEN 0 ELSE code[l].version
    BY <1>1 DEF Version
  <1>8. Version(i)' = IF l = 0 THEN 0 ELSE code'[l].version
    BY <1>1, <1>2 DEF Version
  <1> QED
    BY <1>5, <1>6, <1>7, <1>8

\* A contract linked with the object's library, or with none, has the version the hash tells.
LEMMA LinkedVersion ==
  ASSUME NEW memory, HashesOK(memory), HashForm(memory), NEW p \in Proxies, NEW i,
         code[i] = memory.hashes[ArtifactOf(p)],
         p \in Linked => /\ memory.hashes[p].link = memory.libraries[LinkReferences[p]]
                         /\ memory.libraries[LinkReferences[p]] # 0
  PROVE  Version(i) = LibraryVersion(p, memory)
  <1>1. CASE p \in Linked
    <2>1. PICK l : l = LinkReferences[p]
      OBVIOUS
    <2>2. l \in Libraries /\ ArtifactOf(p) = p
      BY <1>1, <2>1, LinkedContracts
    <2>3. code[i].link = memory.libraries[l] /\ memory.libraries[l] # 0
      BY <1>1, <2>1, <2>2
    <2>4. code[memory.libraries[l]] = memory.hashes[l]
      BY <2>2, <2>3 DEF HashesOK
    <2> QED
      BY <1>1, <2>1, <2>3, <2>4 DEF Version, LibraryVersion
  <1>2. CASE p \notin Linked
    <2>1. ArtifactOf(p) \in Artifacts /\ ArtifactOf(p) \notin Linked
      <3>1. p \notin Markets => ArtifactOf(p) = p
        BY DEF ArtifactOf
      <3>2. p \in Markets => ArtifactOf(p) = "CashMarket"
        BY DEF ArtifactOf
      <3> QED
        BY <1>2, <3>1, <3>2, ArtifactsOfProxies, LinkedContracts
    <2>2. code[i].link = 0
      BY <2>1 DEF HashForm
    <2> QED
      BY <1>2, <2>2 DEF Version, LibraryVersion
  <1> QED
    BY <1>1, <1>2

\* What a run of upgrade.ts gives a proxy is linked with the object's library.
LEMMA NewLogicVersion ==
  ASSUME IInv, FormOK, FileTells, BuildInEffect, Upgrading, ~script.dryRun, ~AllDone,
         Target \notin Libraries, script.stage \in {"owner", "upgrade"},
         NEW q, q = Proxy, NEW n, n = NewLogic(Target)
  PROVE  q \in Proxies /\ n \in 1 .. Len(code) /\ Version(n) = LibraryVersion(q, notional)
  <1>1. /\ UpgradeTells /\ HashesOK(notional) /\ HashForm(notional) /\ HashCurrent
        /\ ChainTypeOK /\ Known(notional)
        /\ \A l \in Libraries : notional.libraries[l] # 0
    BY DEF FileTells, FormOK, BuildInEffect, IInv, SystemOK, RunOK, StagesOK
  <1>2. q \in Proxies /\ ArtifactOf(q) = Target /\ (Target \in Core => q = Target)
        /\ (Target = "CashMarket" => q \in Markets) /\ (Target \in Core \/ Target = "CashMarket")
    BY ProxyFacts, TargetKinds DEF OnMarket, IInv, RunOK
  <1>3. n # 0
    BY DEF IInv, RunOK, UpgradesSaved
  <1>4. n \in 1 .. Len(code)
    BY <1>1, <1>3 DEF NewLogic, Known, Memory, ChainTypeOK
  <1>5. CASE Target = "CashMarket"
    <2>1. code[n] = notional.hashes["CashMarket"]
      BY <1>1, <1>3, <1>5 DEF NewLogic, HashesOK
    <2>2. q \notin Linked
      BY <1>2, <1>5, LinkedContracts
    <2> QED
      BY <1>1, <1>2, <1>4, <1>5, <2>1, <2>2, LinkedVersion
  <1>6. CASE Target \in Core
    <2>1. ContractsTurn
      BY <1>6 DEF ContractsTurn
    <2>2. n = notional.logic /\ code[notional.logic] = notional.hashes[q] /\ notional.hashes[q] = Bytecode(q)
      BY <1>1, <1>2, <1>6, <2>1, LinkedContracts DEF UpgradeTells, HashCurrent, NewLogic
    <2>3. q \in Artifacts
      BY <1>2, <1>6, LinkedContracts
    <2>4. q \in Linked => /\ notional.hashes[q].link = notional.libraries[LinkReferences[q]]
                          /\ notional.libraries[LinkReferences[q]] # 0
      BY <1>1, <2>2, <2>3, BytecodeForm, LinkedContracts
    <2> QED
      BY <1>1, <1>2, <1>4, <1>6, <2>2, <2>4, LinkedVersion
  <1> QED
    BY <1>2, <1>5, <1>6

\* How the library of a proxy goes on.
LEMMA LinksOver ==
  ASSUME NEW p, NEW memory, NEW i, NEW j, implementation'[p] = i, leftToOwner'[p] = j,
         Version(i)' <= LibraryVersion(p, memory),
         j # 0 => Version(i)' <= Version(j)' /\ Version(j)' <= LibraryVersion(p, memory)
  PROVE  LinksOK(p, memory)'
  BY DEF LinksOK, Version, LibraryVersion

\* The version of a linked library is a number.
LEMMA LibraryVersionType ==
  ASSUME NEW memory \in Memory, NEW p
  PROVE  LibraryVersion(p, memory) \in Nat
  <1>1. p \in Linked => memory.hashes[LinkReferences[p]] \in Code
    BY LinkedContracts DEF Memory
  <1> QED
    BY <1>1 DEF LibraryVersion, Code

\* A proxy that is left alone, or gets what was left to its admin's owner, has no older library,
\* and none that is newer than the memory tells, if that goes back on no version.
LEMMA LinksStay ==
  ASSUME IInv, FormOK, CodeKept, NEW p \in Proxies, NEW old \in Memory, NEW memory \in Memory,
         LinksOK(p, old), ProxyKept(p), implementation[p] \in 1 .. Len(code),
         LibraryVersion(p, old) <= LibraryVersion(p, memory)
  PROVE  LinksOK(p, memory)'
  <1>1. PICK i, j : i = implementation[p] /\ j = leftToOwner[p]
    OBVIOUS
  <1>2. PICK v, w, l, m : /\ v = Version(i) /\ w = Version(j)
                          /\ l = LibraryVersion(p, old) /\ m = LibraryVersion(p, memory)
    OBVIOUS
  <1>3. /\ i \in 1 .. Len(code) /\ j \in 0 .. Len(code) /\ Len(code) \in Nat
        /\ l \in Nat /\ m \in Nat /\ l <= m
    BY <1>1, <1>2, LibraryVersionType DEF IInv, SystemOK, ChainTypeOK
  <1>4. v \in Nat /\ Version(i)' = v
    BY <1>2, <1>3, VersionStays
  <1>5. j # 0 => w \in Nat /\ Version(j)' = w
    <2>1. j # 0 => j \in 1 .. Len(code)
      BY <1>3
    <2> QED
      BY <1>2, <2>1, VersionStays
  <1>6. v <= l /\ (j # 0 => v <= w /\ w <= l)
    BY <1>1, <1>2 DEF LinksOK
  <1>7. v <= m /\ (j # 0 => v <= w /\ w <= m)
    BY <1>3, <1>4, <1>5, <1>6
  <1>8. CASE implementation'[p] = i /\ leftToOwner'[p] = j
    BY <1>2, <1>4, <1>5, <1>7, <1>8, LinksOver
  <1>9. CASE j # 0 /\ implementation'[p] = j /\ leftToOwner'[p] = 0
    <2>1. PICK k : k = 0
      OBVIOUS
    <2> QED
      BY <1>2, <1>5, <1>7, <1>9, <2>1, LinksOver
  <1> QED
    BY <1>1, <1>8, <1>9 DEF ProxyKept

\* What the file tells of the libraries stays, if no proxy gets anything but what was left to
\* its admin's owner.
LEMMA FileLinksStay ==
  ASSUME IInv, FormOK, FileLinks, file' = file, CodeKept,
         Saved /\ ~lost' /\ ~(Upgrading' /\ script'.upgraded) =>
           ~lost /\ ~(Upgrading /\ script.upgraded) /\ \A p \in Proxies : ProxyKept(p)
  PROVE  FileLinks'
  <1>1. SUFFICES ASSUME Saved', ~lost', ~(Upgrading' /\ script'.upgraded), NEW p \in Proxies
                 PROVE  LinksOK(p, file)'
    BY DEF FileLinks
  <1>2. PICK memory : memory = file
    OBVIOUS
  <1>3. Saved
    BY <1>1 DEF Saved
  <1>4. memory \in Memory /\ LinksOK(p, memory) /\ ProxyKept(p) /\ implementation[p] \in 1 .. Len(code)
    BY <1>1, <1>2, <1>3, SavedProxies DEF FileLinks, IInv, SystemOK, Known
  <1>5. LibraryVersion(p, memory) <= LibraryVersion(p, memory)
    BY <1>4, LibraryVersionType
  <1>6. LinksOK(p, memory)'
    BY <1>4, <1>5, LinksStay
  <1> QED
    BY <1>2, <1>6 DEF LinksOK, Version, LibraryVersion

\* A request that makes no upgrade leaves every proxy of a saved system alone.
LEMMA RequestKeeps ==
  ASSUME IInv, Running, Permitted(Sends, script.wallet), Apply(Sends, script.wallet),
         leftToOwner' = LeftAfter(Sends), Saved, ~Upgrades
  PROVE  \A p \in Proxies : ProxyKept(p)
  <1>1. Sends.op # "upgrade" /\ ~LeavesToOwner
    BY DEF Upgrades
  <1>2. implementation' = implementation
    BY <1>1, SavedRequests
  <1>3. leftToOwner' = leftToOwner
    BY <1>1 DEF LeftAfter
  <1> QED
    BY <1>2, <1>3 DEF ProxyKept

\* A run that ends before it saved, and made no upgrade, leaves the file as it was.
LEMMA QuitLinks ==
  ASSUME IInv, FormOK, FileLinks, CodeKept, NEW upgraded, Quit(upgraded), script.upgraded => upgraded,
         Saved /\ ~upgraded => \A p \in Proxies : ProxyKept(p)
  PROVE  FileLinks'
  BY FileLinksStay DEF Quit

\* deploy.ts saves proxies that have the libraries it has deployed.
LEMMA DeploySavesLinks ==
  ASSUME IInv, FormOK, FileTells, DeployLinks, Deploying, script.step = 47,
         implementation' = implementation, leftToOwner' = leftToOwner, code' = code,
         NEW memory \in Memory, memory.libraries = notional.libraries, memory.hashes = notional.hashes,
         NEW p \in Proxies
  PROVE  LinksOK(p, memory)'
  <1>1. /\ HashesOK(notional) /\ HashForm(notional) /\ DeployTells /\ LeftWhenSaved /\ ~Saved
    BY DEF IInv, SystemOK, RunOK, FormOK, FileTells, DeployedSoFar, SaveStep
  <1>2. PICK i : i = implementation[p]
    OBVIOUS
  <1>3. leftToOwner[p] = 0
    BY <1>1 DEF LeftWhenSaved
  <1>4. ProxyStep[p] < 47 /\ ProxyStep[p] \in Nat
    BY Places
  <1>5. code[i] = notional.hashes[ArtifactOf(p)]
    BY <1>1, <1>2, <1>4 DEF DeployTells, SaveStep
  <1>6. p \in Linked => /\ notional.hashes[p].link = notional.libraries[LinkReferences[p]]
                        /\ notional.libraries[LinkReferences[p]] # 0
    <2>1. 47 \in ProxyStep[p] .. 47
      BY <1>4
    <2>2. \A l \in Libraries : notional.libraries[l] # 0
      BY <1>1 DEF DeployTells, Libraries
    <2> QED
      BY <2>1, <2>2, LinkedContracts DEF DeployLinks, SaveStep
  <1>7. Version(i) = LibraryVersion(p, notional)
    BY <1>1, <1>5, <1>6, LinkedVersion
  <1>8. LibraryVersion(p, notional) = LibraryVersion(p, memory)
    BY DEF LibraryVersion
  <1>9. Version(i)' = Version(i)
    BY DEF Version
  <1>10. LibraryVersion(p, memory) <= LibraryVersion(p, memory)
    BY LibraryVersionType
  <1>11. PICK j : j = 0
    OBVIOUS
  <1> QED
    BY <1>2, <1>3, <1>7, <1>8, <1>9, <1>10, <1>11, LinksOver

\* A request of deploy.ts that is answered.
LEMMA DeployFileLinks ==
  ASSUME IInv, IInv', FormOK, FileTells, FileLinks, DeployLinks, Deploying, Answered
  PROVE  FileLinks'
  <1>1. PICK k, tx, old : k = script.step /\ tx = Sends /\ old = notional
    OBVIOUS
  <1>2. LeftAfter(tx) = leftToOwner /\ (tx.op = "save" <=> k = 47) /\ tx.op # "upgrade"
    BY <1>1, DeploySends
  <1>3. /\ Running /\ Permitted(tx, script.wallet) /\ Apply(tx, script.wallet)
        /\ IF k = 47 THEN file' = [old EXCEPT !.logic = 0] ELSE file' = file
        /\ leftToOwner' = leftToOwner /\ lost' = lost
    BY <1>1, <1>2 DEF Answered, SaveAddresses
  <1>4. CodeKept
    BY <1>3, CodeStays DEF IInv, SystemOK
  <1>5. ~Upgrades
    BY <1>1, <1>2 DEF Upgrades, LeavesToOwner, Deploying
  <1>6. CASE k = 47
    <2>1. PICK memory : memory = [old EXCEPT !.logic = 0]
      OBVIOUS
    <2>2. code' = code /\ implementation' = implementation
      BY <1>2, <1>3, <1>6, Effects DEF CodeEffect, ProxyEffect
    <2>3. file' = memory /\ memory.libraries = notional.libraries /\ memory.hashes = notional.hashes
      BY <1>1, <1>3, <1>6, <2>1 DEF IInv, RunOK, Known, Memory
    <2>4. memory \in Memory
      BY <2>3 DEF IInv, SystemOK, Known
    <2>5. \A p \in Proxies : LinksOK(p, memory)'
      BY <1>1, <1>3, <1>6, <2>2, <2>3, <2>4, DeploySavesLinks
    <2> QED
      BY <2>3, <2>5 DEF FileLinks, LinksOK, Version, LibraryVersion
  <1>7. CASE k # 47
    <2>1. Saved => \A p \in Proxies : ProxyKept(p)
      BY <1>1, <1>2, <1>3, <1>5, RequestKeeps
    <2>2. ~Upgrading
      BY DEF Upgrading, Deploying
    <2> QED
      BY <1>3, <1>4, <1>7, <2>1, <2>2, FileLinksStay
  <1> QED
    BY <1>6, <1>7

\* A request of upgrade.ts that is answered.
LEMMA UpgradeFileLinks ==
  ASSUME IInv, IInv', FormOK, FileTells, FileLinks, RunLinks, Upgrading, Answered
  PROVE  FileLinks'
  <1>1. PICK tx, old : tx = UpgradeSends /\ old = notional
    OBVIOUS
  <1>2. /\ Sends = tx /\ Upgrade(tx) /\ Advanced = UpgradeAdvanced
        /\ Running /\ Permitted(tx, script.wallet) /\ Apply(tx, script.wallet)
        /\ IF tx.op = "save" THEN file' = [old EXCEPT !.logic = 0] ELSE file' = file
        /\ leftToOwner' = LeftAfter(tx) /\ lost' = lost
    BY <1>1, UpgradeKinds DEF Answered, SaveAddresses, Sends, Advanced, Upgrading
  <1>3. CodeKept
    BY <1>2, CodeStays DEF IInv, SystemOK
  <1>4. CASE ~AllDone
    <2>1. PICK memory, upgraded : memory = Remembering(tx) /\ upgraded = (script.upgraded \/ Upgrades)
      OBVIOUS
    <2>2. tx.op # "save" /\ Upgrading' /\ script'.upgraded = upgraded
      BY <1>1, <1>4, <2>1, AnsweredGoesOn
    <2>3. Saved /\ ~Upgrades => \A p \in Proxies : ProxyKept(p)
      BY <1>2, RequestKeeps
    <2>4. Saved /\ file' = file
      BY <1>2, <2>2 DEF IInv, RunOK, UpgradesSaved
    <2>5. ~(Upgrading' /\ script'.upgraded) => ~script.upgraded /\ ~Upgrades
      BY <2>1, <2>2
    <2> QED
      BY <1>2, <1>3, <2>3, <2>4, <2>5, FileLinksStay
  <1>5. CASE AllDone
    <2>1. ~Upgrades /\ (tx.op = "save" <=> ~script.dryRun) /\ Saved
      BY <1>2, <1>5 DEF Upgrade, Upgrades, Reads, LeavesToOwner, IInv, RunOK, UpgradesSaved
    <2>2. \A p \in Proxies : ProxyKept(p)
      BY <1>2, <2>1, RequestKeeps
    <2>3. CASE script.dryRun
      <3>1. ~script.upgraded
        BY <2>3 DEF FileTells, StagesOK
      <3> QED
        BY <1>2, <1>3, <2>1, <2>2, <2>3, <3>1, FileLinksStay
    <2>4. CASE ~script.dryRun
      <3>1. PICK memory : memory = [old EXCEPT !.logic = 0]
        OBVIOUS
      <3>2. file' = memory /\ memory.hashes = old.hashes /\ old \in Memory
        BY <1>1, <1>2, <2>1, <2>4, <3>1 DEF IInv, RunOK, Known, Memory
      <3>3. memory \in Memory
        BY <3>2 DEF IInv, SystemOK, Known
      <3>4. ASSUME ~lost, NEW p \in Proxies
            PROVE  LinksOK(p, memory)'
        <4>1. LinksOK(p, old) /\ ProxyKept(p) /\ implementation[p] \in 1 .. Len(code)
          BY <1>1, <2>1, <2>2, <2>4, <3>4, SavedProxies DEF RunLinks
        <4>2. LibraryVersion(p, old) <= LibraryVersion(p, memory)
          <5>1. LibraryVersion(p, old) = LibraryVersion(p, memory)
            BY <3>2 DEF LibraryVersion
          <5>2. LibraryVersion(p, memory) \in Nat
            BY <3>3, LibraryVersionType
          <5> QED
            BY <5>1, <5>2
        <4> QED
          BY <1>3, <3>2, <3>3, <4>1, <4>2, LinksStay
      <3> QED
        BY <1>2, <3>2, <3>4 DEF FileLinks, LinksOK, Version, LibraryVersion
    <2> QED
      BY <2>3, <2>4
  <1> QED
    BY <1>4, <1>5

\* Every step keeps what the file tells of the libraries.
LEMMA NextFileLinks ==
  ASSUME IInv, IInv', FormOK, FileTells, LinksForward, [Next]_vars
  PROVE  FileLinks'
  <1>1. FileLinks /\ RunLinks /\ DeployLinks
    BY DEF LinksForward
  <1>2. CASE Answered
    <2>1. Deploying \/ Upgrading
      BY <1>2 DEF Answered, Running, Deploying, Upgrading, IInv, RunOK, ScriptTypeOK, Runs
    <2> QED
      BY <1>1, <1>2, <2>1, DeployFileLinks, UpgradeFileLinks
  <1>3. CASE UNCHANGED <<chain, leftToOwner>> /\ Quit(script.upgraded)
    <2>1. CodeKept /\ \A p \in Proxies : ProxyKept(p)
      BY <1>3 DEF chain, proxyVars, CodeKept, ProxyKept
    <2>2. PICK upgraded : upgraded = script.upgraded
      OBVIOUS
    <2> QED
      BY <1>1, <1>3, <2>1, <2>2, QuitLinks
  <1>4. CASE /\ UNCHANGED <<chain, leftToOwner, file, lost>>
             /\ script'.upgraded = script.upgraded /\ (Upgrading' <=> Upgrading)
    <2>1. CodeKept /\ \A p \in Proxies : ProxyKept(p)
      BY <1>4 DEF chain, proxyVars, CodeKept, ProxyKept
    <2> QED
      BY <1>1, <1>4, <2>1, FileLinksStay
  <1>5. CASE Reverted
    BY <1>3, <1>5 DEF Reverted
  <1>6. CASE RateLimited
    <2>1. CASE script.failed + 1 < Attempts
      <3>1. script' = [script EXCEPT !.failed = @ + 1] /\ UNCHANGED <<chain, leftToOwner, file, lost>>
        BY <1>6, <2>1 DEF RateLimited
      <3>2. script \in Runs
        BY DEF IInv, RunOK, ScriptTypeOK
      <3>3. script'.upgraded = script.upgraded /\ (Upgrading' <=> Upgrading)
        BY <3>1, <3>2 DEF Runs, Upgrading
      <3> QED
        BY <1>4, <3>1, <3>3
    <2>2. CASE ~(script.failed + 1 < Attempts)
      BY <1>3, <1>6, <2>2 DEF RateLimited
    <2> QED
      BY <2>1, <2>2
  <1>7. CASE Killed
    <2>1. CASE UNCHANGED <<chain, leftToOwner>> /\ Quit(script.upgraded)
      BY <1>3, <2>1
    <2>2. CASE /\ Permitted(Sends, script.wallet) /\ Apply(Sends, script.wallet)
               /\ leftToOwner' = LeftAfter(Sends)
               /\ Quit(script.upgraded \/ Upgrades)
      <3>1. PICK upgraded : upgraded = (script.upgraded \/ Upgrades)
        OBVIOUS
      <3>2. Quit(upgraded) /\ (script.upgraded => upgraded) /\ (~upgraded => ~Upgrades)
        BY <2>2, <3>1 DEF Quit
      <3>3. CodeKept
        BY <2>2, CodeStays DEF IInv, SystemOK
      <3>4. Saved /\ ~upgraded => \A p \in Proxies : ProxyKept(p)
        BY <1>7, <2>2, <3>2, RequestKeeps DEF Killed
      <3> QED
        BY <1>1, <3>2, <3>3, <3>4, QuitLinks
    <2> QED
      BY <1>7, <2>1, <2>2 DEF Killed
  <1>8. CASE StartDeploy
    <2>1. ~Saved /\ file' = file /\ CodeKept
      BY <1>8 DEF StartDeploy, chain, CodeKept
    <2> QED
      BY <1>1, <2>1, FileLinksStay
  <1>9. ASSUME NEW w \in Accounts, NEW t \in TargetLists, NEW d \in BOOLEAN, StartUpgrade(w, t, d)
        PROVE  FileLinks'
    <2>1. ~Upgrading /\ file' = file /\ lost' = lost /\ UNCHANGED <<chain, leftToOwner>>
      BY <1>9 DEF StartUpgrade, Upgrading, Running
    <2>2. CodeKept /\ \A p \in Proxies : ProxyKept(p)
      BY <2>1 DEF chain, proxyVars, CodeKept, ProxyKept
    <2> QED
      BY <1>1, <2>1, <2>2, FileLinksStay
  <1>10. ASSUME NEW a \in Edited, Compile(a)
         PROVE  FileLinks'
    BY <1>4, <1>10 DEF Compile, Upgrading
  <1>11. CASE Commit
    BY <1>4, <1>11 DEF Commit, Upgrading
  <1>12. ASSUME NEW p \in Proxies, OwnerUpgrades(p)
         PROVE  FileLinks'
    BY <1>1, <1>12, OwnerKeeps, FileLinksStay DEF Upgrading
  <1>13. CASE UNCHANGED vars
    BY <1>4, <1>13 DEF vars, chain, Upgrading
  <1> QED
    BY <1>2, <1>5, <1>6, <1>7, <1>8, <1>9, <1>10, <1>11, <1>12, <1>13 DEF Next, ScriptStep

\* No request of an upgrade puts an older library behind a proxy, or leaves one to its admin's
\* owner.
LEMMA RunLinksGoOn ==
  ASSUME IInv, IInv', FormOK, FileTells, BuildInEffect, RunLinks, ~script.dryRun, ~lost,
         NEW tx, NEW memory, NEW upgraded, UpgradeGoesOn(tx, memory, upgraded),
         NEW p \in Proxies
  PROVE  LinksOK(p, notional)'
  <1>1. PICK old : old = notional
    OBVIOUS
  <1>2. /\ Upgrading /\ ~AllDone /\ tx = UpgradeSends /\ notional' = memory /\ Saved
        /\ LinksOK(p, old) /\ implementation[p] \in 1 .. Len(code) /\ old \in Memory
    BY <1>1, SavedProxies DEF UpgradeGoesOn, RunLinks, IInv, RunOK, UpgradesSaved, Known
  <1>3. CodeKept
    BY <1>2, UpgradeRemembers DEF UpgradeGoesOn
  <1>4. memory \in Memory
    BY <1>2 DEF IInv, RunOK, Known
  <1>5. LibraryVersion(p, old) <= LibraryVersion(p, memory)
    <2>1. CASE p \notin Linked
      BY <2>1 DEF LibraryVersion
    <2>2. CASE p \in Linked
      <3>1. PICK l : l = LinkReferences[p]
        OBVIOUS
      <3>2. l \in Libraries /\ l \in Artifacts
        BY <2>2, <3>1, LinkedContracts
      <3>3. /\ l # Target => memory.hashes[l] = old.hashes[l]
            /\ l = Target => memory.hashes[l] = Bytecode(l)
        BY <1>1, <3>2, LibrariesRemembered
      <3>4. Bytecode(l).version = build[l] /\ old.hashes[l].version <= build[l]
        BY <1>1, <3>2, BytecodeForm DEF FormOK, HashForm
      <3>5. old.hashes[l].version \in Nat
        BY <1>2, <3>2 DEF Memory, Code
      <3>6. old.hashes[l].version <= memory.hashes[l].version
        BY <3>3, <3>4, <3>5
      <3> QED
        BY <2>2, <3>1, <3>6 DEF LibraryVersion
    <2> QED
      BY <2>1, <2>2
  <1>6. PICK q, n : q = Proxy /\ n = NewLogic(Target)
    OBVIOUS
  <1>7. CASE implementation'[p] = implementation[p] /\ leftToOwner'[p] = leftToOwner[p]
    <2>1. LinksOK(p, memory)'
      BY <1>2, <1>3, <1>4, <1>5, <1>7, LinksStay DEF ProxyKept
    <2> QED
      BY <1>2, <2>1 DEF LinksOK, Version, LibraryVersion
  <1>8. CASE Target \notin Libraries /\ script.stage \in {"owner", "upgrade"} /\ p = q
    <2>1. n \in 1 .. Len(code) /\ Version(n) = LibraryVersion(p, old)
      BY <1>1, <1>2, <1>6, <1>8, NewLogicVersion
    <2>2. Version(n)' = Version(n) /\ Version(n) \in Nat /\ n # 0
      BY <1>3, <2>1, VersionStays
    <2>3. Version(n)' <= LibraryVersion(p, memory)
      BY <1>5, <2>1, <2>2
    <2>4. /\ script.stage = "upgrade" => implementation'[p] = n /\ leftToOwner'[p] = 0
          /\ script.stage = "owner" =>
               /\ implementation'[p] = implementation[p]
               /\ leftToOwner'[p] = IF IsAdminOwner(script.wallet) THEN leftToOwner[p] ELSE n
      BY <1>2, <1>6, <1>8, UpgradeProxies DEF UpgradeGoesOn
    <2>5. CASE script.stage = "upgrade"
      <3>1. PICK j : j = 0
        OBVIOUS
      <3>2. LinksOK(p, memory)'
        BY <2>3, <2>4, <2>5, <3>1, LinksOver
      <3> QED
        BY <1>2, <3>2 DEF LinksOK, Version, LibraryVersion
    <2>6. CASE script.stage = "owner" /\ ~IsAdminOwner(script.wallet)
      <3>1. PICK i : i = implementation[p]
        OBVIOUS
      <3>2. Version(i) <= LibraryVersion(p, old) /\ Version(i)' = Version(i) /\ Version(i) \in Nat
        BY <1>2, <1>3, <3>1, VersionStays DEF LinksOK
      <3>3. Version(i)' <= Version(n)'
        BY <2>1, <2>2, <3>2
      <3>4. LibraryVersion(p, memory) \in Nat
        BY <1>4, LibraryVersionType
      <3>5. Version(i)' <= LibraryVersion(p, memory)
        BY <2>2, <2>3, <3>2, <3>3, <3>4
      <3>6. LinksOK(p, memory)'
        BY <2>3, <2>4, <2>6, <3>1, <3>3, <3>5, LinksOver
      <3> QED
        BY <1>2, <3>6 DEF LinksOK, Version, LibraryVersion
    <2>7. CASE script.stage = "owner" /\ IsAdminOwner(script.wallet)
      BY <1>7, <2>4, <2>7
    <2> QED
      BY <1>8, <2>5, <2>6, <2>7
  <1>9. CASE Target \in Libraries \/ p # q \/ script.stage \notin {"owner", "upgrade"}
    BY <1>2, <1>6, <1>7, <1>9, UpgradeProxies DEF UpgradeGoesOn
  <1> QED
    BY <1>8, <1>9

\* Every step keeps what the object of an upgrade tells of the libraries.
LEMMA NextRunLinks ==
  ASSUME IInv, IInv', FormOK, FileTells, BuildInEffect, LinksForward, [Next]_vars
  PROVE  RunLinks'
  <1>1. SUFFICES ASSUME Upgrading', ~script'.dryRun, ~lost', NEW p \in Proxies
                 PROVE  LinksOK(p, notional)'
    BY DEF RunLinks
  <1>2. FileLinks /\ RunLinks
    BY DEF LinksForward
  <1>3. ASSUME NEW w \in Accounts, NEW t \in TargetLists, NEW d \in BOOLEAN, StartUpgrade(w, t, d)
        PROVE  LinksOK(p, notional)'
    <2>1. PICK memory : memory = file
      OBVIOUS
    <2>2. /\ Saved /\ ~Upgrading /\ lost' = lost /\ notional' = memory
          /\ UNCHANGED <<chain, leftToOwner>>
      BY <1>3, <2>1 DEF StartUpgrade, HandedOver, RestoreFromFile, Upgrading, Running
    <2>3. LinksOK(p, memory)
      BY <1>1, <1>2, <2>1, <2>2 DEF FileLinks
    <2>4. code' = code /\ implementation' = implementation /\ leftToOwner' = leftToOwner
      BY <2>2 DEF chain, proxyVars
    <2> QED
      BY <2>2, <2>3, <2>4 DEF LinksOK, Version, LibraryVersion
  <1>4. CASE Upgrading /\ ~AllDone /\ Answered
    <2>1. PICK tx, memory, upgraded : /\ tx = UpgradeSends /\ memory = Remembering(tx)
                                      /\ upgraded = (script.upgraded \/ Upgrades)
      OBVIOUS
    <2>2. UpgradeGoesOn(tx, memory, upgraded) /\ script'.dryRun = script.dryRun
      BY <1>4, <2>1, AnsweredGoesOn
    <2>3. lost' = lost
      BY <2>2 DEF UpgradeGoesOn
    <2> QED
      BY <1>1, <1>2, <2>2, <2>3, RunLinksGoOn
  <1>5. CASE UpgradeKept
    <2>1. PICK memory : memory = notional
      OBVIOUS
    <2>2. /\ Saved /\ CodeKept /\ ProxyKept(p) /\ LinksOK(p, memory) /\ notional' = memory
          /\ memory \in Memory /\ implementation[p] \in 1 .. Len(code)
      BY <1>1, <1>2, <1>5, <2>1, SavedProxies
         DEF UpgradeKept, SameRun, RunLinks, IInv, RunOK, UpgradesSaved, Known
    <2>3. LibraryVersion(p, memory) <= LibraryVersion(p, memory)
      BY <2>2, LibraryVersionType
    <2>4. LinksOK(p, memory)'
      BY <2>2, <2>3, LinksStay
    <2> QED
      BY <2>2, <2>4 DEF LinksOK, Version, LibraryVersion
  <1> QED
    BY <1>1, <1>3, <1>4, <1>5, UpgradeSteps

\* What a request of deploy.ts creates, and the request that creates a contract.
LEMMA CreatesOf ==
  ASSUME NEW k \in 1 .. 56, NEW tx, tx = Request(DeployMain[k]), NEW c \in Proxies \ Markets
  PROVE  /\ tx.op = "create" => tx.on \in Artifacts
         /\ tx.op = "create" /\ k > 3 => tx.on \in Proxies \ Markets /\ ProxyStep[tx.on] = k + 1
         /\ ProxyStep[c] = k + 1 => tx.op = "create" /\ tx.on = c
  <1>1. tx.op = "create" => tx.on \in Artifacts
    BY DeployCreates
  <1>2. tx.op = "create" /\ k > 3 => tx.on \in Proxies \ Markets /\ ProxyStep[tx.on] = k + 1
    BY DeployCreates
  <1>3. ProxyStep[c] = k + 1 => tx.op = "create" /\ tx.on = c
    BY DeployCreates
  <1> QED
    BY <1>1, <1>2, <1>3

\* A contract that deploy.ts creates is linked with the library it has deployed.
LEMMA DeployLinksGoOn ==
  ASSUME IInv, FileTells, DeployLinks, Deploying, NEW k, k = script.step, k # 56,
         NEW tx, tx = Sends, Permitted(tx, script.wallet), Apply(tx, script.wallet),
         NEW memory, memory = Remembering(tx), NEW c \in Linked, k + 1 \in ProxyStep[c] .. SaveStep
  PROVE  memory.hashes[c].link = memory.libraries[LinkReferences[c]]
  <1>1. /\ k \in 1 .. 56 /\ tx = Request(DeployMain[k])
    BY DeploySends
  <1>2. /\ ChainTypeOK /\ Known(notional) /\ HashesOK(notional) /\ TypeOK
    BY TypeHolds DEF IInv, SystemOK, RunOK, FileTells
  <1>3. WellFormed(tx)
    BY <1>1, <1>2, RequestWellFormed
  <1>4. PICK l, s : l = LinkReferences[c] /\ s = ProxyStep[c]
    OBVIOUS
  <1>5. c \in Core /\ c \in Proxies \ Markets /\ c \in Artifacts /\ c \notin Libraries /\ l \in Libraries
    BY <1>4, LinkedContracts DEF Proxies, Core, Markets
  <1>6. s \in 6 .. 41
    BY <1>4, <1>5, Places
  <1>7. k > 3 /\ s <= k + 1 /\ k + 1 <= 47
    BY <1>1, <1>4, <1>6 DEF SaveStep
  <1>8. /\ tx.op = "create" => tx.on \in Proxies \ Markets /\ ProxyStep[tx.on] = k + 1 /\ tx.on \in Artifacts
        /\ s = k + 1 => tx.op = "create" /\ tx.on = c
    <2>1. k \in 1 .. 56
      BY <1>1
    <2>2. /\ tx.op = "create" => tx.on \in Artifacts
          /\ tx.op = "create" /\ k > 3 => tx.on \in Proxies \ Markets /\ ProxyStep[tx.on] = k + 1
          /\ ProxyStep[c] = k + 1 => tx.op = "create" /\ tx.on = c
      BY <1>1, <1>5, <2>1, CreatesOf
    <2> QED
      BY <1>4, <1>5, <1>7, <2>2
  <1>9. tx.op = "create" => tx.code \in Code /\ tx.code = Bytecode(tx.on) /\ tx.on \notin Libraries
    <2>1. tx.op = "create" => tx.code \in Code
      BY <1>3 DEF WellFormed
    <2>2. Running
      BY DEF Running, Deploying
    <2>3. tx.op = "create" => tx.code = Bytecode(tx.on)
      BY <2>2, SendsBytecode
    <2>4. Proxies \cap Libraries = {}
      BY DEF Proxies, Core, Markets, Libraries
    <2> QED
      BY <1>8, <2>1, <2>3, <2>4
  <1>10. /\ \A a \in Artifacts : memory.hashes[a] = IF tx.op = "create" /\ tx.on = a THEN tx.code
                                                     ELSE notional.hashes[a]
         /\ memory.libraries[l] = notional.libraries[l]
    <2>1. /\ \A a \in Artifacts : memory.hashes[a] = IF tx.op = "create" /\ tx.on = a THEN tx.code
                                                     ELSE notional.hashes[a]
          /\ \A b \in Libraries : ~(tx.op = "create" /\ tx.on = b) =>
                memory.libraries[b] = notional.libraries[b]
      BY <1>2, <1>8, <1>9, HashesRemembered
    <2> QED
      BY <1>5, <1>9, <2>1
  <1>11. CASE s = k + 1
    <2>1. memory.hashes[c] = Bytecode(c)
      BY <1>5, <1>8, <1>9, <1>10, <1>11
    <2>2. Bytecode(c).link = notional.libraries[l]
      BY <1>4, <1>5, BytecodeForm
    <2> QED
      BY <1>4, <1>10, <2>1, <2>2
  <1>12. CASE s # k + 1
    <2>1. memory.hashes[c] = notional.hashes[c]
      BY <1>4, <1>5, <1>8, <1>10, <1>12
    <2>2. k \in s .. 47
      BY <1>1, <1>6, <1>7, <1>12
    <2>3. notional.hashes[c].link = notional.libraries[l]
      BY <1>4, <2>2 DEF DeployLinks, SaveStep
    <2> QED
      BY <1>4, <1>10, <2>1, <2>3
  <1> QED
    BY <1>11, <1>12

\* Every step keeps what deploy.ts has linked.
LEMMA NextDeployLinks ==
  ASSUME IInv, FileTells, DeployLinks, [Next]_vars
  PROVE  DeployLinks'
  <1>1. SUFFICES ASSUME Deploying' PROVE DeployLinks'
    BY DEF DeployLinks
  <1>2. ASSUME NEW upgraded, Quit(upgraded)
        PROVE  FALSE
    <2>1. script'.program = "none"
      BY <1>2, IdleTypes DEF Quit
    <2> QED
      BY <1>1, <2>1 DEF Deploying
  <1>3. CASE SameRun
    BY <1>3 DEF SameRun, DeployLinks, Deploying
  <1>4. CASE Answered
    <2>1. script' = IF Advanced = Idle THEN Idle
                    ELSE [Advanced EXCEPT !.failed = 0, !.upgraded = @ \/ Upgrades]
      BY <1>4 DEF Answered
    <2>2. Advanced # Idle /\ script \in Runs
      BY <1>1, <2>1, IdleTypes DEF Deploying, IInv, RunOK, ScriptTypeOK
    <2>3. Deploying
      <3> SUFFICES ASSUME ~Deploying PROVE FALSE
        OBVIOUS
      <3>1. Upgrading
        BY <1>4 DEF Answered, Running, Deploying, Upgrading, IInv, RunOK, ScriptTypeOK, Runs
      <3>2. ~AllDone
        BY <2>2, <3>1 DEF Advanced, Upgrading, UpgradeAdvanced
      <3>3. PICK tx, memory, upgraded : /\ tx = UpgradeSends /\ memory = Remembering(tx)
                                        /\ upgraded = (script.upgraded \/ Upgrades)
        OBVIOUS
      <3>4. Upgrading'
        BY <1>4, <3>1, <3>2, <3>3, AnsweredGoesOn
      <3> QED
        BY <1>1, <3>4 DEF Deploying, Upgrading
    <2>4. PICK k, tx, memory : k = script.step /\ tx = Sends /\ memory = Remembering(tx)
      OBVIOUS
    <2>5. k # 56 /\ Advanced = [script EXCEPT !.step = @ + 1]
      BY <2>2, <2>3, <2>4, DeploySends
    <2>6. /\ Permitted(tx, script.wallet) /\ Apply(tx, script.wallet) /\ notional' = memory
          /\ script'.step = k + 1
      BY <1>4, <2>1, <2>2, <2>4, <2>5 DEF Answered, Runs
    <2>7. ASSUME NEW p \in Linked, k + 1 \in ProxyStep[p] .. SaveStep
          PROVE  memory.hashes[p].link = memory.libraries[LinkReferences[p]]
      BY <2>3, <2>4, <2>5, <2>6, <2>7, DeployLinksGoOn
    <2> QED
      BY <2>6, <2>7 DEF DeployLinks, ProxyStep, SaveStep, LinkReferences
  <1>5. CASE Reverted
    BY <1>2, <1>5 DEF Reverted
  <1>6. CASE RateLimited
    <2>1. CASE script.failed + 1 < Attempts
      <3>1. script' = [script EXCEPT !.failed = @ + 1] /\ notional' = notional
        BY <1>6, <2>1 DEF RateLimited
      <3>2. script \in Runs
        BY DEF IInv, RunOK, ScriptTypeOK
      <3>3. SameRun
        BY <3>1, <3>2 DEF SameRun, Runs
      <3> QED
        BY <1>3, <3>3
    <2>2. CASE ~(script.failed + 1 < Attempts)
      BY <1>2, <1>6, <2>2 DEF RateLimited
    <2> QED
      BY <2>1, <2>2
  <1>7. CASE Killed
    BY <1>2, <1>7 DEF Killed
  <1>8. CASE StartDeploy
    <2>1. script'.step = 1
      BY <1>8, DeployStarts DEF StartDeploy
    <2>2. \A p \in Linked : ProxyStep[p] \in 6 .. 41
      BY LinkedContracts, Places
    <2>3. \A p \in Linked : ~(1 \in ProxyStep[p] .. SaveStep)
      BY <2>2 DEF SaveStep
    <2> QED
      BY <2>1, <2>3 DEF DeployLinks
  <1>9. ASSUME NEW w \in Accounts, NEW t \in TargetLists, NEW d \in BOOLEAN, StartUpgrade(w, t, d)
        PROVE  FALSE
    <2>1. t \in SUBSET Artifacts /\ "upgrade" \in {"none", "deploy", "upgrade"}
      BY TargetsAssumption
    <2>2. Start("upgrade", w, t, d).program = "upgrade"
      BY <1>9, <2>1, StartTypes
    <2> QED
      BY <1>1, <1>9, <2>2 DEF StartUpgrade, Deploying
  <1>10. ASSUME NEW a \in Edited, Compile(a)
         PROVE  DeployLinks'
    BY <1>3, <1>10 DEF Compile, SameRun
  <1>11. CASE Commit
    BY <1>3, <1>11 DEF Commit, SameRun
  <1>12. ASSUME NEW p \in Proxies, OwnerUpgrades(p)
         PROVE  DeployLinks'
    BY <1>3, <1>12 DEF OwnerUpgrades, SameRun
  <1>13. CASE UNCHANGED vars
    BY <1>3, <1>13 DEF vars, SameRun
  <1> QED
    BY <1>4, <1>5, <1>6, <1>7, <1>8, <1>9, <1>10, <1>11, <1>12, <1>13 DEF Next, ScriptStep

\* Every step keeps what is told of the libraries.
LEMMA NextLinks ==
  ASSUME IInv, IInv', FormOK, FileTells, BuildInEffect, LinksForward, [Next]_vars
  PROVE  LinksForward'
  <1>1. FileLinks' /\ RunLinks'
    BY NextFileLinks, NextRunLinks
  <1>2. DeployLinks'
    BY NextDeployLinks DEF LinksForward
  <1> QED
    BY <1>1, <1>2 DEF LinksForward

\* Nothing is linked at the start.
LEMMA InitLinks ==
  ASSUME Init
  PROVE  LinksForward
  <1>1. script.program = "deploy" /\ script.step = 1 /\ file = Empty
    BY DeployStarts DEF Init
  <1>2. ~Saved /\ ~Upgrading
    BY <1>1 DEF Saved, Empty, Upgrading
  <1>3. \A p \in Linked : ProxyStep[p] \in 6 .. 41
    BY LinkedContracts, Places
  <1>4. \A p \in Linked : ~(1 \in ProxyStep[p] .. SaveStep)
    BY <1>3 DEF SaveStep
  <1> QED
    BY <1>1, <1>2, <1>4 DEF LinksForward, FileLinks, RunLinks, DeployLinks

\* A proxy goes on to a contract that is there already and has no older library.
Forward(p) ==
  \E n \in 1 .. Len(code) : implementation'[p] = n /\ Version(implementation[p]) <= Version(n)

\* A proxy that keeps its logic does not go back.
LEMMA StaysForward ==
  ASSUME IInv, FormOK, NEW p \in Proxies, implementation[p] # 0, implementation'[p] = implementation[p]
  PROVE  Forward(p)
  <1>1. PICK i : i = implementation[p]
    OBVIOUS
  <1>2. i \in 1 .. Len(code)
    BY <1>1 DEF IInv, SystemOK, ChainTypeOK
  <1>3. Version(i) \in Nat
    <2>1. PICK l : l = code[i].link
      OBVIOUS
    <2>2. code \in Seq(Code) /\ Len(code) \in Nat /\ code[i] \in Code /\ l <= Len(code)
      BY <1>2, <2>1 DEF IInv, SystemOK, ChainTypeOK, FormOK, LinksBound
    <2>3. l \in Nat
      BY <2>1, <2>2 DEF Code
    <2>4. l # 0 => code[l] \in Code
      BY <2>2, <2>3
    <2> QED
      BY <2>1, <2>4 DEF Version, Code
  <1> QED
    BY <1>1, <1>2, <1>3 DEF Forward

\* A request of a script takes a proxy forward.
LEMMA RequestForward ==
  ASSUME IInv, FormOK, FileTells, BuildInEffect, LinksForward, Running, ~lost,
         Permitted(Sends, script.wallet), Apply(Sends, script.wallet),
         NEW p \in Proxies, implementation[p] # 0
  PROVE  CodeKept /\ Forward(p)
  <1>1. CodeKept
    BY CodeStays DEF IInv, SystemOK
  <1>2. implementation' = IF Sends.op \in {"createProxy", "upgrade"}
                          THEN [implementation EXCEPT ![Sends.on] = Sends.logic] ELSE implementation
    BY Effects DEF ProxyEffect
  <1>3. Deploying \/ Upgrading
    BY DEF Running, Deploying, Upgrading, IInv, RunOK, ScriptTypeOK, Runs
  <1>4. CASE implementation'[p] = implementation[p]
    BY <1>1, <1>4, StaysForward
  <1>5. CASE Deploying
    <2>1. PICK k : k = script.step
      OBVIOUS
    <2>2. k \in 1 .. 56 /\ Sends = Request(DeployMain[k]) /\ Sends.op # "upgrade"
      BY <1>5, <2>1, DeploySends
    <2>3. Scheduled(k, Sends)
      BY <2>2, RequestScheduled
    <2>4. CASE Sends.op = "createProxy"
      <3>1. PICK q : q = Sends.on
        OBVIOUS
      <3>2. q \in Proxies /\ k = ProxyStep[q]
        BY <2>3, <2>4, <3>1 DEF Scheduled
      <3>3. implementation[q] = 0
        <4>1. k \in 6 .. 41
          BY <3>2, Places
        <4>2. CASE k = 6
          <5>1. q \notin Markets
            BY <3>2, <4>2 DEF ProxyStep, Markets
          <5> QED
            BY <2>4, <3>1, <5>1 DEF Permitted, ProxyPermits
        <4>3. CASE k > 6
          <5>1. Built(k, notional.proxyAdmin)
            BY <1>5, <2>1, <4>3 DEF IInv, RunOK, DeployedSoFar
          <5>2. ~(ProxyStep[q] < k)
            BY <3>2, <4>1
          <5> QED
            BY <3>2, <5>1, <5>2 DEF Built, ProxiesBefore
        <4> QED
          BY <4>1, <4>2, <4>3
      <3>4. p # q
        BY <3>3
      <3>5. implementation'[p] = implementation[p]
        BY <1>2, <2>4, <3>1, <3>4 DEF IInv, SystemOK, ChainTypeOK
      <3> QED
        BY <1>4, <3>5
    <2>5. CASE Sends.op # "createProxy"
      BY <1>2, <1>4, <2>2, <2>5
    <2> QED
      BY <2>4, <2>5
  <1>6. CASE Upgrading
    <2>1. PICK tx, q, n : tx = UpgradeSends /\ q = Proxy /\ n = NewLogic(Target)
      OBVIOUS
    <2>2. Sends = tx /\ Upgrade(tx)
      BY <1>6, <2>1, UpgradeKinds DEF Sends, Upgrading
    <2>3. CASE tx.op = "upgrade" /\ p = q
      <3>1. ~AllDone /\ script.stage = "upgrade" /\ tx.on = q /\ tx.logic = n
        BY <2>1, <2>2, <2>3 DEF Upgrade
      <3>2. ~script.dryRun /\ Target \notin Libraries
        BY <1>6, <3>1 DEF FileTells, StagesOK
      <3>3. n \in 1 .. Len(code) /\ Version(n) = LibraryVersion(q, notional)
        BY <1>6, <2>1, <3>1, <3>2, NewLogicVersion
      <3>4. LinksOK(p, notional)
        BY <1>6, <3>2 DEF LinksForward, RunLinks
      <3>5. Version(implementation[p]) <= Version(n)
        BY <2>3, <3>3, <3>4 DEF LinksOK
      <3>6. implementation'[p] = n
        BY <1>2, <2>2, <2>3, <3>1 DEF IInv, SystemOK, ChainTypeOK
      <3> QED
        BY <1>1, <3>3, <3>5, <3>6 DEF Forward
    <2>4. CASE ~(tx.op = "upgrade" /\ p = q)
      <3>1. implementation'[p] = implementation[p]
        BY <1>2, <2>1, <2>2, <2>4 DEF Upgrade, Reads, IInv, SystemOK, ChainTypeOK
      <3> QED
        BY <1>4, <3>1
    <2> QED
      BY <2>3, <2>4
  <1> QED
    BY <1>3, <1>5, <1>6

\* What was left to an admin's owner takes a proxy forward.
LEMMA OwnerForward ==
  ASSUME IInv, FormOK, FileTells, LinksForward, ~lost, NEW q \in Proxies, OwnerUpgrades(q),
         NEW p \in Proxies, implementation[p] # 0
  PROVE  CodeKept /\ Forward(p)
  <1>1. CodeKept /\ ProxyKept(p)
    BY OwnerKeeps
  <1>2. CASE implementation'[p] = implementation[p]
    BY <1>1, <1>2, StaysForward
  <1>3. CASE leftToOwner[p] # 0 /\ implementation'[p] = leftToOwner[p]
    <2>1. PICK n : n = leftToOwner[p]
      OBVIOUS
    <2>2. Saved
      BY <1>3 DEF IInv, SystemOK, LeftWhenSaved
    <2>3. n \in 1 .. Len(code)
      BY <1>3, <2>1, <2>2, SavedProxies
    <2>4. Version(implementation[p]) <= Version(n)
      <3>1. CASE Upgrading /\ script.upgraded
        <4>1. ~script.dryRun
          BY <3>1 DEF FileTells, StagesOK
        <4> QED
          BY <1>3, <2>1, <3>1, <4>1 DEF LinksForward, RunLinks, LinksOK
      <3>2. CASE ~(Upgrading /\ script.upgraded)
        BY <1>3, <2>1, <2>2, <3>2 DEF LinksForward, FileLinks, LinksOK
      <3> QED
        BY <3>1, <3>2
    <2> QED
      BY <1>1, <1>3, <2>1, <2>3, <2>4 DEF Forward
  <1> QED
    BY <1>1, <1>2, <1>3 DEF ProxyKept

\* Every step takes every proxy there is forward, unless a run was lost.
LEMMA NextForward ==
  ASSUME IInv, FormOK, FileTells, BuildInEffect, LinksForward, [Next]_vars, ~lost,
         NEW p \in Proxies, implementation[p] # 0
  PROVE  CodeKept /\ Forward(p)
  <1>1. CASE UNCHANGED chain
    BY <1>1, StaysForward DEF chain, proxyVars, CodeKept
  <1>2. CASE Answered
    BY <1>2, RequestForward DEF Answered
  <1>3. CASE Killed
    BY <1>1, <1>3, RequestForward DEF Killed
  <1>4. ASSUME NEW q \in Proxies, OwnerUpgrades(q)
        PROVE  CodeKept /\ Forward(p)
    BY <1>4, OwnerForward
  <1>5. CASE Reverted \/ RateLimited \/ StartDeploy \/ Commit \/ UNCHANGED vars
    BY <1>1, <1>5 DEF Reverted, RateLimited, StartDeploy, Commit, vars
  <1>6. ASSUME NEW w \in Accounts, NEW t \in TargetLists, NEW d \in BOOLEAN, StartUpgrade(w, t, d)
        PROVE  CodeKept /\ Forward(p)
    BY <1>1, <1>6 DEF StartUpgrade
  <1>7. ASSUME NEW a \in Edited, Compile(a)
        PROVE  CodeKept /\ Forward(p)
    BY <1>1, <1>7 DEF Compile
  <1> QED
    BY <1>2, <1>3, <1>4, <1>5, <1>6, <1>7 DEF Next, ScriptStep

\* The library behind a proxy is no older after a step, if no run was lost before.
LEMMA NeverBack ==
  ASSUME IInv, FormOK, FileTells, BuildInEffect, LinksForward, [Next]_vars, ~lost,
         NEW p \in Proxies, implementation[p] # 0
  PROVE  LibraryBehind(p)' >= LibraryBehind(p)
  <1>1. CodeKept /\ Forward(p)
    BY NextForward
  <1>2. PICK i : i = implementation[p]
    OBVIOUS
  <1>3. PICK n \in 1 .. Len(code) : implementation'[p] = n /\ Version(i) <= Version(n)
    BY <1>1, <1>2 DEF Forward
  <1>4. i \in 1 .. Len(code)
    BY <1>2 DEF IInv, SystemOK, ChainTypeOK
  <1>5. Version(i) \in Nat /\ Version(n) \in Nat /\ Version(n)' = Version(n)
    BY <1>1, <1>3, <1>4, VersionStays
  <1>6. LibraryBehind(p) = Version(i)
    BY <1>2 DEF LibraryBehind, Version
  <1>7. LibraryBehind(p)' = Version(n)'
    BY <1>3 DEF LibraryBehind, Version
  <1> QED
    BY <1>3, <1>5, <1>6, <1>7

\* The upgrade of a proxy never links an older library than it had, whoever makes it and
\* whenever a script is killed, unless a run before it was lost.
THEOREM LibrariesAlwaysGoForward == Spec => LibrariesNeverGoBack
  <1>1. Init => IInv /\ FormOK /\ FileTells /\ BuildInEffect /\ LinksForward
    BY InitInvariant, InitForm, InitTells, InitBuild, InitLinks
  <1>2. IInv /\ FormOK /\ FileTells /\ BuildInEffect /\ LinksForward /\ [Next]_vars
          => (IInv /\ FormOK /\ FileTells /\ BuildInEffect /\ LinksForward)'
    BY NextInvariant, NextForm, NextTells, NextBuild, NextLinks
  <1>3. IInv /\ FormOK /\ FileTells /\ BuildInEffect /\ LinksForward /\ [Next]_vars =>
          [\A p \in Proxies : implementation[p] # 0 /\ ~lost =>
             LibraryBehind(p)' >= LibraryBehind(p)]_vars
    BY NeverBack
  <1> QED
    BY <1>1, <1>2, <1>3, PTL DEF Spec, LibrariesNeverGoBack
=============================================================================
