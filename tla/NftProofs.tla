------------------------------ MODULE NftProofs ------------------------------
(* Theorems about NftService, for every number of tasks, invoices and        *)
(* requests, and of faults.  NftInv is inductive: its first part is about    *)
(* the initialization, the second about the mints.                           *)
EXTENDS NftService, FiniteSetTheorems, TLAPS

InitPart == OneAtATime /\ RowIsCurrent /\ Accounted /\ InPlace /\ RestartFindsThem
MintPart == LeavesAreInTrees /\ MintedForIt /\ RecordedIsItsOwn

-----------------------------------------------------------------------------
(* Types.                                                                   *)

LEMMA NextLeafIsNat ==
    ASSUME IsFiniteSet(leaves), NEW tree
    PROVE  NextLeaf(tree) \in Nat
<1>1. {l \in leaves : l.tree = tree} \subseteq leaves
  OBVIOUS
<1>2. IsFiniteSet({l \in leaves : l.tree = tree})
  BY <1>1, FS_Subset
<1> QED
  BY <1>2, FS_CardinalityType DEF NextLeaf

LEMMA LandsTypes ==
    ASSUME TypeOK, NEW r \in Requests, Lands(r)
    PROVE  leaves' \subseteq Leaf /\ IsFiniteSet(leaves')
<1> DEFINE new == [tree |-> mint[r].tree, leaf |-> NextLeaf(mint[r].tree),
                   invoice |-> mint[r].invoice]
<1>1. NextLeaf(mint[r].tree) \in Nat
  BY NextLeafIsNat DEF TypeOK
<1>2. mint[r] \in Mint
  BY DEF TypeOK
<1>3. new \in Leaf
  BY <1>1, <1>2 DEF Mint, Leaf
<1>4. leaves' = leaves \union {new}
  BY DEF Lands
<1>a. leaves \subseteq Leaf /\ IsFiniteSet(leaves)
  BY DEF TypeOK
<1> HIDE DEF new
<1>5. IsFiniteSet(leaves \union {new})
  BY <1>a, FS_AddElement
<1> QED
  BY <1>3, <1>4, <1>5, <1>a

LEMMA InitTypes == Init => TypeOK
<1> SUFFICES ASSUME Init PROVE TypeOK
  OBVIOUS
<1>1. settings \in Addresses /\ made \in Addresses
  BY NftAssumption DEF NftAssumption, Init, Addresses, NoAddress, Foreign
<1>2. service \in [tree : Nat, collection : Nat, initialized : BOOLEAN,
                   promise : {"none", "pending", "settled"}]
  BY DEF Init, NoAddress
<1>3. task \in [Tasks -> [at : InitSteps, row : Nat]]
  BY DEF Init, NoAddress, InitSteps
<1>4. leaves \subseteq Leaf /\ IsFiniteSet(leaves)
  BY FS_EmptySet DEF Init
<1>5. mint \in [Requests -> Mint]
  <2> DEFINE Fresh == [at : {"idle"}, server : {FALSE}, invoice : Invoices,
                       tree : {NoAddress}, leaf : {0}]
  <2>1. \A m \in Fresh : m \in Mint
    <3>1. "idle" \in MintSteps /\ NoAddress \in Nat /\ 0 \in Nat
      BY DEF MintSteps, NoAddress
    <3>2. {"idle"} \subseteq MintSteps /\ {NoAddress} \subseteq Nat
          /\ {0} \subseteq Nat /\ {FALSE} \subseteq BOOLEAN
      BY <3>1
    <3> QED
      BY <3>2, Zenon DEF Mint
  <2>2. mint \in [Requests -> Fresh]
    BY DEF Init
  <2> HIDE DEF Fresh
  <2> QED
    BY <2>1, <2>2
<1>6. balance \in Balances
      /\ nft \in [Invoices -> [tree : Nat, leaf : Nat] \union {NoNft}]
      /\ unproven \subseteq Invoices
      /\ faults \in 0 .. MaxFaults
  BY NftAssumption DEF Init, NftAssumption
<1> QED
  BY <1>1, <1>2, <1>3, <1>4, <1>5, <1>6 DEF TypeOK

\* What the initialization changes.
ServiceType == [tree : Nat, collection : Nat, initialized : BOOLEAN,
                promise : {"none", "pending", "settled"}]
TaskType == [Tasks -> [at : InitSteps, row : Nat]]

InitTypesOf ==
    /\ settings \in Addresses
    /\ made \in Addresses
    /\ service \in ServiceType
    /\ task \in TaskType

LEMMA TypesOfInit == TypeOK => InitTypesOf
BY DEF TypeOK, InitTypesOf, ServiceType, TaskType

LEMMA ServiceTypes ==
    ASSUME NEW f \in ServiceType, NEW a \in Nat
    PROVE  /\ [f EXCEPT !.tree = a] \in ServiceType
           /\ [f EXCEPT !.collection = a] \in ServiceType
           /\ [f EXCEPT !.initialized = FALSE] \in ServiceType
           /\ [f EXCEPT !.promise = "pending"] \in ServiceType
           /\ [f EXCEPT !.promise = "settled"] \in ServiceType
           /\ Complete(f) \in ServiceType
           /\ Caught(f) \in ServiceType
BY DEF ServiceType, Complete, Caught

LEMMA AddressTypes ==
    ASSUME NEW f \in Addresses, NEW a \in Nat
    PROVE  /\ f.tree \in Nat /\ f.collection \in Nat
           /\ [f EXCEPT !.tree = a] \in Addresses
           /\ [f EXCEPT !.collection = a] \in Addresses
BY DEF Addresses

LEMMA TaskTypes ==
    ASSUME task \in TaskType, NEW t \in Tasks
    PROVE  /\ task[t].row \in Nat
           /\ \A step \in InitSteps : Go(t, step) => task' \in TaskType
           /\ \A step \in InitSteps, a \in Nat :
                Read(t, step, a) => task' \in TaskType
           /\ \A f : Settle(t, f) => task' \in TaskType
           /\ \A f : Throw(t, f) => task' \in TaskType
<1>1. "idle" \in InitSteps /\ NoAddress \in Nat
  BY DEF InitSteps, NoAddress
<1> QED
  BY <1>1 DEF TaskType, Go, Read, Settle, Throw

LEMMA InitializingTypes ==
    ASSUME InitTypesOf, NEW t \in Tasks, Initialize(t) \/ Initializing(t)
    PROVE  InitTypesOf'
<1>s. {"idle", "readTree", "checkTree", "fundTree", "createTree",
       "persistTree", "readCollection", "checkCollection",
       "fundCollection", "createCollection", "upsertCollection",
       "updateCollection"} = InitSteps
  BY DEF InitSteps
<1>a. /\ settings \in Addresses /\ made \in Addresses
      /\ service \in ServiceType /\ task \in TaskType
      /\ task[t].row \in Nat
      /\ service.tree \in Nat /\ service.collection \in Nat
  BY TaskTypes DEF InitTypesOf, ServiceType
<1>n. /\ made.tree + 1 \in Nat /\ made.collection + 1 \in Nat
      /\ settings.tree \in Nat /\ settings.collection \in Nat
  BY <1>a DEF Addresses
<1>g. \A step \in InitSteps : Go(t, step) => task' \in TaskType
  BY <1>a, TaskTypes
<1>r. \A step \in InitSteps, a \in Nat : Read(t, step, a) => task' \in TaskType
  BY <1>a, TaskTypes
<1>t. \A f \in ServiceType :
        /\ Settle(t, f) => service' \in ServiceType /\ task' \in TaskType
        /\ Throw(t, f) => service' \in ServiceType /\ task' \in TaskType
  BY <1>a, TaskTypes, ServiceTypes, 0 \in Nat DEF Settle, Throw
<1>1. CASE Initialize(t)
  <2>1. service' \in ServiceType
    BY <1>1, <1>a, ServiceTypes DEF Initialize
  <2> QED
    BY <1>1, <1>a, <1>g, <1>s, <2>1 DEF Initialize, InitTypesOf, OnlyTask
<1>2. CASE ReadTree(t)
  BY <1>2, <1>a, <1>n, <1>r, <1>s DEF ReadTree, InitTypesOf, OnlyTask
<1>3. CASE CheckTree(t)
  <2>1. service' \in ServiceType
    BY <1>3, <1>a, ServiceTypes DEF CheckTree
  <2> QED
    BY <1>3, <1>a, <1>g, <1>s, <2>1 DEF CheckTree, InitTypesOf, OnlyTask
<1>4. CASE FundTree(t)
  <2>1. [service EXCEPT !.initialized = FALSE] \in ServiceType
    BY <1>a, ServiceTypes, 0 \in Nat
  <2> QED
    BY <1>4, <1>a, <1>g, <1>t, <1>s, <2>1 DEF FundTree, InitTypesOf, OnlyTask
<1>5. CASE CreateTree(t)
  <2>1. service' \in ServiceType /\ made' \in Addresses
    BY <1>5, <1>a, <1>n, ServiceTypes, AddressTypes DEF CreateTree, NewTree
  <2> QED
    BY <1>5, <1>a, <1>g, <1>s, <2>1 DEF CreateTree, InitTypesOf
<1>6. CASE PersistTree(t)
  <2>1. [settings EXCEPT !.tree = service.tree] \in Addresses
    BY <1>a, AddressTypes
  <2> QED
    BY <1>6, <1>a, <1>g, <1>t, <1>s, <2>1
    DEF PersistTree, Persisted, InitTypesOf
<1>7. CASE ReadCollection(t)
  BY <1>7, <1>a, <1>n, <1>r, <1>s DEF ReadCollection, InitTypesOf, OnlyTask
<1>8. CASE CheckCollection(t)
  <2>1. Complete([service EXCEPT !.collection = task[t].row]) \in ServiceType
    BY <1>a, ServiceTypes
  <2> QED
    BY <1>8, <1>a, <1>g, <1>t, <1>s, <2>1
    DEF CheckCollection, InitTypesOf, OnlyTask
<1>9. CASE FundCollection(t)
  BY <1>9, <1>a, <1>g, <1>t, <1>s DEF FundCollection, InitTypesOf, OnlyTask
<1>10. CASE CreateCollection(t)
  <2>1. service' \in ServiceType /\ made' \in Addresses
    BY <1>10, <1>a, <1>n, ServiceTypes, AddressTypes
    DEF CreateCollection, NewCollection
  <2> QED
    BY <1>10, <1>a, <1>g, <1>s, <2>1 DEF CreateCollection, InitTypesOf
<1>11. CASE UpsertCollection(t)
  <2>1. settings' \in Addresses /\ Complete(service) \in ServiceType
    BY <1>11, <1>a, AddressTypes, ServiceTypes DEF UpsertCollection
  <2> QED
    BY <1>11, <1>a, <1>g, <1>t, <1>s, <2>1 DEF UpsertCollection, InitTypesOf
<1>12. CASE UpdateCollection(t)
  <2>1. settings' \in Addresses /\ Complete(service) \in ServiceType
    BY <1>12, <1>a, AddressTypes, ServiceTypes DEF UpdateCollection
  <2> QED
    BY <1>12, <1>a, <1>t, <2>1 DEF UpdateCollection, InitTypesOf
<1> QED
  BY <1>1, <1>2, <1>3, <1>4, <1>5, <1>6, <1>7, <1>8, <1>9, <1>10, <1>11,
     <1>12 DEF Initializing

LEMMA MintingTypes ==
    ASSUME TypeOK, NEW r \in Requests, Minting(r)
    PROVE  /\ leaves' \subseteq Leaf /\ IsFiniteSet(leaves')
           /\ nft' \in [Invoices -> [tree : Nat, leaf : Nat] \union {NoNft}]
           /\ unproven' \subseteq Invoices
           /\ mint' \in [Requests -> Mint]
<1> USE DEF MintAt, MintGo, OnlyMint, Mint, MintSteps, ServerSteps
<1>a. /\ leaves \subseteq Leaf /\ IsFiniteSet(leaves)
      /\ nft \in [Invoices -> [tree : Nat, leaf : Nat] \union {NoNft}]
      /\ mint \in [Requests -> Mint] /\ mint[r].invoice \in Invoices
      /\ unproven \subseteq Invoices
      /\ service.tree \in Nat
  BY DEF TypeOK
<1>1. CASE MintRead(r)
  <2>1. PICK server \in BOOLEAN :
          mint' = [mint EXCEPT ![r].at = "build", ![r].server = server]
    BY <1>1 DEF MintRead
  <2>2. [mint[r] EXCEPT !.at = "build", !.server = server] \in Mint
    BY <1>a
  <2>3. mint' = [mint EXCEPT ![r] =
                   [mint[r] EXCEPT !.at = "build", !.server = server]]
    BY <2>1, <1>a
  <2>4. mint' \in [Requests -> Mint]
    BY <2>2, <2>3, <1>a
  <2> QED
    BY <1>1, <1>a, <2>4 DEF MintRead
<1>2. CASE MintBuild(r)
  BY <1>2, <1>a DEF MintBuild
<1>3. CASE MintLands(r)
  <2>1. NextLeaf(mint[r].tree) \in Nat
    BY NextLeafIsNat, <1>a
  <2>2. leaves' \subseteq Leaf /\ IsFiniteSet(leaves')
    BY <1>3, LandsTypes DEF MintLands
  <2>3. mint' \in [Requests -> Mint]
    BY <1>3, <1>a, <2>1 DEF MintLands
  <2> QED
    BY <1>3, <1>a, <2>2, <2>3 DEF MintLands
<1>4. CASE PageLapses(r)
  BY <1>4, <1>a DEF PageLapses
<1>5. CASE ConfirmMint(r)
  <2>1. \A l \in leaves : l.tree \in Nat /\ l.leaf \in Nat
    BY <1>a DEF Leaf
  <2>2. ASSUME NEW i \in Invoices, NEW tree \in Nat, NEW leaf \in Nat,
               Confirming(r, i, tree, leaf)
        PROVE  mint' \in [Requests -> Mint]
    BY <2>2, <1>a DEF Confirming
  <2> QED
    BY <1>5, <1>a, <2>1, <2>2 DEF ConfirmMint
<1>6. CASE ReadLeaf(r)
  BY <1>6, <1>a DEF ReadLeaf, LeafOf
<1>7. CASE DeriveAssetId(r)
  BY <1>7, <1>a DEF DeriveAssetId
<1>8. CASE RecordMint(r)
  BY <1>8, <1>a DEF RecordMint
<1>9. CASE NoLogs(r)
  BY <1>9, <1>a DEF NoLogs
<1> QED
  BY <1>1, <1>2, <1>3, <1>4, <1>5, <1>6, <1>7, <1>8, <1>9 DEF Minting

LEMMA FaultTypes ==
    ASSUME TypeOK, Fault
    PROVE  faults' \in 0 .. MaxFaults /\ faults \in Nat /\ faults' = faults + 1
BY NftAssumption DEF TypeOK, Fault, NftAssumption

LEMMA CrashTypes ==
    ASSUME TypeOK, Crash
    PROVE  TypeOK'
<1>1. faults' \in 0 .. MaxFaults
  BY FaultTypes DEF Crash
<1>2. mint' \in [Requests -> Mint]
  BY DEF Crash, TypeOK, Mint, MintSteps
<1>3. service' \in [tree : Nat, collection : Nat, initialized : BOOLEAN,
                    promise : {"none", "pending", "settled"}]
  BY DEF Crash, NoAddress
<1>4. task' \in [Tasks -> [at : InitSteps, row : Nat]]
  BY DEF Crash, InitSteps, NoAddress
<1> QED
  BY <1>1, <1>2, <1>3, <1>4 DEF Crash, TypeOK

LEMMA FailureTypes ==
    ASSUME TypeOK, NEW t \in Tasks,
           InitializeFails(t) \/ CheckFails(t) \/ CreateUnheard(t)
    PROVE  TypeOK'
<1>1. faults' \in 0 .. MaxFaults
  BY FaultTypes DEF InitializeFails, CheckFails, CreateUnheard
<1>a. /\ settings \in Addresses /\ made \in Addresses
      /\ service \in ServiceType /\ task \in TaskType
  BY TypesOfInit DEF InitTypesOf
<1>n. made.tree + 1 \in Nat /\ made.collection + 1 \in Nat
  BY <1>a DEF Addresses
<1>t. Throw(t, service) => service' \in ServiceType /\ task' \in TaskType
  BY <1>a, TaskTypes, ServiceTypes, 0 \in Nat DEF Throw
<1>2. settings' \in Addresses
  BY <1>a DEF InitializeFails, CheckFails, CreateUnheard
<1>3. made' \in Addresses
  BY <1>a, <1>n, AddressTypes
  DEF InitializeFails, CheckFails, CreateUnheard, NewTree, NewCollection
<1>4. service' \in ServiceType
  BY <1>a, <1>t DEF InitializeFails, CheckFails, CreateUnheard
<1>5. task' \in TaskType
  <2>1. {"fundTree", "fundCollection"} \subseteq InitSteps
    BY DEF InitSteps
  <2> QED
    BY <1>a, <1>t, <2>1, TaskTypes
    DEF InitializeFails, CheckFails, CreateUnheard
<1>6. UNCHANGED <<balance, leaves, nft, unproven, mint>>
  BY DEF InitializeFails, CheckFails, CreateUnheard
<1> QED
  BY <1>1, <1>2, <1>3, <1>4, <1>5, <1>6 DEF TypeOK, ServiceType, TaskType

LEMMA MintFailureTypes ==
    ASSUME TypeOK, NEW r \in Requests,
           MintUnheard(r) \/ MintFails(r)
    PROVE  TypeOK'
<1>1. faults' \in 0 .. MaxFaults
  BY FaultTypes DEF MintUnheard, MintFails
<1>2. leaves' \subseteq Leaf /\ IsFiniteSet(leaves')
  BY LandsTypes DEF MintUnheard, MintFails, TypeOK
<1>3. mint' \in [Requests -> Mint]
  BY DEF MintUnheard, MintFails, MintGo, Mint, MintSteps, ServerSteps,
         TypeOK
<1> QED
  BY <1>1, <1>2, <1>3
  DEF MintUnheard, MintFails, OnlyMint, TypeOK

LEMMA NextTypes == TypeOK /\ [Next]_vars => TypeOK'
<1> SUFFICES ASSUME TypeOK, [Next]_vars PROVE TypeOK'
  OBVIOUS
<1>1. ASSUME NEW t \in Tasks, Initialize(t) \/ Initializing(t) PROVE TypeOK'
  <2>1. InitTypesOf'
    BY <1>1, InitializingTypes, TypesOfInit
  <2>2. UNCHANGED <<balance, leaves, nft, unproven, mint, faults>>
    BY <1>1 DEF Initialize, Initializing, ReadTree, CheckTree, FundTree,
         CreateTree, PersistTree, ReadCollection, CheckCollection,
         FundCollection, CreateCollection, UpsertCollection, UpdateCollection,
         OnlyTask
  <2> QED
    BY <2>1, <2>2 DEF TypeOK, InitTypesOf, ServiceType, TaskType
<1>2. ASSUME NEW r \in Requests, Minting(r) PROVE TypeOK'
  <2>1. UNCHANGED <<settings, made, service, task, balance, faults>>
    BY <1>2 DEF Minting, MintRead, MintBuild, MintLands, PageLapses,
         ConfirmMint, ReadLeaf, NoLogs, DeriveAssetId, RecordMint, OnlyMint
  <2> QED
    BY <1>2, <2>1, MintingTypes DEF TypeOK
<1>3. CASE Fund
  BY <1>3 DEF Fund, TypeOK
<1>4. CASE UNCHANGED vars
  BY <1>4 DEF vars, TypeOK
<1> QED
  BY <1>1, <1>2, <1>3, <1>4, CrashTypes, FailureTypes, MintFailureTypes DEF Next
-----------------------------------------------------------------------------
(* The initialization.  While one task is in doInitialize all others are     *)
(* idle: InitPart then says no more than AloneAt of that task.               *)

AloneAt(t) ==
    /\ Busy(t) => service.promise = "pending" /\ ~service.initialized
    /\ task[t].at \in BeforeTree => task[t].row = settings.tree
    /\ task[t].at \in BeforeCollection => task[t].row = settings.collection
    /\ made.tree - Foreign \in 0 .. faults + 1
    /\ made.tree - Foreign <= faults \/ Kept("tree") \/ At(t, "persistTree")
    /\ made.collection - Foreign \in 0 .. faults + 1
    /\ \/ made.collection - Foreign <= faults
       \/ Kept("collection") \/ At(t, "upsertCollection")
    /\ task[t].at \in {"fundTree", "createTree"} =>
         made.tree - Foreign <= faults
    /\ task[t].at \in {"fundCollection", "createCollection"} =>
         made.collection - Foreign <= faults
    /\ service.tree = NoAddress \/ Exists("tree", service.tree)
    /\ task[t].at \in AfterTree => Kept("tree") /\ settings.tree = service.tree
    /\ At(t, "persistTree") => Exists("tree", service.tree)
    /\ At(t, "upsertCollection") => Exists("collection", service.collection)
    /\ At(t, "updateCollection") =>
         Kept("collection") /\ settings.collection = service.collection
    /\ RestartFindsThem

OthersIdle(t) == \A u \in Tasks \ {t} : task[u].at = "idle"

LEMMA AloneWhileBusy ==
    ASSUME InitPart, NEW t \in Tasks, Busy(t) \/ service.promise # "pending"
    PROVE  OthersIdle(t) /\ AloneAt(t)
<1>1. OthersIdle(t)
  BY DEF InitPart, OneAtATime, OthersIdle, Busy, At
<1>2. \A u \in Tasks : u # t => ~At(u, "persistTree") /\ ~At(u, "upsertCollection")
  BY <1>1 DEF OthersIdle, At
<1>3. OneAtATime /\ RowIsCurrent /\ Accounted /\ InPlace /\ RestartFindsThem
  BY DEF InitPart
<1> QED
  BY <1>1, <1>2, <1>3
  DEF OneAtATime, RowIsCurrent, Accounted, AccountedFor, InPlace, AloneAt

LEMMA AloneIsEnough ==
    ASSUME NEW t \in Tasks, OthersIdle(t)', AloneAt(t)'
    PROVE  InitPart'
<1>1. \A u \in Tasks : u # t => task'[u].at = "idle"
  BY DEF OthersIdle
<1>2. \A step : step \in BeforeTree \union BeforeCollection \union AfterTree
                  => step # "idle"
  BY DEF BeforeTree, BeforeCollection, AfterTree
<1>3. OneAtATime'
  BY <1>1 DEF OneAtATime, AloneAt, Busy, At
<1>4. RowIsCurrent'
  BY <1>1, <1>2 DEF RowIsCurrent, AloneAt
<1>5. Accounted'
  BY <1>1 DEF Accounted, AccountedFor, AloneAt, At
<1>6. InPlace'
  BY <1>1, <1>2 DEF InPlace, AloneAt, At
<1> QED
  BY <1>3, <1>4, <1>5, <1>6 DEF InitPart, AloneAt

LEMMA Moves ==
    ASSUME task \in TaskType, NEW t \in Tasks, OthersIdle(t)
    PROVE  /\ \A step : Go(t, step) =>
                /\ task'[t].at = step /\ task'[t].row = task[t].row
                /\ OthersIdle(t)'
           /\ \A step, a : Read(t, step, a) =>
                /\ task'[t].at = step /\ task'[t].row = a
                /\ OthersIdle(t)'
           /\ \A f : Settle(t, f) => task'[t].at = "idle" /\ OthersIdle(t)'
           /\ \A f : Throw(t, f) => task'[t].at = "idle" /\ OthersIdle(t)'
BY DEF TaskType, Go, Read, Settle, Throw, OthersIdle

LEMMA Fields ==
    ASSUME NEW f \in ServiceType, NEW a
    PROVE  /\ [f EXCEPT !.tree = a].tree = a
           /\ [f EXCEPT !.tree = a].collection = f.collection
           /\ [f EXCEPT !.tree = a].initialized = f.initialized
           /\ [f EXCEPT !.tree = a].promise = f.promise
           /\ [f EXCEPT !.collection = a].collection = a
           /\ [f EXCEPT !.collection = a].tree = f.tree
           /\ [f EXCEPT !.collection = a].initialized = f.initialized
           /\ [f EXCEPT !.collection = a].promise = f.promise
           /\ [f EXCEPT !.promise = a].tree = f.tree
           /\ [f EXCEPT !.promise = a].collection = f.collection
           /\ [f EXCEPT !.promise = a].initialized = f.initialized
           /\ [f EXCEPT !.promise = a].promise = a
           /\ [f EXCEPT !.initialized = FALSE].tree = f.tree
           /\ ~[f EXCEPT !.initialized = FALSE].initialized
           /\ Caught(f).tree = f.tree
           /\ Caught(f).initialized = FALSE
           /\ Complete(f).tree = f.tree
           /\ Complete(f).collection = f.collection
BY DEF ServiceType, Caught, Complete

\* doInitialize gives up: what was created is kept or has its fault.
LEMMA Thrown ==
    ASSUME InitTypesOf, NEW t \in Tasks, OthersIdle(t), AloneAt(t),
           Throw(t, service), faults' \in Nat, settings' = settings,
           made' \in Addresses, made'.tree >= made.tree,
           made'.tree - Foreign <= faults' \/ Kept("tree"),
           made'.collection - Foreign <= faults' \/ Kept("collection"),
           made'.tree - Foreign <= faults' + 1,
           made'.collection - Foreign <= faults' + 1,
           made'.collection >= made.collection
    PROVE  InitPart'
<1>1. task'[t].at = "idle" /\ OthersIdle(t)'
  BY Moves DEF InitTypesOf
<1>2. service'.tree = service.tree /\ ~service'.initialized
  <2>1. service' = Caught(service)
    BY DEF Throw
  <2> QED
    BY <2>1, Fields DEF InitTypesOf
<1>3. /\ made.tree \in Nat /\ made'.tree \in Nat /\ service.tree \in Nat
      /\ made.collection \in Nat /\ made'.collection \in Nat
      /\ settings.tree \in Nat /\ settings.collection \in Nat
  BY DEF InitTypesOf, Addresses, ServiceType
<1>4. service'.tree = NoAddress \/ Exists("tree", service.tree)'
  BY <1>2, <1>3 DEF AloneAt, Exists, FirstMade
<1>5. made'.tree - Foreign \in 0 .. faults' + 1
      /\ made'.collection - Foreign \in 0 .. faults' + 1
  BY <1>3 DEF AloneAt, Foreign
<1>6. (Kept("tree") => Kept("tree")') /\ (Kept("collection") => Kept("collection")')
  BY <1>3 DEF Kept, Exists, FirstMade
<1>7. AloneAt(t)'
  BY <1>1, <1>2, <1>4, <1>5, <1>6
  DEF AloneAt, Busy, At, BeforeTree, BeforeCollection, AfterTree,
      RestartFindsThem
<1> QED
  BY <1>1, <1>7, AloneIsEnough

LEMMA InitializingKeeps ==
    ASSUME TypeOK, InitPart, NEW t \in Tasks, Initialize(t) \/ Initializing(t)
    PROVE  InitPart'
<1>a. /\ settings \in Addresses /\ made \in Addresses
      /\ service \in ServiceType /\ task \in TaskType
      /\ InitTypesOf
  BY TypesOfInit DEF InitTypesOf
<1>n. /\ made.tree \in Nat /\ made.collection \in Nat
      /\ settings.tree \in Nat /\ settings.collection \in Nat
      /\ service.tree \in Nat /\ service.collection \in Nat
      /\ task[t].row \in Nat
      /\ faults \in Nat
  BY <1>a, NftAssumption DEF Addresses, ServiceType, TaskType, TypeOK
<1>i. OthersIdle(t) /\ AloneAt(t)
  <2>1. Busy(t) \/ service.promise # "pending"
    BY DEF Initialize, MayInitialize, Initializing, ReadTree, CheckTree,
       FundTree, CreateTree, PersistTree, ReadCollection, CheckCollection,
       FundCollection, CreateCollection, UpsertCollection, UpdateCollection,
       Busy, At
  <2> QED
    BY <2>1, AloneWhileBusy
<1>m. /\ \A step : Go(t, step) =>
            /\ task'[t].at = step /\ task'[t].row = task[t].row
            /\ OthersIdle(t)'
      /\ \A step, a : Read(t, step, a) =>
            /\ task'[t].at = step /\ task'[t].row = a
            /\ OthersIdle(t)'
      /\ \A f : Settle(t, f) => task'[t].at = "idle" /\ OthersIdle(t)'
  BY <1>a, <1>i, Moves
<1>t. ASSUME Throw(t, service), UNCHANGED <<settings, made, faults>>,
             ~At(t, "upsertCollection"),
             ~At(t, "persistTree") \/ Kept("tree")
      PROVE  InitPart'
  <2>1. /\ made'.tree - Foreign <= faults' \/ Kept("tree")
        /\ made'.collection - Foreign <= faults' \/ Kept("collection")
        /\ made'.tree - Foreign <= faults' + 1
        /\ made'.collection - Foreign <= faults' + 1
    BY <1>t, <1>i DEF AloneAt
  <2> QED
    BY <1>t, <2>1, <1>a, <1>n, <1>i, Thrown
<1> USE DEF AloneAt, Busy, At, Kept, Exists, FirstMade, NoAddress, Foreign,
        BeforeTree, BeforeCollection, AfterTree, RestartFindsThem
<1>1. CASE Initialize(t)
  <2>1. /\ task'[t].at = "readTree" /\ OthersIdle(t)'
        /\ service'.tree = service.tree /\ service'.promise = "pending"
        /\ ~service'.initialized
        /\ UNCHANGED <<settings, made, faults>>
    BY <1>1, <1>a, <1>m, Fields DEF Initialize, MayInitialize, OnlyTask
  <2>2. AloneAt(t)'
    BY <2>1, <1>1, <1>i DEF Initialize
  <2> QED
    BY <2>1, <2>2, AloneIsEnough
<1>2. CASE ReadTree(t)
  <2>1. /\ task'[t].at \in {"fundTree", "checkTree"} /\ OthersIdle(t)'
        /\ task'[t].row = settings.tree
        /\ task'[t].at = "fundTree" => settings.tree = NoAddress
        /\ UNCHANGED <<settings, made, faults, service>>
    BY <1>2, <1>m DEF ReadTree, OnlyTask
  <2>2. AloneAt(t)'
    BY <2>1, <1>2, <1>i, <1>n DEF ReadTree
  <2> QED
    BY <2>1, <2>2, AloneIsEnough
<1>3. CASE CheckTree(t)
  <2>1. CASE Exists("tree", task[t].row) /\ Go(t, "readCollection")
             /\ service' = [service EXCEPT !.tree = task[t].row]
    <3>1. /\ task'[t].at = "readCollection" /\ OthersIdle(t)'
          /\ service'.tree = task[t].row
          /\ service'.promise = service.promise
          /\ service'.initialized = service.initialized
          /\ UNCHANGED <<settings, made, faults>>
      BY <1>3, <2>1, <1>a, <1>m, Fields DEF CheckTree, OnlyTask
    <3>2. AloneAt(t)'
      BY <3>1, <1>3, <2>1, <1>i, <1>n DEF CheckTree
    <3> QED
      BY <3>1, <3>2, AloneIsEnough
  <2>2. CASE ~Exists("tree", task[t].row) /\ Go(t, "fundTree")
             /\ UNCHANGED service
    <3>1. /\ task'[t].at = "fundTree" /\ task'[t].row = task[t].row
          /\ OthersIdle(t)'
          /\ UNCHANGED <<settings, made, faults, service>>
      BY <1>3, <2>2, <1>m DEF CheckTree, OnlyTask
    <3>2. AloneAt(t)'
      BY <3>1, <1>3, <2>2, <1>i, <1>n DEF CheckTree
    <3> QED
      BY <3>1, <3>2, AloneIsEnough
  <2> QED
    BY <1>3, <2>1, <2>2 DEF CheckTree
<1>4. CASE FundTree(t)
  <2>1. CASE Go(t, "createTree") /\ UNCHANGED service
    <3>1. /\ task'[t].at = "createTree" /\ task'[t].row = task[t].row
          /\ OthersIdle(t)'
          /\ UNCHANGED <<settings, made, faults, service>>
      BY <1>4, <2>1, <1>m DEF FundTree, OnlyTask
    <3>2. AloneAt(t)'
      BY <3>1, <1>4, <1>i, <1>n DEF FundTree
    <3> QED
      BY <3>1, <3>2, AloneIsEnough
  <2>2. CASE Settle(t, [service EXCEPT !.initialized = FALSE])
    <3> DEFINE unready == [service EXCEPT !.initialized = FALSE]
    <3>1. unready \in ServiceType /\ unready.tree = service.tree
          /\ ~unready.initialized
      BY <1>a, Fields, ServiceTypes, 0 \in Nat
    <3> HIDE DEF unready
    <3>2. /\ service'.tree = service.tree /\ ~service'.initialized
          /\ task'[t].at = "idle" /\ OthersIdle(t)'
          /\ UNCHANGED <<settings, made, faults>>
      <4>1. Settle(t, unready)
        BY <2>2 DEF unready
      <4>2. service' = [unready EXCEPT !.promise = "settled"]
        BY <4>1 DEF Settle
      <4> QED
        BY <1>4, <4>1, <4>2, <3>1, <1>m, Fields DEF FundTree, OnlyTask
    <3>3. AloneAt(t)'
      BY <3>2, <1>4, <1>i, <1>n DEF FundTree
    <3> QED
      BY <3>2, <3>3, AloneIsEnough
  <2> QED
    BY <1>4, <2>1, <2>2 DEF FundTree
<1>5. CASE CreateTree(t)
  <2>1. /\ task'[t].at = "persistTree" /\ task'[t].row = task[t].row
        /\ OthersIdle(t)'
        /\ service'.tree = made.tree + 1
        /\ service'.promise = service.promise
        /\ service'.initialized = service.initialized
        /\ made'.tree = made.tree + 1 /\ made'.collection = made.collection
        /\ UNCHANGED <<settings, faults>>
    BY <1>5, <1>a, <1>m, Fields DEF CreateTree, NewTree, Addresses
  <2>2. AloneAt(t)'
    BY <2>1, <1>5, <1>i, <1>n DEF CreateTree
  <2> QED
    BY <2>1, <2>2, AloneIsEnough
<1>6. CASE PersistTree(t)
  <2>1. CASE settings' = [settings EXCEPT !.tree = Persisted(t)]
             /\ Go(t, "readCollection") /\ UNCHANGED service
    <3>1. /\ task'[t].at = "readCollection" /\ OthersIdle(t)'
          /\ settings'.tree = service.tree
          /\ settings'.collection = settings.collection
          /\ UNCHANGED <<made, faults, service>>
      BY <1>6, <2>1, <1>a, <1>m DEF PersistTree, Persisted, Addresses
    <3>2. AloneAt(t)'
      BY <3>1, <1>6, <1>i, <1>n DEF PersistTree
    <3> QED
      BY <3>1, <3>2, AloneIsEnough
  <2>2. CASE task[t].row = NoAddress /\ settings.tree # NoAddress
    BY <1>6, <2>2, <1>i DEF PersistTree
  <2> QED
    BY <1>6, <2>1, <2>2 DEF PersistTree
<1>7. CASE ReadCollection(t)
  <2>1. /\ task'[t].at \in {"fundCollection", "checkCollection"}
        /\ OthersIdle(t)' /\ task'[t].row = settings.collection
        /\ task'[t].at = "fundCollection" => settings.collection = NoAddress
        /\ UNCHANGED <<settings, made, faults, service>>
    BY <1>7, <1>m DEF ReadCollection, OnlyTask
  <2>2. AloneAt(t)'
    BY <2>1, <1>7, <1>i, <1>n DEF ReadCollection
  <2> QED
    BY <2>1, <2>2, AloneIsEnough
<1>c. ASSUME NEW f \in ServiceType, Settle(t, Complete(f)),
             f.tree = service.tree, f.collection = settings'.collection,
             settings'.tree = settings.tree,
             Kept("tree"), settings.tree = service.tree, Kept("collection")',
             UNCHANGED <<made, faults>>
      PROVE  InitPart'
  <2>1. Complete(f) \in ServiceType /\ Complete(f).tree = service.tree
        /\ Complete(f).collection = settings'.collection
    BY <1>c, ServiceTypes, Fields, 0 \in Nat
  <2>2. service'.tree = service.tree
        /\ service'.collection = settings'.collection
        /\ task'[t].at = "idle" /\ OthersIdle(t)'
    <3>1. service' = [Complete(f) EXCEPT !.promise = "settled"]
      BY <1>c DEF Settle
    <3> QED
      BY <3>1, <2>1, <1>c, <1>m, Fields
  <2>3. AloneAt(t)'
    BY <2>2, <1>c, <1>i, <1>n
  <2> QED
    BY <2>2, <2>3, AloneIsEnough
<1>8. CASE CheckCollection(t)
  <2>1. CASE Exists("collection", task[t].row)
             /\ Settle(t, Complete([service EXCEPT !.collection = task[t].row]))
    <3> DEFINE f == [service EXCEPT !.collection = task[t].row]
    <3>1. f \in ServiceType /\ f.tree = service.tree /\ f.collection = task[t].row
      <4>1. f \in ServiceType
        BY <1>a, <1>n, ServiceTypes
      <4>2. f.tree = service.tree /\ f.collection = task[t].row
        BY <1>a, Fields
      <4> QED
        BY <4>1, <4>2
    <3> HIDE DEF f
    <3>2. Settle(t, Complete(f))
      BY <2>1 DEF f
    <3>3. /\ settings' = settings /\ UNCHANGED <<made, faults>>
          /\ task[t].row = settings.collection
          /\ Kept("tree") /\ settings.tree = service.tree /\ Kept("collection")'
      BY <1>8, <2>1, <1>i DEF CheckCollection, OnlyTask
    <3> QED
      BY <3>1, <3>2, <3>3, <1>c
  <2>2. CASE ~Exists("collection", task[t].row) /\ Go(t, "fundCollection")
             /\ UNCHANGED service
    <3>1. /\ task'[t].at = "fundCollection" /\ task'[t].row = task[t].row
          /\ OthersIdle(t)'
          /\ UNCHANGED <<settings, made, faults, service>>
      BY <1>8, <2>2, <1>m DEF CheckCollection, OnlyTask
    <3>2. AloneAt(t)'
      BY <3>1, <1>8, <2>2, <1>i, <1>n DEF CheckCollection
    <3> QED
      BY <3>1, <3>2, AloneIsEnough
  <2> QED
    BY <1>8, <2>1, <2>2 DEF CheckCollection
<1>9. CASE FundCollection(t)
  <2>1. CASE Go(t, "createCollection") /\ UNCHANGED service
    <3>1. /\ task'[t].at = "createCollection" /\ task'[t].row = task[t].row
          /\ OthersIdle(t)'
          /\ UNCHANGED <<settings, made, faults, service>>
      BY <1>9, <2>1, <1>m DEF FundCollection, OnlyTask
    <3>2. AloneAt(t)'
      BY <3>1, <1>9, <1>i, <1>n DEF FundCollection
    <3> QED
      BY <3>1, <3>2, AloneIsEnough
  <2>2. CASE Throw(t, service)
    BY <1>9, <2>2, <1>t DEF FundCollection, OnlyTask
  <2> QED
    BY <1>9, <2>1, <2>2 DEF FundCollection
<1>10. CASE CreateCollection(t)
  <2>1. /\ task'[t].at = "upsertCollection" /\ task'[t].row = task[t].row
        /\ OthersIdle(t)'
        /\ service'.collection = made.collection + 1
        /\ service'.tree = service.tree
        /\ service'.promise = service.promise
        /\ service'.initialized = service.initialized
        /\ made'.collection = made.collection + 1 /\ made'.tree = made.tree
        /\ UNCHANGED <<settings, faults>>
    BY <1>10, <1>a, <1>m, Fields DEF CreateCollection, NewCollection, Addresses
  <2>2. AloneAt(t)'
    BY <2>1, <1>10, <1>i, <1>n DEF CreateCollection
  <2> QED
    BY <2>1, <2>2, AloneIsEnough
<1>11. CASE UpsertCollection(t)
  <2>1. settings'.collection = service.collection
        /\ settings'.tree = settings.tree /\ UNCHANGED <<made, faults>>
    BY <1>11, <1>a DEF UpsertCollection, Addresses
  <2>2. CASE Go(t, "updateCollection") /\ UNCHANGED service
    <3>1. task'[t].at = "updateCollection" /\ OthersIdle(t)'
      BY <2>2, <1>m
    <3>2. AloneAt(t)'
      BY <3>1, <2>1, <2>2, <1>11, <1>i, <1>n DEF UpsertCollection
    <3> QED
      BY <3>1, <3>2, AloneIsEnough
  <2>3. CASE Settle(t, Complete(service))
    <3>1. Kept("tree") /\ settings.tree = service.tree /\ Kept("collection")'
      BY <2>1, <1>11, <1>i DEF UpsertCollection
    <3> QED
      BY <2>1, <2>3, <3>1, <1>a, <1>c
  <2> QED
    BY <1>11, <2>2, <2>3 DEF UpsertCollection
<1>12. CASE UpdateCollection(t)
  <2>1. settings'.collection = service.collection
        /\ settings'.tree = settings.tree /\ UNCHANGED <<made, faults>>
    BY <1>12, <1>a DEF UpdateCollection, Addresses
  <2>2. Kept("tree") /\ settings.tree = service.tree /\ Kept("collection")'
    BY <2>1, <1>12, <1>i DEF UpdateCollection
  <2> QED
    BY <1>12, <2>1, <2>2, <1>a, <1>c DEF UpdateCollection
<1> QED
  BY <1>1, <1>2, <1>3, <1>4, <1>5, <1>6, <1>7, <1>8, <1>9, <1>10, <1>11,
     <1>12 DEF Initializing

LEMMA FailuresKeep ==
    ASSUME TypeOK, InitPart, NEW t \in Tasks,
           InitializeFails(t) \/ CheckFails(t) \/ CreateUnheard(t)
    PROVE  InitPart'
<1>a. InitTypesOf /\ made \in Addresses /\ made'\in Addresses
      /\ task \in TaskType
  BY TypesOfInit, FailureTypes DEF InitTypesOf, TypeOK
<1>n. /\ made.tree \in Nat /\ made.collection \in Nat
      /\ made'.tree \in Nat /\ made'.collection \in Nat
  BY <1>a DEF Addresses
<1>f. faults \in Nat /\ faults' = faults + 1
  BY FaultTypes DEF InitializeFails, CheckFails, CreateUnheard
<1>i. OthersIdle(t) /\ AloneAt(t)
  <2>1. Busy(t)
    BY DEF InitializeFails, CheckFails, CreateUnheard, Busy, At
  <2> QED
    BY <2>1, AloneWhileBusy
<1>b. /\ made.tree - Foreign \in 0 .. faults'
      /\ made.collection - Foreign \in 0 .. faults'
  BY <1>f, <1>i DEF AloneAt
<1>1. CASE InitializeFails(t)
  <2>1. Throw(t, service) /\ UNCHANGED <<settings, made>>
    BY <1>1 DEF InitializeFails
  <2> QED
    BY <2>1, <1>a, <1>n, <1>f, <1>i, <1>b, Thrown DEF Foreign
<1>2. CASE CheckFails(t)
  <2>1. PICK step \in {"fundTree", "fundCollection"} :
          /\ Go(t, step)
          /\ task[t].at = (IF step = "fundTree"
                           THEN "checkTree" ELSE "checkCollection")
    BY <1>2 DEF CheckFails, At
  <2>2. /\ task'[t].at = step /\ task'[t].row = task[t].row /\ OthersIdle(t)'
        /\ UNCHANGED <<settings, made, service>>
    BY <1>2, <2>1, <1>a, <1>i, Moves DEF CheckFails
  <2>3. AloneAt(t)'
    BY <2>1, <2>2, <1>b, <1>f, <1>i
    DEF AloneAt, Busy, At, Kept, Exists, BeforeTree, BeforeCollection,
        AfterTree, RestartFindsThem, Foreign
  <2> QED
    BY <2>2, <2>3, AloneIsEnough
<1>3. CASE CreateUnheard(t)
  <2>1. Throw(t, service) /\ UNCHANGED settings
    BY <1>3 DEF CreateUnheard
  <2>2. \/ /\ At(t, "createTree")
           /\ made'.tree = made.tree + 1 /\ made'.collection = made.collection
        \/ /\ At(t, "createCollection")
           /\ made'.collection = made.collection + 1 /\ made'.tree = made.tree
    BY <1>3, <1>a DEF CreateUnheard, NewTree, NewCollection, Addresses
  <2>3. /\ made'.tree - Foreign \in 0 .. faults'
        /\ made'.collection - Foreign \in 0 .. faults'
    BY <2>2, <1>b, <1>f, <1>i, <1>n DEF AloneAt, At, Foreign
  <2>4. made'.tree >= made.tree /\ made'.collection >= made.collection
    BY <2>2, <1>n
  <2> QED
    BY <2>1, <2>3, <2>4, <1>a, <1>n, <1>f, <1>i, Thrown DEF Foreign
<1> QED
  BY <1>1, <1>2, <1>3

LEMMA CrashKeeps ==
    ASSUME TypeOK, InitPart, Crash
    PROVE  InitPart'
<1>1. Timer \in Tasks
  BY NftAssumption DEF NftAssumption
<1>2. /\ OthersIdle(Timer)' /\ task'[Timer].at = "idle"
      /\ service'.tree = NoAddress /\ ~service'.initialized
      /\ UNCHANGED <<settings, made>>
  BY <1>1 DEF Crash, OthersIdle
<1>3. faults \in Nat /\ faults' = faults + 1
  BY FaultTypes DEF Crash
<1>4. /\ made.tree - Foreign \in 0 .. faults'
      /\ made.collection - Foreign \in 0 .. faults'
  BY <1>3 DEF InitPart, Accounted, AccountedFor
<1>5. AloneAt(Timer)'
  BY <1>2, <1>3, <1>4
  DEF AloneAt, Busy, At, BeforeTree, BeforeCollection, AfterTree,
      RestartFindsThem, Foreign
<1> QED
  BY <1>1, <1>2, <1>5, AloneIsEnough

\* Mints, the wallet and stuttering leave the initialization as it is.
LEMMA OthersKeep ==
    ASSUME TypeOK, InitPart, UNCHANGED <<settings, made, service, task>>,
           faults' \in Nat, faults' >= faults
    PROVE  InitPart'
<1>1. faults \in Nat
  BY NftAssumption DEF TypeOK, NftAssumption
<1>2. OneAtATime' /\ RowIsCurrent' /\ InPlace' /\ RestartFindsThem'
  BY DEF InitPart, OneAtATime, RowIsCurrent, InPlace, RestartFindsThem, Busy, At,
     Kept, Exists
<1>3. Accounted'
  BY <1>1 DEF InitPart, Accounted, AccountedFor, Kept, Exists, At, Foreign
<1> QED
  BY <1>2, <1>3 DEF InitPart

-----------------------------------------------------------------------------
(* The mints.                                                               *)

\* What the initialization does is no concern of a mint: its tree stays, and
\* the service never loses the tree it has.
LEMMA InitStepsKeepMints ==
    ASSUME TypeOK, InitPart, MintPart, NEW t \in Tasks,
           \/ Initialize(t) \/ Initializing(t)
           \/ InitializeFails(t) \/ CheckFails(t) \/ CreateUnheard(t)
    PROVE  MintPart'
<1>a. made \in Addresses /\ service \in ServiceType /\ task \in TaskType
      /\ faults \in Nat
  BY TypesOfInit, NftAssumption DEF InitTypesOf, TypeOK, NftAssumption
<1>n. made.tree \in Nat /\ made.collection \in Nat
  BY <1>a DEF Addresses
<1>b. made.tree - Foreign \in 0 .. faults + 1
  BY DEF InitPart, Accounted, AccountedFor
<1>1. UNCHANGED <<leaves, nft, unproven, mint>>
  BY DEF Initialize, Initializing, ReadTree, CheckTree, FundTree, CreateTree,
     PersistTree, ReadCollection, CheckCollection, FundCollection,
     CreateCollection, UpsertCollection, UpdateCollection, InitializeFails,
     CheckFails, CreateUnheard, OnlyTask
<1>2. faults' = faults \/ faults' = faults + 1
  BY DEF Initialize, Initializing, ReadTree, CheckTree, FundTree, CreateTree,
     PersistTree, ReadCollection, CheckCollection, FundCollection,
     CreateCollection, UpsertCollection, UpdateCollection, InitializeFails,
     CheckFails, CreateUnheard, OnlyTask, Fault
<1>3. made'.tree = made.tree \/ made'.tree = made.tree + 1
  <2>1. made' = made \/ NewTree \/ NewCollection
    BY DEF Initialize, Initializing, ReadTree, CheckTree, FundTree, CreateTree,
       PersistTree, ReadCollection, CheckCollection, FundCollection,
       CreateCollection, UpsertCollection, UpdateCollection, InitializeFails,
       CheckFails, CreateUnheard, OnlyTask
  <2> QED
    BY <2>1, <1>a DEF NewTree, NewCollection, Addresses
<1>4. Ready => Ready'
  <2>s. ASSUME NEW f \in ServiceType,
               Settle(t, f) \/ Settle(t, Complete(f)) \/ Throw(t, f)
        PROVE  service'.tree = f.tree
    <3>1. Complete(f) \in ServiceType /\ Complete(f).tree = f.tree
          /\ Caught(f).tree = f.tree
      BY ServiceTypes, Fields, 0 \in Nat
    <3>2. \A g \in ServiceType : [g EXCEPT !.promise = "settled"].tree = g.tree
      BY Fields
    <3>3. \/ service' = [f EXCEPT !.promise = "settled"]
          \/ service' = [Complete(f) EXCEPT !.promise = "settled"]
          \/ service' = Caught(f)
      BY <2>s DEF Settle, Throw
    <3> QED
      BY <3>1, <3>2, <3>3
  <2>1. CASE CheckTree(t)
    <3>1. \/ UNCHANGED service
          \/ /\ service' = [service EXCEPT !.tree = task[t].row]
             /\ task[t].row \in FirstMade .. made.tree
      BY <2>1 DEF CheckTree, Exists
    <3>2. service'.tree = service.tree \/ service'.tree >= FirstMade
      <4>1. [service EXCEPT !.tree = task[t].row].tree = task[t].row
        BY <1>a, Fields
      <4>2. CASE UNCHANGED service
        BY <4>2
      <4>3. CASE service' = [service EXCEPT !.tree = task[t].row]
                 /\ task[t].row \in FirstMade .. made.tree
        <5>1. service'.tree = task[t].row
          BY <4>1, <4>3
        <5>2. service'.tree \in 2 .. made.tree
          BY <4>3, <5>1 DEF FirstMade
        <5> QED
          BY <5>2, <1>n DEF FirstMade
      <4> QED
        BY <3>1, <4>2, <4>3
    <3> QED
      BY <3>2 DEF Ready, FirstMade, NoAddress
  <2>2. CASE CreateTree(t)
    <3>1. service'.tree = made.tree + 1
      BY <2>2, <1>a, Fields DEF CreateTree
    <3> QED
      BY <3>1, <1>n DEF Ready, NoAddress
  <2>3. CASE FundTree(t)
    <3>1. [service EXCEPT !.initialized = FALSE] \in ServiceType
          /\ [service EXCEPT !.initialized = FALSE].tree = service.tree
      BY <1>a, Fields, ServiceTypes, 0 \in Nat
    <3> QED
      BY <2>3, <2>s, <3>1 DEF FundTree, Ready
  <2>4. CASE CheckCollection(t)
    <3>1. ASSUME Settle(t, Complete([service EXCEPT !.collection = task[t].row]))
          PROVE  service'.tree = service.tree
      <4>1. [service EXCEPT !.collection = task[t].row] \in ServiceType
        BY <1>a, ServiceTypes, TaskTypes
      <4>2. [service EXCEPT !.collection = task[t].row].tree = service.tree
        BY <1>a, Fields
      <4> QED
        BY <3>1, <4>1, <4>2, <2>s
    <3> QED
      BY <2>4, <3>1 DEF CheckCollection, Ready
  <2>5. CASE Initialize(t)
    BY <2>5, <1>a, Fields DEF Initialize, Ready
  <2>6. CASE CreateCollection(t)
    BY <2>6, <1>a, Fields DEF CreateCollection, Ready
  <2>7. CASE \/ PersistTree(t) \/ FundCollection(t) \/ UpsertCollection(t)
             \/ UpdateCollection(t) \/ InitializeFails(t) \/ CreateUnheard(t)
    BY <2>7, <2>s, <1>a
    DEF PersistTree, FundCollection, UpsertCollection, UpdateCollection,
        InitializeFails, CreateUnheard, Ready
  <2>8. CASE ReadTree(t) \/ ReadCollection(t) \/ CheckFails(t)
    BY <2>8 DEF ReadTree, ReadCollection, CheckFails, Ready
  <2> QED
    BY <2>1, <2>2, <2>3, <2>4, <2>5, <2>6, <2>7, <2>8 DEF Initializing
<1>5. \A a : Exists("tree", a) => Exists("tree", a)'
  BY <1>3, <1>n DEF Exists, FirstMade
<1>6. made'.tree <= FirstMade => made.tree <= FirstMade
  BY <1>3, <1>n DEF FirstMade
<1>9. LeavesAreInTrees'
  BY <1>1, <1>5 DEF MintPart, LeavesAreInTrees
<1>7. MintedForIt'
  BY <1>1, <1>4, <1>5, <1>6 DEF MintPart, MintedForIt, MintAt
<1>8. RecordedIsItsOwn'
  BY <1>1, <1>6 DEF MintPart, RecordedIsItsOwn
<1> QED
  BY <1>7, <1>8, <1>9 DEF MintPart

\* A request has only to answer for itself, and for what it records.
OwnLeaf(m) == [tree |-> m.tree, leaf |-> m.leaf, invoice |-> m.invoice]

MintedFor(r) ==
    /\ mint[r].at \in ServerSteps \union {"send"} => Ready
    /\ MintAt(r, "sign") => ~mint[r].server
    /\ mint[r].at \notin {"idle", "build", "done"} =>
         Exists("tree", mint[r].tree)
    /\ (/\ made.tree <= FirstMade
        /\ mint[r].invoice \notin unproven
        /\ mint[r].at \in {"ask", "readLeaf", "derive", "record"}) =>
         OwnLeaf(mint[r]) \in leaves

LEMMA MintKeepsOthers ==
    ASSUME MintPart, NEW r \in Requests, leaves \subseteq leaves',
           UNCHANGED <<made, service>>,
           \A l \in leaves' : Exists("tree", l.tree),
           \A q \in Requests \ {r} : mint'[q] = mint[q],
           unproven \subseteq unproven', MintedFor(r)', nft' = nft
    PROVE  MintPart'
<1>1. \A q \in Requests : q # r => MintedFor(q)'
  BY DEF MintPart, MintedForIt, MintedFor, OwnLeaf, Ready, Exists, MintAt
<1>2. MintedForIt'
  BY <1>1 DEF MintedForIt, MintedFor, OwnLeaf, MintAt
<1>3. RecordedIsItsOwn'
  BY DEF MintPart, RecordedIsItsOwn
<1>4. LeavesAreInTrees'
  BY DEF LeavesAreInTrees, Exists
<1> QED
  BY <1>2, <1>3, <1>4 DEF MintPart

LEMMA MintingKeepsMints ==
    ASSUME TypeOK, InitPart, MintPart, NEW r \in Requests, Minting(r)
    PROVE  MintPart'
<1>a. /\ mint \in [Requests -> Mint] /\ mint[r] \in Mint
      /\ nft \in [Invoices -> [tree : Nat, leaf : Nat] \union {NoNft}]
      /\ made \in Addresses /\ service \in ServiceType
      /\ leaves \subseteq Leaf
  BY TypesOfInit DEF TypeOK, InitTypesOf
<1>b. UNCHANGED <<made, service, faults>>
  BY DEF Minting, MintRead, MintBuild, MintLands, PageLapses, ConfirmMint,
     ReadLeaf, NoLogs, DeriveAssetId, RecordMint, OnlyMint
<1>c. MintedFor(r)
  BY DEF MintPart, MintedForIt, MintedFor, OwnLeaf
<1>d. Ready => Exists("tree", service.tree)
  BY DEF InitPart, InPlace, Ready
<1>l. \A l \in leaves : Exists("tree", l.tree)
  BY DEF MintPart, LeavesAreInTrees
<1>u. ASSUME UNCHANGED leaves
      PROVE  \A l \in leaves' : Exists("tree", l.tree)
  BY <1>u, <1>l
<1>e. ASSUME NEW m, mint' = [mint EXCEPT ![r] = m]
      PROVE  mint'[r] = m /\ \A q \in Requests \ {r} : mint'[q] = mint[q]
  BY <1>e, <1>a
<1> USE DEF MintAt, MintGo, OnlyMint, MintedFor, ServerSteps, OwnLeaf
<1>1. CASE MintRead(r)
  <2>1. PICK server \in BOOLEAN :
          mint' = [mint EXCEPT ![r].at = "build", ![r].server = server]
    BY <1>1 DEF MintRead
  <2>2. mint'[r].at = "build" /\ \A q \in Requests \ {r} : mint'[q] = mint[q]
    BY <2>1, <1>a DEF Mint
  <2>3. Ready /\ UNCHANGED <<leaves, nft, unproven>>
    BY <1>1 DEF MintRead
  <2>4. MintedFor(r)'
    BY <2>2, <2>3, <1>b DEF Ready
  <2> QED
    BY <2>2, <2>3, <2>4, <1>b, <1>u, MintKeepsOthers
<1>2. CASE MintBuild(r)
  <2>1. /\ mint'[r].tree = service.tree
        /\ mint'[r].at = (IF mint[r].server THEN "send" ELSE "sign")
        /\ mint'[r].server = mint[r].server
        /\ \A q \in Requests \ {r} : mint'[q] = mint[q]
    BY <1>2, <1>a DEF MintBuild, Mint
  <2>2. Ready /\ UNCHANGED <<leaves, nft, unproven>>
    BY <1>2, <1>c DEF MintBuild
  <2>3. MintedFor(r)'
    BY <2>1, <2>2, <1>b, <1>d DEF Ready, Exists
  <2> QED
    BY <2>1, <2>2, <2>3, <1>b, <1>u, MintKeepsOthers
<1>3. CASE MintLands(r)
  <2>1. /\ mint'[r].at = (IF mint[r].server THEN "readLeaf" ELSE "ask")
        /\ mint'[r].tree = mint[r].tree /\ mint'[r].invoice = mint[r].invoice
        /\ mint'[r].leaf = NextLeaf(mint[r].tree)
        /\ \A q \in Requests \ {r} : mint'[q] = mint[q]
    BY <1>3, <1>a DEF MintLands, Mint
  <2>2. /\ leaves' = leaves \union {OwnLeaf(mint'[r])}
        /\ UNCHANGED <<nft, unproven>>
    BY <1>3, <2>1 DEF MintLands, Lands
  <2>3. Exists("tree", mint[r].tree)
    BY <1>3, <1>c DEF MintLands
  <2>4. mint'[r].at = "readLeaf" => Ready
    BY <1>3, <1>c, <2>1 DEF MintLands
  <2>5. MintedFor(r)'
    BY <2>1, <2>2, <2>3, <2>4, <1>b DEF Ready, Exists
  <2>6. \A l \in leaves' : Exists("tree", l.tree)
    BY <2>1, <2>2, <2>3, <1>l
  <2> QED
    BY <2>1, <2>2, <2>5, <2>6, <1>b, MintKeepsOthers
<1>4. CASE PageLapses(r)
  <2>1. /\ mint'[r].at = "done"
        /\ \A q \in Requests \ {r} : mint'[q] = mint[q]
        /\ UNCHANGED <<leaves, nft, unproven>>
    BY <1>4, <1>a DEF PageLapses, Mint
  <2>2. MintedFor(r)'
    BY <2>1
  <2> QED
    BY <2>1, <2>2, <1>b, <1>u, MintKeepsOthers
<1>5. CASE ConfirmMint(r)
  <2>1. Ready /\ UNCHANGED <<leaves, nft>>
    BY <1>5 DEF ConfirmMint
  <2>2. ASSUME NEW i \in Invoices, NEW tree, NEW leaf,
               Confirming(r, i, tree, leaf), Exists("tree", tree),
               unproven \subseteq unproven',
               i \notin unproven' =>
                 [tree |-> tree, leaf |-> leaf, invoice |-> i] \in leaves
        PROVE  MintPart'
    <3>1. /\ mint'[r] = [at |-> "readLeaf", server |-> FALSE, invoice |-> i,
                         tree |-> tree, leaf |-> leaf]
          /\ \A q \in Requests \ {r} : mint'[q] = mint[q]
      BY <2>2, <1>e DEF Confirming
    <3>2. /\ mint'[r].at = "readLeaf" /\ mint'[r].tree = tree
          /\ mint'[r].leaf = leaf /\ mint'[r].invoice = i
      BY <3>1
    <3>3. MintedFor(r)'
      BY <2>1, <2>2, <3>2, <1>b DEF Ready, Exists
    <3> QED
      BY <2>1, <2>2, <3>1, <3>3, <1>b, <1>u, MintKeepsOthers
  <2>3. PICK i \in Invoices :
          \/ \E l \in leaves :
               /\ Confirming(r, i, l.tree, l.leaf)
               /\ unproven' = IF l.invoice = i THEN unproven
                                             ELSE unproven \union {i}
          \/ /\ Confirming(r, i, service.tree, 0)
             /\ unproven' = unproven \union {i}
    BY <1>5 DEF ConfirmMint
  <2>4. CASE Confirming(r, i, service.tree, 0) /\ unproven' = unproven \union {i}
    BY <2>1, <2>2, <2>4, <1>d
  <2>5. ASSUME NEW l \in leaves, Confirming(r, i, l.tree, l.leaf),
               unproven' = IF l.invoice = i THEN unproven
                                            ELSE unproven \union {i}
        PROVE  MintPart'
    <3>1. l = [tree |-> l.tree, leaf |-> l.leaf, invoice |-> l.invoice]
      BY <1>a DEF Leaf
    <3>2. i \notin unproven' =>
            [tree |-> l.tree, leaf |-> l.leaf, invoice |-> i] \in leaves
      BY <2>5, <3>1
    <3>3. Exists("tree", l.tree) /\ unproven \subseteq unproven'
      BY <2>5, <1>l
    <3> QED
      BY <2>2, <2>5, <3>2, <3>3
  <2> QED
    BY <2>3, <2>4, <2>5
<1>6. CASE ReadLeaf(r)
  <2>1. /\ mint'[r] = [mint[r] EXCEPT !.leaf = mint[r].leaf, !.at = "derive"]
        /\ \A q \in Requests \ {r} : mint'[q] = mint[q]
        /\ UNCHANGED <<leaves, nft, unproven>> /\ mint[r].at = "readLeaf"
    BY <1>6, <1>a DEF ReadLeaf, LeafOf
  <2>2. /\ mint'[r].at = "derive" /\ mint'[r].tree = mint[r].tree
        /\ OwnLeaf(mint'[r]) = OwnLeaf(mint[r])
    BY <2>1, <1>a DEF Mint
  <2>3. MintedFor(r)'
    BY <2>1, <2>2, <1>b, <1>c DEF Ready, Exists
  <2> QED
    BY <2>1, <2>3, <1>b, <1>u, MintKeepsOthers
<1>7. CASE DeriveAssetId(r)
  <2>1. /\ mint'[r] = [mint[r] EXCEPT !.tree = service.tree, !.at = "record"]
        /\ \A q \in Requests \ {r} : mint'[q] = mint[q]
        /\ UNCHANGED <<leaves, nft, unproven>> /\ mint[r].at = "derive"
    BY <1>7, <1>a DEF DeriveAssetId
  <2>2. mint'[r].at = "record" /\ mint'[r].tree = service.tree
    BY <2>1, <1>a DEF Mint
  <2>3. Ready /\ Exists("tree", service.tree) /\ Exists("tree", mint[r].tree)
    BY <2>1, <1>c, <1>d
  <2>4. made.tree <= FirstMade => OwnLeaf(mint'[r]) = OwnLeaf(mint[r])
    <3>1. ASSUME made.tree <= FirstMade PROVE service.tree = mint[r].tree
      BY <3>1, <2>3, <1>a DEF Exists, FirstMade, Addresses
    <3> QED
      BY <3>1, <2>1, <1>a DEF Mint
  <2>5. MintedFor(r)'
    BY <2>1, <2>2, <2>3, <2>4, <1>b, <1>c DEF Ready, Exists
  <2> QED
    BY <2>1, <2>5, <1>b, <1>u, MintKeepsOthers
<1>8. CASE RecordMint(r)
  <2> DEFINE i == mint[r].invoice
  <2>1. /\ mint'[r].at = "done"
        /\ \A q \in Requests \ {r} : mint'[q] = mint[q]
        /\ UNCHANGED <<leaves, unproven>> /\ mint[r].at = "record"
        /\ nft' = [nft EXCEPT ![i] =
                     [tree |-> mint[r].tree, leaf |-> mint[r].leaf]]
    BY <1>8, <1>a DEF RecordMint, Mint
  <2>2. MintedForIt'
    BY <2>1, <1>b DEF MintPart, MintedForIt, Ready, Exists
  <2>3. RecordedIsItsOwn'
    <3>1. i \in Invoices
      BY <1>a DEF Mint
    <3>2. /\ nft'[i] = [tree |-> mint[r].tree, leaf |-> mint[r].leaf]
          /\ \A j \in Invoices : j # i => nft'[j] = nft[j]
      BY <2>1, <3>1, <1>a
    <3>3. /\ nft'[i].tree = mint[r].tree /\ nft'[i].leaf = mint[r].leaf
      BY <3>2
    <3>4. made.tree <= FirstMade /\ i \notin unproven =>
            [tree |-> nft'[i].tree, leaf |-> nft'[i].leaf, invoice |-> i]
              \in leaves
      BY <2>1, <3>3, <1>c
    <3> HIDE DEF i
    <3> QED
      BY <2>1, <3>2, <3>4, <1>b DEF MintPart, RecordedIsItsOwn
  <2>4. LeavesAreInTrees'
    BY <2>1, <1>b DEF MintPart, LeavesAreInTrees, Exists
  <2> QED
    BY <2>2, <2>3, <2>4 DEF MintPart
<1>9. CASE NoLogs(r)
  <2>1. /\ mint'[r] = [mint[r] EXCEPT !.leaf = 0, !.at = "derive"]
        /\ \A q \in Requests \ {r} : mint'[q] = mint[q]
        /\ UNCHANGED <<leaves, nft>> /\ mint[r].at = "readLeaf"
        /\ unproven' = unproven \union {mint[r].invoice}
    BY <1>9, <1>a DEF NoLogs
  <2>2. /\ mint'[r].at = "derive" /\ mint'[r].tree = mint[r].tree
        /\ mint'[r].invoice = mint[r].invoice
    BY <2>1, <1>a DEF Mint
  <2>3. MintedFor(r)'
    BY <2>1, <2>2, <1>b, <1>c DEF Ready, Exists
  <2> QED
    BY <2>1, <2>3, <1>b, <1>u, MintKeepsOthers
<1> QED
  BY <1>1, <1>2, <1>3, <1>4, <1>5, <1>6, <1>7, <1>8, <1>9 DEF Minting

LEMMA FailuresKeepMints ==
    ASSUME TypeOK, MintPart, NEW r \in Requests,
           MintUnheard(r) \/ MintFails(r)
    PROVE  MintPart'
<1>a. /\ mint \in [Requests -> Mint] /\ mint[r] \in Mint
  BY DEF TypeOK
<1>b. UNCHANGED <<made, service, nft, unproven>> /\ leaves \subseteq leaves'
  BY DEF MintUnheard, MintFails, OnlyMint, Lands
<1>c. MintedFor(r)
  BY DEF MintPart, MintedForIt, MintedFor, OwnLeaf, MintAt
<1>1. /\ mint' = mint \/ mint'[r].at = "done"
      /\ \A q \in Requests \ {r} : mint'[q] = mint[q]
  BY <1>a DEF MintUnheard, MintFails, MintGo, Mint
<1>2. MintedFor(r)'
  BY <1>1, <1>b, <1>c DEF MintedFor, MintAt, ServerSteps, Ready, Exists
<1>3. \A l \in leaves' : Exists("tree", l.tree)
  <2>1. CASE MintUnheard(r)
    BY <2>1, <1>c DEF MintUnheard, Lands, MintedFor, MintAt, MintPart,
       LeavesAreInTrees
  <2>2. CASE MintFails(r)
    BY <2>2 DEF MintFails, MintPart, LeavesAreInTrees
  <2> QED
    BY <2>1, <2>2
<1> QED
  BY <1>1, <1>2, <1>3, <1>b, MintKeepsOthers

LEMMA CrashKeepsMints ==
    ASSUME TypeOK, MintPart, Crash
    PROVE  MintPart'
<1>1. UNCHANGED <<made, leaves, nft, unproven>>
  BY DEF Crash
<1>2. \A r \in Requests :
        \/ /\ mint'[r].at = "done"
        \/ /\ mint'[r] = mint[r]
           /\ mint[r].at \notin ServerSteps \union {"send"}
  BY DEF Crash, TypeOK, Mint
<1>3. MintedForIt'
  BY <1>1, <1>2
  DEF MintPart, MintedForIt, MintAt, Exists, ServerSteps
<1>4. LeavesAreInTrees' /\ RecordedIsItsOwn'
  BY <1>1 DEF MintPart, LeavesAreInTrees, RecordedIsItsOwn, Exists
<1> QED
  BY <1>3, <1>4 DEF MintPart

-----------------------------------------------------------------------------
(* The inductive invariant and what follows from it.                        *)

LEMMA CreatedOnceFollows == TypeOK /\ InitPart => CreatedOnce
BY NftAssumption DEF TypeOK, InitPart, Accounted, AccountedFor, CreatedOnce,
   Addresses, Foreign, FirstMade, NftAssumption

LEMMA CreatedOnceKept == TypeOK' /\ InitPart' => CreatedOnce'
BY NftAssumption DEF TypeOK, InitPart, Accounted, AccountedFor, CreatedOnce,
   Addresses, Foreign, FirstMade, NftAssumption

LEMMA InvParts == NftInv <=> TypeOK /\ InitPart /\ MintPart
BY CreatedOnceFollows DEF NftInv, InitPart, MintPart

LEMMA InvInit == Init => NftInv
<1> SUFFICES ASSUME Init PROVE NftInv
  OBVIOUS
<1>1. TypeOK
  BY InitTypes
<1>2. \A t \in Tasks : task[t].at = "idle"
  BY DEF Init
<1>3. made.tree = Foreign /\ made.collection = Foreign /\ faults = 0
      /\ service.tree = NoAddress /\ ~service.initialized
  BY DEF Init
<1>4. OneAtATime /\ RowIsCurrent /\ InPlace
  BY <1>2, <1>3 DEF OneAtATime, RowIsCurrent, InPlace, Busy, At, BeforeTree,
     BeforeCollection, AfterTree
<1>5. Accounted /\ RestartFindsThem
  BY <1>2, <1>3 DEF Accounted, AccountedFor, RestartFindsThem, Foreign
<1>6. \A r \in Requests : mint[r].at = "idle"
  BY DEF Init
<1>7. MintedForIt
  BY <1>6 DEF MintedForIt, MintAt, ServerSteps
<1>8. RecordedIsItsOwn /\ LeavesAreInTrees
  BY DEF Init, RecordedIsItsOwn, LeavesAreInTrees
<1> QED
  BY <1>1, <1>4, <1>5, <1>7, <1>8, InvParts DEF InitPart, MintPart

LEMMA InvNext == NftInv /\ [Next]_vars => NftInv'
<1> SUFFICES ASSUME TypeOK, InitPart, MintPart, [Next]_vars
             PROVE  InitPart' /\ MintPart'
  BY NextTypes, CreatedOnceKept, InvParts
  DEF NftInv, InitPart, MintPart
<1>n. faults \in Nat
  BY NftAssumption DEF TypeOK, NftAssumption
<1>1. ASSUME NEW t \in Tasks, Initialize(t) \/ Initializing(t)
      PROVE  InitPart' /\ MintPart'
  BY <1>1, InitializingKeeps, InitStepsKeepMints
<1>2. ASSUME NEW t \in Tasks,
             InitializeFails(t) \/ CheckFails(t) \/ CreateUnheard(t)
      PROVE  InitPart' /\ MintPart'
  BY <1>2, FailuresKeep, InitStepsKeepMints
<1>3. ASSUME NEW r \in Requests, Minting(r)
      PROVE  InitPart' /\ MintPart'
  <2>1. UNCHANGED <<settings, made, service, task, faults>>
    BY <1>3 DEF Minting, MintRead, MintBuild, MintLands, PageLapses,
       ConfirmMint, ReadLeaf, NoLogs, DeriveAssetId, RecordMint, OnlyMint
  <2> QED
    BY <1>3, <2>1, <1>n, OthersKeep, MintingKeepsMints
<1>4. ASSUME NEW r \in Requests,
             MintUnheard(r) \/ MintFails(r)
      PROVE  InitPart' /\ MintPart'
  <2>1. UNCHANGED <<settings, made, service, task>>
    BY <1>4 DEF MintUnheard, MintFails, OnlyMint
  <2>2. faults' \in Nat /\ faults' >= faults
    BY <1>4, FaultTypes DEF MintUnheard, MintFails
  <2> QED
    BY <1>4, <2>1, <2>2, OthersKeep, FailuresKeepMints
<1>5. CASE Crash
  BY <1>5, CrashKeeps, CrashKeepsMints
<1>6. CASE Fund \/ UNCHANGED vars
  <2>1. UNCHANGED <<settings, made, service, task, leaves, nft, unproven, mint,
                   faults>>
    BY <1>6 DEF Fund, vars
  <2>2. MintPart'
    BY <2>1 DEF MintPart, LeavesAreInTrees, MintedForIt, RecordedIsItsOwn,
       MintAt, Ready, Exists
  <2> QED
    BY <2>1, <2>2, <1>n, OthersKeep
<1> QED
  BY <1>1, <1>2, <1>3, <1>4, <1>5, <1>6 DEF Next

LEMMA Invariance == Spec => []NftInv
<1>1. Init => NftInv
  BY InvInit
<1>2. NftInv /\ [Next]_vars => NftInv'
  BY InvNext
<1> QED
  BY <1>1, <1>2, PTL DEF Spec

\* The types of NftService, for every number of tasks, requests and faults.
THEOREM NftTypes == Spec => []TypeOK
<1>1. NftInv => TypeOK
  BY DEF NftInv
<1> QED
  BY <1>1, Invariance, PTL

\* initialize() and doInitialize(): whoever calls them, a tree or a collection
\* is created a second time only where a call failed or the process stopped.
THEOREM TreeAndCollectionCreatedOnce == Spec => []CreatedOnce
<1>1. NftInv => CreatedOnce
  BY DEF NftInv
<1> QED
  BY <1>1, Invariance, PTL

\* doInitialize() and system_settings: the process that follows one that has
\* initialized goes on with the same tree and collection.
THEOREM RestartsFindTheTree == Spec => []RestartFindsThem
<1>1. NftInv => RestartFindsThem
  BY DEF NftInv
<1> QED
  BY <1>1, Invariance, PTL

\* mintInvoiceNFT(), confirm-mint and deriveAssetId(): the NFT recorded for an
\* invoice was minted for it, whatever fails and however many mints land in
\* between, unless a confirmation of the invoice did not show its mint or the
\* server has made a second tree.
THEOREM NftsAreRecordedForTheirInvoice == Spec => []RecordedIsItsOwn
<1>1. NftInv => RecordedIsItsOwn
  BY DEF NftInv
<1> QED
  BY <1>1, Invariance, PTL
=============================================================================
