------------------------------ MODULE NodeProofs ------------------------------
(***************************************************************************)
(* Safety of Node and of Migrations, for every version of the database,    *)
(* every number of starts and of faults, and every choice of late requests;*)
(* and of the shutdown that ends a start, as Pool has it.                  *)
(***************************************************************************)
EXTENDS Node, PoolState, FiniteSetTheorems, WellFoundedInduction, TLAPS

\* The scripts that create the tables other scripts change.
Tables == {1, 4, 9}

\* A script is executed when exactly those before it are recorded.
InOrder ==
    /\ \A v \in recorded : 1..v \subseteq recorded
    /\ db = "migrating" => recorded = 1..(at[1] - 1)

\* What a script that has not been cut short has executed, and what the scripts
\* recorded have left behind.
Executed ==
    /\ db = "migrating" /\ (~AtEnd \/ at[1] \in Tables) =>
         \A j \in 1..(at[2] - 1) : j <= Len(Script[at[1]]) => <<at[1], j>> \in done
    /\ \A v \in Tables \cap recorded : Statements(v) \subseteq done

Running == {"up", "stopping", "deleted"}

\* Calls and the relogin belong to a process that has come up.
Phases ==
    /\ phase # "down" => starts > 0
    /\ phase \in Running \cup {"made"} => id \in ID
    /\ phase \notin Running => relogin = "no" /\ \A c \in Caller : pc[c] = "idle"

IInv ==
    /\ TypeOK
    /\ InOrder
    /\ Executed
    /\ OpensAgain
    /\ Phases

\* The application's node uses the endpoint ID in its database, and saves a new one
\* before it registers, unless a failure of the database has been passed over.
OneEndpoint == ~unheeded =>
    /\ phase = "made" => peerID \in {0, id}
    /\ phase \in Running => peerID = id
    /\ \A r \in late : r[1] = "register" => r[2] = peerID

-----------------------------------------------------------------------------
(* The scripts.                                                            *)

LEMMA TwelveScripts == Len(Script) = 12 /\ Version = 1..12
  BY DEF Script, Version

\* What is known of script v.
Sound(v) ==
    /\ Len(Script[v]) \in 1..4
    /\ v \in Tables => \A i \in 1..Len(Script[v]) : Script[v][i][1] # "alter"
    /\ \A i \in 1..Len(Script[v]) : \A d \in Script[v][i][2] :
          \/ d \in {<<v, j>> : j \in 1..(i - 1)}
          \/ \E u \in Tables : u < v /\ d \in Statements(u)

LEMMA TableScripts ==
    /\ Statements(1) = {<<1, 1>>, <<1, 2>>, <<1, 3>>, <<1, 4>>}
    /\ Statements(4) = {<<4, 1>>, <<4, 2>>}
    /\ Statements(9) = {<<9, 1>>}
<1>1. Len(Script[1]) = 4  BY DEF Script, Create
<1>2. Len(Script[4]) = 2  BY DEF Script, Create
<1>3. Len(Script[9]) = 1  BY DEF Script, Create
<1> QED  BY <1>1, <1>2, <1>3 DEF Statements

LEMMA SoundScripts == \A v \in Version : Sound(v)
<1>1. Sound(1)
  <2>1. Script[1] = <<Create, Create, Create, Create>>  BY DEF Script
  <2> QED  BY <2>1 DEF Sound, Create
<1>2. Sound(2)
  <2>1. Script[2] = <<AlterOf(<<1, 1>>), AlterOf(<<1, 1>>), AlterOf(<<1, 4>>)>>  BY DEF Script
  <2> QED  BY <2>1, TableScripts DEF Sound, AlterOf, Tables
<1>3. Sound(3)
  <2>1. Script[3] = <<Create>>  BY DEF Script
  <2> QED  BY <2>1 DEF Sound, Create
<1>4. Sound(4)
  <2>1. Script[4] = <<Create, Create>>  BY DEF Script
  <2> QED  BY <2>1 DEF Sound, Create
<1>5. Sound(5)
  <2>1. Script[5] = <<Create>>  BY DEF Script
  <2> QED  BY <2>1 DEF Sound, Create
<1>6. Sound(6)
  <2>1. Script[6] = <<AlterOf(<<1, 2>>)>>  BY DEF Script
  <2> QED  BY <2>1, TableScripts DEF Sound, AlterOf, Tables
<1>7. Sound(7)
  <2>1. Script[7] = <<IndexOf(<<1, 3>>), IndexOf(<<1, 3>>)>>  BY DEF Script
  <2> QED  BY <2>1, TableScripts DEF Sound, IndexOf, Tables
<1>8. Sound(8)
  <2>1. Script[8] = <<UpdateOf({<<1, 3>>})>>  BY DEF Script
  <2> QED  BY <2>1, TableScripts DEF Sound, UpdateOf, Tables
<1>9. Sound(9)
  <2>1. Script[9] = <<Create>>  BY DEF Script
  <2> QED  BY <2>1 DEF Sound, Create
<1>10. Sound(10)
  <2>1. Script[10] = <<Create, AlterOf(<<1, 3>>), UpdateOf({<<10, 2>>}), IndexOf(<<10, 2>>)>>
    BY DEF Script
  <2> QED  BY <2>1, TableScripts DEF Sound, Create, AlterOf, UpdateOf, IndexOf, Tables
<1>11. Sound(11)
  <2>1. Script[11] = <<AlterOf(<<1, 4>>), UpdateOf({<<1, 4>>}), UpdateOf({<<4, 1>>})>>
    BY DEF Script
  <2> QED  BY <2>1, TableScripts DEF Sound, AlterOf, UpdateOf, Tables
<1>12. Sound(12)
  <2>1. Script[12] = <<AlterOf(<<9, 1>>), AlterOf(<<9, 1>>), AlterOf(<<9, 1>>),
                       UpdateOf({<<12, 2>>, <<12, 3>>})>>
    BY DEF Script
  <2> QED  BY <2>1, TableScripts DEF Sound, AlterOf, UpdateOf, Tables
<1> QED
  BY <1>1, <1>2, <1>3, <1>4, <1>5, <1>6, <1>7, <1>8, <1>9, <1>10, <1>11, <1>12,
     TwelveScripts

-----------------------------------------------------------------------------
(* Opening the database.                                                   *)

\* All that a step of the node does to the database's migrations.
LEMMA StoreStep ==
    [Next]_vars => OpenStore \/ Exec \/ Record \/ CloseStore \/ UNCHANGED dbVars
<1> SUFFICES ASSUME [Next]_vars
             PROVE  OpenStore \/ Exec \/ Record \/ CloseStore \/ UNCHANGED dbVars
  OBVIOUS
<1>1. CASE Open  BY <1>1 DEF Open
<1>2. CASE Migrate  BY <1>2 DEF Migrate
<1>3. CASE New \/ CreateMessenger  BY <1>3 DEF New, CreateMessenger
<1>4. ASSUME NEW c \in Caller, RegisterStep(c) PROVE UNCHANGED dbVars
  BY <1>4 DEF RegisterStep, Register, Lock, Refresh, Registered, RequestFails,
     RegisterStoredGroupPeers
<1>5. CASE HeartbeatLoop \/ GroupRefreshLoop \/ CreateGroupChat
  BY <1>5 DEF HeartbeatLoop, GroupRefreshLoop, CreateGroupChat
<1>6. CASE UseKeys \/ UseName \/ SaveAppConfig
  BY <1>6 DEF UseKeys, UseName, SaveAppConfig
<1>7. CASE Cancel \/ Delete \/ Forget \/ LateRequest
  BY <1>7 DEF Cancel, Delete, Forget, LateRequest
<1>8. CASE Shutdown \/ Crash  BY <1>8 DEF Shutdown, Crash, Gone
<1>9. CASE UNCHANGED vars  BY <1>9 DEF vars
<1> QED
  BY <1>1, <1>2, <1>3, <1>4, <1>5, <1>6, <1>7, <1>8, <1>9 DEF Next

Store == MigrationsTypeOK /\ InOrder /\ Executed /\ OpensAgain

LEMMA StoreInit == Init => Store
<1> SUFFICES ASSUME Init PROVE Store  OBVIOUS
<1>1. PICK n \in Installed : recorded = 1..n /\ done = UNION {Statements(v) : v \in 1..n}
  BY DEF Init, MigrationsInit
<1>2. n \in 0..12 /\ Version = 1..12  BY TwelveScripts, MigrationsAssumption
<1>3. 1..n \subseteq Version  BY <1>2
<1>4. db = "down" /\ at = <<1, 1>>  BY DEF Init, MigrationsInit
<1>5. MigrationsTypeOK
  BY <1>1, <1>2, <1>3, <1>4 DEF MigrationsTypeOK
<1>6. InOrder  BY <1>1, <1>2, <1>4 DEF InOrder
<1>7. Executed  BY <1>1, <1>4 DEF Executed
<1> QED  BY <1>4, <1>5, <1>6, <1>7 DEF Store, OpensAgain

\* The statement to execute finds the tables and columns it needs.
LEMMA NothingMissing ==
    ASSUME Store, db = "migrating", ~AtEnd
    PROVE  /\ at \in Statements(at[1]) /\ at[1] \in 1..12 /\ at[2] \in 1..4
           /\ ~NoSuchColumn
           /\ at[1] \in Tables => ~Duplicate
<1> DEFINE v == at[1]
           i == at[2]
<1>1. v \in 1..12 /\ i \in 1..5 /\ at = <<v, i>> /\ Sound(v)
  BY TwelveScripts, SoundScripts DEF Store, MigrationsTypeOK
<1>2. i \in 1..Len(Script[v]) /\ Len(Script[v]) \in 1..4
  BY <1>1 DEF AtEnd, Sound
<1>3. at \in Statements(v)  BY <1>1, <1>2 DEF Statements
<1>4. \A j \in 1..(i - 1) : <<v, j>> \in done
  BY <1>1, <1>2 DEF Store, Executed
<1>5. \A u \in Tables : u < v => Statements(u) \subseteq done
  BY <1>1 DEF Store, Executed, InOrder, Tables
<1>6. \A d \in Script[v][i][2] : d \in done
  <2> SUFFICES ASSUME NEW d \in Script[v][i][2] PROVE d \in done  OBVIOUS
  <2>1. CASE d \in {<<v, j>> : j \in 1..(i - 1)}  BY <1>4, <2>1
  <2>2. CASE \E u \in Tables : u < v /\ d \in Statements(u)  BY <1>5, <2>2
  <2> QED  BY <1>1, <1>2, <2>1, <2>2 DEF Sound
<1>7. v \in Tables => Script[v][i][1] # "alter"  BY <1>1, <1>2 DEF Sound
<1>8. ~NoSuchColumn  BY <1>6 DEF NoSuchColumn
<1>9. v \in Tables => ~Duplicate  BY <1>7 DEF Duplicate
<1>10. i \in 1..4
  <2>1. PICK n \in 1..4 : Len(Script[v]) = n  BY <1>2
  <2>2. i \in 1..n  BY <1>2, <2>1
  <2> HIDE DEF i
  <2> QED  BY <2>2
<1> QED  BY <1>1, <1>3, <1>8, <1>9, <1>10

\* The first script that is not recorded, while there is one.
First == CHOOSE v \in Missing : \A u \in Missing : v <= u

LEMMA FirstMissing ==
    ASSUME Version = 1..12, Missing # {}
    PROVE  First \in Missing /\ \A u \in Missing : First <= u
<1>1. Missing \subseteq Nat  BY DEF Missing
<1>2. PICK v \in Missing : \A u \in Missing : ~ (<<u, v>> \in OpToRel(<, Nat))
  BY <1>1, NatLessThanWellFounded, WFMin
<1>3. \A u \in Missing : ~ (u < v)
  BY <1>1, <1>2, Zenon DEF OpToRel
<1>4. \A u \in Missing : v <= u
  BY <1>1, <1>3
<1> QED  BY <1>4 DEF First

LEMMA StoreKept ==
    Store /\ [Next]_vars => Store'
<1> SUFFICES ASSUME Store, [Next]_vars PROVE Store'  OBVIOUS
<1>t. /\ db \in {"down", "migrating", "open", "failed"}
      /\ at[1] \in 1..12 /\ at[2] \in 1..5 /\ at = <<at[1], at[2]>>
      /\ recorded \subseteq 1..12
      /\ done \subseteq UNION {Statements(v) : v \in Version}
      /\ Version = 1..12 /\ Len(Script) = 12
      /\ Tables = {1, 4, 9}
  BY TwelveScripts DEF Store, MigrationsTypeOK, Tables
<1>s. \A v \in 1..12 : Len(Script[v]) \in 1..4
  BY SoundScripts, TwelveScripts DEF Sound
<1>1. CASE OpenStore
  <2>1. CASE Missing = {}
    <3>1. db' = "open" /\ UNCHANGED <<at, done, recorded>>  BY <1>1, <2>1 DEF OpenStore
    <3> QED  BY <3>1 DEF Store, MigrationsTypeOK, InOrder, Executed, OpensAgain
  <2>2. CASE Missing # {}
    <3> DEFINE v == First
    <3>1. db' = "migrating" /\ at' = <<v, 1>> /\ UNCHANGED <<done, recorded>>
      BY <1>1, <2>2 DEF OpenStore, First
    <3>2. v \in Missing /\ \A u \in Missing : v <= u
      BY <1>t, <2>2, FirstMissing
    <3> HIDE DEF v
    <3>3. v \in 1..12 /\ v \notin recorded  BY <1>t, <3>2 DEF Missing
    <3>4. recorded' = 1..(at'[1] - 1)
      <4>1. ASSUME NEW u \in 1..12 PROVE u \in recorded <=> u < v
        BY <1>t, <3>2, <3>3, <4>1 DEF Store, InOrder, Missing
      <4>2. \A u : u \in recorded <=> u \in 1..12 /\ u < v  BY <1>t, <4>1
      <4>3. \A u : u \in 1..(v - 1) <=> u \in 1..12 /\ u < v  BY <3>3
      <4> HIDE DEF v
      <4>4. recorded = 1..(v - 1)  BY <4>2, <4>3
      <4> QED  BY <3>1, <4>4
    <3>5. MigrationsTypeOK'  BY <1>t, <3>1, <3>3 DEF MigrationsTypeOK
    <3>6. InOrder'  BY <3>1, <3>4 DEF Store, InOrder
    <3>7. Executed'  BY <3>1 DEF Store, Executed
    <3> QED  BY <3>1, <3>5, <3>6, <3>7 DEF Store, OpensAgain
  <2> QED  BY <2>1, <2>2
<1>2. CASE Exec
  <2>1. db = "migrating" /\ ~AtEnd /\ UNCHANGED recorded  BY <1>2 DEF Exec
  <2>2. /\ at \in Statements(at[1]) /\ at[2] \in 1..4 /\ ~NoSuchColumn
        /\ at[1] \in Tables => ~Duplicate
    BY <2>1, NothingMissing
  <2>3. CASE Duplicate
    <3>1. at' = <<at[1], Len(Script[at[1]]) + 1>> /\ UNCHANGED <<db, done>>
      BY <1>2, <2>2, <2>3 DEF Exec, Skip
    <3>2. MigrationsTypeOK'
      <4>0. PICK n \in 1..4 : Len(Script[at[1]]) = n  BY <1>t, <1>s
      <4>1. Len(Script[at[1]]) + 1 \in 1..5  BY <4>0
      <4>2. at' \in Version \X (1..5)  BY <1>t, <3>1, <4>1
      <4> QED  BY <1>t, <2>1, <3>1, <4>2 DEF MigrationsTypeOK
    <3>3. InOrder'  BY <2>1, <3>1 DEF Store, InOrder
    <3>4. AtEnd' /\ at'[1] \notin Tables  BY <1>t, <1>s, <2>2, <2>3, <3>1 DEF AtEnd
    <3>5. Executed'  BY <2>1, <3>1, <3>4 DEF Store, Executed
    <3> QED  BY <3>1, <3>2, <3>3, <3>5 DEF Store, OpensAgain
  <2>4. CASE ~Duplicate
    <3>1. done' = done \cup {at} /\ at' = <<at[1], at[2] + 1>> /\ UNCHANGED db
      BY <1>2, <2>2, <2>4 DEF Exec, Perform
    <3>2. MigrationsTypeOK'
      BY <1>t, <2>1, <2>2, <3>1 DEF MigrationsTypeOK
    <3>3. InOrder'  BY <2>1, <3>1 DEF Store, InOrder
    <3>4. \A j \in 1..(at'[2] - 1) : <<at'[1], j>> \in done'
      <4> SUFFICES ASSUME NEW j \in 1..at[2] PROVE <<at[1], j>> \in done'
        BY <1>t, <3>1
      <4>1. CASE j = at[2]  BY <1>t, <3>1, <4>1
      <4>2. CASE j < at[2]
        <5>1. j <= Len(Script[at[1]])  BY <1>t, <1>s, <2>1, <4>2 DEF AtEnd
        <5> QED  BY <1>t, <2>1, <3>1, <4>2, <5>1 DEF Store, Executed
      <4> QED  BY <1>t, <4>1, <4>2
    <3>5. Executed'  BY <2>1, <3>1, <3>4 DEF Store, Executed
    <3> QED  BY <3>1, <3>2, <3>3, <3>5 DEF Store, OpensAgain
  <2> QED  BY <2>3, <2>4
<1>3. CASE Record
  <2> DEFINE v == at[1]
  <2>1. db = "migrating" /\ AtEnd /\ recorded' = recorded \cup {v} /\ UNCHANGED done
    BY <1>3 DEF Record
  <2>2. recorded' = 1..v
    <3>1. recorded = 1..(v - 1)  BY <2>1 DEF Store, InOrder
    <3> QED  BY <1>t, <2>1, <3>1
  <2>3. v \in Tables => Statements(v) \subseteq done
    <3> SUFFICES ASSUME v \in Tables, NEW j \in 1..Len(Script[v])
                 PROVE  <<v, j>> \in done
      BY DEF Statements
    <3>1. j <= at[2] - 1 /\ j \in 1..(at[2] - 1)  BY <1>t, <1>s, <2>1 DEF AtEnd
    <3> QED  BY <1>t, <1>s, <2>1, <3>1 DEF Store, Executed
  <2>4. \A u \in Tables \cap recorded' : Statements(u) \subseteq done'
    BY <2>1, <2>3 DEF Store, Executed
  <2>5. CASE v = Len(Script)
    <3>1. db' = "open" /\ UNCHANGED at  BY <1>3, <2>5 DEF Record
    <3>2. MigrationsTypeOK'  BY <1>t, <2>1, <3>1 DEF Store, MigrationsTypeOK
    <3>3. InOrder'  BY <1>t, <2>2, <3>1 DEF InOrder
    <3> QED  BY <2>4, <3>1, <3>2, <3>3 DEF Store, Executed, OpensAgain
  <2>6. CASE v # Len(Script)
    <3>1. at' = <<v + 1, 1>> /\ UNCHANGED db  BY <1>3, <2>6 DEF Record
    <3>2. MigrationsTypeOK'
      <4>1. v + 1 \in 1..12  BY <1>t, <2>6
      <4>2. at' \in Version \X (1..5)  BY <1>t, <3>1, <4>1
      <4>3. recorded' \subseteq Version  BY <1>t, <2>1
      <4> QED  BY <1>t, <2>1, <3>1, <4>2, <4>3 DEF MigrationsTypeOK
    <3>3. InOrder'  BY <1>t, <2>2, <3>1 DEF InOrder
    <3>4. Executed'  BY <2>4, <3>1 DEF Executed
    <3> QED  BY <2>1, <3>1, <3>2, <3>3, <3>4 DEF Store, OpensAgain
  <2> QED  BY <2>5, <2>6
<1>4. CASE CloseStore
  BY <1>4 DEF CloseStore, Store, MigrationsTypeOK, InOrder, Executed, OpensAgain
<1>5. CASE UNCHANGED dbVars
  BY <1>5 DEF dbVars, Store, MigrationsTypeOK, InOrder, Executed, OpensAgain, AtEnd
<1> QED  BY <1>1, <1>2, <1>3, <1>4, <1>5, StoreStep

-----------------------------------------------------------------------------
(* Type correctness, and the phases of the process.                        *)

LEMMA LiveInit == Init => TypeOK /\ Phases
<1> SUFFICES ASSUME Init PROVE TypeOK /\ Phases  OBVIOUS
<1>1. TypeOK
  <2>1. Own \in Identity /\ OwnPeer \in Peer
    BY DEF Own, OwnPeer, Identity, Peer, Whose
  <2>2. /\ ident \in [Caller -> Identity] /\ req \in [Caller -> Peer]
        /\ entry \in [ID -> Peer \cup {NoPeer}]
        /\ pc \in [Caller -> {"idle", "called", "lock", "groups"} \cup Holding]
        /\ \A c \in Caller : pc[c] \notin Holding
    BY <2>1 DEF Init, Holding
  <2>3. MigrationsTypeOK  BY StoreInit DEF Init, Store
  <2>4. /\ peerID = 0 /\ id = 0 /\ starts = 0 /\ faults = 0 /\ unheeded = FALSE
        /\ keys = "none" /\ name = "none" /\ group = "none" /\ phase = "down"
        /\ memKeys = "own" /\ login = "own" /\ relogin = "no"
        /\ reg = {} /\ listed = "no" /\ late = {}
    BY DEF Init
  <2>5. 0 \in 0..MaxStarts /\ 0 \in 0..MaxFaults  BY NodeAssumption
  <2> QED
    BY <2>2, <2>3, <2>4, <2>5 DEF TypeOK, Whose
<1>2. Phases  BY DEF Init, Phases, Running
<1> QED  BY <1>1, <1>2

\* A registration is of names and keys that exist.
LEMMA RegistrationIsPeer ==
    ASSUME TypeOK, NEW c \in Caller
    PROVE  Registration(c) \in Peer /\ Current \in Identity
BY DEF TypeOK, Registration, Current, Peer, Identity, Whose

\* The requests a process may leave behind.
LEMMA InFlightTypes ==
    ASSUME TypeOK, Phases, NEW C \in SUBSET Caller
    PROVE  InFlight(C) \subseteq {"register"} \X ID \X Peer
<1>1. \A c \in C : pc[c] = "register" => id \in ID /\ req[c] \in Peer
  BY DEF TypeOK, Phases, Running
<1> QED  BY <1>1 DEF InFlight

LEMMA CountKept ==
    ASSUME TypeOK, UNCHANGED boundVars \/ Unheeded
    PROVE  faults' \in 0..MaxFaults /\ unheeded' \in BOOLEAN /\ UNCHANGED starts
<1>1. /\ MaxFaults \in Nat /\ faults \in 0..MaxFaults /\ unheeded \in BOOLEAN
  BY NodeAssumption DEF TypeOK
<1>2. CASE UNCHANGED boundVars  BY <1>1, <1>2 DEF boundVars
<1>3. CASE Unheeded  BY <1>1, <1>3 DEF Unheeded, Faulty
<1> QED  BY <1>2, <1>3

LEMMA LiveStep ==
    TypeOK /\ Phases /\ MigrationsTypeOK' /\ [Next]_vars => TypeOK' /\ Phases'
<1> DEFINE Good == TypeOK' /\ Phases'
<1> SUFFICES ASSUME TypeOK, Phases, MigrationsTypeOK', [Next]_vars PROVE Good
  OBVIOUS
<1> USE DEF Caller, Running
<1>0. \A c \in Caller : Registration(c) \in Peer /\ Current \in Identity
  BY RegistrationIsPeer
<1>o. Own \in Identity /\ OwnPeer \in Peer
  BY DEF Own, OwnPeer, Identity, Peer, Whose
<1>1. ASSUME Open PROVE Good
  BY <1>1, NodeAssumption
  DEF Open, TypeOK, Phases, diskVars, memVars, callVars, muninnVars
<1>2. ASSUME Migrate PROVE Good
  BY <1>2 DEF Migrate, TypeOK, Phases, diskVars, memVars, callVars, muninnVars, boundVars
<1>3. ASSUME New PROVE Good
  <2>1. UNCHANGED boundVars \/ Unheeded  BY <1>3 DEF New
  <2>4. faults' \in 0..MaxFaults /\ unheeded' \in BOOLEAN /\ UNCHANGED starts
    BY <2>1, CountKept
  <2>2. id' \in ID
    <3>1. phase = "opening" /\ id' \in {starts, peerID} /\ (id' = peerID => peerID # 0 \/ peerID = starts)
      BY <1>3 DEF New
    <3> QED  BY <3>1, NodeAssumption DEF TypeOK, Phases, ID
  <2>3. /\ memKeys' \in Whose /\ keys' \in Whose \cup {"none"}
        /\ login' \in Whose /\ name' \in Whose \cup {"none"}
    BY <1>3 DEF New, TypeOK, Whose
  <2> QED
    BY <1>3, <2>4, <2>2, <2>3, NodeAssumption DEF New, TypeOK, Phases, ID, muninnVars
<1>4. ASSUME CreateMessenger PROVE Good
  <2>1. faults' \in 0..MaxFaults /\ unheeded' \in BOOLEAN /\ UNCHANGED starts
    BY <1>4, CountKept DEF CreateMessenger
  <2>2. peerID' \in 0..MaxStarts /\ name' \in Whose \cup {"none"}
    BY <1>4 DEF CreateMessenger, TypeOK
  <2> QED
    BY <1>4, <2>1, <2>2 DEF CreateMessenger, TypeOK, Phases, ID, Holding, memVars, muninnVars
<1>5. ASSUME NEW c \in Caller, Register(c) PROVE Good
  BY <1>0, <1>5
  DEF Register, TypeOK, Phases, Holding, diskVars, memVars, muninnVars, boundVars
<1>6. ASSUME NEW c \in Caller, Lock(c) PROVE Good
  BY <1>0, <1>6
  DEF Lock, TypeOK, Phases, Holding, diskVars, memVars, muninnVars, boundVars
<1>7. ASSUME NEW c \in Caller, Refresh(c) PROVE Good
  BY <1>0, <1>o, <1>7
  DEF Refresh, TypeOK, Phases, Holding, diskVars, memVars, muninnVars, boundVars
<1>8. ASSUME NEW c \in Caller, Registered(c) PROVE Good
  BY <1>o, <1>8
  DEF Registered, TypeOK, Phases, Holding, diskVars, memVars, boundVars
<1>9. ASSUME NEW c \in Caller, RequestFails(c) PROVE Good
  BY <1>o, <1>9, InFlightTypes, NodeAssumption
  DEF RequestFails, TypeOK, Phases, Holding, diskVars, memVars
<1>10. ASSUME NEW c \in Caller, RegisterStoredGroupPeers(c) PROVE Good
  BY <1>10, NodeAssumption
  DEF RegisterStoredGroupPeers, TypeOK, Phases, Holding, Fault, Faulty, diskVars, memVars,
      boundVars
<1>11. ASSUME HeartbeatLoop PROVE Good
  BY <1>11
  DEF HeartbeatLoop, TypeOK, Phases, Holding, diskVars, memVars, muninnVars, boundVars
<1>12. ASSUME GroupRefreshLoop PROVE Good
  BY <1>12, NodeAssumption
  DEF GroupRefreshLoop, TypeOK, Phases, Fault, Faulty, diskVars, memVars, callVars, boundVars
<1>13. ASSUME CreateGroupChat PROVE Good
  BY <1>13 DEF CreateGroupChat, TypeOK, Phases, memVars, callVars, muninnVars, boundVars
<1>14. ASSUME UseKeys PROVE Good
  BY <1>14 DEF UseKeys, TypeOK, Phases, Whose, callVars, muninnVars, boundVars
<1>15. ASSUME UseName PROVE Good
  BY <1>15 DEF UseName, TypeOK, Phases, Whose, diskVars, callVars, muninnVars, boundVars
<1>16. ASSUME SaveAppConfig PROVE Good
  BY <1>16 DEF SaveAppConfig, TypeOK, Phases, Whose, callVars, muninnVars, boundVars
<1>17. ASSUME Cancel PROVE Good
  BY <1>17 DEF Cancel, TypeOK, Phases, diskVars, memVars, callVars, muninnVars, boundVars
<1>18. ASSUME Delete PROVE Good
  <2>1. phase' = "deleted" /\ phase = "stopping" /\ id \in ID
    BY <1>18 DEF Delete, Phases
  <2>2. entry' \in [ID -> Peer \cup {NoPeer}]
    BY <1>18, <2>1 DEF Delete, TypeOK
  <2>3. late' \subseteq ({"register"} \X ID \X Peer) \cup ({"delete"} \X ID \X {NoPeer})
    BY <1>18, <2>1 DEF Delete, TypeOK
  <2>4. faults' \in 0..MaxFaults /\ UNCHANGED <<starts, unheeded>>
    BY <1>18, NodeAssumption DEF Delete, Fault, Faulty, TypeOK, boundVars
  <2> QED
    BY <1>18, <2>1, <2>2, <2>3, <2>4
    DEF Delete, TypeOK, Phases, diskVars, memVars, callVars
<1>19. ASSUME Shutdown \/ Crash PROVE Good
  <2>1. Gone  BY <1>19 DEF Shutdown, Crash
  <2>2. late' \subseteq ({"register"} \X ID \X Peer) \cup ({"delete"} \X ID \X {NoPeer})
    BY <2>1, InFlightTypes DEF Gone, TypeOK
  <2>3. faults' \in 0..MaxFaults /\ UNCHANGED <<starts, unheeded>>
    BY <1>19, NodeAssumption DEF Shutdown, Crash, Fault, Faulty, TypeOK, boundVars
  <2>4. /\ pc' \in [Caller -> {"idle", "called", "lock", "groups"} \cup Holding]
        /\ \A c \in Caller : pc'[c] = "idle" /\ pc'[c] \notin Holding
    BY <2>1 DEF Gone, Holding
  <2>5. /\ phase' = "down" /\ id' = 0 /\ memKeys' \in Whose /\ login' \in Whose
        /\ relogin' = "no" /\ reg' = {}
        /\ UNCHANGED <<keys, name, peerID, group, entry, listed>>
    BY <2>1 DEF Gone, Whose, diskVars
  <2>6. ident' \in [Caller -> Identity] /\ req' \in [Caller -> Peer]
    BY <1>o, <2>1 DEF Gone
  <2>7. id' \in 0..MaxStarts  BY <2>5, NodeAssumption
  <2>8. TypeOK'
    BY <2>2, <2>3, <2>4, <2>5, <2>6, <2>7 DEF TypeOK
  <2>9. Phases'  BY <2>4, <2>5 DEF Phases
  <2> QED  BY <2>8, <2>9
<1>20. ASSUME Forget PROVE Good
  BY <1>20, NodeAssumption
  DEF Forget, Fault, Faulty, TypeOK, Phases, diskVars, memVars, callVars
<1>21. ASSUME LateRequest PROVE Good
  BY <1>21 DEF LateRequest, TypeOK, Phases, diskVars, memVars, callVars, boundVars
<1>22. ASSUME UNCHANGED vars PROVE Good
  BY <1>22
  DEF vars, TypeOK, Phases, diskVars, memVars, callVars, muninnVars, boundVars
<1> HIDE DEF Good
<1> QED
  BY <1>1, <1>2, <1>3, <1>4, <1>5, <1>6, <1>7, <1>8, <1>9, <1>10, <1>11, <1>12, <1>13,
     <1>14, <1>15, <1>16, <1>17, <1>18, <1>19, <1>20, <1>21, <1>22
  DEF Next, RegisterStep

LEMMA Inductive == Spec => []IInv
<1>1. Init => IInv  BY StoreInit, LiveInit DEF Store, IInv
<1>2. IInv /\ [Next]_vars => IInv'
  <2> SUFFICES ASSUME IInv, [Next]_vars PROVE IInv'  OBVIOUS
  <2>1. Store  BY DEF IInv, Store, TypeOK
  <2>2. Store'  BY <2>1, StoreKept
  <2>3. TypeOK' /\ Phases'  BY <2>2, LiveStep DEF IInv, Store
  <2> QED  BY <2>2, <2>3 DEF IInv, Store
<1> QED  BY <1>1, <1>2, PTL DEF Spec

\* The variables of the database, the process and Muninn keep their types; at most
\* one call of Register is past the lock (messenger.go: Register, registeredMu).
THEOREM TypeCorrect == Spec => []TypeOK
<1>1. IInv => TypeOK  BY DEF IInv
<1> QED  BY <1>1, Inductive, PTL

\* From every version of the database and wherever the process has ended, no start
\* fails on a statement whose table or column an interrupted script has left out
\* (migration.go: runMigrations).
THEOREM OpensAgainAlways == Spec => []OpensAgain
<1>1. IInv => OpensAgain  BY DEF IInv
<1> QED  BY <1>1, Inductive, PTL

-----------------------------------------------------------------------------
(* The endpoint ID.                                                        *)

\* Muninn is told of the node under its saved ID, which does not change again.
LEMMA EndpointStep ==
    ASSUME Host = "app", IInv, OneEndpoint, EndpointKept, [Next]_vars
    PROVE  OneEndpoint' /\ EndpointKept'
<1> DEFINE Good == OneEndpoint' /\ EndpointKept'
<1>u. unheeded => unheeded'
  BY DEF Next, RegisterStep, Open, Migrate, New, CreateMessenger, Register, Lock, Refresh,
         Registered, RequestFails, RegisterStoredGroupPeers, HeartbeatLoop, GroupRefreshLoop,
         CreateGroupChat, UseKeys, UseName, SaveAppConfig, Cancel, Delete, Shutdown, Crash,
         Forget, LateRequest, Fault, Unheeded, vars, boundVars
<1> SUFFICES ASSUME ~unheeded, ~unheeded' PROVE Good
  BY <1>u DEF OneEndpoint, EndpointKept
<1> USE DEF OneEndpoint, EndpointKept, Running
<1>t. /\ peerID \in 0..MaxStarts /\ id \in 0..MaxStarts /\ entry \in [ID -> Peer \cup {NoPeer}]
      /\ late \subseteq ({"register"} \X ID \X Peer) \cup ({"delete"} \X ID \X {NoPeer})
      /\ ID = 1..MaxStarts /\ 0 \notin ID
  BY DEF IInv, TypeOK, ID
<1>p. /\ phase \in Running \cup {"made"} => id \in ID
      /\ phase \notin Running => relogin = "no" /\ \A c \in Caller : pc[c] = "idle"
  BY DEF IInv, Phases
\* Of the requests still on their way those that register do so under the saved ID.
<1>l. \A C \in SUBSET Caller : \A r \in InFlight(C) : r[1] = "register" /\ r[2] = peerID
  <2> SUFFICES ASSUME NEW C \in SUBSET Caller, NEW c \in C, pc[c] = "register"
               PROVE  id = peerID
    BY DEF InFlight
  <2> QED  BY <1>p
<1>1. ASSUME UNCHANGED <<phase, peerID, id, entry>>, late' \subseteq late PROVE Good
  BY <1>1
<1>2. ASSUME UNCHANGED <<peerID, entry, late>>,
             phase' = "down" \/ phase' = "opening"
      PROVE  Good
  BY <1>2
<1>3. ASSUME New PROVE Good
  <2>1. /\ phase' = "made" /\ id' = IF peerID = 0 THEN starts ELSE peerID
        /\ UNCHANGED <<peerID, entry, late>>
    BY <1>3 DEF New, Unheeded, muninnVars
  <2> QED  BY <2>1
<1>4. ASSUME CreateMessenger PROVE Good
  <2>1. phase = "made" /\ peerID' = id /\ phase' = "up" /\ UNCHANGED <<id, entry, late>>
    BY <1>4 DEF CreateMessenger, Unheeded, memVars, muninnVars
  <2>2. peerID = 0 => \A i \in ID : entry[i] = NoPeer  BY <1>t
  <2>3. peerID = 0 => \A r \in late : r[1] # "register"  BY <1>t
  <2> QED  BY <1>t, <2>1, <2>2, <2>3
<1>5. ASSUME NEW c \in Caller, Registered(c) PROVE Good
  <2>1. phase = "up" /\ id = peerID /\ entry' = [entry EXCEPT ![id] = req[c]]
        /\ UNCHANGED <<phase, peerID, id, late>>
    BY <1>5 DEF Registered, diskVars, memVars
  <2> QED  BY <1>t, <2>1
<1>6. ASSUME NEW c \in Caller, RequestFails(c) PROVE Good
  <2>1. late' \in {late, late \cup InFlight({c})} /\ UNCHANGED <<phase, peerID, id, entry>>
    BY <1>6 DEF RequestFails, diskVars, memVars
  <2> QED  BY <1>l, <2>1
<1>7. ASSUME SaveAppConfig PROVE Good
  <2>1. phase \in Running  BY <1>7, <1>p DEF SaveAppConfig
  <2> QED  BY <1>7, <2>1 DEF SaveAppConfig, muninnVars
<1>8. ASSUME Cancel PROVE Good
  BY <1>8 DEF Cancel, diskVars, memVars, muninnVars
<1>9. ASSUME Delete PROVE Good
  <2>1. phase = "stopping" /\ phase' = "deleted" /\ UNCHANGED <<peerID, id>>
    BY <1>9 DEF Delete, diskVars, memVars
  <2>2. \A i \in ID : entry'[i] # NoPeer => entry[i] # NoPeer
    BY <1>9, <1>t DEF Delete
  <2>3. \A r \in late' : r \in late \/ r[1] = "delete"
    BY <1>9 DEF Delete
  <2> QED  BY <2>1, <2>2, <2>3
<1>10. ASSUME Gone PROVE Good
  <2>1. phase' = "down" /\ late' \in {late, late \cup InFlight(Caller)}
        /\ UNCHANGED <<peerID, entry>>
    BY <1>10 DEF Gone, diskVars
  <2> QED  BY <1>l, <2>1
<1>11. ASSUME Forget PROVE Good
  BY <1>11, <1>t DEF Forget, diskVars, memVars
<1>12. ASSUME LateRequest PROVE Good
  <2>1. PICK r \in late : late' = late \ {r} /\ entry' = [entry EXCEPT ![r[2]] = r[3]]
                          /\ UNCHANGED <<phase, peerID, id>>
    BY <1>12 DEF LateRequest, diskVars, memVars
  <2>2. (r[1] = "register" /\ r[2] = peerID) \/ r[3] = NoPeer  BY <1>t
  <2>3. \A i \in ID : entry'[i] # NoPeer => peerID = i  BY <1>t, <2>1, <2>2
  <2> QED  BY <2>1, <2>3
\* The other steps leave all of this alone.
<1>13. ASSUME Open PROVE Good
  BY <1>2, <1>13 DEF Open, diskVars, muninnVars
<1>14. ASSUME NEW c \in Caller,
              Register(c) \/ Lock(c) \/ Refresh(c) \/ RegisterStoredGroupPeers(c)
       PROVE  Good
  BY <1>1, <1>14
  DEF Register, Lock, Refresh, RegisterStoredGroupPeers, diskVars, memVars, muninnVars
<1>15. ASSUME Migrate \/ HeartbeatLoop \/ GroupRefreshLoop \/ CreateGroupChat \/ UseKeys \/ UseName
       PROVE  Good
  BY <1>1, <1>15
  DEF Migrate, HeartbeatLoop, GroupRefreshLoop, CreateGroupChat, UseKeys, UseName,
      diskVars, memVars, muninnVars
<1>16. ASSUME UNCHANGED vars PROVE Good
  BY <1>1, <1>16 DEF vars, diskVars, memVars, muninnVars
<1> HIDE DEF Good
<1>17. Good
  BY <1>3, <1>4, <1>5, <1>6, <1>7, <1>8, <1>9, <1>10, <1>11, <1>12, <1>13, <1>14, <1>15, <1>16
  DEF Next, RegisterStep, Shutdown, Crash
<1> QED  BY <1>17 DEF Good

\* The node of the application is known to Muninn under the ID in its database and
\* no other, though a start may end between making an ID and saving it, a deletion
\* or a registration may be handled after the process is gone, and a relogin
\* replaces the keys (bridge.go: createMessenger; messenger.go: New, Register). The
\* bot, which does not save its ID, is not meant.
THEOREM EndpointKeptAlways ==
    ASSUME Host = "app"
    PROVE  Spec => []EndpointKept
<1>1. Init => OneEndpoint /\ EndpointKept
  BY DEF Init, OneEndpoint, EndpointKept, Running
<1>2. IInv /\ OneEndpoint /\ EndpointKept /\ [Next]_vars => OneEndpoint' /\ EndpointKept'
  BY EndpointStep
<1> QED  BY <1>1, <1>2, Inductive, PTL DEF Spec
-----------------------------------------------------------------------------
(* The end of a node: its worker pool and Shutdown (modules PoolState and  *)
(* Pool).                                                                  *)

Pool == INSTANCE Pool

Wire == {"batch", "ack"} \X Pool!Try

\* A worker is at one job, or at none, or has ended.
WorkersCounted ==
    /\ active \in [Pool!Node -> SUBSET Pool!Busy]
    /\ gone \in [Pool!Node -> Nat]
    /\ \A n \in Pool!Node : /\ IsFiniteSet(active[n])
                            /\ Cardinality(active[n]) + gone[n] <= Workers

\* Shutdown goes on only when what it waits for has ended for good.
ShutdownOrdered ==
    /\ loop \in [Pool!Node -> Pool!Try \cup {Pool!Idle, Pool!Ended}]
    /\ stop \in [Pool!Node -> {"no", "cancelled", "closed", "joined", "done"}]
    /\ \A n \in Pool!Node :
          /\ stop[n] \in {"joined", "done"} => loop[n] = Pool!Ended
          /\ stop[n] = "done" => gone[n] = Workers

\* The rest of the types.
PoolTyped ==
    /\ ctx \in [Pool!Node -> {"live", "cancelled"}]
    /\ queue \in [Pool!Node -> Seq(Pool!Jobs)]
    /\ \A n \in Pool!Node : Len(queue[n]) <= QueueSize
    /\ wire \in [Pool!Node -> Seq(Wire)]
    /\ state \in [Pool!Req -> {"new", "pending", "placed"}]
    /\ tries \in [Pool!Req -> 0..MaxTries]
    /\ acks \subseteq Pool!Waiting(1) \cup Pool!Waiting(2)
    /\ link \in {"up", "down"}
    /\ reader \in [Pool!Node -> {Pool!Nothing} \cup Pool!Try]

PoolInv == PoolTyped /\ WorkersCounted /\ ShutdownOrdered

\* The pool counts with the library's sets.
LEMMA PoolSets == \A S : Pool!Cardinality(S) = Cardinality(S)
  BY DEF Pool!Cardinality, Cardinality, Pool!IsFiniteSet, IsFiniteSet

LEMMA OtherNode == \A n \in Pool!Node : Pool!Other(n) \in Pool!Node /\ Pool!Other(n) # n
  BY DEF Pool!Node, Pool!Other

\* What the delivery loop waits for is told apart from its being idle or gone.
LEMMA NoTry == Pool!Idle \notin Pool!Try /\ Pool!Ended \notin Pool!Try /\ Pool!Idle # Pool!Ended
<1>1. \A a, b : <<a, b>> # Pool!Idle /\ <<a, b>> # Pool!Ended  BY DEF Pool!Idle, Pool!Ended
<1>2. Pool!Idle # Pool!Ended  BY DEF Pool!Idle, Pool!Ended
<1> QED  BY <1>1, <1>2 DEF Pool!Try

LEMMA PoolInit == ASSUME Pool!PoolConstants PROVE Pool!Init => PoolInv
<1> SUFFICES ASSUME Pool!Init PROVE PoolInv  OBVIOUS
<1>1. IsFiniteSet({}) /\ Cardinality({}) = 0  BY FS_EmptySet
<1>2. /\ queue \in [Pool!Node -> Seq(Pool!Jobs)] /\ wire \in [Pool!Node -> Seq(Wire)]
      /\ \A n \in Pool!Node : queue[n] = <<>> /\ wire[n] = <<>>
  BY DEF Pool!Init
<1>3. PoolTyped
  BY <1>1, <1>2 DEF Pool!PoolConstants, Pool!Init, PoolTyped
<1>4. WorkersCounted /\ ShutdownOrdered
  BY <1>1 DEF Pool!PoolConstants, Pool!Init, WorkersCounted, ShutdownOrdered
<1> QED  BY <1>3, <1>4 DEF PoolInv

\* A worker begins a job.
LEMMA Begins ==
    ASSUME NEW A, IsFiniteSet(A), NEW j
    PROVE  IsFiniteSet(A \cup {j}) /\ Cardinality(A \cup {j}) <= Cardinality(A) + 1
<1>1. Cardinality(A) \in Nat  BY FS_CardinalityType
<1>2. IsFiniteSet(A \cup {j})
      /\ Cardinality(A \cup {j}) = IF j \in A THEN Cardinality(A) ELSE Cardinality(A) + 1
  BY FS_AddElement
<1> QED  BY <1>1, <1>2

\* A worker is done with a job.
LEMMA Ends ==
    ASSUME NEW A, IsFiniteSet(A), NEW j
    PROVE  IsFiniteSet(A \ {j}) /\ Cardinality(A \ {j}) <= Cardinality(A)
<1>1. Cardinality(A) \in Nat  BY FS_CardinalityType
<1>2. IsFiniteSet(A \ {j})
      /\ Cardinality(A \ {j}) = IF j \in A THEN Cardinality(A) - 1 ELSE Cardinality(A)
  BY FS_RemoveElement
<1> QED  BY <1>1, <1>2

\* A worker goes from one job to another.
LEMMA GoesOn ==
    ASSUME NEW A, IsFiniteSet(A), NEW j, NEW k \in A
    PROVE  /\ IsFiniteSet((A \ {k}) \cup {j})
           /\ Cardinality((A \ {k}) \cup {j}) <= Cardinality(A)
<1>1. Cardinality(A) \in Nat  BY FS_CardinalityType
<1>2. IsFiniteSet(A \ {k}) /\ Cardinality(A \ {k}) = Cardinality(A) - 1
  BY FS_RemoveElement
<1>3. /\ IsFiniteSet((A \ {k}) \cup {j})
      /\ Cardinality((A \ {k}) \cup {j}) <= Cardinality(A \ {k}) + 1
  BY <1>2, Begins
<1>4. Cardinality((A \ {k}) \cup {j}) \in Nat  BY <1>3, FS_CardinalityType
<1> QED  BY <1>1, <1>2, <1>3, <1>4

\* TrySubmit keeps a queue's size and jobs.
LEMMA Submitted ==
    ASSUME PoolInv, Pool!PoolConstants, NEW n \in Pool!Node, NEW job \in Pool!Jobs,
           \/ Pool!TrySubmit(n, job)
           \/ Pool!Room(n) /\ queue' = [queue EXCEPT ![n] = Append(@, job)]
    PROVE  /\ queue' \in [Pool!Node -> Seq(Pool!Jobs)]
           /\ \A k \in Pool!Node : Len(queue'[k]) <= QueueSize
<1>1. queue \in [Pool!Node -> Seq(Pool!Jobs)]
      /\ \A k \in Pool!Node : Len(queue[k]) <= QueueSize
  BY DEF PoolInv, PoolTyped
<1>2. CASE queue' = queue  BY <1>1, <1>2
<1>3. CASE Pool!Room(n) /\ queue' = [queue EXCEPT ![n] = Append(@, job)]
  <2>1. Len(queue[n]) < QueueSize /\ queue[n] \in Seq(Pool!Jobs)  BY <1>1, <1>3 DEF Pool!Room
  <2>2. Append(queue[n], job) \in Seq(Pool!Jobs) /\ Len(Append(queue[n], job)) = Len(queue[n]) + 1
    BY <2>1
  <2>3. Len(queue[n]) \in Nat /\ QueueSize \in Nat  BY <2>1 DEF Pool!PoolConstants
  <2>4. queue'[n] = Append(queue[n], job) /\ \A k \in Pool!Node \ {n} : queue'[k] = queue[k]
    BY <1>1, <1>3
  <2>5. Len(queue'[n]) <= QueueSize  BY <2>1, <2>2, <2>3, <2>4
  <2> QED  BY <1>1, <1>3, <2>2, <2>4, <2>5
<1> QED  BY <1>2, <1>3 DEF Pool!TrySubmit

\* Append and Tail on one node's messages.
LEMMA WireType ==
    ASSUME wire \in [Pool!Node -> Seq(Wire)], NEW n \in Pool!Node
    PROVE  /\ \A m \in Wire : [wire EXCEPT ![n] = Append(@, m)] \in [Pool!Node -> Seq(Wire)]
           /\ wire[n] # <<>> => /\ Head(wire[n]) \in Wire
                                /\ [wire EXCEPT ![n] = Tail(@)] \in [Pool!Node -> Seq(Wire)]
           /\ [k \in Pool!Node |-> <<>>] \in [Pool!Node -> Seq(Wire)]
  OBVIOUS

\* What TypeOK says of the sequences follows from what they are.
LEMMA SequenceTypes ==
    /\ queue \in [Pool!Node -> Seq(Pool!Jobs)] =>
         \A n \in Pool!Node : \A i \in 1..Len(queue[n]) : queue[n][i] \in Pool!Jobs
    /\ wire \in [Pool!Node -> Seq(Wire)] =>
         \A n \in Pool!Node : \A i \in 1..Len(wire[n]) : wire[n][i] \in Wire
  OBVIOUS

LEMMA PoolTypes == PoolInv => Pool!TypeOK
<1> SUFFICES ASSUME PoolTyped, WorkersCounted, ShutdownOrdered PROVE Pool!TypeOK  BY DEF PoolInv
<1>1. \A n \in Pool!Node :
        /\ Len(queue[n]) <= QueueSize
        /\ \A i \in 1..Len(queue[n]) : queue[n][i] \in Pool!Jobs
        /\ \A i \in 1..Len(wire[n]) : wire[n][i] \in {"batch", "ack"} \X Pool!Try
  BY SequenceTypes DEF PoolTyped, Wire
<1>2. \A n \in Pool!Node :
        /\ active[n] \subseteq Pool!Busy
        /\ gone[n] \in Nat /\ Pool!Cardinality(active[n]) + gone[n] <= Workers
  BY PoolSets DEF WorkersCounted
<1> QED  BY <1>1, <1>2 DEF PoolTyped, ShutdownOrdered, Pool!TypeOK


\* The steps of the pool's next-state relation.
LEMMA NextSteps ==
    ASSUME [Pool!Next]_Pool!vars
    PROVE  \/ \E n \in Pool!Node :
                \/ Pool!TakeJob(n) \/ Pool!DialEnds(n) \/ Pool!StoreChunkBatch(n) \/ Pool!Confirmed(n) \/ Pool!GivesUp(n)
                \/ Pool!WorkerEnds(n) \/ Pool!LoopEnds(n) \/ Pool!OnMessage(n) \/ Pool!Submit(n)
                \/ Pool!CloseAll(n) \/ Pool!JoinLoops(n) \/ Pool!CloseStore(n)
                \/ Pool!PendingChunkLoop(n) \/ Pool!Cancel(n)
           \/ \E r \in Pool!Req : Pool!SendMessage(r)
           \/ UNCHANGED Pool!vars
  BY DEF Pool!Next, Pool!Work, Pool!PoolStep, Pool!ReaderStep, Pool!ShutdownStep

\* A job names a request or a try, and a delivery that may begin has a try left.
LEMMA JobTypes ==
    ASSUME Pool!PoolConstants, tries \in [Pool!Req -> 0..MaxTries]
    PROVE  /\ \A j \in Pool!Jobs : /\ j[1] = "deliver" => j[2] \in Pool!Req
                                   /\ j[1] = "store" => j \in {"store"} \X Pool!Try
           /\ \A n, r : r \in Pool!Req /\ Pool!MayDeliver(n, r) =>
                /\ tries[r] + 1 \in 0..MaxTries
                /\ Pool!NextTry(r) \in Pool!Try
  BY DEF Pool!PoolConstants, Pool!Jobs, Pool!MayDeliver, Pool!NextTry, Pool!Try

\* What a worker does when it takes a job or is done with a dial: nothing, begin a job
\* that does not wait, end a dial, or begin to wait for an acknowledgement.
Goes(n) ==
    \/ UNCHANGED <<active, tries, wire>>
    \/ \E j \in Pool!Busy :
          /\ Pool!IdleWorker(n) /\ j[1] # "wait"
          /\ active' = [active EXCEPT ![n] = @ \cup {j}]
          /\ UNCHANGED <<tries, wire>>
    \/ \E r \in Pool!Req :
          /\ active' = [active EXCEPT ![n] = @ \ {<<"dial", r>>}]
          /\ UNCHANGED <<tries, wire>>
    \/ \E r \in Pool!Req :
          /\ Pool!MayDeliver(n, r) /\ Pool!SendChunkStoreBatchConfirmed(n, r)
          /\ Pool!IdleWorker(n)
          /\ active' = [active EXCEPT ![n] = @ \cup {<<"wait", Pool!NextTry(r)>>}]
    \/ \E r \in Pool!Req :
          /\ Pool!MayDeliver(n, r) /\ Pool!SendChunkStoreBatchConfirmed(n, r)
          /\ <<"dial", r>> \in active[n]
          /\ active' = [active EXCEPT ![n] = (@ \ {<<"dial", r>>}) \cup {<<"wait", Pool!NextTry(r)>>}]

LEMMA WorkerGoes ==
    ASSUME Pool!PoolConstants, PoolInv, NEW n \in Pool!Node,
           Pool!TakeJob(n) \/ Pool!DialEnds(n)
    PROVE  Goes(n)
<1>t. /\ tries \in [Pool!Req -> 0..MaxTries]
      /\ active \in [Pool!Node -> SUBSET Pool!Busy]
  BY DEF PoolInv, PoolTyped, WorkersCounted
<1>1. CASE Pool!TakeJob(n)
  <2> DEFINE job == Head(queue[n])
  <2> HIDE DEF job
  <2>1. Pool!IdleWorker(n) /\ queue[n] # <<>>  BY <1>1 DEF Pool!TakeJob
  <2>2. job \in Pool!Jobs  BY <2>1 DEF PoolInv, PoolTyped, job
  <2>3. /\ job[1] = "deliver" => job[2] \in Pool!Req
        /\ job[1] = "store" => job \in {"store"} \X Pool!Try
    <3>1. \A j \in Pool!Jobs : /\ j[1] = "deliver" => j[2] \in Pool!Req
                               /\ j[1] = "store" => j \in {"store"} \X Pool!Try
      BY <1>t, JobTypes
    <3> QED  BY <2>2, <3>1
  <2>4. CASE /\ job[1] = "deliver" /\ active' = [active EXCEPT ![n] = @ \cup {<<"dial", job[2]>>}]
             /\ UNCHANGED <<tries, wire>>
    <3>1. <<"dial", job[2]>> \in Pool!Busy  BY <2>3, <2>4 DEF Pool!Busy
    <3> QED  BY <2>1, <2>4, <3>1 DEF Goes
  <2>5. CASE job[1] = "deliver" /\ Pool!DistributeChunks(n, job[2], active[n])
    <3>1. job[2] \in Pool!Req  BY <2>3, <2>5
    <3>2. CASE /\ Pool!MayDeliver(n, job[2]) /\ Pool!SendChunkStoreBatchConfirmed(n, job[2])
               /\ active' = [active EXCEPT ![n] = active[n] \cup {<<"wait", Pool!NextTry(job[2])>>}]
      BY <2>1, <3>1, <3>2 DEF Goes
    <3>3. CASE active' = [active EXCEPT ![n] = active[n]] /\ UNCHANGED <<tries, wire>>
      <4>1. UNCHANGED active  BY <1>t, <3>3
      <4> QED  BY <3>3, <4>1 DEF Goes
    <3> QED  BY <2>5, <3>2, <3>3 DEF Pool!DistributeChunks
  <2>6. CASE /\ job[1] = "store" /\ active' = [active EXCEPT ![n] = @ \cup {job}]
             /\ UNCHANGED <<tries, wire>>
    <3>1. job \in Pool!Busy /\ job[1] # "wait"  BY <2>3, <2>6 DEF Pool!Busy
    <3> QED  BY <2>1, <2>6, <3>1 DEF Goes
  <2>7. CASE UNCHANGED <<active, tries, wire>>  BY <2>7 DEF Goes
  <2> QED  BY <1>1, <2>4, <2>5, <2>6, <2>7 DEF Pool!TakeJob, job
<1>2. CASE Pool!DialEnds(n)
  <2>1. PICK r \in Pool!Req : /\ <<"dial", r>> \in active[n]
                              /\ Pool!DistributeChunks(n, r, active[n] \ {<<"dial", r>>})
    BY <1>2 DEF Pool!DialEnds
  <2>2. CASE /\ Pool!MayDeliver(n, r) /\ Pool!SendChunkStoreBatchConfirmed(n, r)
             /\ active' = [active EXCEPT ![n] = (active[n] \ {<<"dial", r>>}) \cup {<<"wait", Pool!NextTry(r)>>}]
    BY <2>1, <2>2 DEF Goes
  <2>3. CASE active' = [active EXCEPT ![n] = active[n] \ {<<"dial", r>>}] /\ UNCHANGED <<tries, wire>>
    BY <2>3 DEF Goes
  <2> QED  BY <2>1, <2>2, <2>3 DEF Pool!DistributeChunks
<1> QED  BY <1>1, <1>2

LEMMA CountedStep ==
    ASSUME Pool!PoolConstants, PoolInv, [Pool!Next]_Pool!vars
    PROVE  WorkersCounted' /\ \A n \in Pool!Node : gone'[n] >= gone[n]
<1> DEFINE Goal == WorkersCounted' /\ \A n \in Pool!Node : gone'[n] >= gone[n]
<1> USE DEF Pool!poolVars, Pool!sendVars, Pool!netVars
<1>w. Workers \in Nat  BY DEF Pool!PoolConstants
<1>i. WorkersCounted  BY DEF PoolInv
<1>c. \A n \in Pool!Node : Cardinality(active[n]) \in Nat /\ gone[n] \in Nat
  BY <1>i, FS_CardinalityType DEF WorkersCounted
\* A worker ends a job, or a waiter's place is empty already.
<1>1. ASSUME NEW n \in Pool!Node, NEW j, active' = [active EXCEPT ![n] = @ \ {j}],
             UNCHANGED gone
      PROVE  Goal
  <2>1. active'[n] = active[n] \ {j} /\ \A k \in Pool!Node \ {n} : active'[k] = active[k]
    BY <1>i, <1>1 DEF WorkersCounted
  <2>2. IsFiniteSet(active'[n]) /\ Cardinality(active'[n]) <= Cardinality(active[n])
    <3>1. IsFiniteSet(active[n])  BY <1>i DEF WorkersCounted
    <3>2. IsFiniteSet(active[n] \ {j}) /\ Cardinality(active[n] \ {j}) <= Cardinality(active[n])
      BY <3>1, Ends
    <3> QED  BY <2>1, <3>2
  <2>3. Cardinality(active'[n]) \in Nat  BY <2>2, FS_CardinalityType
  <2>4. Cardinality(active'[n]) + gone[n] <= Workers
    BY <2>2, <2>3, <1>c, <1>i, <1>w DEF WorkersCounted
  <2>5. active' \in [Pool!Node -> SUBSET Pool!Busy]
    <3>1. DOMAIN active' = Pool!Node /\ active' = [k \in DOMAIN active' |-> active'[k]]
      BY <1>i, <1>1 DEF WorkersCounted
    <3>2. \A k \in Pool!Node : active'[k] \in SUBSET Pool!Busy
      BY <1>i, <1>1, <2>1 DEF WorkersCounted
    <3> QED  BY <3>1, <3>2
  <2> QED  BY <1>i, <1>1, <1>c, <2>1, <2>2, <2>4, <2>5 DEF WorkersCounted
\* An idle worker begins one.
<1>2. ASSUME NEW n \in Pool!Node, NEW j \in Pool!Busy,
             active' = [active EXCEPT ![n] = @ \cup {j}], UNCHANGED gone, Pool!IdleWorker(n)
      PROVE  Goal
  <2>1. active'[n] = active[n] \cup {j} /\ \A k \in Pool!Node \ {n} : active'[k] = active[k]
    BY <1>i, <1>2 DEF WorkersCounted
  <2>2. IsFiniteSet(active'[n]) /\ Cardinality(active'[n]) <= Cardinality(active[n]) + 1
    <3>1. IsFiniteSet(active[n])  BY <1>i DEF WorkersCounted
    <3>2. IsFiniteSet(active[n] \cup {j})
          /\ Cardinality(active[n] \cup {j}) <= Cardinality(active[n]) + 1
      BY <3>1, Begins
    <3> QED  BY <2>1, <3>2
  <2>3. Cardinality(active'[n]) \in Nat  BY <2>2, FS_CardinalityType
  <2>4. Cardinality(active[n]) + gone[n] < Workers  BY <1>2, PoolSets DEF Pool!IdleWorker
  <2>5. Cardinality(active'[n]) + gone[n] <= Workers  BY <2>2, <2>3, <2>4, <1>c, <1>w
  <2>6. active' \in [Pool!Node -> SUBSET Pool!Busy]
    <3>1. DOMAIN active' = Pool!Node /\ active' = [k \in DOMAIN active' |-> active'[k]]
      BY <1>i, <1>2 DEF WorkersCounted
    <3>2. \A k \in Pool!Node : active'[k] \in SUBSET Pool!Busy
      BY <1>i, <1>2, <2>1 DEF WorkersCounted
    <3> QED  BY <3>1, <3>2
  <2> QED  BY <1>i, <1>2, <1>c, <2>1, <2>2, <2>5, <2>6 DEF WorkersCounted
\* A busy one begins another.
<1>k. ASSUME NEW n \in Pool!Node, NEW j \in Pool!Busy, NEW k \in active[n],
             active' = [active EXCEPT ![n] = (@ \ {k}) \cup {j}], UNCHANGED gone
      PROVE  Goal
  <2>1. active'[n] = (active[n] \ {k}) \cup {j} /\ \A m \in Pool!Node \ {n} : active'[m] = active[m]
    BY <1>i, <1>k DEF WorkersCounted
  <2>2. IsFiniteSet(active'[n]) /\ Cardinality(active'[n]) <= Cardinality(active[n])
    <3>1. IsFiniteSet(active[n])  BY <1>i DEF WorkersCounted
    <3>2. /\ IsFiniteSet((active[n] \ {k}) \cup {j})
          /\ Cardinality((active[n] \ {k}) \cup {j}) <= Cardinality(active[n])
      BY <3>1, GoesOn
    <3> QED  BY <2>1, <3>2
  <2>3. Cardinality(active'[n]) \in Nat  BY <2>2, FS_CardinalityType
  <2>4. Cardinality(active'[n]) + gone[n] <= Workers
    BY <2>2, <2>3, <1>c, <1>i, <1>w DEF WorkersCounted
  <2>5. active' \in [Pool!Node -> SUBSET Pool!Busy]
    <3>1. DOMAIN active' = Pool!Node /\ active' = [m \in DOMAIN active' |-> active'[m]]
      BY <1>i, <1>k DEF WorkersCounted
    <3>2. \A m \in Pool!Node : active'[m] \in SUBSET Pool!Busy
      BY <1>i, <1>k, <2>1 DEF WorkersCounted
    <3> QED  BY <3>1, <3>2
  <2> QED  BY <1>i, <1>k, <1>c, <2>1, <2>2, <2>4, <2>5 DEF WorkersCounted
\* An idle worker ends.
<1>3. ASSUME NEW n \in Pool!Node, Pool!WorkerEnds(n) PROVE Goal
  <2>1. gone' = [gone EXCEPT ![n] = @ + 1] /\ UNCHANGED active  BY <1>3 DEF Pool!WorkerEnds
  <2>2. gone'[n] = gone[n] + 1 /\ \A k \in Pool!Node \ {n} : gone'[k] = gone[k]
    BY <1>i, <2>1 DEF WorkersCounted
  <2>3. Cardinality(active[n]) + gone[n] < Workers
    BY <1>3, PoolSets DEF Pool!WorkerEnds, Pool!IdleWorker
  <2>4. Cardinality(active[n]) + gone'[n] <= Workers  BY <2>2, <2>3, <1>c, <1>w
  <2>5. gone' \in [Pool!Node -> Nat]  BY <1>i, <2>1 DEF WorkersCounted
  <2> QED  BY <1>i, <1>c, <2>1, <2>2, <2>4, <2>5 DEF WorkersCounted
<1>4. ASSUME UNCHANGED <<active, gone>> PROVE Goal
  BY <1>i, <1>4, <1>c DEF WorkersCounted
<1> HIDE DEF Goal
<1>5. ASSUME NEW n \in Pool!Node, Pool!TakeJob(n) \/ Pool!DialEnds(n) PROVE Goal
  <2>1. UNCHANGED gone  BY <1>5 DEF Pool!TakeJob, Pool!DialEnds
  <2>2. Goes(n)  BY <1>5, WorkerGoes
  <2>3. \A r \in Pool!Req : Pool!MayDeliver(n, r) => <<"wait", Pool!NextTry(r)>> \in Pool!Busy
    <3>1. tries \in [Pool!Req -> 0..MaxTries]  BY DEF PoolInv, PoolTyped
    <3> QED  BY <3>1, JobTypes DEF Pool!Busy
  <2>4. CASE UNCHANGED active  BY <1>4, <2>1, <2>4
  <2>5. CASE \E j \in Pool!Busy : Pool!IdleWorker(n) /\ active' = [active EXCEPT ![n] = @ \cup {j}]
    BY <1>2, <2>1, <2>5
  <2>6. CASE \E j : active' = [active EXCEPT ![n] = @ \ {j}]  BY <1>1, <2>1, <2>6
  <2>7. CASE \E j \in Pool!Busy : \E k \in active[n] :
               active' = [active EXCEPT ![n] = (@ \ {k}) \cup {j}]
    BY <1>k, <2>1, <2>7
  <2> QED  BY <2>2, <2>3, <2>4, <2>5, <2>6, <2>7 DEF Goes
<1>6. ASSUME NEW n \in Pool!Node, Pool!StoreChunkBatch(n) PROVE Goal
  BY <1>1, <1>6 DEF Pool!StoreChunkBatch
<1>7. ASSUME NEW n \in Pool!Node, Pool!Confirmed(n) \/ Pool!GivesUp(n) PROVE Goal
  BY <1>1, <1>7 DEF Pool!Confirmed, Pool!GivesUp, Pool!Return
<1>8. ASSUME NEW n \in Pool!Node,
             \/ Pool!LoopEnds(n) \/ Pool!OnMessage(n) \/ Pool!Submit(n) \/ Pool!CloseAll(n)
             \/ Pool!JoinLoops(n) \/ Pool!CloseStore(n) \/ Pool!PendingChunkLoop(n) \/ Pool!Cancel(n)
      PROVE  Goal
  BY <1>4, <1>8 DEF Pool!LoopEnds, Pool!OnMessage, Pool!Submit, Pool!CloseAll, Pool!JoinLoops,
     Pool!CloseStore, Pool!PendingChunkLoop, Pool!Cancel
<1>9. ASSUME NEW r \in Pool!Req, Pool!SendMessage(r) PROVE Goal
  BY <1>4, <1>9 DEF Pool!SendMessage
<1>10. ASSUME UNCHANGED Pool!vars PROVE Goal
  <2>1. UNCHANGED <<active, gone>>  BY <1>10 DEF Pool!vars
  <2> QED  BY <1>4, <2>1
<1>11. Goal
  BY <1>3, <1>5, <1>6, <1>7, <1>8, <1>9, <1>10, NextSteps
<1> QED  BY <1>11 DEF Goal

\* The loop, once gone, and the workers, once gone, stay so; Shutdown waits for both.
LEMMA OrderedStep ==
    ASSUME Pool!PoolConstants, PoolInv, [Pool!Next]_Pool!vars
    PROVE  ShutdownOrdered'
<1> USE DEF Pool!poolVars, Pool!sendVars, Pool!netVars
<1>i. ShutdownOrdered /\ WorkersCounted /\ Workers \in Nat  BY DEF PoolInv, Pool!PoolConstants
<1>1. \A n \in Pool!Node : gone[n] = Workers => gone'[n] = Workers
  <2> TAKE n \in Pool!Node
  <2>1. WorkersCounted' /\ gone'[n] >= gone[n]  BY CountedStep
  <2>2. gone'[n] <= Workers
    <3>1. IsFiniteSet(active'[n]) /\ gone'[n] \in Nat
          /\ Cardinality(active'[n]) + gone'[n] <= Workers  BY <2>1 DEF WorkersCounted
    <3>2. Cardinality(active'[n]) \in Nat  BY <3>1, FS_CardinalityType
    <3> QED  BY <3>1, <3>2, <1>i
  <2>3. gone'[n] \in Nat  BY <2>1 DEF WorkersCounted
  <2> QED  BY <1>i, <2>1, <2>2, <2>3
<1>2. ASSUME UNCHANGED <<loop, stop>> PROVE ShutdownOrdered'
  BY <1>i, <1>1, <1>2 DEF ShutdownOrdered
<1>3. ASSUME NEW n \in Pool!Node, NEW t \in Pool!Try, Pool!Return(n, t), UNCHANGED stop
      PROVE  ShutdownOrdered'
  <2>1. loop' \in [Pool!Node -> Pool!Try \cup {Pool!Idle, Pool!Ended}]
        /\ \A k \in Pool!Node : loop[k] = Pool!Ended => loop'[k] = Pool!Ended
    BY <1>i, <1>3, NoTry DEF ShutdownOrdered, Pool!Return
  <2> QED  BY <1>i, <1>1, <1>3, <2>1 DEF ShutdownOrdered
<1>4. ASSUME NEW n \in Pool!Node, Pool!Confirmed(n) \/ Pool!GivesUp(n) PROVE ShutdownOrdered'
  BY <1>3, <1>4 DEF Pool!Confirmed, Pool!GivesUp, Pool!Waiting
<1>5. ASSUME NEW n \in Pool!Node, Pool!PendingChunkLoop(n) PROVE ShutdownOrdered'
  <2>1. PICK r \in Pool!Req : /\ loop[n] = Pool!Idle /\ Pool!MayDeliver(n, r)
                              /\ loop' = [loop EXCEPT ![n] = Pool!NextTry(r)]
                              /\ UNCHANGED stop
    BY <1>5 DEF Pool!PendingChunkLoop
  <2>2. Pool!NextTry(r) \in Pool!Try
    <3>1. tries \in [Pool!Req -> 0..MaxTries]  BY DEF PoolInv, PoolTyped
    <3> QED  BY <2>1, <3>1, JobTypes
  <2>3. loop' \in [Pool!Node -> Pool!Try \cup {Pool!Idle, Pool!Ended}]
        /\ \A k \in Pool!Node : loop[k] = Pool!Ended => loop'[k] = Pool!Ended
    BY <1>i, <2>1, <2>2, NoTry DEF ShutdownOrdered
  <2> QED  BY <1>i, <1>1, <2>1, <2>3 DEF ShutdownOrdered
<1>6. ASSUME NEW n \in Pool!Node, Pool!LoopEnds(n) PROVE ShutdownOrdered'
  BY <1>i, <1>1, <1>6, NoTry DEF Pool!LoopEnds, ShutdownOrdered
<1>7. ASSUME NEW n \in Pool!Node, Pool!Cancel(n) \/ Pool!CloseAll(n) PROVE ShutdownOrdered'
  BY <1>i, <1>1, <1>7 DEF Pool!Cancel, Pool!CloseAll, ShutdownOrdered
<1>8. ASSUME NEW n \in Pool!Node, Pool!JoinLoops(n) PROVE ShutdownOrdered'
  BY <1>i, <1>1, <1>8 DEF Pool!JoinLoops, ShutdownOrdered
<1>9. ASSUME NEW n \in Pool!Node, Pool!CloseStore(n) PROVE ShutdownOrdered'
  BY <1>i, <1>1, <1>9 DEF Pool!CloseStore, ShutdownOrdered
<1>10. ASSUME NEW n \in Pool!Node,
              \/ Pool!TakeJob(n) \/ Pool!DialEnds(n) \/ Pool!StoreChunkBatch(n)
              \/ Pool!WorkerEnds(n) \/ Pool!OnMessage(n) \/ Pool!Submit(n)
       PROVE  ShutdownOrdered'
  BY <1>2, <1>10
  DEF Pool!TakeJob, Pool!DialEnds, Pool!StoreChunkBatch, Pool!WorkerEnds, Pool!OnMessage, Pool!Submit
<1>11. ASSUME NEW r \in Pool!Req, Pool!SendMessage(r) PROVE ShutdownOrdered'
  BY <1>2, <1>11 DEF Pool!SendMessage
<1>12. ASSUME UNCHANGED Pool!vars PROVE ShutdownOrdered'
  <2>1. UNCHANGED <<loop, stop>>  BY <1>12 DEF Pool!vars
  <2> QED  BY <1>2, <2>1
<1> QED
  BY <1>4, <1>5, <1>6, <1>7, <1>8, <1>9, <1>10, <1>11, <1>12, NextSteps

LEMMA WaitingType == Pool!Waiting(1) \cup Pool!Waiting(2) \subseteq Pool!Try
  BY DEF Pool!Waiting

\* A wait ends, and with it the acknowledgement it had.
LEMMA ReturnType ==
    ASSUME PoolInv, NEW n \in Pool!Node, NEW t \in Pool!Try, Pool!Return(n, t)
    PROVE  acks' \subseteq Pool!Waiting(1)' \cup Pool!Waiting(2)'
<1>1. \A k \in Pool!Node, u \in Pool!Try : u # t /\ u \in Pool!Waiting(k) => u \in Pool!Waiting(k)'
  <2> TAKE k \in Pool!Node, u \in Pool!Try
  <2> HAVE u # t /\ u \in Pool!Waiting(k)
  <2>1. CASE <<"wait", u>> \in active[k]
    <3>1. <<"wait", u>> # <<"wait", t>>  OBVIOUS
    <3>2. <<"wait", u>> \in active'[k]  BY <2>1, <3>1 DEF Pool!Return, PoolInv, WorkersCounted
    <3> QED  BY <3>2 DEF Pool!Waiting
  <2>2. CASE loop[k] = u
    <3>1. loop'[k] = u  BY <2>2 DEF Pool!Return, PoolInv, ShutdownOrdered
    <3> QED  BY <3>1 DEF Pool!Waiting
  <2> QED  BY <2>1, <2>2 DEF Pool!Waiting
<1>2. acks \subseteq Pool!Waiting(1) \cup Pool!Waiting(2)  BY DEF PoolInv, PoolTyped
<1>3. acks' = acks \ {t} /\ 1 \in Pool!Node /\ 2 \in Pool!Node  BY DEF Pool!Return, Pool!Node
<1> QED  BY <1>1, <1>2, <1>3, WaitingType

\* A step after which everyone waits that did before.
LEMMA WaitsOn ==
    ASSUME PoolInv, acks' \subseteq acks,
           \A k \in Pool!Node : /\ \A u \in Pool!Try : <<"wait", u>> \in active[k] => <<"wait", u>> \in active'[k]
                                /\ loop[k] \in Pool!Try => loop'[k] = loop[k]
    PROVE  acks' \subseteq Pool!Waiting(1)' \cup Pool!Waiting(2)'
<1>1. \A k \in Pool!Node : Pool!Waiting(k) \subseteq Pool!Waiting(k)'
  BY DEF Pool!Waiting
<1>2. acks \subseteq Pool!Waiting(1) \cup Pool!Waiting(2) /\ 1 \in Pool!Node /\ 2 \in Pool!Node
  BY DEF PoolInv, PoolTyped, Pool!Node
<1> QED  BY <1>1, <1>2

LEMMA TypedStep ==
    ASSUME Pool!PoolConstants, PoolInv, [Pool!Next]_Pool!vars
    PROVE  PoolTyped'
<1> USE DEF Pool!poolVars, Pool!sendVars, Pool!netVars
<1>t. PoolTyped /\ WorkersCounted /\ ShutdownOrdered  BY DEF PoolInv
<1>n. \A n \in Pool!Node : Pool!Other(n) \in Pool!Node  BY OtherNode
\* A batch is sent.
<1>b. ASSUME NEW n \in Pool!Node, NEW r \in Pool!Req, Pool!MayDeliver(n, r),
             Pool!SendChunkStoreBatchConfirmed(n, r)
      PROVE  /\ tries' \in [Pool!Req -> 0..MaxTries] /\ wire' \in [Pool!Node -> Seq(Wire)]
             /\ Pool!NextTry(r) \in Pool!Try
  <2>1. tries[r] + 1 \in 0..MaxTries /\ Pool!NextTry(r) \in Pool!Try
    BY <1>b, <1>t, JobTypes DEF PoolTyped
  <2>2. <<"batch", Pool!NextTry(r)>> \in Wire  BY <2>1 DEF Wire
  <2>3. wire' \in [Pool!Node -> Seq(Wire)]
    BY <1>b, <1>t, <1>n, <2>2, WireType DEF PoolTyped, Pool!SendChunkStoreBatchConfirmed
  <2> QED  BY <1>b, <1>t, <2>1, <2>3 DEF PoolTyped, Pool!SendChunkStoreBatchConfirmed
\* A job leaves the queue.
<1>q. ASSUME NEW n \in Pool!Node, queue[n] # <<>>, queue' = [queue EXCEPT ![n] = Tail(@)]
      PROVE  /\ queue' \in [Pool!Node -> Seq(Pool!Jobs)]
             /\ \A k \in Pool!Node : Len(queue'[k]) <= QueueSize
  <2>1. queue[n] \in Seq(Pool!Jobs) /\ Len(queue[n]) <= QueueSize /\ QueueSize \in Nat
    BY <1>t DEF PoolTyped, Pool!PoolConstants
  <2>2. Tail(queue[n]) \in Seq(Pool!Jobs) /\ Len(Tail(queue[n])) = Len(queue[n]) - 1
    BY <1>q, <2>1
  <2>3. queue'[n] = Tail(queue[n]) /\ \A k \in Pool!Node \ {n} : queue'[k] = queue[k]
    BY <1>q, <1>t DEF PoolTyped
  <2>4. Len(queue[n]) \in Nat  BY <2>1
  <2>5. Len(queue'[n]) <= QueueSize  BY <2>1, <2>2, <2>3, <2>4
  <2> QED  BY <1>q, <1>t, <2>2, <2>3, <2>5 DEF PoolTyped
<1>1. ASSUME NEW r \in Pool!Req, Pool!SendMessage(r) PROVE PoolTyped'
  <2>1. OwnerOf[r] \in Pool!Node /\ <<"deliver", r>> \in Pool!Jobs
    BY DEF Pool!PoolConstants, Pool!Jobs
  <2>2. /\ queue' \in [Pool!Node -> Seq(Pool!Jobs)]
        /\ \A k \in Pool!Node : Len(queue'[k]) <= QueueSize
    BY <1>1, <2>1, Submitted DEF Pool!SendMessage
  <2>3. acks' \subseteq Pool!Waiting(1)' \cup Pool!Waiting(2)'
    BY <1>1, WaitsOn DEF Pool!SendMessage
  <2> QED  BY <1>1, <1>t, <2>2, <2>3 DEF Pool!SendMessage, PoolTyped
<1>2. ASSUME NEW n \in Pool!Node, Pool!Confirmed(n) \/ Pool!GivesUp(n) PROVE PoolTyped'
  <2>1. \E t \in Pool!Try : Pool!Return(n, t)
    BY <1>2 DEF Pool!Confirmed, Pool!GivesUp, Pool!Waiting
  <2>2. acks' \subseteq Pool!Waiting(1)' \cup Pool!Waiting(2)'  BY <2>1, ReturnType
  <2>3. UNCHANGED <<ctx, queue, tries, link, wire, reader>>
    BY <1>2 DEF Pool!Confirmed, Pool!GivesUp
  <2>4. state' \in [Pool!Req -> {"new", "pending", "placed"}]
    BY <1>2, <1>t DEF Pool!Confirmed, Pool!GivesUp, PoolTyped
  <2> QED  BY <1>t, <2>2, <2>3, <2>4 DEF PoolTyped
<1>3. ASSUME NEW n \in Pool!Node, Pool!PendingChunkLoop(n) PROVE PoolTyped'
  <2>1. PICK r \in Pool!Req : /\ loop[n] = Pool!Idle /\ Pool!MayDeliver(n, r)
                              /\ Pool!SendChunkStoreBatchConfirmed(n, r)
                              /\ loop' = [loop EXCEPT ![n] = Pool!NextTry(r)]
                              /\ UNCHANGED <<ctx, queue, active, state, acks, link, reader>>
    BY <1>3 DEF Pool!PendingChunkLoop
  <2>2. acks' \subseteq Pool!Waiting(1)' \cup Pool!Waiting(2)'
    BY <1>t, <2>1, WaitsOn, NoTry DEF ShutdownOrdered
  <2> QED  BY <1>b, <1>t, <2>1, <2>2 DEF PoolTyped
<1>4. ASSUME NEW n \in Pool!Node, Pool!TakeJob(n) \/ Pool!DialEnds(n) PROVE PoolTyped'
  <2>1. /\ queue' = queue \/ (queue[n] # <<>> /\ queue' = [queue EXCEPT ![n] = Tail(@)])
        /\ UNCHANGED <<ctx, loop, state, acks, link, reader>>
    BY <1>4 DEF Pool!TakeJob, Pool!DialEnds
  <2>2. Goes(n)  BY <1>4, WorkerGoes
  <2>3. /\ queue' \in [Pool!Node -> Seq(Pool!Jobs)]
        /\ \A k \in Pool!Node : Len(queue'[k]) <= QueueSize
    BY <1>q, <1>t, <2>1 DEF PoolTyped
  <2>4. \A k \in Pool!Node, u \in Pool!Try : <<"wait", u>> \in active[k] => <<"wait", u>> \in active'[k]
    <3> TAKE k \in Pool!Node, u \in Pool!Try
    <3>1. \A r : <<"wait", u>> # <<"dial", r>>  OBVIOUS
    <3> QED  BY <1>t, <2>2, <3>1 DEF WorkersCounted, Goes
  <2>5. acks' \subseteq Pool!Waiting(1)' \cup Pool!Waiting(2)'  BY <2>1, <2>4, WaitsOn
  <2>6. tries' \in [Pool!Req -> 0..MaxTries] /\ wire' \in [Pool!Node -> Seq(Wire)]
    <3>1. CASE UNCHANGED <<tries, wire>>  BY <1>t, <3>1 DEF PoolTyped
    <3>2. CASE \E r \in Pool!Req : Pool!MayDeliver(n, r) /\ Pool!SendChunkStoreBatchConfirmed(n, r)
      BY <1>b, <3>2
    <3> QED  BY <2>2, <3>1, <3>2 DEF Goes
  <2> QED  BY <1>t, <2>1, <2>3, <2>5, <2>6 DEF PoolTyped
<1>5. ASSUME NEW n \in Pool!Node, Pool!StoreChunkBatch(n) PROVE PoolTyped'
  <2>1. PICK t \in Pool!Try :
          /\ active' = [active EXCEPT ![n] = @ \ {<<"store", t>>}]
          /\ Pool!TrySubmit(n, <<"report">>)
          /\ wire' = IF link = "up" THEN [wire EXCEPT ![Pool!Other(n)] = Append(@, <<"ack", t>>)]
                     ELSE wire
          /\ UNCHANGED <<ctx, loop, state, tries, acks, link, reader>>
    BY <1>5 DEF Pool!StoreChunkBatch
  <2>2. <<"report">> \in Pool!Jobs /\ <<"ack", t>> \in Wire  BY DEF Pool!Jobs, Wire
  <2>3. /\ queue' \in [Pool!Node -> Seq(Pool!Jobs)]
        /\ \A k \in Pool!Node : Len(queue'[k]) <= QueueSize
    BY <2>1, <2>2, Submitted
  <2>4. wire' \in [Pool!Node -> Seq(Wire)]  BY <1>n, <1>t, <2>1, <2>2, WireType DEF PoolTyped
  <2>5. acks' \subseteq Pool!Waiting(1)' \cup Pool!Waiting(2)'
    <3>1. \A k \in Pool!Node, u \in Pool!Try :
            <<"wait", u>> \in active[k] => <<"wait", u>> \in active'[k]
      <4> TAKE k \in Pool!Node, u \in Pool!Try
      <4>1. <<"wait", u>> # <<"store", t>>  OBVIOUS
      <4> QED  BY <1>t, <2>1, <4>1 DEF WorkersCounted
    <3> QED  BY <2>1, <3>1, WaitsOn
  <2> QED  BY <1>t, <2>1, <2>3, <2>4, <2>5 DEF PoolTyped
<1>6. ASSUME NEW n \in Pool!Node, Pool!OnMessage(n) PROVE PoolTyped'
  <2> DEFINE m == Head(wire[n])
  <2> HIDE DEF m
  <2>1. /\ wire[n] # <<>> /\ wire' = [wire EXCEPT ![n] = Tail(@)]
        /\ UNCHANGED <<ctx, active, loop, state, tries, link>>
    BY <1>6 DEF Pool!OnMessage
  <2>2. m \in Wire /\ wire' \in [Pool!Node -> Seq(Wire)]
    BY <1>t, <2>1, WireType DEF PoolTyped, m
  <2>3. m[2] \in Pool!Try /\ <<"store", m[2]>> \in Pool!Jobs  BY <2>2 DEF Wire, Pool!Jobs
  <2>4. CASE Pool!acceptChunkStoreAck(n, m[2]) /\ UNCHANGED <<queue, reader>>
    <3>1. \A k \in Pool!Node : Pool!Waiting(k)' = Pool!Waiting(k)  BY <2>1 DEF Pool!Waiting
    <3>2. acks' \subseteq Pool!Waiting(1)' \cup Pool!Waiting(2)'
      BY <1>t, <2>4, <3>1 DEF PoolTyped, Pool!acceptChunkStoreAck, Pool!Node
    <3> QED  BY <1>t, <2>1, <2>2, <2>4, <3>2 DEF PoolTyped
  <2>5. CASE UNCHANGED acks
    <3>1. acks' \subseteq Pool!Waiting(1)' \cup Pool!Waiting(2)'  BY <2>1, <2>5, WaitsOn
    <3>2. CASE Pool!TrySubmit(n, <<"store", m[2]>>) /\ UNCHANGED reader
      <4>1. /\ queue' \in [Pool!Node -> Seq(Pool!Jobs)]
            /\ \A k \in Pool!Node : Len(queue'[k]) <= QueueSize
        BY <2>3, <3>2, Submitted
      <4> QED  BY <1>t, <2>1, <2>2, <3>1, <3>2, <4>1 DEF PoolTyped
    <3>3. CASE reader' = [reader EXCEPT ![n] = m[2]] /\ UNCHANGED queue
      BY <1>t, <2>1, <2>2, <2>3, <3>1, <3>3 DEF PoolTyped
    <3> QED  BY <1>6, <2>4, <3>2, <3>3 DEF Pool!OnMessage, m
  <2> QED  BY <1>6, <2>4, <2>5 DEF Pool!OnMessage, m
<1>7. ASSUME NEW n \in Pool!Node, Pool!Submit(n) PROVE PoolTyped'
  <2>1. /\ reader[n] # Pool!Nothing /\ reader' = [reader EXCEPT ![n] = Pool!Nothing]
        /\ UNCHANGED <<ctx, active, loop, state, tries, acks, link, wire>>
    BY <1>7 DEF Pool!Submit
  <2>2. reader[n] \in Pool!Try /\ <<"store", reader[n]>> \in Pool!Jobs
    BY <1>t, <2>1 DEF PoolTyped, Pool!Jobs
  <2>3. /\ queue' \in [Pool!Node -> Seq(Pool!Jobs)]
        /\ \A k \in Pool!Node : Len(queue'[k]) <= QueueSize
    BY <1>7, <1>t, <2>2, Submitted DEF Pool!Submit, PoolTyped
  <2>4. acks' \subseteq Pool!Waiting(1)' \cup Pool!Waiting(2)'  BY <2>1, WaitsOn
  <2> QED  BY <1>t, <2>1, <2>3, <2>4 DEF PoolTyped
<1>8. ASSUME NEW n \in Pool!Node, Pool!WorkerEnds(n) PROVE PoolTyped'
  <2>1. UNCHANGED <<ctx, active, loop, state, tries, acks, link, wire, reader>>
    BY <1>8 DEF Pool!WorkerEnds
  <2>2. /\ queue' \in [Pool!Node -> Seq(Pool!Jobs)]
        /\ \A k \in Pool!Node : Len(queue'[k]) <= QueueSize
    BY <1>8, <1>q, <1>t DEF Pool!WorkerEnds, PoolTyped
  <2>3. acks' \subseteq Pool!Waiting(1)' \cup Pool!Waiting(2)'  BY <2>1, WaitsOn
  <2> QED  BY <1>t, <2>1, <2>2, <2>3 DEF PoolTyped
<1>9. ASSUME NEW n \in Pool!Node, Pool!LoopEnds(n) PROVE PoolTyped'
  <2>1. acks' \subseteq Pool!Waiting(1)' \cup Pool!Waiting(2)'
    BY <1>9, <1>t, WaitsOn, NoTry DEF Pool!LoopEnds, ShutdownOrdered
  <2> QED  BY <1>9, <1>t, <2>1 DEF Pool!LoopEnds, PoolTyped
<1>10. ASSUME NEW n \in Pool!Node,
              Pool!Cancel(n) \/ Pool!CloseAll(n) \/ Pool!JoinLoops(n) \/ Pool!CloseStore(n)
       PROVE  PoolTyped'
  <2>1. UNCHANGED <<queue, active, loop, state, tries, acks, reader>>
    BY <1>10 DEF Pool!Cancel, Pool!CloseAll, Pool!JoinLoops, Pool!CloseStore
  <2>2. /\ ctx' \in [Pool!Node -> {"live", "cancelled"}] /\ link' \in {"up", "down"}
        /\ wire' \in [Pool!Node -> Seq(Wire)]
    BY <1>10, <1>t, WireType
    DEF Pool!Cancel, Pool!CloseAll, Pool!JoinLoops, Pool!CloseStore, PoolTyped
  <2>3. acks' \subseteq Pool!Waiting(1)' \cup Pool!Waiting(2)'  BY <2>1, WaitsOn
  <2> QED  BY <1>t, <2>1, <2>2, <2>3 DEF PoolTyped
<1>11. ASSUME UNCHANGED Pool!vars PROVE PoolTyped'
  <2>1. UNCHANGED <<ctx, queue, active, loop, state, tries, acks, link, wire, reader>>
    BY <1>11 DEF Pool!vars
  <2>2. acks' \subseteq Pool!Waiting(1)' \cup Pool!Waiting(2)'  BY <2>1, WaitsOn
  <2> QED  BY <1>t, <2>1, <2>2 DEF PoolTyped
<1> QED
  BY <1>1, <1>2, <1>3, <1>4, <1>5, <1>6, <1>7, <1>8, <1>9, <1>10, <1>11, NextSteps

\* What holds of the pools and of Shutdown at every moment, for every number of
\* workers and requests, every size of the queue, and whoever shuts down.
LEMMA PoolInductive ==
    ASSUME Pool!PoolConstants
    PROVE  Pool!Spec => []PoolInv
<1>1. Pool!Init => PoolInv  BY PoolInit
<1>2. PoolInv /\ [Pool!Next]_Pool!vars => PoolInv'
  <2> SUFFICES ASSUME PoolInv, [Pool!Next]_Pool!vars PROVE PoolInv'  OBVIOUS
  <2>1. PoolTyped' /\ WorkersCounted' /\ ShutdownOrdered'  BY TypedStep, CountedStep, OrderedStep
  <2> QED  BY <2>1 DEF PoolInv
<1> QED  BY <1>1, <1>2, PTL DEF Pool!Spec

\* A worker of the pool is never at two jobs, and no pool has more workers at jobs
\* than it has workers left.
THEOREM PoolTypeCorrect ==
    ASSUME Pool!PoolConstants
    PROVE  Pool!Spec => []Pool!TypeOK
<1> QED  BY PoolTypes, PoolInductive, PTL

\* Shutdown closes the database only when every worker and the delivery loop have
\* ended, and none begins anything after (messenger.go: Shutdown; async_pool.go:
\* worker, wait).
THEOREM StoreOutlivesWorkAlways ==
    ASSUME Pool!PoolConstants
    PROVE  Pool!Spec => []StoreOutlivesWork
<1>1. PoolInv => StoreOutlivesWork
  <2> SUFFICES ASSUME PoolInv, NEW n \in Pool!Node, stop[n] = "done"
               PROVE  active[n] = {} /\ ~IdleWorker(n) /\ loop[n] = Pool!Ended
    BY DEF StoreOutlivesWork, Node, Pool!Node, Ended, Pool!Ended
  <2>1. gone[n] = Workers /\ loop[n] = Pool!Ended  BY DEF PoolInv, ShutdownOrdered
  <2>2. IsFiniteSet(active[n]) /\ Cardinality(active[n]) + gone[n] <= Workers
    BY DEF PoolInv, WorkersCounted
  <2>3. Cardinality(active[n]) \in Nat /\ Workers \in Nat
    BY <2>2, FS_CardinalityType DEF Pool!PoolConstants
  <2>4. Cardinality(active[n]) = 0  BY <2>1, <2>2, <2>3
  <2>5. active[n] = {}  BY <2>2, <2>4, FS_EmptySet
  <2>6. ~IdleWorker(n)  BY <2>1, <2>3, <2>4 DEF IdleWorker
  <2> QED  BY <2>1, <2>5, <2>6
<1> QED  BY <1>1, PoolInductive, PTL

\* One delivery at a time waits for the other node: deliveryMu. The workers of a
\* node that runs are all there.
OneDelivery ==
    /\ \A n \in Pool!Node : stop[n] = "no" => ctx[n] = "live"
    /\ \A n \in Pool!Node : ctx[n] = "live" => gone[n] = 0
    /\ \A n \in Pool!Node : \A t, u \in Pool!Waiting(n) : t = u

LEMMA OneDeliveryStep ==
    ASSUME Pool!PoolConstants, PoolInv, OneDelivery, [Pool!Next]_Pool!vars
    PROVE  OneDelivery'
<1> USE DEF Pool!poolVars, Pool!sendVars, Pool!netVars
<1> DEFINE OneWaits == \A n \in Pool!Node : \A t, u \in Pool!Waiting(n)' : t = u
           WorkersThere == /\ \A n \in Pool!Node : stop'[n] = "no" => ctx'[n] = "live"
                           /\ \A n \in Pool!Node : ctx'[n] = "live" => gone'[n] = 0
<1>t. PoolTyped /\ WorkersCounted /\ ShutdownOrdered  BY DEF PoolInv
\* Nobody begins to wait.
<1>1. ASSUME \A k \in Pool!Node : /\ \A u \in Pool!Try : <<"wait", u>> \in active'[k] => <<"wait", u>> \in active[k]
                                  /\ loop'[k] \in Pool!Try => loop'[k] = loop[k]
      PROVE  OneWaits
  <2>1. \A k \in Pool!Node : Pool!Waiting(k)' \subseteq Pool!Waiting(k)
    BY <1>1 DEF Pool!Waiting
  <2> QED  BY <2>1 DEF OneDelivery
\* One does, when nobody of this node waits.
<1>2. ASSUME NEW n \in Pool!Node, NEW r \in Pool!Req, Pool!MayDeliver(n, r),
             \/ active' = [active EXCEPT ![n] = @ \cup {<<"wait", Pool!NextTry(r)>>}] /\ UNCHANGED loop
             \/ /\ active' = [active EXCEPT ![n] = (@ \ {<<"dial", r>>}) \cup {<<"wait", Pool!NextTry(r)>>}]
                /\ UNCHANGED loop
             \/ loop' = [loop EXCEPT ![n] = Pool!NextTry(r)] /\ UNCHANGED active
      PROVE  OneWaits
  <2>1. Pool!Waiting(n) = {}  BY <1>2 DEF Pool!MayDeliver
  <2>2. Pool!Waiting(n)' \subseteq {Pool!NextTry(r)}
    BY <1>2, <1>t, <2>1 DEF Pool!Waiting, WorkersCounted, ShutdownOrdered
  <2>3. \A k \in Pool!Node \ {n} : Pool!Waiting(k)' = Pool!Waiting(k)
    BY <1>2, <1>t DEF Pool!Waiting, WorkersCounted, ShutdownOrdered
  <2> QED  BY <2>2, <2>3 DEF OneDelivery
<1>3. ASSUME UNCHANGED <<ctx, gone, stop>> PROVE WorkersThere
  BY <1>3 DEF OneDelivery
<1> HIDE DEF OneWaits, WorkersThere
<1>4. ASSUME NEW n \in Pool!Node, Pool!TakeJob(n) \/ Pool!DialEnds(n) PROVE OneWaits /\ WorkersThere
  <2>1. UNCHANGED <<ctx, gone, stop, loop>>  BY <1>4 DEF Pool!TakeJob, Pool!DialEnds
  <2>2. Goes(n)  BY <1>4, WorkerGoes
  <2>3. CASE \E r \in Pool!Req :
               /\ Pool!MayDeliver(n, r)
               /\ \/ active' = [active EXCEPT ![n] = @ \cup {<<"wait", Pool!NextTry(r)>>}]
                  \/ active' = [active EXCEPT ![n] = (@ \ {<<"dial", r>>}) \cup {<<"wait", Pool!NextTry(r)>>}]
    BY <1>2, <1>3, <2>1, <2>3
  <2>4. CASE \/ \E j \in Pool!Busy : j[1] # "wait" /\ active' = [active EXCEPT ![n] = @ \cup {j}]
             \/ \E j : active' = [active EXCEPT ![n] = @ \ {j}]
             \/ UNCHANGED active
    <3>1. \A j, u : j[1] # "wait" => <<"wait", u>> # j  OBVIOUS
    <3>2. \A k \in Pool!Node, u \in Pool!Try : <<"wait", u>> \in active'[k] => <<"wait", u>> \in active[k]
      BY <1>t, <2>4, <3>1 DEF WorkersCounted
    <3> QED  BY <1>1, <1>3, <2>1, <3>2
  <2> QED  BY <2>2, <2>3, <2>4 DEF Goes
<1>5. ASSUME NEW n \in Pool!Node, Pool!PendingChunkLoop(n) PROVE OneWaits /\ WorkersThere
  <2>1. PICK r \in Pool!Req : /\ Pool!MayDeliver(n, r)
                              /\ loop' = [loop EXCEPT ![n] = Pool!NextTry(r)]
                              /\ UNCHANGED <<ctx, gone, stop, active>>
    BY <1>5 DEF Pool!PendingChunkLoop
  <2> QED  BY <1>2, <1>3, <2>1
<1>6. ASSUME NEW n \in Pool!Node,
             Pool!StoreChunkBatch(n) \/ Pool!Confirmed(n) \/ Pool!GivesUp(n)
      PROVE  OneWaits /\ WorkersThere
  <2>1. UNCHANGED <<ctx, gone, stop>>
    BY <1>6 DEF Pool!StoreChunkBatch, Pool!Confirmed, Pool!GivesUp
  <2>2. \E j : active' = [active EXCEPT ![n] = @ \ {j}]
    BY <1>6 DEF Pool!StoreChunkBatch, Pool!Confirmed, Pool!GivesUp, Pool!Return
  <2>3. loop' = loop \/ loop' = [loop EXCEPT ![n] = Pool!Idle]
    BY <1>6 DEF Pool!StoreChunkBatch, Pool!Confirmed, Pool!GivesUp, Pool!Return
  <2>4. \A k \in Pool!Node : /\ active'[k] \subseteq active[k]
                             /\ loop'[k] \in Pool!Try => loop'[k] = loop[k]
    BY <1>t, <2>2, <2>3, NoTry DEF WorkersCounted, ShutdownOrdered
  <2> QED  BY <1>1, <1>3, <2>1, <2>4
<1>7. ASSUME NEW n \in Pool!Node, Pool!WorkerEnds(n) PROVE OneWaits /\ WorkersThere
  <2>1. UNCHANGED <<active, loop, ctx, stop>> /\ ctx[n] = "cancelled"
        /\ gone' = [gone EXCEPT ![n] = @ + 1]
    BY <1>7 DEF Pool!WorkerEnds
  <2>2. WorkersThere  BY <1>t, <2>1 DEF OneDelivery, WorkersCounted, WorkersThere
  <2> QED  BY <1>1, <2>1, <2>2
<1>8. ASSUME NEW n \in Pool!Node, Pool!LoopEnds(n) PROVE OneWaits /\ WorkersThere
  <2>1. UNCHANGED <<active, ctx, gone, stop>> /\ loop' = [loop EXCEPT ![n] = Pool!Ended]
    BY <1>8 DEF Pool!LoopEnds
  <2>2. \A k \in Pool!Node : loop'[k] \in Pool!Try => loop'[k] = loop[k]
    BY <1>t, <2>1, NoTry DEF ShutdownOrdered
  <2> QED  BY <1>1, <1>3, <2>1, <2>2
<1>9. ASSUME NEW n \in Pool!Node,
             Pool!Cancel(n) \/ Pool!CloseAll(n) \/ Pool!JoinLoops(n) \/ Pool!CloseStore(n)
      PROVE  OneWaits /\ WorkersThere
  <2>1. UNCHANGED <<active, loop, gone>>
    BY <1>9 DEF Pool!Cancel, Pool!CloseAll, Pool!JoinLoops, Pool!CloseStore
  <2>2. WorkersThere
    <3>1. \E x \in {"cancelled", "closed", "joined", "done"} : stop' = [stop EXCEPT ![n] = x]
      BY <1>9 DEF Pool!Cancel, Pool!CloseAll, Pool!JoinLoops, Pool!CloseStore
    <3>2. ctx' = ctx \/ ctx' = [ctx EXCEPT ![n] = "cancelled"]
      BY <1>9 DEF Pool!Cancel, Pool!CloseAll, Pool!JoinLoops, Pool!CloseStore
    <3>3. /\ stop'[n] # "no"
          /\ \A k \in Pool!Node : /\ stop'[k] = "no" => k # n /\ stop[k] = "no"
                                  /\ k # n => ctx'[k] = ctx[k]
                                  /\ ctx'[k] = "live" => ctx[k] = "live"
      BY <1>t, <3>1, <3>2 DEF ShutdownOrdered, PoolTyped
    <3> QED  BY <2>1, <3>3 DEF OneDelivery, WorkersThere
  <2> QED  BY <1>1, <2>1, <2>2
<1>10. ASSUME NEW n \in Pool!Node, Pool!OnMessage(n) \/ Pool!Submit(n)
       PROVE  OneWaits /\ WorkersThere
  <2>1. UNCHANGED <<active, loop, ctx, gone, stop>>  BY <1>10 DEF Pool!OnMessage, Pool!Submit
  <2> QED  BY <1>1, <1>3, <2>1
<1>11. ASSUME NEW r \in Pool!Req, Pool!SendMessage(r) PROVE OneWaits /\ WorkersThere
  <2>1. UNCHANGED <<active, loop, ctx, gone, stop>>  BY <1>11 DEF Pool!SendMessage
  <2> QED  BY <1>1, <1>3, <2>1
<1>12. ASSUME UNCHANGED Pool!vars PROVE OneWaits /\ WorkersThere
  <2>1. UNCHANGED <<active, loop, ctx, gone, stop>>  BY <1>12 DEF Pool!vars
  <2> QED  BY <1>1, <1>3, <2>1
<1>13. OneWaits /\ WorkersThere
  BY <1>4, <1>5, <1>6, <1>7, <1>8, <1>9, <1>10, <1>11, <1>12, NextSteps
<1> QED  BY <1>13 DEF OneDelivery, OneWaits, WorkersThere

\* The workers of a running node with more than one are never all waiting for the
\* other node's acknowledgement: with none idle, one stores or dials. So neither pool
\* can be full of such waits while both readers wait for room (chunk_delivery.go:
\* distributeChunks; outgoing.go: deliverOutgoing; async_pool.go: submit).
THEOREM NotAllWaitAlways ==
    ASSUME Pool!PoolConstants, Workers > 1
    PROVE  Pool!Spec => []NotAllWait
<1>1. Pool!Init => OneDelivery
  BY DEF Pool!Init, OneDelivery, Pool!Waiting, Pool!Try, Pool!Idle
<1>2. PoolInv /\ OneDelivery /\ [Pool!Next]_Pool!vars => OneDelivery'  BY OneDeliveryStep
<1>3. PoolInv /\ OneDelivery => NotAllWait
  <2> SUFFICES ASSUME PoolInv, OneDelivery, NEW n \in Pool!Node, stop[n] = "no",
                      \A j \in active[n] : j[1] = "wait"
               PROVE  IdleWorker(n)
    BY DEF NotAllWait, Node, Pool!Node
  <2>1. gone[n] = 0  BY DEF OneDelivery
  <2>2. active[n] \subseteq {"wait"} \X Pool!Try
    <3>1. active[n] \subseteq Pool!Busy  BY DEF PoolInv, WorkersCounted
    <3> QED  BY <3>1 DEF Pool!Busy
  <2>3. \A j, k \in active[n] : j = k
    <3> SUFFICES ASSUME NEW j \in active[n], NEW k \in active[n] PROVE j = k  OBVIOUS
    <3>1. PICK t \in Pool!Try : j = <<"wait", t>>  BY <2>2
    <3>2. PICK u \in Pool!Try : k = <<"wait", u>>  BY <2>2
    <3>3. t = u  BY <3>1, <3>2 DEF OneDelivery, Pool!Waiting
    <3> QED  BY <3>1, <3>2, <3>3
  <2>4. Cardinality(active[n]) <= 1
    <3>1. CASE active[n] = {}  BY <3>1, FS_EmptySet
    <3>2. CASE active[n] # {}
      <4>1. PICK j : j \in active[n]  BY <3>2
      <4>2. active[n] = {j}  BY <2>3, <4>1
      <4>3. Cardinality({j}) = 1  BY FS_Singleton
      <4> QED  BY <4>2, <4>3
    <3> QED  BY <3>1, <3>2
  <2>5. Cardinality(active[n]) \in Nat
    BY FS_CardinalityType DEF PoolInv, WorkersCounted
  <2>6. Cardinality(active[n]) + gone[n] < Workers
    BY <2>1, <2>4, <2>5 DEF Pool!PoolConstants
  <2> QED  BY <2>6 DEF IdleWorker
<1> QED  BY <1>1, <1>2, <1>3, PoolInductive, PTL DEF Pool!Spec
=============================================================================
