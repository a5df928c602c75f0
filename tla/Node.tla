-------------------------------- MODULE Node --------------------------------
(***************************************************************************)
(* The life of an endpoint: it opens its database, takes its keys, name    *)
(* and endpoint ID from it or makes them, registers with Muninn and keeps  *)
(* the registration alive, may change its identity by a relogin, and stops *)
(* or crashes, to be started again.                                        *)
(*                                                                         *)
(* internal/messenger/{messenger,groups,relogin}.go, bridge.go, main.go,   *)
(* internal/muninn/client.go, internal/store/configStore.go                *)
(*                                                                         *)
(* Register runs in the host's goroutine and in the heartbeat loop, one at *)
(* a time (registeredMu), while a relogin changes name and keys under no   *)
(* lock. Keys and names are told apart by whose they are: "own", or of the *)
(* "source" of a relogin; "unsaved" are own keys that a start has made and *)
(* could not save. Endpoint IDs are numbered by the start that made them.  *)
(* Opening the database is module Migrations.                              *)
(***************************************************************************)
EXTENDS Migrations

CONSTANTS
    Host,        \* "app" (bridge.go) or "bot" (main.go)
    Late,        \* requests that Muninn may handle after their caller has
                 \* given up: a subset of {"register", "delete"}
    MaxStarts,   \* bound: starts of the process
    MaxFaults    \* bound: crashes, failed requests, losses at Muninn, starts
                 \* with failing reads or writes

ASSUME NodeAssumption ==
    /\ Host \in {"app", "bot"}
    /\ Late \subseteq {"register", "delete"}
    /\ MaxStarts \in Nat \ {0}
    /\ MaxFaults \in Nat

Caller == {"host", "heartbeat"}
Whose == {"own", "source", "unsaved"}
ID == 1..MaxStarts
Identity == [login : Whose, sign : Whose]
Peer == [login : Whose, sign : Whose, enc : Whose]
NoPeer == [login |-> "none", sign |-> "none", enc |-> "none"]

VARIABLES
    \* the database
    keys, name,  \* whose keys and name are saved, "none": nobody's
    peerID,      \* the saved endpoint ID, 0: none
    group,       \* the group chat: "none", "saved"
    \* the process
    phase,       \* "down", "opening", "made" (New), "up", "stopping", "deleted"
    id,          \* its endpoint ID
    memKeys, login,
    relogin,     \* "no", "keys" (saved and used), "named", "over"
    reg,         \* registeredMap: the identities registered
    pc,          \* where a call of Register is
    ident,       \* the identity it began with
    req,         \* the registration it sends
    \* Muninn
    entry,       \* the peer registered under an endpoint ID
    listed,      \* the group's entry: "no", "yes"
    late,        \* requests still on their way, their callers gone
    starts, faults,
    unheeded     \* a failure of the database has been logged, and no more

diskVars == <<keys, name, peerID, group>>
memVars == <<id, memKeys, login, relogin>>
callVars == <<reg, pc, ident, req>>
muninnVars == <<entry, listed, late>>
boundVars == <<starts, faults, unheeded>>
vars == <<dbVars, diskVars, phase, memVars, callVars, muninnVars, boundVars>>

Holding == {"refresh", "register"}
Current == [login |-> login, sign |-> memKeys]
Registration(c) == [login |-> login, sign |-> ident[c].sign, enc |-> memKeys]

TypeOK ==
    /\ MigrationsTypeOK
    /\ keys \in Whose \cup {"none"} /\ name \in Whose \cup {"none"}
    /\ peerID \in 0..MaxStarts /\ group \in {"none", "saved"}
    /\ phase \in {"down", "opening", "made", "up", "stopping", "deleted"}
    /\ id \in 0..MaxStarts
    /\ memKeys \in Whose /\ login \in Whose
    /\ relogin \in {"no", "keys", "named", "over"}
    /\ reg \subseteq Identity
    /\ pc \in [Caller -> {"idle", "called", "lock", "groups"} \cup Holding]
    /\ \A c, d \in Caller : pc[c] \in Holding /\ pc[d] \in Holding => c = d
    /\ ident \in [Caller -> Identity]
    /\ req \in [Caller -> Peer]
    /\ entry \in [ID -> Peer \cup {NoPeer}]
    /\ listed \in {"no", "yes"}
    /\ late \subseteq ({"register"} \X ID \X Peer) \cup ({"delete"} \X ID \X {NoPeer})
    /\ starts \in 0..MaxStarts /\ faults \in 0..MaxFaults
    /\ unheeded \in BOOLEAN

\* What variables hold while they have no meaning.
Own == [login |-> "own", sign |-> "own"]
OwnPeer == [login |-> "own", sign |-> "own", enc |-> "own"]

Init ==
    /\ MigrationsInit
    /\ keys = "none" /\ name = "none" /\ peerID = 0 /\ group = "none"
    /\ phase = "down" /\ id = 0 /\ memKeys = "own" /\ login = "own"
    /\ relogin = "no" /\ reg = {}
    /\ pc = [c \in Caller |-> "idle"]
    /\ ident = [c \in Caller |-> Own] /\ req = [c \in Caller |-> OwnPeer]
    /\ entry = [i \in ID |-> NoPeer] /\ listed = "no" /\ late = {}
    /\ starts = 0 /\ faults = 0 /\ unheeded = FALSE

Faulty == faults < MaxFaults /\ faults' = faults + 1 /\ UNCHANGED starts
Fault == Faulty /\ UNCHANGED unheeded
Unheeded == Faulty /\ unheeded' = TRUE

-----------------------------------------------------------------------------
(* Start *)

Open ==
    /\ phase = "down" /\ starts < MaxStarts
    /\ phase' = "opening"
    /\ OpenStore
    /\ starts' = starts + 1
    /\ UNCHANGED <<diskVars, memVars, callVars, muninnVars, faults, unheeded>>

Migrate ==
    /\ phase = "opening"
    /\ Exec \/ Record
    /\ UNCHANGED <<diskVars, phase, memVars, callVars, muninnVars, boundVars>>

(* (A variant of New: the endpoint ID is made anew at every start.)        *)
NewMakesID ==
    /\ phase = "opening" /\ db = "open"
    /\ phase' = "made"
    /\ keys' = IF keys = "none" THEN "own" ELSE keys
    /\ memKeys' = keys'
    /\ name' = IF name = "none" THEN "own" ELSE name
    /\ login' = name'
    /\ id' = starts
    /\ relogin' = "no"
    /\ reg' = {}
    /\ UNCHANGED <<dbVars, peerID, group, pc, ident, req, muninnVars, boundVars>>

(* New: keys and name are loaded, or made and saved. The configuration is  *)
(* saved before an endpoint ID is made, hence without it. LoadAppConfig    *)
(* takes a value that it cannot read for one that is not there, and a      *)
(* write that fails is logged. An error that New returns ends the start as *)
(* a Crash does.                                                           *)
New ==
    /\ phase = "opening" /\ db = "open"
    /\ phase' = "made"
    /\ \E failed \in SUBSET {"save keys", "read name", "save name", "read id"} :
        /\ memKeys' = IF keys # "none" THEN keys
                      ELSE IF "save keys" \in failed THEN "unsaved" ELSE "own"
        /\ keys' = IF "save keys" \in failed THEN keys ELSE memKeys'
        /\ login' = IF name = "none" \/ "read name" \in failed THEN "own" ELSE name
        /\ name' = IF "save name" \in failed THEN name ELSE login'
        /\ id' = IF peerID = 0 \/ "read id" \in failed THEN starts ELSE peerID
        /\ IF failed = {} THEN UNCHANGED boundVars ELSE Unheeded
    /\ relogin' = "no"
    /\ reg' = {}
    /\ UNCHANGED <<dbVars, peerID, group, pc, ident, req, muninnVars>>

(* createMessenger saves the configuration that New has settled, with the  *)
(* ID, and only logs a failure; main does not save it. Both then register. *)
(* New's loops have been started, but their first tick is seconds away.    *)
CreateMessenger ==
    /\ phase = "made"
    /\ phase' = "up"
    /\ \/ /\ Host = "app"
          /\ name' = login /\ peerID' = id
          /\ UNCHANGED boundVars
       \/ /\ Host = "app"
          /\ name' \in {name, login} /\ UNCHANGED peerID
          /\ Unheeded
       \/ /\ Host = "bot"
          /\ UNCHANGED <<name, peerID, boundVars>>
    /\ pc' = [pc EXCEPT !["host"] = "called"]
    /\ UNCHANGED <<dbVars, keys, group, memVars, reg, ident, req, muninnVars>>

-----------------------------------------------------------------------------
(* Register *)

(* The call reads the identity, then waits for the lock. *)
Register(c) ==
    /\ pc[c] = "called"
    /\ ident' = [ident EXCEPT ![c] = Current]
    /\ pc' = [pc EXCEPT ![c] = "lock"]
    /\ UNCHANGED <<dbVars, diskVars, phase, memVars, reg, req, muninnVars, boundVars>>

(* With the lock: refresh an identity that was registered, register        *)
(* another. Name and encryption key are read only now. After Shutdown has  *)
(* cancelled the context no request is sent.                               *)
Lock(c) ==
    /\ pc[c] = "lock"
    /\ \A d \in Caller : pc[d] \notin Holding
    /\ pc' = [pc EXCEPT ![c] = IF phase # "up" THEN "idle"
                               ELSE IF ident[c] \in reg THEN "refresh" ELSE "register"]
    /\ req' = IF pc'[c] = "register" THEN [req EXCEPT ![c] = Registration(c)] ELSE req
    /\ UNCHANGED <<dbVars, diskVars, phase, memVars, reg, ident, muninnVars, boundVars>>

(* Muninn answers the refresh. If it knows the endpoint as somebody else   *)
(* it may find it or not.                                                  *)
Refresh(c) ==
    /\ pc[c] = "refresh" /\ phase = "up"
    /\ \/ /\ entry[id] # NoPeer
          /\ pc' = [pc EXCEPT ![c] = "groups"]
          /\ ident' = [ident EXCEPT ![c] = Own]
          /\ UNCHANGED <<reg, req>>
       \/ /\ \/ entry[id].login # login
             \/ entry[id].sign # ident[c].sign
          /\ reg' = reg \ {ident[c]}
          /\ pc' = [pc EXCEPT ![c] = "register"]
          /\ req' = [req EXCEPT ![c] = Registration(c)]
          /\ UNCHANGED ident
    /\ UNCHANGED <<dbVars, diskVars, phase, memVars, muninnVars, boundVars>>

(* Muninn takes the registration. *)
Registered(c) ==
    /\ pc[c] = "register" /\ phase = "up"
    /\ entry' = [entry EXCEPT ![id] = req[c]]
    /\ reg' = reg \cup {ident[c]}
    /\ pc' = [pc EXCEPT ![c] = "groups"]
    /\ ident' = [ident EXCEPT ![c] = Own] /\ req' = [req EXCEPT ![c] = OwnPeer]
    /\ UNCHANGED <<dbVars, diskVars, phase, memVars, listed, late, boundVars>>

(* The registrations in flight among the calls of C. *)
InFlight(C) ==
    IF "register" \in Late
    THEN {<<"register", id, req[c]>> : c \in {d \in C : pc[d] = "register"}}
    ELSE {}

(* The request fails or times out, or Shutdown has cancelled it: Muninn    *)
(* may still be about to handle it.                                        *)
RequestFails(c) ==
    /\ pc[c] \in Holding
    /\ phase = "up" => faults < MaxFaults
    /\ faults' = IF phase = "up" THEN faults + 1 ELSE faults
    /\ pc' = [pc EXCEPT ![c] = "idle"]
    /\ ident' = [ident EXCEPT ![c] = Own] /\ req' = [req EXCEPT ![c] = OwnPeer]
    /\ late' \in {late, late \cup InFlight({c})}
    /\ UNCHANGED <<dbVars, diskVars, phase, memVars, reg, entry, listed, starts, unheeded>>

(* registerStoredGroupPeers; a failure is only logged. The replica         *)
(* connections that are scheduled next are module StateSync's.             *)
RegisterStoredGroupPeers(c) ==
    /\ pc[c] = "groups"
    /\ pc' = [pc EXCEPT ![c] = "idle"]
    /\ \/ /\ listed' = IF phase = "up" /\ group = "saved" THEN "yes" ELSE listed
          /\ UNCHANGED boundVars
       \/ /\ phase = "up" /\ Fault
          /\ UNCHANGED listed
    /\ UNCHANGED <<dbVars, diskVars, phase, memVars, reg, ident, req, entry, late>>

-----------------------------------------------------------------------------
(* The loops *)

(* (A variant of HeartbeatLoop: a lost registration is only logged.)       *)
HeartbeatLoopLogs ==
    /\ phase = "up" /\ pc["heartbeat"] = "idle"
    /\ \A c \in Caller : pc[c] \notin Holding
    /\ Current \notin reg
    /\ pc' = [pc EXCEPT !["heartbeat"] = "called"]
    /\ UNCHANGED <<dbVars, diskVars, phase, memVars, reg, ident, req, muninnVars, boundVars>>

(* A tick calls Register when the current identity was not registered, or  *)
(* when Muninn does not know the endpoint.                                 *)
HeartbeatLoop ==
    /\ phase = "up" /\ pc["heartbeat"] = "idle"
    /\ \A c \in Caller : pc[c] \notin Holding
    /\ Current \notin reg \/ entry[id] = NoPeer
    /\ pc' = [pc EXCEPT !["heartbeat"] = "called"]
    /\ UNCHANGED <<dbVars, diskVars, phase, memVars, reg, ident, req, muninnVars, boundVars>>

(* (A variant of GroupRefreshLoop: only groups of a node that has to       *)
(* register are registered.)                                               *)
GroupRefreshLoopWithPeer ==
    /\ phase = "up" /\ group = "saved" /\ listed = "no"
    /\ Current \notin reg
    /\ listed' = "yes"
    /\ UNCHANGED <<dbVars, diskVars, phase, memVars, callVars, entry, late, boundVars>>

(* Groups are registered again every twelve hours; a failure is logged and *)
(* waits for the next tick.                                                *)
GroupRefreshLoop ==
    /\ phase = "up" /\ group = "saved" /\ listed = "no"
    /\ \/ listed' = "yes" /\ UNCHANGED boundVars
       \/ UNCHANGED listed /\ Fault
    /\ UNCHANGED <<dbVars, diskVars, phase, memVars, callVars, entry, late>>

(* CreateGroupChat, or an invitation: the group is only saved. *)
CreateGroupChat ==
    /\ phase = "up" /\ group = "none"
    /\ group' = "saved"
    /\ UNCHANGED <<dbVars, keys, name, peerID, phase, memVars, callVars, muninnVars, boundVars>>

-----------------------------------------------------------------------------
(* Relogin: the end of ApplyReloginSignature *)

UseKeys ==
    /\ phase = "up" /\ relogin = "no" /\ memKeys # "source"
    /\ keys' = "source" /\ memKeys' = "source"
    /\ relogin' = "keys"
    /\ UNCHANGED <<dbVars, name, peerID, group, phase, id, login, callVars, muninnVars, boundVars>>

UseName ==
    /\ phase # "down" /\ relogin = "keys"
    /\ login' = "source"
    /\ relogin' = "named"
    /\ UNCHANGED <<dbVars, diskVars, phase, id, memKeys, callVars, muninnVars, boundVars>>

SaveAppConfig ==
    /\ phase # "down" /\ relogin = "named"
    /\ name' = "source" /\ peerID' = id
    /\ relogin' = "over"
    /\ UNCHANGED <<dbVars, keys, group, phase, id, memKeys, login, callVars, muninnVars, boundVars>>

-----------------------------------------------------------------------------
(* Stop *)

Cancel ==
    /\ phase = "up"
    /\ phase' = "stopping"
    /\ UNCHANGED <<dbVars, diskVars, memVars, callVars, muninnVars, boundVars>>

(* Delete has three seconds; Muninn may handle it later. *)
Delete ==
    /\ phase = "stopping"
    /\ phase' = "deleted"
    /\ \/ entry' = [entry EXCEPT ![id] = NoPeer] /\ UNCHANGED <<late, boundVars>>
       \/ /\ Fault
          /\ late' \in {late, late \cup {r \in {<<"delete", id, NoPeer>>} : "delete" \in Late}}
          /\ UNCHANGED entry
    /\ UNCHANGED <<dbVars, diskVars, memVars, callVars, listed>>

\* The process is gone, and with it the goroutines; requests may be on their way.
Gone ==
    /\ phase' = "down"
    /\ CloseStore
    /\ id' = 0 /\ memKeys' = "own" /\ login' = "own" /\ relogin' = "no" /\ reg' = {}
    /\ pc' = [c \in Caller |-> "idle"]
    /\ ident' = [c \in Caller |-> Own] /\ req' = [c \in Caller |-> OwnPeer]
    /\ late' \in {late, late \cup InFlight(Caller)}
    /\ UNCHANGED <<diskVars, entry, listed>>

(* Shutdown waits for its loops. It does not wait for the host's Register, *)
(* whose context is cancelled and whose map nobody reads any more.         *)
Shutdown ==
    /\ phase = "deleted" /\ pc["heartbeat"] = "idle"
    /\ Gone
    /\ UNCHANGED boundVars

Crash ==
    /\ phase # "down"
    /\ Gone
    /\ Fault

-----------------------------------------------------------------------------
(* Muninn *)

\* A restart of Muninn, or the end of a TTL.
Forget ==
    /\ Fault
    /\ entry' = [i \in ID |-> NoPeer]
    /\ listed' = "no"
    /\ UNCHANGED <<dbVars, diskVars, phase, memVars, callVars, late>>

LateRequest ==
    \E r \in late :
        /\ late' = late \ {r}
        /\ entry' = [entry EXCEPT ![r[2]] = r[3]]
        /\ UNCHANGED <<dbVars, diskVars, phase, memVars, callVars, listed, boundVars>>

-----------------------------------------------------------------------------
RegisterStep(c) ==
    \/ Register(c) \/ Lock(c) \/ Refresh(c) \/ Registered(c)
    \/ RequestFails(c) \/ RegisterStoredGroupPeers(c)

Next ==
    \/ Open \/ Migrate \/ New \/ CreateMessenger
    \/ \E c \in Caller : RegisterStep(c)
    \/ HeartbeatLoop \/ GroupRefreshLoop \/ CreateGroupChat
    \/ UseKeys \/ UseName \/ SaveAppConfig
    \/ Cancel \/ Delete \/ Shutdown \/ Crash
    \/ Forget \/ LateRequest

Spec == Init /\ [][Next]_vars

(* A start goes on once begun, the loops tick, calls end within ten        *)
(* seconds. Muninn answers, but for the faults.                            *)
FairSpec ==
    /\ Spec
    /\ WF_vars(Migrate \/ New \/ CreateMessenger)
    /\ \A c \in Caller : WF_vars(RegisterStep(c))
    /\ WF_vars(HeartbeatLoop)
    /\ WF_vars(GroupRefreshLoop)

-----------------------------------------------------------------------------
(* Properties *)

(* Muninn knows the node under the endpoint ID in its database only: it    *)
(* never leaves an entry under another one behind, whatever ends a start   *)
(* and however it starts again, as long as every read and write of the     *)
(* database succeeds or ends the start. (New registers with an ID that it  *)
(* has made, and createMessenger with one that it could not save, after a  *)
(* failure that is only logged.)                                           *)
EndpointKept == ~unheeded => \A i \in ID : entry[i] # NoPeer => peerID = i

(* A node that runs comes to be listed as it is, with its own name and     *)
(* keys, after whatever Muninn has lost and whatever an earlier run has    *)
(* left; if it has relogged in, the next start counts.                     *)
ListedAsCurrent ==
    LET AsItIs == entry[id] = [login |-> login, sign |-> memKeys, enc |-> memKeys]
    IN (phase = "up" /\ relogin = "no")
           ~> (phase # "up" \/ relogin # "no" \/ AsItIs)

(* A group that is saved comes to be listed, so that its messages can be   *)
(* addressed, and again after Muninn has lost it.                          *)
GroupListed ==
    (phase = "up" /\ group = "saved" /\ listed = "no") ~> (phase # "up" \/ listed = "yes")
=============================================================================
