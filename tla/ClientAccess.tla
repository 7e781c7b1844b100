---------------------------- MODULE ClientAccess ----------------------------
(***************************************************************************)
(* Who may use which channel: the groups and clients of                    *)
(* config/clients.local.json, the edits of src/config-manager.mjs on them  *)
(* and on the channels they name, the document that src/client-access.mjs  *)
(* resolves keys with, and requests that carry what they were granted      *)
(* across the wait for their body (src/control-gateway.mjs).               *)
(*                                                                         *)
(* Every edit, apply and rollback is a job, so one action.  An apply is    *)
(* here the moment the routes are reloaded; RuntimeApply has the rest.     *)
(* What else keeps a channel from being deleted is in RoutingEdits, files  *)
(* edited by hand are in ControlPlane.                                     *)
(***************************************************************************)
EXTENDS FiniteSets

CONSTANTS
  Channels,   (* channel ids                                               *)
  Groups,     (* client group ids                                          *)
  Clients,    (* client ids                                                *)
  Keys,       (* client keys, by their hashes                              *)
  Requests,   (* slots for requests                                        *)
  Recorded,   (* documents in the history of earlier runs                  *)
  None

GroupRecords == [channels : SUBSET Channels \ {{}}, enabled : BOOLEAN]
ClientRecords == [group : Groups, key : Keys, enabled : BOOLEAN]
Accesses == [groups : [Groups -> GroupRecords \cup {None}],
             clients : [Clients -> ClientRecords \cup {None}]]

(* Channel ids of routes.local.json; clients.local.json, which may be      *)
(* missing.                                                                *)
Documents == [channels : SUBSET Channels, access : Accesses \cup {None}]

DefinedGroups(access) == {g \in Groups : access.groups[g] # None}
DefinedClients(access) == {k \in Clients : access.clients[k] # None}
EnabledGroups(access) == {g \in DefinedGroups(access) : access.groups[g].enabled}

(* normalizeClientAccess: what it accepts when these channels are known;   *)
(* when none is, any name will do.                                         *)
Normalizes(access, known) ==
  /\ \A g \in DefinedGroups(access) : known = {} \/ access.groups[g].channels \subseteq known
  /\ \A g, h \in EnabledGroups(access) :
       g # h => access.groups[g].channels \cap access.groups[h].channels = {}
  /\ \A k \in DefinedClients(access) : access.clients[k].group \in DefinedGroups(access)
  /\ \A k, l \in DefinedClients(access) : access.clients[k].key = access.clients[l].key => k = l

Valid(document) ==
  document.access # None => Normalizes(document.access, document.channels)

ASSUME ClientAccessAssumption ==
  /\ None \notin GroupRecords \cup ClientRecords \cup Accesses \cup Keys \cup Channels
  /\ Recorded \subseteq {d \in Documents : Valid(d)}

VARIABLES
  disk,      \* the private configuration
  running,   \* what the process loaded
  request,   \* what the requests hold
  stranded   \* history variable: a rollback could neither end nor be undone

vars == <<disk, running, request, stranded>>

Idle == [step |-> "idle"]
Held ==
  [step : {"reading"}, key : Keys \cup {None}, allowed : SUBSET Channels, outdated : BOOLEAN]
    \cup
  [step : {"leased"}, key : Keys \cup {None}, channel : Channels, outdated : BOOLEAN]

Leased == {r \in Requests : request[r].step = "leased"}

-----------------------------------------------------------------------------
(* Edits.                                                                  *)

(* Mutant: the result is not loaded before it stays.                       *)
CommitUnchecked(document) ==
  /\ disk' = document
  /\ UNCHANGED <<running, request, stranded>>

(* mutate: a document that does not load is taken back.                    *)
Commit(document) ==
  /\ Valid(document)
  /\ disk' = document
  /\ UNCHANGED <<running, request, stranded>>

CreateChannel(c) ==
  /\ c \notin disk.channels
  /\ Commit([disk EXCEPT !.channels = @ \cup {c}])

DeleteChannel(c) ==
  /\ c \in disk.channels
  /\ Commit([disk EXCEPT !.channels = @ \ {c}])

(* clients.local.json is deleted by hand, to return to the single key.     *)
RemoveFile == disk.access # None /\ Commit([disk EXCEPT !.access = None])

NoAccess == [groups |-> [g \in Groups |-> None], clients |-> [k \in Clients |-> None]]
Current == IF disk.access = None THEN NoAccess ELSE disk.access

(* normalizeClientDocument: every edit of clients and groups first reads   *)
(* the document against the channels the process has loaded.               *)
Editable == Normalizes(Current, running.channels)
CommitAccess(access) == Editable /\ Commit([disk EXCEPT !.access = access])

SetGroup(g, value) == CommitAccess([Current EXCEPT !.groups[g] = value])
SetClient(k, value) == CommitAccess([Current EXCEPT !.clients[k] = value])

(* Mutant: groups may name channels that are not loaded yet.               *)
NamesOnDisk(group) == disk.channels = {} \/ group.channels \subseteq disk.channels

(* normalizeGroupInput                                                     *)
NamesLoaded(group) == running.channels = {} \/ group.channels \subseteq running.channels

CreateGroup(g, group) ==
  /\ g \notin DefinedGroups(Current)
  /\ NamesLoaded(group)
  /\ SetGroup(g, group)

UpdateGroup(g, group) ==
  /\ g \in DefinedGroups(Current) /\ Current.groups[g] # group
  /\ NamesLoaded(group)
  /\ SetGroup(g, group)

DeleteGroup(g) ==
  /\ g \in DefinedGroups(Current)
  /\ \A k \in DefinedClients(Current) : Current.clients[k].group # g
  /\ SetGroup(g, None)

(* createClientKey: a random key was never used; here, is not in use.      *)
KeysOf(access) ==
  IF access = None THEN {} ELSE {access.clients[k].key : k \in DefinedClients(access)}
NewKeys == Keys \ (KeysOf(disk.access) \cup KeysOf(running.access)
                     \cup {request[r].key : r \in {q \in Requests : request[q] # Idle}})

CreateClient(k, g, enabled) ==
  /\ k \notin DefinedClients(Current)
  /\ g \in DefinedGroups(Current)
  /\ \E key \in NewKeys : SetClient(k, [group |-> g, key |-> key, enabled |-> enabled])

UpdateClient(k, g, enabled) ==
  /\ k \in DefinedClients(Current)
  /\ g \in DefinedGroups(Current)
  /\ LET old == Current.clients[k]
         new == [old EXCEPT !.group = g, !.enabled = enabled]
     IN  new # old /\ SetClient(k, new)

RotateClient(k) ==
  /\ k \in DefinedClients(Current)
  /\ \E key \in NewKeys : SetClient(k, [Current.clients[k] EXCEPT !.key = key])

DeleteClient(k) == k \in DefinedClients(Current) /\ SetClient(k, None)

-----------------------------------------------------------------------------
(* Loading.                                                                *)

(* The routes are no longer those that the key was resolved with.          *)
Outdated(held) == [held EXCEPT !.outdated = TRUE, !.key = None]

(* Mutant: routes are reloaded under requests in flight.                   *)
LoadUnderLoad(document) ==
  /\ running' = document
  /\ request' = [r \in Requests |->
       IF request[r].step = "reading" THEN Outdated(request[r]) ELSE request[r]]

(* reloadConfig: no reservation is held; a request that waits for its body *)
(* goes on with what it was granted.                                       *)
Load(document) ==
  /\ Leased = {}
  /\ running' = document
  /\ request' = [r \in Requests |->
       IF request[r] = Idle THEN Idle ELSE Outdated(request[r])]

Apply == Load(disk) /\ stranded' = FALSE /\ UNCHANGED disk

(* The targets of a rollback: what is loaded always has a revision.        *)
Targets == {running} \cup Recorded

Rollback(target) ==
  /\ target # disk
  /\ Load(target)
  /\ disk' = target
  /\ stranded' = FALSE

(* Neither the apply nor restoreRollback succeeds.                         *)
RollbackStranded(target) ==
  /\ target # disk
  /\ disk' = target
  /\ stranded' = TRUE
  /\ UNCHANGED <<running, request>>

Restart ==
  /\ running' = disk
  /\ request' = [r \in Requests |-> Idle]
  /\ stranded' = FALSE
  /\ UNCHANGED disk

-----------------------------------------------------------------------------
(* Requests.                                                               *)

(* resolveClient                                                           *)
Resolved(access, key) ==
  {k \in DefinedClients(access) :
     /\ access.clients[k].key = key
     /\ access.clients[k].enabled
     /\ access.clients[k].group \in EnabledGroups(access)}
AllowedBy(access, k) == access.groups[access.clients[k].group].channels

Grant(r, key, allowed) ==
  /\ request[r] = Idle
  /\ request' = [request EXCEPT ![r] =
       [step |-> "reading", key |-> key, allowed |-> allowed, outdated |-> FALSE]]
  /\ UNCHANGED <<disk, running, stranded>>

(* authorizeGatewayRequest: without client access the gateway's own key is *)
(* good for every channel.                                                 *)
Authorize(r, key) ==
  IF running.access = None THEN key = None /\ Grant(r, None, Channels)
  ELSE \E k \in Resolved(running.access, key) : Grant(r, key, AllowedBy(running.access, k))

(* The body is read, and a candidate on an allowed channel is reserved.    *)
Reserve(r, c) ==
  /\ request[r].step = "reading"
  /\ c \in running.channels \cap request[r].allowed
  /\ \A q \in Leased : request[q].channel # c
  /\ request' = [request EXCEPT ![r] =
       [step |-> "leased", key |-> request[r].key, channel |-> c,
        outdated |-> request[r].outdated]]
  /\ UNCHANGED <<disk, running, stranded>>

(* The exchange ends, the client goes, or nothing can be reserved.         *)
Finish(r) ==
  /\ request[r] # Idle
  /\ request' = [request EXCEPT ![r] = Idle]
  /\ UNCHANGED <<disk, running, stranded>>

-----------------------------------------------------------------------------
Init ==
  /\ disk \in Recorded
  /\ running = disk
  /\ request = [r \in Requests |-> Idle]
  /\ stranded = FALSE

EditChannels == \E c \in Channels : CreateChannel(c) \/ DeleteChannel(c)

EditGroups ==
  \E g \in Groups :
    \/ DeleteGroup(g)
    \/ \E group \in GroupRecords : CreateGroup(g, group) \/ UpdateGroup(g, group)

EditClients ==
  \E k \in Clients :
    \/ RotateClient(k) \/ DeleteClient(k)
    \/ \E g \in Groups, enabled \in BOOLEAN :
         CreateClient(k, g, enabled) \/ UpdateClient(k, g, enabled)

Reload == Apply \/ Restart \/ \E target \in Targets : Rollback(target) \/ RollbackStranded(target)

Traffic ==
  \E r \in Requests :
    \/ \E key \in Keys \cup {None} : Authorize(r, key)
    \/ \E c \in Channels : Reserve(r, c)
    \/ Finish(r)

Next == EditChannels \/ RemoveFile \/ EditGroups \/ EditClients \/ Reload \/ Traffic

Spec == Init /\ [][Next]_vars

-----------------------------------------------------------------------------
(* Properties.                                                             *)

(* Types, and both documents load.                                         *)
TypeOK ==
  /\ disk \in Documents /\ Valid(disk)
  /\ running \in Documents /\ Valid(running)
  /\ request \in [Requests -> {Idle} \cup Held]
  /\ stranded \in BOOLEAN

(* README.md, security notes: once there are clients the gateway key opens *)
(* nothing, a client is served only inside its group, and no other enabled *)
(* group has that channel.  It holds for what is served under the routes   *)
(* the request was authorized with; a request that was still reading its   *)
(* body when the routes were reloaded keeps the old grant.                 *)
IsolatedService ==
  \A r \in Leased : LET held == request[r] access == running.access IN
    held.outdated \/ IF access = None THEN held.key = None
      ELSE \E k \in Resolved(access, held.key) :
             {g \in EnabledGroups(access) : held.channel \in access.groups[g].channels}
               = {access.clients[k].group}

(* The document on disk can be edited: although every edit of clients is   *)
(* checked against the channels that are loaded and then against those on  *)
(* disk, no sequence of jobs leads to a document that all edits refuse,    *)
(* except a rollback that ends half-way (normalizeClientDocument).         *)
AccessStaysEditable == stranded \/ Editable
=============================================================================
