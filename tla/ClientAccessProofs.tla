------------------------- MODULE ClientAccessProofs -------------------------
(***************************************************************************)
(* ClientAccess, for every set of channels, groups, clients and keys.  The *)
(* inductive invariant says what a request may hold while it waits for its *)
(* body: the grant of the routes that are loaded, unless they were         *)
(* reloaded since.                                                         *)
(***************************************************************************)
EXTENDS ClientAccess, TLAPS

(* A grant under the loaded routes.                                        *)
GrantedBy(access, held) ==
  IF access = None THEN held.key = None
  ELSE \E k \in Resolved(access, held.key) : held.allowed = AllowedBy(access, k)

(* A lease under the loaded routes.                                        *)
ServedBy(access, held) ==
  IF access = None THEN held.key = None
  ELSE \E k \in Resolved(access, held.key) :
         {g \in EnabledGroups(access) : held.channel \in access.groups[g].channels}
           = {access.clients[k].group}

GrantsCurrent ==
  \A r \in Requests :
    /\ request[r].step = "reading" => request[r].outdated \/ GrantedBy(running.access, request[r])
    /\ request[r].step = "leased" => request[r].outdated \/ ServedBy(running.access, request[r])

AccessInv == TypeOK /\ GrantsCurrent /\ AccessStaysEditable

-----------------------------------------------------------------------------
(* Documents.                                                              *)

LEMMA NoAccessNormalizes ==
  NoAccess \in Accesses /\ \A known : Normalizes(NoAccess, known)
BY ClientAccessAssumption
DEF NoAccess, Accesses, Normalizes, DefinedGroups, DefinedClients, EnabledGroups

(* A document can be edited under its own channels.                        *)
LEMMA ValidIsEditable ==
  ASSUME NEW d \in Documents, Valid(d)
  PROVE  Normalizes(IF d.access = None THEN NoAccess ELSE d.access, d.channels)
BY NoAccessNormalizes DEF Valid

(* The part of normalization that depends on the known channels.           *)
LEMMA NormalizesElsewhere ==
  ASSUME NEW access, NEW here, NEW there, Normalizes(access, there),
         \A g \in DefinedGroups(access) : here = {} \/ access.groups[g].channels \subseteq here
  PROVE  Normalizes(access, here)
BY DEF Normalizes

LEMMA CurrentTyped == TypeOK => Current \in Accesses
BY NoAccessNormalizes DEF TypeOK, Documents, Current

-----------------------------------------------------------------------------
(* Jobs.                                                                   *)

LEMMA CommitKeepsInv ==
  ASSUME AccessInv, NEW d \in Documents, Commit(d), AccessStaysEditable'
  PROVE  AccessInv'
BY DEF AccessInv, TypeOK, GrantsCurrent, Commit, GrantedBy, ServedBy

LEMMA AccessEditKeepsInv ==
  ASSUME AccessInv, NEW access \in Accesses, CommitAccess(access),
         \A g \in DefinedGroups(access) :
           \/ access.groups[g] = Current.groups[g] /\ g \in DefinedGroups(Current)
           \/ NamesLoaded(access.groups[g])
  PROVE  AccessInv'
<1>. DEFINE next == [disk EXCEPT !.access = access]
<1>1. /\ next \in Documents /\ next.access = access /\ next.channels = disk.channels
      /\ access # None
  BY ClientAccessAssumption DEF AccessInv, TypeOK, Documents
<1>2. Normalizes(access, disk.channels) /\ disk' = next /\ running' = running
  BY <1>1 DEF CommitAccess, Commit, Valid
<1>3. \A g \in DefinedGroups(access) :
        running.channels = {} \/ access.groups[g].channels \subseteq running.channels
  BY DEF CommitAccess, Editable, Normalizes, NamesLoaded
<1>4. Normalizes(access, running.channels)
  BY <1>2, <1>3, NormalizesElsewhere
<1>5. AccessStaysEditable'
  BY <1>1, <1>2, <1>4 DEF AccessStaysEditable, Editable, Current
<1>. QED BY <1>1, <1>5, CommitKeepsInv DEF CommitAccess

LEMMA GroupEditKeepsInv ==
  ASSUME AccessInv, NEW g \in Groups, NEW value \in GroupRecords \cup {None},
         value # None => NamesLoaded(value), SetGroup(g, value)
  PROVE  AccessInv'
<1>. DEFINE access == [Current EXCEPT !.groups[g] = value]
<1>1. Current \in Accesses
  BY CurrentTyped DEF AccessInv
<1>2. /\ access \in Accesses
      /\ \A h \in Groups : access.groups[h] = IF h = g THEN value ELSE Current.groups[h]
  BY <1>1 DEF Accesses
<1>3. \A h \in DefinedGroups(access) :
        \/ access.groups[h] = Current.groups[h] /\ h \in DefinedGroups(Current)
        \/ NamesLoaded(access.groups[h])
  BY <1>2 DEF DefinedGroups
<1>. HIDE DEF access
<1>4. CommitAccess(access)
  BY DEF SetGroup, access
<1>. QED BY <1>2, <1>3, <1>4, AccessEditKeepsInv

LEMMA ClientEditKeepsInv ==
  ASSUME AccessInv, NEW k \in Clients, NEW value \in ClientRecords \cup {None},
         SetClient(k, value)
  PROVE  AccessInv'
<1>. DEFINE access == [Current EXCEPT !.clients[k] = value]
<1>1. Current \in Accesses
  BY CurrentTyped DEF AccessInv
<1>2. access \in Accesses /\ access.groups = Current.groups
  BY <1>1 DEF Accesses
<1>3. \A h \in DefinedGroups(access) :
        access.groups[h] = Current.groups[h] /\ h \in DefinedGroups(Current)
  BY <1>2 DEF DefinedGroups
<1>. HIDE DEF access
<1>4. CommitAccess(access)
  BY DEF SetClient, access
<1>. QED BY <1>2, <1>3, <1>4, AccessEditKeepsInv

LEMMA EditsKeepInv ==
  ASSUME AccessInv, EditChannels \/ RemoveFile \/ EditGroups \/ EditClients
  PROVE  AccessInv'
<1>0. Current \in Accesses /\ disk \in Documents
  BY CurrentTyped DEF AccessInv, TypeOK
<1>1. ASSUME NEW c \in Channels, CreateChannel(c) \/ DeleteChannel(c) PROVE AccessInv'
  <2>1. PICK channels \in SUBSET Channels : Commit([disk EXCEPT !.channels = channels])
    BY <1>0, <1>1 DEF CreateChannel, DeleteChannel, Documents
  <2>2. [disk EXCEPT !.channels = channels] \in Documents
    BY <1>0 DEF Documents
  <2>3. disk'.access = disk.access /\ running' = running /\ stranded' = stranded
    BY <1>0, <2>1 DEF Commit, Documents
  <2>4. AccessStaysEditable'
    BY <2>3 DEF AccessInv, AccessStaysEditable, Editable, Current
  <2>. QED BY <2>1, <2>2, <2>4, CommitKeepsInv
<1>2. CASE RemoveFile
  <2>1. [disk EXCEPT !.access = None] \in Documents /\ disk'.access = None
        /\ Commit([disk EXCEPT !.access = None])
    BY <1>0, <1>2 DEF RemoveFile, Commit, Documents
  <2>2. AccessStaysEditable'
    BY <2>1, NoAccessNormalizes DEF AccessStaysEditable, Editable, Current
  <2>. QED BY <2>1, <2>2, CommitKeepsInv
<1>3. CASE EditGroups
  <2>1. PICK g \in Groups :
          \/ DeleteGroup(g)
          \/ \E group \in GroupRecords : CreateGroup(g, group) \/ UpdateGroup(g, group)
    BY <1>3 DEF EditGroups
  <2>. QED BY <2>1, GroupEditKeepsInv DEF DeleteGroup, CreateGroup, UpdateGroup
<1>4. CASE EditClients
  <2>1. PICK k \in Clients : RotateClient(k) \/ DeleteClient(k)
          \/ \E g \in Groups, enabled \in BOOLEAN :
               CreateClient(k, g, enabled) \/ UpdateClient(k, g, enabled)
    BY <1>4 DEF EditClients
  <2>2. k \in DefinedClients(Current) => Current.clients[k] \in ClientRecords
    BY <1>0 DEF DefinedClients, Accesses
  <2>3. NewKeys \subseteq Keys
    BY DEF NewKeys
  <2>4. \E value \in ClientRecords \cup {None} : SetClient(k, value)
    <3>1. CASE RotateClient(k)
      BY <2>2, <2>3, <3>1 DEF RotateClient, ClientRecords
    <3>2. CASE DeleteClient(k)
      BY <3>2 DEF DeleteClient
    <3>3. ASSUME NEW g \in Groups, NEW enabled \in BOOLEAN, CreateClient(k, g, enabled)
          PROVE  \E value \in ClientRecords \cup {None} : SetClient(k, value)
      BY <2>3, <3>3 DEF CreateClient, ClientRecords
    <3>4. ASSUME NEW g \in Groups, NEW enabled \in BOOLEAN, UpdateClient(k, g, enabled)
          PROVE  \E value \in ClientRecords \cup {None} : SetClient(k, value)
      BY <2>2, <3>4 DEF UpdateClient, ClientRecords
    <3>. QED BY <2>1, <3>1, <3>2, <3>3, <3>4
  <2>. QED BY <2>4, ClientEditKeepsInv
<1>. QED BY <1>1, <1>2, <1>3, <1>4 DEF EditChannels

-----------------------------------------------------------------------------
(* Loading.                                                                *)

(* Whatever is loaded, nothing that is held was granted by it.             *)
LEMMA LoadOutdates ==
  ASSUME TypeOK, NEW d, Load(d)
  PROVE  /\ request' \in [Requests -> {Idle} \cup Held]
         /\ \A r \in Requests : request'[r] = Idle \/ request'[r].outdated
<1>1. ASSUME NEW r \in Requests
      PROVE  /\ request'[r] \in {Idle} \cup Held
             /\ request'[r] = Idle \/ request'[r].outdated
  <2>1. request'[r] = IF request[r] = Idle THEN Idle ELSE Outdated(request[r])
    BY DEF Load
  <2>2. request[r] \in {Idle} \cup Held
    BY DEF TypeOK
  <2>3. request[r] \in Held => Outdated(request[r]) \in Held /\ Outdated(request[r]).outdated
    BY DEF Held, Outdated
  <2>. QED BY <2>1, <2>2, <2>3
<1>2. request' = [r \in Requests |-> request'[r]]
  BY DEF Load
<1>. QED BY <1>1, <1>2

LEMMA LoadedKeepsInv ==
  ASSUME TypeOK, NEW d \in Documents, Valid(d), disk' = d, running' = d,
         request' \in [Requests -> {Idle} \cup Held],
         \A r \in Requests : request'[r] = Idle \/ request'[r].outdated,
         stranded' = FALSE
  PROVE  AccessInv'
<1>1. TypeOK'
  BY DEF TypeOK
<1>2. GrantsCurrent'
  BY DEF GrantsCurrent, Idle
<1>3. AccessStaysEditable'
  BY ValidIsEditable DEF AccessStaysEditable, Editable, Current
<1>. QED BY <1>1, <1>2, <1>3 DEF AccessInv

LEMMA ReloadKeepsInv ==
  ASSUME AccessInv, Reload
  PROVE  AccessInv'
<1>0. TypeOK
  BY DEF AccessInv
<1>1. \A target \in Targets : target \in Documents /\ Valid(target)
  BY <1>0, ClientAccessAssumption DEF Targets, TypeOK
<1>2. CASE Apply
  BY <1>0, <1>2, LoadOutdates, LoadedKeepsInv DEF Apply, TypeOK, Load
<1>3. CASE Restart
  BY <1>0, <1>3, LoadedKeepsInv DEF Restart, TypeOK
<1>4. ASSUME NEW target \in Targets, Rollback(target) PROVE AccessInv'
  BY <1>0, <1>1, <1>4, LoadOutdates, LoadedKeepsInv DEF Rollback, Load
<1>5. ASSUME NEW target \in Targets, RollbackStranded(target) PROVE AccessInv'
  BY <1>1, <1>5
  DEF RollbackStranded, AccessInv, TypeOK, GrantsCurrent, AccessStaysEditable, GrantedBy, ServedBy
<1>. QED BY <1>2, <1>3, <1>4, <1>5 DEF Reload

-----------------------------------------------------------------------------
(* Requests.                                                               *)

(* A request changes nothing but itself.                                   *)
LEMMA RequestKeepsInv ==
  ASSUME AccessInv, UNCHANGED <<disk, running, stranded>>, NEW r \in Requests,
         NEW held \in {Idle} \cup Held, request' = [request EXCEPT ![r] = held],
         held.step = "reading" => held.outdated \/ GrantedBy(running.access, held),
         held.step = "leased" => held.outdated \/ ServedBy(running.access, held)
  PROVE  AccessInv'
<1>1. TypeOK' /\ AccessStaysEditable'
  BY DEF AccessInv, TypeOK, AccessStaysEditable, Editable, Current
<1>2. \A q \in Requests : request'[q] = IF q = r THEN held ELSE request[q]
  BY DEF AccessInv, TypeOK
<1>3. GrantsCurrent'
  BY <1>2 DEF AccessInv, GrantsCurrent, GrantedBy, ServedBy
<1>. QED BY <1>1, <1>3 DEF AccessInv

LEMMA AuthorizeKeepsInv ==
  ASSUME AccessInv, NEW r \in Requests, NEW key \in Keys \cup {None}, Authorize(r, key)
  PROVE  AccessInv'
<1>1. running \in Documents
  BY DEF AccessInv, TypeOK
<1>2. ASSUME NEW allowed \in SUBSET Channels, Grant(r, key, allowed),
             IF running.access = None THEN key = None
             ELSE \E k \in Resolved(running.access, key) : allowed = AllowedBy(running.access, k)
      PROVE  AccessInv'
  <2>. DEFINE held ==
         [step |-> "reading", key |-> key, allowed |-> allowed, outdated |-> FALSE]
  <2>1. held \in Held
    BY DEF Held
  <2>2. GrantedBy(running.access, held) /\ held.step = "reading"
    BY <1>2 DEF GrantedBy
  <2>3. request' = [request EXCEPT ![r] = held] /\ UNCHANGED <<disk, running, stranded>>
    BY <1>2 DEF Grant
  <2>. HIDE DEF held
  <2>. QED BY <2>1, <2>2, <2>3, RequestKeepsInv
<1>3. CASE running.access = None
  BY <1>2, <1>3 DEF Authorize
<1>4. CASE running.access # None
  <2>1. PICK k \in Resolved(running.access, key) :
          Grant(r, key, AllowedBy(running.access, k))
    BY <1>4 DEF Authorize
  <2>2. AllowedBy(running.access, k) \in SUBSET Channels
    BY <1>1, <1>4 DEF Documents, Accesses, Resolved, EnabledGroups, DefinedGroups, AllowedBy,
                      GroupRecords
  <2>. QED BY <1>2, <1>4, <2>1, <2>2
<1>. QED BY <1>3, <1>4

(* The grant was for one group, and enabled groups have no channel in      *)
(* common.                                                                 *)
LEMMA ReserveKeepsInv ==
  ASSUME AccessInv, NEW r \in Requests, NEW c \in Channels, Reserve(r, c)
  PROVE  AccessInv'
<1>. DEFINE held == [step |-> "leased", key |-> request[r].key, channel |-> c,
                     outdated |-> request[r].outdated]
<1>1. request[r] \in Held /\ request[r].step = "reading"
  BY DEF AccessInv, TypeOK, Reserve, Idle
<1>2. held \in Held
  BY <1>1 DEF Held
<1>3. ASSUME ~request[r].outdated PROVE ServedBy(running.access, held)
  <2>1. GrantedBy(running.access, request[r])
    BY <1>1, <1>3 DEF AccessInv, GrantsCurrent
  <2>2. CASE running.access = None
    BY <2>1, <2>2 DEF GrantedBy, ServedBy
  <2>3. CASE running.access # None
    <3>. DEFINE access == running.access
    <3>1. PICK k \in Resolved(access, request[r].key) :
            request[r].allowed = AllowedBy(access, k)
      BY <2>1, <2>3 DEF GrantedBy
    <3>2. c \in access.groups[access.clients[k].group].channels
          /\ access.clients[k].group \in EnabledGroups(access)
      BY <3>1 DEF Reserve, AllowedBy, Resolved
    <3>3. \A g \in EnabledGroups(access) :
            c \in access.groups[g].channels => g = access.clients[k].group
      BY <2>3, <3>2 DEF AccessInv, TypeOK, Valid, Normalizes
    <3>4. {g \in EnabledGroups(access) : c \in access.groups[g].channels}
            = {access.clients[k].group}
      BY <3>2, <3>3
    <3>. QED BY <2>3, <3>1, <3>4 DEF ServedBy
  <2>. QED BY <2>2, <2>3
<1>4. request' = [request EXCEPT ![r] = held] /\ UNCHANGED <<disk, running, stranded>>
      /\ held.step = "leased" /\ held.outdated = request[r].outdated
  BY DEF Reserve
<1>. HIDE DEF held
<1>. QED BY <1>2, <1>3, <1>4, RequestKeepsInv

LEMMA FinishKeepsInv ==
  ASSUME AccessInv, NEW r \in Requests, Finish(r)
  PROVE  AccessInv'
<1>1. Idle.step = "idle"
  BY DEF Idle
<1>. QED BY <1>1, RequestKeepsInv DEF Finish

-----------------------------------------------------------------------------
LEMMA AccessInvInit == Init => AccessInv
<1>. SUFFICES ASSUME Init PROVE AccessInv
  OBVIOUS
<1>1. disk \in Documents /\ Valid(disk) /\ running = disk
  BY ClientAccessAssumption DEF Init
<1>2. TypeOK
  BY <1>1 DEF Init, TypeOK
<1>3. GrantsCurrent
  BY DEF Init, GrantsCurrent, Idle
<1>4. AccessStaysEditable
  BY <1>1, ValidIsEditable DEF AccessStaysEditable, Editable, Current
<1>. QED BY <1>2, <1>3, <1>4 DEF AccessInv

LEMMA AccessInvStep == AccessInv /\ [Next]_vars => AccessInv'
<1>. SUFFICES ASSUME AccessInv, [Next]_vars PROVE AccessInv'
  OBVIOUS
<1>1. CASE EditChannels \/ RemoveFile \/ EditGroups \/ EditClients
  BY <1>1, EditsKeepInv
<1>2. CASE Reload
  BY <1>2, ReloadKeepsInv
<1>3. CASE Traffic
  BY <1>3, AuthorizeKeepsInv, ReserveKeepsInv, FinishKeepsInv DEF Traffic
<1>4. CASE UNCHANGED vars
  BY <1>4 DEF vars, AccessInv, TypeOK, GrantsCurrent, AccessStaysEditable, Editable, Current,
              GrantedBy, ServedBy
<1>. QED BY <1>1, <1>2, <1>3, <1>4 DEF Next

(* Both documents always load.                                             *)
THEOREM AccessTyped == Spec => []TypeOK
<1>1. AccessInv => TypeOK
  BY DEF AccessInv
<1>. QED BY <1>1, AccessInvInit, AccessInvStep, PTL DEF Spec

(* Nobody is served outside of its group, unless it was granted before a   *)
(* reload.                                                                 *)
THEOREM ServiceIsolated == Spec => []IsolatedService
<1>1. AccessInv => IsolatedService
  BY DEF AccessInv, GrantsCurrent, IsolatedService, Leased, ServedBy
<1>. QED BY <1>1, AccessInvInit, AccessInvStep, PTL DEF Spec

(* No sequence of jobs makes the document refuse all edits.                *)
THEOREM AlwaysEditable == Spec => []AccessStaysEditable
<1>1. AccessInv => AccessStaysEditable
  BY DEF AccessInv
<1>. QED BY <1>1, AccessInvInit, AccessInvStep, PTL DEF Spec
=============================================================================
