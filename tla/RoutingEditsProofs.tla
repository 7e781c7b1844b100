------------------------- MODULE RoutingEditsProofs -------------------------
(***************************************************************************)
(* The routing document keeps its form and always boots, and what makes a  *)
(* synchronisation fail is known, for every set of channels, models,       *)
(* aliases, logical models and old revisions.                              *)
(***************************************************************************)
EXTENDS RoutingEdits, TLAPS

(* A synchronisation changes statuses only, and never to an unknown one.   *)
LEMMA SynchronizedType ==
  ASSUME NEW d \in Documents, NEW selected, NEW found
  PROVE  /\ Synchronized(d, selected, found) \in Documents
         /\ \A e \in Catalog : Synchronized(d, selected, found).status[e] =
              IF e[1] \notin selected THEN d.status[e]
              ELSE IF e \notin found \cup (Referenced(d) \cap Present(d)) THEN "none"
              ELSE IF d.status[e] = "disabled" THEN "disabled"
              ELSE IF e \in found THEN "active" ELSE "stale"
<1>. DEFINE kept == found \cup (Referenced(d) \cap Present(d))
            new == [e \in Catalog |->
                     IF e[1] \notin selected THEN d.status[e]
                     ELSE CASE e \notin kept -> "none"
                            [] e \in kept /\ d.status[e] = "disabled" -> "disabled"
                            [] e \in kept /\ d.status[e] # "disabled" ->
                                 IF e \in found THEN "active" ELSE "stale"]
<1>1. \A e \in Catalog : new[e] =
        IF e[1] \notin selected THEN d.status[e]
        ELSE IF e \notin kept THEN "none"
        ELSE IF d.status[e] = "disabled" THEN "disabled"
        ELSE IF e \in found THEN "active" ELSE "stale"
  OBVIOUS
<1>2. new \in [Catalog -> Statuses]
  <2>1. \A e \in Catalog : new[e] \in Statuses
    BY <1>1 DEF Documents, Statuses
  <2>. HIDE DEF kept
  <2>. QED BY <2>1
<1>3. Synchronized(d, selected, found) = [d EXCEPT !.status = new]
  BY DEF Synchronized, Merged
<1>. HIDE DEF new
<1>4. /\ [d EXCEPT !.status = new] \in Documents
      /\ [d EXCEPT !.status = new].status = new
  BY <1>2 DEF Documents
<1>. QED BY <1>1, <1>3, <1>4

LEMMA SynchronizedFields ==
  ASSUME NEW d \in Documents, NEW selected, NEW found,
         NEW s, s = Synchronized(d, selected, found)
  PROVE  /\ s.providers = d.providers /\ s.enabled = d.enabled
         /\ s.channels = d.channels /\ s.staged = d.staged
         /\ s.aliases = d.aliases /\ s.pinned = d.pinned /\ s.groups = d.groups
         /\ Referenced(s) = Referenced(d) /\ Targets(s) = Targets(d)
         /\ Defined(s) = Defined(d) /\ Production(s) = Production(d)
<1>1. /\ s.providers = d.providers /\ s.enabled = d.enabled
      /\ s.channels = d.channels /\ s.staged = d.staged
      /\ s.aliases = d.aliases /\ s.pinned = d.pinned /\ s.groups = d.groups
  BY DEF Synchronized, Merged, Documents
<1>. QED BY <1>1 DEF Referenced, Targets, Candidates, Defined, Production

(* Every model of the selected channels that was found is listed after a   *)
(* synchronisation, and so is every referenced one.                        *)
LEMMA SynchronizedKeeps ==
  ASSUME NEW d \in Documents, ReferencesValid(d),
         NEW selected \in SUBSET d.channels, NEW found \in Answers(selected),
         NEW s, s = Synchronized(d, selected, found)
  PROVE  /\ Referenced(s) \subseteq Present(s)
         /\ selected \subseteq Stocked(s)
         /\ Present(s) \subseteq Present(d) \cup found
         /\ Disabled(s) \subseteq Disabled(d)
         /\ \A c \in Stocked(d) \ selected : c \in Stocked(s)
<1>. DEFINE kept == found \cup (Referenced(d) \cap Present(d))
<1>1. /\ s \in Documents
      /\ \A e \in Catalog : s.status[e] =
           IF e[1] \notin selected THEN d.status[e]
           ELSE IF e \notin kept THEN "none"
           ELSE IF d.status[e] = "disabled" THEN "disabled"
           ELSE IF e \in found THEN "active" ELSE "stale"
  BY SynchronizedType
<1>2. found \subseteq Catalog /\ selected \subseteq {e[1] : e \in found}
      /\ \A e \in found : e[1] \in selected
  BY DEF Answers
<1>3. \A e \in Catalog : e \in found => s.status[e] # "none"
  BY <1>1, <1>2
<1>4. \A e \in Referenced(d) \cap Present(d) : s.status[e] # "none"
  BY <1>1 DEF Present
<1>5. Referenced(s) = Referenced(d)
  BY SynchronizedFields
<1>6. Referenced(s) \subseteq Present(s)
  BY <1>4, <1>5 DEF ReferencesValid, Present
<1>7. selected \subseteq Stocked(s)
  BY <1>2, <1>3 DEF Stocked, Present
<1>8. Present(s) \subseteq Present(d) \cup found
  BY <1>1 DEF Present
<1>9. Disabled(s) \subseteq Disabled(d)
  BY <1>1 DEF Disabled
<1>10. ASSUME NEW c \in Stocked(d) \ selected PROVE c \in Stocked(s)
  <2>1. PICK e \in Present(d) : e[1] = c
    BY DEF Stocked
  <2>2. e \in Present(s)
    BY <1>1, <1>10, <2>1 DEF Present
  <2>. QED BY <2>1, <2>2 DEF Stocked
<1>. QED BY <1>6, <1>7, <1>8, <1>9, <1>10

(* The merge of a valid document validates, unless an id was found that    *)
(* makes no client alias or whose alias has been given out.                *)
LEMMA SynchronizedValid ==
  ASSUME NEW d \in Documents, ReferencesValid(d),
         NEW selected \in SUBSET d.channels, NEW found \in Answers(selected),
         found \subseteq Nameable,
         \A a \in AliasNames \cap found : d.aliases[a] = None
  PROVE  ReferencesValid(Synchronized(d, selected, found))
<1>. DEFINE s == Synchronized(d, selected, found)
<1>1. /\ s.providers = d.providers /\ s.enabled = d.enabled
      /\ s.channels = d.channels /\ s.staged = d.staged
      /\ s.aliases = d.aliases /\ s.pinned = d.pinned /\ s.groups = d.groups
      /\ Targets(s) = Targets(d) /\ Defined(s) = Defined(d)
  BY SynchronizedFields
<1>2. /\ Referenced(s) \subseteq Present(s)
      /\ Present(s) \subseteq Present(d) \cup found
      /\ Disabled(s) \subseteq Disabled(d)
  BY SynchronizedKeeps
<1>. HIDE DEF s
<1>3. Stocked(s) \subseteq s.channels
  <2>1. \A e \in found : e[1] \in d.channels
    BY DEF Answers
  <2>2. \A e \in Present(d) : e[1] \in d.channels
    BY DEF ReferencesValid, Stocked
  <2>. QED BY <1>1, <1>2, <2>1, <2>2 DEF Stocked
<1>4. \A a \in AliasNames : s.aliases[a] # None => ~Taken(s, a)
  BY <1>1, <1>2 DEF ReferencesValid, Taken
<1>5. \A g \in Defined(s) :
        /\ s.groups[g].candidates.on \cap Disabled(s) = {}
        /\ s.groups[g].enabled => s.groups[g].candidates.on # {}
  BY <1>1, <1>2 DEF ReferencesValid
<1>6. Present(s) \subseteq Nameable
  BY <1>2 DEF ReferencesValid
<1>7. ReferencesValid(s)
  BY <1>1, <1>2, <1>3, <1>4, <1>5, <1>6 DEF ReferencesValid
<1>. QED BY <1>7 DEF s

(* What is found is listed, so an id without an alias of its own that was  *)
(* found is in the merge, which then does not validate.                    *)
LEMMA SynchronizedInvalid ==
  ASSUME NEW d \in Documents,
         NEW selected \in SUBSET d.channels, NEW found \in Answers(selected),
         ReferencesValid(Synchronized(d, selected, found))
  PROVE  /\ found \subseteq Nameable
         /\ \A a \in AliasNames \cap found : d.aliases[a] = None
<1>. DEFINE s == Synchronized(d, selected, found)
<1>1. /\ s.aliases = d.aliases
      /\ \A e \in Catalog : s.status[e] =
           IF e[1] \notin selected THEN d.status[e]
           ELSE IF e \notin found \cup (Referenced(d) \cap Present(d)) THEN "none"
           ELSE IF d.status[e] = "disabled" THEN "disabled"
           ELSE IF e \in found THEN "active" ELSE "stale"
  BY SynchronizedType, SynchronizedFields
<1>. HIDE DEF s
<1>2. found \subseteq Present(s)
  BY <1>1 DEF Answers, Present
<1>3. Present(s) \subseteq Nameable /\ \A a \in AliasNames : s.aliases[a] # None => ~Taken(s, a)
  BY DEF ReferencesValid, s
<1>. QED BY <1>1, <1>2, <1>3 DEF Taken

(* A document that boots still boots after a synchronisation: no answer    *)
(* empties a channel of production.                                        *)
LEMMA SynchronizedBoots ==
  ASSUME NEW d \in Documents, Bootable(d),
         NEW selected \in SUBSET d.channels, NEW found \in Answers(selected),
         NEW s, s = Synchronized(d, selected, found), ReferencesValid(s)
  PROVE  Bootable(s)
<1>1. Production(s) = Production(d)
  BY SynchronizedFields
<1>2. selected \subseteq Stocked(s) /\ \A c \in Stocked(d) \ selected : c \in Stocked(s)
  BY SynchronizedKeeps DEF Bootable
<1>. QED BY <1>1, <1>2 DEF Bootable

(* What Commit writes boots.                                               *)
LEMMA CommitBoots ==
  ASSUME NEW d, Commit(d)
  PROVE  doc' = d /\ Bootable(doc')
BY DEF Commit

-----------------------------------------------------------------------------
(* Types.                                                                  *)

LEMMA EditChannelType == ASSUME TypeOK, EditChannel PROVE TypeOK'
<1>1. ASSUME NEW c \in Channels, CreateChannel(c) PROVE TypeOK'
  BY <1>1 DEF TypeOK, Documents, CreateChannel, Commit
<1>2. ASSUME NEW c \in Channels, ImportChannel(c) PROVE TypeOK'
  BY <1>2 DEF TypeOK, Documents, ImportChannel, Commit
<1>3. ASSUME NEW c \in Channels, NEW enabled, NEW staged, UpdateChannel(c, enabled, staged)
      PROVE  TypeOK'
  <2>1. \A set \in SUBSET Channels : \A flag : Flagged(set, c, flag) \in SUBSET Channels
    BY DEF Flagged
  <2>. QED BY <1>3, <2>1 DEF TypeOK, Documents, UpdateChannel, Commit
<1>4. ASSUME NEW c \in Channels, DeleteChannel(c) PROVE TypeOK'
  <2>. DEFINE status == [e \in Catalog |-> IF e[1] = c THEN "none" ELSE doc.status[e]]
  <2>1. status \in [Catalog -> Statuses]
    BY DEF TypeOK, Documents, Statuses
  <2>2. doc' = [doc EXCEPT !.providers = @ \ {c}, !.channels = @ \ {c}, !.status = status]
    BY <1>4 DEF DeleteChannel, Commit
  <2>3. retired' \subseteq Catalog
    BY <1>4 DEF DeleteChannel, TypeOK
  <2>. HIDE DEF status
  <2>. QED BY <2>1, <2>2, <2>3 DEF TypeOK, Documents
<1>. QED BY <1>1, <1>2, <1>3, <1>4 DEF EditChannel

LEMMA EditModelType == ASSUME TypeOK, EditModel PROVE TypeOK'
<1>1. ASSUME NEW e \in Catalog, CreateModel(e) PROVE TypeOK'
  BY <1>1 DEF TypeOK, Documents, Statuses, CreateModel, Commit
<1>2. ASSUME NEW e \in Catalog, NEW status \in Statuses, UpdateModelStatus(e, status)
      PROVE  TypeOK'
  BY <1>2 DEF TypeOK, Documents, UpdateModelStatus, Commit
<1>. QED BY <1>1, <1>2 DEF EditModel

LEMMA EditAliasType == ASSUME TypeOK, EditAlias PROVE TypeOK'
BY DEF TypeOK, Documents, EditAlias, SetStableAlias, Commit

LEMMA EditGroupType == ASSUME TypeOK, EditGroup PROVE TypeOK'
<1>1. ASSUME NEW g \in Groups, NEW list \in CandidateLists, NEW enabled \in BOOLEAN,
             CreateLogicalModel(g, list, enabled) \/ UpdateLogicalModel(g, enabled, list)
      PROVE  TypeOK'
  <2>1. [enabled |-> enabled, candidates |-> list] \in GroupRecords
    BY DEF GroupRecords
  <2>2. doc' = [doc EXCEPT !.groups[g] = [enabled |-> enabled, candidates |-> list]]
        /\ retired' = retired
    BY <1>1 DEF CreateLogicalModel, UpdateLogicalModel, Commit
  <2>. QED BY <2>1, <2>2 DEF TypeOK, Documents
<1>2. ASSUME NEW g \in Groups, DeleteLogicalModel(g) PROVE TypeOK'
  BY <1>2 DEF TypeOK, Documents, DeleteLogicalModel, Commit
<1>. QED BY <1>1, <1>2 DEF EditGroup

LEMMA AuditType == ASSUME TypeOK, Audit PROVE TypeOK'
<1>. SUFFICES ASSUME NEW c \in Channels, NEW verdict, NEW a \in AliasNames \cup {None},
                     NEW failed \in SUBSET {e \in Catalog : e[1] = c},
                     NEW target \in {e \in Catalog : e[1] = c} \cup {None},
                     CanaryAudit(c, failed, verdict, a, target)
              PROVE  TypeOK'
  BY DEF Audit
<1>. DEFINE switched == Flagged(doc.enabled, c,
              CASE verdict = "produce" -> "on" [] verdict = "refuse" -> "off"
                [] OTHER -> "keep")
            marked == IF verdict = "keep" THEN doc.staged ELSE doc.staged \ {c}
            status == [e \in Catalog |->
              CASE e \in failed -> "disabled"
                [] e = target /\ e \in Disabled(doc) -> "active"
                [] OTHER -> doc.status[e]]
            aliases == [x \in AliasNames |-> IF x = a THEN target ELSE doc.aliases[x]]
<1>1. switched \subseteq Channels
  BY DEF Flagged, TypeOK, Documents
<1>2. marked \subseteq Channels
  BY DEF TypeOK, Documents
<1>3. status \in [Catalog -> Statuses]
  BY DEF TypeOK, Documents, Statuses
<1>4. aliases \in [AliasNames -> Catalog \cup Groups \cup {None}]
  BY DEF TypeOK, Documents
<1>5. /\ doc' = [doc EXCEPT !.enabled = switched, !.staged = marked,
                            !.status = status, !.aliases = aliases]
      /\ retired' = (retired \cup failed) \ {target}
  BY DEF CanaryAudit, Commit
<1>. HIDE DEF switched, marked, status, aliases
<1>. QED BY <1>1, <1>2, <1>3, <1>4, <1>5 DEF TypeOK, Documents

-----------------------------------------------------------------------------
(* The invariant.                                                          *)

Inv == TypeOK /\ BootsFromDisk

LEMMA InvInit == Init => Inv
BY RoutingAssumption
   DEF Init, Inv, TypeOK, BootsFromDisk, Disabled, RoutingAssumption

(* Every job but a synchronisation and a rollback validates its document   *)
(* as a start does.                                                        *)
LEMMA InvStep == Inv /\ [Next]_vars => Inv'
<1>. SUFFICES ASSUME Inv, [Next]_vars PROVE Inv'
  OBVIOUS
<1>. USE DEF Inv
<1>1. CASE EditChannel
  <2>1. Bootable(doc')
    BY <1>1, CommitBoots
       DEF EditChannel, CreateChannel, ImportChannel, UpdateChannel, DeleteChannel
  <2>. QED BY <1>1, <2>1, EditChannelType DEF BootsFromDisk
<1>2. CASE EditModel
  <2>1. Bootable(doc')
    BY <1>2, CommitBoots DEF EditModel, CreateModel, UpdateModelStatus
  <2>. QED BY <1>2, <2>1, EditModelType DEF BootsFromDisk
<1>3. CASE EditAlias
  <2>1. Bootable(doc')
    BY <1>3, CommitBoots DEF EditAlias, SetStableAlias
  <2>. QED BY <1>3, <2>1, EditAliasType DEF BootsFromDisk
<1>4. CASE EditGroup
  <2>1. Bootable(doc')
    BY <1>4, CommitBoots
       DEF EditGroup, CreateLogicalModel, UpdateLogicalModel, DeleteLogicalModel
  <2>. QED BY <1>4, <2>1, EditGroupType DEF BootsFromDisk
<1>5. CASE Sync
  <2>1. PICK selected \in (SUBSET Channels) \ {{}} : \E found \in Answers(selected) :
               SyncModels(selected, found)
    BY <1>5 DEF Sync
  <2>2. PICK found \in Answers(selected) : SyncModels(selected, found)
    BY <2>1
  <2>3. /\ selected \in SUBSET doc.channels
        /\ doc' = Synchronized(doc, selected, found)
        /\ ReferencesValid(doc') /\ retired' = retired
    BY <2>2 DEF SyncModels
  <2>4. doc \in Documents /\ Bootable(doc)
    BY DEF TypeOK, BootsFromDisk
  <2>5. doc' \in Documents
    BY <2>3, <2>4, SynchronizedType
  <2>6. Bootable(doc')
    BY <2>3, <2>4, SynchronizedBoots
  <2>. QED BY <2>3, <2>5, <2>6 DEF TypeOK, BootsFromDisk
<1>6. CASE Audit
  <2>1. Bootable(doc')
    BY <1>6, CommitBoots DEF Audit, CanaryAudit
  <2>. QED BY <1>6, <2>1, AuditType DEF BootsFromDisk
<1>7. ASSUME NEW d \in Baselines, Rollback(d) PROVE Inv'
  <2>1. doc' = d /\ Bootable(doc')
    BY <1>7, BaselineAssumption DEF Rollback, BaselineAssumption
  <2>2. d \in Documents /\ retired' \subseteq Catalog
    BY <1>7, RoutingAssumption DEF Rollback, Disabled, RoutingAssumption
  <2>. QED BY <2>1, <2>2 DEF TypeOK, BootsFromDisk
<1>8. CASE UNCHANGED vars
  BY <1>8 DEF vars, TypeOK, BootsFromDisk
<1>. QED BY <1>1, <1>2, <1>3, <1>4, <1>5, <1>6, <1>7, <1>8 DEF Next

(* The routing document keeps its form under every edit, synchronisation,  *)
(* audit and rollback.                                                     *)
THEOREM TypeCorrect == Spec => []TypeOK
<1>1. Inv => TypeOK
  BY DEF Inv
<1>. QED BY <1>1, InvInit, InvStep, PTL DEF Spec

(* What is on disk always starts the gateway: synchronisation, which       *)
(* validates leniently, can never leave a channel of production empty.     *)
THEOREM AlwaysBoots == Spec => []BootsFromDisk
<1>1. Inv => BootsFromDisk
  BY DEF Inv
<1>. QED BY <1>1, InvInit, InvStep, PTL DEF Spec

(* A synchronisation fails on its own result exactly if an upstream lists  *)
(* an id that makes no client alias, or one whose alias is given out.      *)
THEOREM SynchronizationValidates == Spec => []SyncAccepted
<1>1. Inv => SyncAccepted
  <2>. SUFFICES ASSUME Inv, NEW selected \in (SUBSET doc.channels) \ {{}},
                       NEW found \in Answers(selected)
                PROVE  ReferencesValid(Synchronized(doc, selected, found)) <=>
                         /\ found \subseteq Nameable
                         /\ \A a \in AliasNames \cap found : doc.aliases[a] = None
    BY DEF SyncAccepted
  <2>1. doc \in Documents /\ ReferencesValid(doc)
    BY DEF Inv, TypeOK, BootsFromDisk, Bootable
  <2>. QED BY <2>1, SynchronizedValid, SynchronizedInvalid
<1>. QED BY <1>1, InvInit, InvStep, PTL DEF Spec

(* A second synchronisation with the same answers changes nothing: what    *)
(* the first one kept is what the second one keeps.                        *)
THEOREM SynchronizationSettles == Spec => []SyncSettles
<1>1. ASSUME NEW d \in Documents, ReferencesValid(d),
             NEW selected \in SUBSET d.channels, NEW found \in Answers(selected)
      PROVE  Synchronized(Synchronized(d, selected, found), selected, found)
               = Synchronized(d, selected, found)
  <2>. DEFINE once == Synchronized(d, selected, found)
              twice == Synchronized(once, selected, found)
  <2>1. once \in Documents
        /\ \A e \in Catalog : once.status[e] =
             IF e[1] \notin selected THEN d.status[e]
             ELSE IF e \notin found \cup (Referenced(d) \cap Present(d)) THEN "none"
             ELSE IF d.status[e] = "disabled" THEN "disabled"
             ELSE IF e \in found THEN "active" ELSE "stale"
    BY SynchronizedType
  <2>2. /\ Referenced(once) = Referenced(d)
        /\ Referenced(once) \subseteq Present(once)
        /\ Referenced(d) \subseteq Present(d)
    <3>1. Referenced(once) = Referenced(d)
      BY SynchronizedFields
    <3>2. Referenced(once) \subseteq Present(once)
      BY <1>1, SynchronizedKeeps
    <3>3. Referenced(d) \subseteq Present(d)
      BY <1>1 DEF ReferencesValid
    <3>. QED BY <3>1, <3>2, <3>3
  <2>. HIDE DEF once
  <2>3. twice \in Documents
        /\ \A e \in Catalog : twice.status[e] =
             IF e[1] \notin selected THEN once.status[e]
             ELSE IF e \notin found \cup (Referenced(once) \cap Present(once)) THEN "none"
             ELSE IF once.status[e] = "disabled" THEN "disabled"
             ELSE IF e \in found THEN "active" ELSE "stale"
    BY <2>1, SynchronizedType
  <2>4. /\ twice.providers = once.providers /\ twice.enabled = once.enabled
        /\ twice.channels = once.channels /\ twice.staged = once.staged
        /\ twice.aliases = once.aliases /\ twice.pinned = once.pinned
        /\ twice.groups = once.groups
    BY <2>1, SynchronizedFields
  <2>. HIDE DEF twice
  <2>5. Referenced(once) \cap Present(once) = Referenced(d) \cap Present(d)
    BY <2>2
  <2>6. \A e \in Catalog : twice.status[e] = once.status[e]
    BY <2>1, <2>3, <2>5
  <2>7. twice.status = once.status
    BY <2>1, <2>3, <2>6 DEF Documents
  <2>8. twice = once
    BY <2>1, <2>3, <2>4, <2>7 DEF Documents
  <2>. QED BY <2>8 DEF twice, once
<1>2. Inv => SyncSettles
  BY <1>1 DEF Inv, TypeOK, BootsFromDisk, Bootable, SyncSettles
<1>. QED BY <1>2, InvInit, InvStep, PTL DEF Spec

-----------------------------------------------------------------------------
(* Aliases.                                                                *)

(* In a valid document an alias of a logical model leads somewhere.        *)
LEMMA GroupServes ==
  ASSUME NEW d, ReferencesValid(d), NEW a \in AliasNames, d.aliases[a] \in Groups
  PROVE  Routes(d, a) # {}
<1>. DEFINE g == d.aliases[a]
<1>1. g \in Defined(d) /\ d.groups[g].enabled
  BY DEF ReferencesValid, Targets
<1>2. d.groups[g].candidates.on # {} /\ d.groups[g].candidates.on \cap Disabled(d) = {}
  BY <1>1 DEF ReferencesValid
<1>. QED BY <1>2 DEF Routes

(* An alias that stays where it is stays served, if its model is not       *)
(* disabled.                                                               *)
LEMMA AliasKept ==
  ASSUME NEW d, NEW next, ReferencesValid(next), NEW a \in AliasNames,
         next.aliases[a] = d.aliases[a], Routes(d, a) # {},
         d.aliases[a] \in Catalog \ Disabled(d) => d.aliases[a] \notin Disabled(next)
  PROVE  Routes(next, a) # {}
<1>1. CASE d.aliases[a] \in Groups
  BY <1>1, GroupServes
<1>2. CASE d.aliases[a] \notin Groups
  BY <1>2 DEF Routes
<1>. QED BY <1>1, <1>2

(* No edit and no synchronisation leaves a stable alias without a model.   *)
THEOREM AliasesServed == Spec => AliasesStayServed
<1>1. ASSUME Inv, Inv', EditChannel \/ EditModel \/ EditAlias \/ EditGroup \/ Sync,
             NEW a \in AliasNames, Routes(doc, a) # {}
      PROVE  Routes(doc', a) # {}
  <2>1. /\ ReferencesValid(doc) /\ ReferencesValid(doc')
        /\ doc \in Documents
    BY <1>1 DEF Inv, TypeOK, BootsFromDisk, Bootable
  <2>2. ASSUME doc'.aliases = doc.aliases, Disabled(doc') \subseteq Disabled(doc)
        PROVE  Routes(doc', a) # {}
    BY <1>1, <2>1, <2>2, AliasKept
  <2>3. CASE EditChannel
    <3>1. ASSUME NEW c \in Channels, CreateChannel(c) \/ ImportChannel(c)
          PROVE  Routes(doc', a) # {}
      BY <2>1, <2>2, <3>1 DEF CreateChannel, ImportChannel, Commit, Documents, Disabled
    <3>2. ASSUME NEW c \in Channels, NEW enabled, NEW staged, UpdateChannel(c, enabled, staged)
          PROVE  Routes(doc', a) # {}
      BY <2>1, <2>2, <3>2 DEF UpdateChannel, Commit, Documents, Disabled
    <3>3. ASSUME NEW c \in Channels, DeleteChannel(c)
          PROVE  Routes(doc', a) # {}
      BY <2>1, <2>2, <3>3 DEF DeleteChannel, Commit, Documents, Disabled
    <3>. QED BY <2>3, <3>1, <3>2, <3>3 DEF EditChannel
  <2>4. CASE EditModel
    <3>1. ASSUME NEW e \in Catalog, CreateModel(e)
          PROVE  Routes(doc', a) # {}
      BY <2>1, <2>2, <3>1 DEF CreateModel, Commit, Documents, Disabled
    <3>2. ASSUME NEW e \in Catalog, NEW status \in Statuses \ {"none"}, UpdateModelStatus(e, status)
          PROVE  Routes(doc', a) # {}
      <4>1. /\ doc'.aliases = doc.aliases
            /\ Disabled(doc') \subseteq Disabled(doc) \cup {e}
            /\ status # "disabled" => e \notin Disabled(doc')
        BY <2>1, <3>2 DEF UpdateModelStatus, Commit, Documents, Disabled
      <4>2. status = "disabled" => doc.aliases[a] # e
        BY <3>2 DEF UpdateModelStatus, InUse, Targets
      <4>. QED BY <1>1, <2>1, <4>1, <4>2, AliasKept
    <3>. QED BY <2>4, <3>1, <3>2 DEF EditModel
  <2>5. CASE EditAlias
    <3>1. PICK b \in AliasNames, target \in Catalog \cup Groups : SetStableAlias(b, target)
      BY <2>5 DEF EditAlias
    <3>2. /\ doc'.aliases = [doc.aliases EXCEPT ![b] = target]
          /\ Disabled(doc') = Disabled(doc)
      BY <2>1, <3>1 DEF SetStableAlias, Commit, Documents, Disabled
    <3>3. CASE a = b
      <4>1. doc'.aliases[a] = target
        BY <2>1, <3>2, <3>3 DEF Documents
      <4>2. CASE target \in Groups
        BY <2>1, <4>1, <4>2, GroupServes
      <4>3. CASE target \notin Groups
        <5>1. target \in Present(doc) \ Disabled(doc)
          BY <3>1, <4>3 DEF SetStableAlias, Defined
        <5>. QED BY <3>2, <4>1, <4>3, <5>1 DEF Routes
      <4>. QED BY <4>2, <4>3
    <3>4. CASE a # b
      <4>1. doc'.aliases[a] = doc.aliases[a]
        BY <2>1, <3>2, <3>4 DEF Documents
      <4>. QED BY <1>1, <2>1, <3>2, <4>1, AliasKept
    <3>. QED BY <3>3, <3>4
  <2>6. CASE EditGroup
    <3>1. doc'.aliases = doc.aliases /\ doc'.status = doc.status
      BY <2>1, <2>6 DEF EditGroup, CreateLogicalModel, UpdateLogicalModel, DeleteLogicalModel,
                        Commit, Documents
    <3>. QED BY <2>2, <3>1 DEF Disabled
  <2>7. CASE Sync
    <3>1. PICK selected \in (SUBSET Channels) \ {{}} : \E found \in Answers(selected) :
                 SyncModels(selected, found)
      BY <2>7 DEF Sync
    <3>2. PICK found \in Answers(selected) : SyncModels(selected, found)
      BY <3>1
    <3>3. selected \in SUBSET doc.channels /\ doc' = Synchronized(doc, selected, found)
      BY <3>2 DEF SyncModels
    <3>4. doc'.aliases = doc.aliases
      BY <2>1, <3>3, SynchronizedFields
    <3>5. Disabled(doc') \subseteq Disabled(doc)
      BY <2>1, <3>3, SynchronizedKeeps
    <3>. QED BY <2>2, <3>4, <3>5
  <2>. QED BY <1>1, <2>3, <2>4, <2>5, <2>6, <2>7
<1>2. Inv /\ Inv' =>
        ((\E a \in AliasNames : Routes(doc, a) # {} /\ Routes(doc', a) = {})
           => ~(EditChannel \/ EditModel \/ EditAlias \/ EditGroup \/ Sync))
  BY <1>1
<1>. QED BY <1>2, InvInit, InvStep, PTL DEF Spec, AliasesStayServed
=============================================================================
