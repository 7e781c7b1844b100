---------------------------- MODULE RoutingEdits ----------------------------
(***************************************************************************)
(* What can become of the private routing document: the edits of           *)
(* src/config-manager.mjs on channels, models, aliases and logical models, *)
(* the model synchronisation, the audit script and rollbacks, each one a   *)
(* job that either writes a document that validates or changes nothing.    *)
(* How a document reaches the disk is module ConfigTransaction.            *)
(*                                                                         *)
(* Models stand for generation models: no other kind can be referenced.    *)
(* Channels live in providers.local.json (provider mode); names, keys,     *)
(* protocols and priorities never decide whether an edit is accepted.      *)
(* A model has one client alias, <channel>/<model>; further ones, and the  *)
(* names of pinned aliases, are written by hand only and stand apart.      *)
(***************************************************************************)
EXTENDS FiniteSets

CONSTANTS
  Channels,        (* channel ids                                          *)
  Models,          (* upstream model ids                                   *)
  Catalog,         (* <<channel, model>> pairs: what upstreams may list    *)
  Nameable,        (* those whose <channel>/<model> is a client alias      *)
  AliasNames,      (* names for stable aliases; may be those of models     *)
  Groups,          (* ids of logical models                                *)
  CandidateLists,  (* candidate lists an administrator may enter           *)
  Baselines,       (* documents at the first start and in old revisions    *)
  None

Statuses == {"none", "active", "stale", "disabled"}   \* "none": not listed
GroupRecords == [enabled : BOOLEAN, candidates : CandidateLists]

Documents ==
  [ providers : SUBSET Channels,               \* providers.local.json
    enabled   : SUBSET Channels,               \* provider.enabled
    channels  : SUBSET Channels,               \* routes.local.json
    staged    : SUBSET Channels,
    status    : [Catalog -> Statuses],
    aliases   : [AliasNames -> Catalog \cup Groups \cup {None}],
    pinned    : SUBSET Catalog,                \* targets of pinned aliases
    groups    : [Groups -> GroupRecords \cup {None}] ]

(* A list names its candidates and those that are enabled.                 *)
ASSUME RoutingAssumption ==
  /\ Catalog \subseteq Channels \X Models
  /\ Nameable \subseteq Catalog
  /\ AliasNames \cap Catalog \subseteq Nameable
  /\ CandidateLists \subseteq [all : SUBSET Catalog, on : SUBSET Catalog]
  /\ \A list \in CandidateLists : list.on \subseteq list.all
  /\ Baselines \subseteq Documents
  /\ None \notin Catalog \cup Groups \cup GroupRecords
  /\ Catalog \cap Groups = {}

VARIABLES
  doc,       \* the document on disk
  retired    \* models whose last administrative decision was to disable them

vars == <<doc, retired>>

-----------------------------------------------------------------------------
(* Reading a document.                                                     *)

Present(d) == {e \in Catalog : d.status[e] # "none"}
Disabled(d) == {e \in Catalog : d.status[e] = "disabled"}
Stocked(d) == {e[1] : e \in Present(d)}          \* channels with a model
Production(d) == (d.channels \cap d.enabled) \ d.staged
Defined(d) == {g \in Groups : d.groups[g] # None}
Candidates(d) == UNION {d.groups[g].candidates.all : g \in Defined(d)}
Targets(d) == {d.aliases[a] : a \in AliasNames}

(* Exact targets of stable and pinned aliases, and all candidates, enabled *)
(* or not, of groups enabled or not.                                       *)
Referenced(d) == (Targets(d) \cap Catalog) \cup d.pinned \cup Candidates(d)

(* The names of a document are unique: a model is named <channel>/<model>. *)
Taken(d, a) == a \in Present(d) \cup Defined(d)

(* loadConfig with empty enabled channels allowed.                         *)
ReferencesValid(d) ==
  /\ d.enabled \subseteq d.providers
  /\ d.channels \subseteq d.providers
  /\ d.staged \subseteq d.channels
  /\ Stocked(d) \subseteq d.channels
  /\ Present(d) \subseteq Nameable
  /\ \A a \in AliasNames : d.aliases[a] # None => ~Taken(d, a)
  /\ Referenced(d) \subseteq Present(d)
  /\ \A g \in Targets(d) \cap Groups : g \in Defined(d) /\ d.groups[g].enabled
  /\ \A g \in Defined(d) :
       /\ d.groups[g].candidates.on \cap Disabled(d) = {}
       /\ d.groups[g].enabled => d.groups[g].candidates.on # {}

(* loadConfig as a start, a release and an edit call it.                   *)
Bootable(d) == ReferencesValid(d) /\ Production(d) \subseteq Stocked(d)

(* A first start reads, and jobs have recorded, documents that boot.       *)
ASSUME BaselineAssumption == \A d \in Baselines : ReferencesValid(d) => Bootable(d)

-----------------------------------------------------------------------------
(* mutate: an edited document is validated and written, or nothing is.     *)
Commit(d) == d # doc /\ Bootable(d) /\ doc' = d

-----------------------------------------------------------------------------
(* Channels.                                                               *)

(* createChannel pushes a provider, which must not exist: a second one of  *)
(* the same id does not validate.                                          *)
CreateChannel(c) ==
  /\ c \notin doc.providers
  /\ Commit([doc EXCEPT !.providers = @ \cup {c},
                        !.channels = @ \cup {c}, !.staged = @ \cup {c}])
  /\ UNCHANGED retired

(* importChannel: a provider without a routing entry gets one.             *)
ImportChannel(c) ==
  /\ c \in doc.providers \ doc.channels
  /\ Commit([doc EXCEPT !.enabled = @ \ {c},
                        !.channels = @ \cup {c}, !.staged = @ \cup {c}])
  /\ UNCHANGED retired

(* The value of a set of ids after an optional boolean field for one.      *)
Flagged(set, c, flag) ==
  CASE flag = "on" -> set \cup {c} [] flag = "off" -> set \ {c} [] OTHER -> set

UpdateChannel(c, enabled, staged) ==
  /\ c \in doc.channels
  /\ enabled = "on" /\ staged # "on" => c \in Stocked(doc)
  /\ LET switched == Flagged(doc.enabled, c, enabled) IN
     Commit([doc EXCEPT
       !.enabled = IF staged = "on" THEN switched \ {c} ELSE switched,
       !.staged = Flagged(@, c, staged)])
  /\ UNCHANGED retired

(* Deleting takes the models of the channel with it.                       *)
DeleteChannel(c) ==
  /\ c \in doc.channels \ (doc.enabled \cup doc.staged)
  /\ \A e \in Referenced(doc) : e[1] # c
  /\ Commit([doc EXCEPT
       !.providers = @ \ {c}, !.channels = @ \ {c},
       !.status = [e \in Catalog |-> IF e[1] = c THEN "none" ELSE @[e]]])
  /\ retired' = {e \in retired : e[1] # c}

-----------------------------------------------------------------------------
(* Models.                                                                 *)

CreateModel(e) ==
  /\ e[1] \in doc.channels /\ e \notin Present(doc)
  /\ Commit([doc EXCEPT !.status[e] = "active"])
  /\ retired' = retired \ {e}

(* What stops a model from being disabled: aliases, and enabled candidates *)
(* of enabled groups.                                                      *)
InUse(d, e) ==
  \/ e \in Targets(d) \cup d.pinned
  \/ \E g \in Defined(d) : d.groups[g].enabled /\ e \in d.groups[g].candidates.on

(* Mutant: the references are not looked up before a model is disabled.    *)
UpdateModelStatusUnchecked(e, status) ==
  /\ e \in Present(doc)
  /\ Commit([doc EXCEPT !.status[e] = status])
  /\ retired' = IF status = "disabled" THEN retired \cup {e} ELSE retired \ {e}

UpdateModelStatus(e, status) ==
  /\ e \in Present(doc)
  /\ status = "disabled" => ~InUse(doc, e)
  /\ Commit([doc EXCEPT !.status[e] = status])
  /\ retired' = IF status = "disabled" THEN retired \cup {e} ELSE retired \ {e}

-----------------------------------------------------------------------------
(* Aliases and logical models.                                             *)

SetStableAlias(a, target) ==
  /\ \/ target \in Present(doc) \ Disabled(doc)
     \/ target \in Defined(doc) /\ doc.groups[target].enabled
  /\ doc.aliases[a] = None => ~Taken(doc, a)
  /\ Commit([doc EXCEPT !.aliases[a] = target])
  /\ UNCHANGED retired

(* normalizeLogicalModelMutation.                                          *)
ListAccepted(list, enabled) ==
  /\ list.all \subseteq Present(doc)
  /\ list.on \cap Disabled(doc) = {}
  /\ enabled => list.on # {}

CreateLogicalModel(g, list, enabled) ==
  /\ g \notin Defined(doc)
  /\ ListAccepted(list, enabled)
  /\ Commit([doc EXCEPT !.groups[g] = [enabled |-> enabled, candidates |-> list]])
  /\ UNCHANGED retired

(* Mutant: the candidates of a patch are added to those of the group.      *)
UpdateLogicalModelAdding(g, enabled, list) ==
  /\ g \in Defined(doc)
  /\ ListAccepted(list, enabled)
  /\ LET old == doc.groups[g].candidates IN
     Commit([doc EXCEPT !.groups[g] =
       [enabled |-> enabled,
        candidates |-> [all |-> old.all \cup list.all, on |-> old.on \cup list.on]]])
  /\ UNCHANGED retired

(* A patch of `enabled', of the candidates, or of both.                    *)
UpdateLogicalModel(g, enabled, list) ==
  /\ g \in Defined(doc)
  /\ list # doc.groups[g].candidates => ListAccepted(list, enabled)
  /\ enabled => list.on # {}
  /\ Commit([doc EXCEPT !.groups[g] = [enabled |-> enabled, candidates |-> list]])
  /\ UNCHANGED retired

DeleteLogicalModel(g) ==
  /\ g \in Defined(doc) \ Targets(doc)
  /\ Commit([doc EXCEPT !.groups[g] = None])
  /\ UNCHANGED retired

-----------------------------------------------------------------------------
(* Model synchronisation.                                                  *)

(* Mutant: an empty catalog is taken for an answer.                        *)
AnswersOrNone(selected) == SUBSET {e \in Catalog : e[1] \in selected}

(* What the upstreams of the selected channels may answer: an empty        *)
(* catalog is an error that ends the job.                                  *)
Answers(selected) ==
  {found \in SUBSET {e \in Catalog : e[1] \in selected} :
     selected \subseteq {e[1] : e \in found}}

(* Of the selected channels the models in `kept' stay: a disabled one as   *)
(* it is, the others as active if they were found and as stale if not.     *)
Merged(d, selected, kept, found) ==
  [d EXCEPT !.status = [e \in Catalog |->
     IF e[1] \notin selected THEN d.status[e]
     ELSE CASE e \notin kept -> "none"
            [] e \in kept /\ d.status[e] = "disabled" -> "disabled"
            [] e \in kept /\ d.status[e] # "disabled" ->
                 IF e \in found THEN "active" ELSE "stale"]]

(* Mutant: candidates of logical models do not count as references.        *)
SynchronizedForAliases(d, selected, found) ==
  Merged(d, selected, found \cup ((Targets(d) \cup d.pinned) \cap Present(d)), found)

(* Mutant: a stale model is dropped by the next synchronisation.           *)
SynchronizedOnceStale(d, selected, found) ==
  Merged(d, selected,
         found \cup {e \in Referenced(d) \cap Present(d) : d.status[e] # "stale"}, found)

(* synchronizeRouteModels: what is found or referenced is kept.            *)
Synchronized(d, selected, found) ==
  Merged(d, selected, found \cup (Referenced(d) \cap Present(d)), found)

(* The merged document is validated with empty enabled channels allowed.   *)
(* One step, though the upstreams are awaited: what another process writes *)
(* meanwhile is overwritten, and the same document results.                *)
SyncModels(selected, found) ==
  /\ selected \subseteq doc.channels
  /\ LET next == Synchronized(doc, selected, found) IN
     /\ next # doc /\ ReferencesValid(next)
     /\ doc' = next
  /\ UNCHANGED retired

-----------------------------------------------------------------------------
(* The audit script, a process of its own, and rollbacks.                  *)

(* applyCanaryAudit for the results of one channel: `failed' are the       *)
(* models whose definite failure the operator approved; "produce" needs a  *)
(* success and the operator's approval, "refuse" is an authentication or   *)
(* payment failure.  An alias may move to a success of the same channel,   *)
(* which the script takes as approval of the channel.                      *)
CanaryAudit(c, failed, verdict, a, target) ==
  LET tested == {e \in Present(doc) : e[1] = c} IN
  /\ failed \subseteq tested
  /\ verdict = "produce" => tested \ failed # {}
  /\ verdict = "refuse" => tested \ {target} # {}
  /\ (a = None) = (target = None)
  /\ a # None => target \in tested \ failed /\ verdict # "keep"
  /\ Commit([doc EXCEPT
       !.enabled = Flagged(@, c, CASE verdict = "produce" -> "on"
                                   [] verdict = "refuse" -> "off"
                                   [] OTHER -> "keep"),
       !.staged = IF verdict = "keep" THEN @ ELSE @ \ {c},
       !.status = [e \in Catalog |->
          CASE e \in failed -> "disabled"
            [] e = target /\ e \in Disabled(doc) -> "active"
            [] OTHER -> @[e]],
       !.aliases = [x \in AliasNames |->
          IF x = a THEN target ELSE @[x]]])
  /\ retired' = (retired \cup failed) \ {target}

(* A rollback whose apply succeeds, or that cannot restore the document:   *)
(* validated with empty enabled channels allowed, as a synchronisation is. *)
Rollback(d) ==
  /\ d \in Baselines
  /\ d # doc /\ ReferencesValid(d) /\ doc' = d
  /\ retired' = Disabled(d)

-----------------------------------------------------------------------------
EditChannel == \E c \in Channels :
  \/ CreateChannel(c)
  \/ ImportChannel(c)
  \/ \E enabled, staged \in {"keep", "on", "off"} : UpdateChannel(c, enabled, staged)
  \/ DeleteChannel(c)

EditModel == \E e \in Catalog :
  \/ CreateModel(e)
  \/ \E status \in Statuses \ {"none"} : UpdateModelStatus(e, status)

EditAlias == \E a \in AliasNames, target \in Catalog \cup Groups : SetStableAlias(a, target)

EditGroup == \E g \in Groups :
  \/ \E list \in CandidateLists, enabled \in BOOLEAN :
       CreateLogicalModel(g, list, enabled) \/ UpdateLogicalModel(g, enabled, list)
  \/ DeleteLogicalModel(g)

Sync == \E selected \in (SUBSET Channels) \ {{}} :
          \E found \in Answers(selected) : SyncModels(selected, found)

Audit == \E c \in Channels, verdict \in {"keep", "produce", "refuse"} :
           \E failed \in SUBSET {e \in Catalog : e[1] = c}, a \in AliasNames \cup {None},
              target \in {e \in Catalog : e[1] = c} \cup {None} :
             CanaryAudit(c, failed, verdict, a, target)

Init ==
  /\ doc \in {d \in Baselines : Bootable(d)}
  /\ retired = Disabled(doc)

Next == EditChannel \/ EditModel \/ EditAlias \/ EditGroup \/ Sync \/ Audit
          \/ \E d \in Baselines : Rollback(d)

Spec == Init /\ [][Next]_vars

-----------------------------------------------------------------------------
(* Properties.                                                             *)

(* The document keeps its form (loadConfig).                               *)
TypeOK ==
  /\ doc \in Documents
  /\ retired \subseteq Catalog

(* The document on disk always starts the gateway.  Model synchronisation  *)
(* validates it less strictly than a start, a release and every later edit *)
(* do (allowEmptyEnabledChannels); a document that only it accepts would   *)
(* stop all of these (config.mjs:148).                                     *)
BootsFromDisk == Bootable(doc)

(* When a synchronisation fails on its own result: if an upstream lists an *)
(* id that makes no client alias, or one whose alias was given out before  *)
(* -- and never else, however aliases and groups point and whatever        *)
(* disappears (synchronizeRouteModels, validateAlias).                     *)
SyncAccepted ==
  \A selected \in (SUBSET doc.channels) \ {{}} : \A found \in Answers(selected) :
    ReferencesValid(Synchronized(doc, selected, found)) <=>
      /\ found \subseteq Nameable
      /\ \A a \in AliasNames \cap found : doc.aliases[a] = None

(* A second synchronisation with the same answers changes nothing, so it   *)
(* creates no revision and asks for no restart (syncModels, changed:false).*)
SyncSettles ==
  \A selected \in (SUBSET doc.channels) \ {{}} : \A found \in Answers(selected) :
    LET once == Synchronized(doc, selected, found) IN
    Synchronized(once, selected, found) = once

(* What an alias leads to: its model, or the enabled candidates of its     *)
(* group, unless they are disabled (buildModelCatalog).                    *)
Routes(d, a) ==
  LET target == d.aliases[a] IN
  (IF target \in Groups THEN d.groups[target].candidates.on ELSE {target} \cap Catalog)
    \ Disabled(d)

(* Nothing done in the administration interface, and no synchronisation,   *)
(* leaves a stable alias without a model: a model or a group in use cannot *)
(* be disabled, emptied or deleted under it, nor its channel be deleted    *)
(* (updateModelStatus, updateLogicalModel, deleteChannel,                  *)
(* synchronizeRouteModels).  To switch a channel off remains possible; a   *)
(* synchronisation answers for the aliases of the document it read.        *)
AliasesStayServed ==
  [][(\E a \in AliasNames : Routes(doc, a) # {} /\ Routes(doc', a) = {})
       => ~(EditChannel \/ EditModel \/ EditAlias \/ EditGroup \/ Sync)]_vars

(* docs/configuration.md:194: the decision to disable a model is kept by   *)
(* synchronisation, which does not restore the model because its upstream  *)
(* lists it.                                                               *)
RetiredStaysRetired == \A e \in retired : doc.status[e] \in {"none", "disabled"}
=============================================================================
